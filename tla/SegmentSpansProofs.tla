------------------------- MODULE SegmentSpansProofs -------------------------
(***************************************************************************)
(* The theorems about SegmentSpans.  SInv is inductive; what an action     *)
(* does to the one segment it works on is in TakeOK, GiveOK and FreshOK.   *)
(***************************************************************************)
EXTENDS SegmentSpans, FiniteSetTheorems, TLAPS

-----------------------------------------------------------------------------
(* Spans side by side                                                       *)

\* Only the counts of first slices matter (segment.rs reads no other).
LEMMA TilesSame ==
  ASSUME NEW H \in SUBSET Slice, NEW c \in [Slice -> Int], NEW d \in [Slice -> Int],
         \A i \in H : d[i] = c[i], Tiles(H, c)
  PROVE  Tiles(H, d)
BY SliceCountAssumption DEF Tiles, Slice

\* segment_slice_split: a span is cut after n slices.
LEMMA TilesSplit ==
  ASSUME NEW H \in SUBSET Slice, NEW c \in [Slice -> Int], NEW d \in [Slice -> Int],
         NEW i \in H, NEW n \in Int, 1 <= n, n < c[i], Tiles(H, c),
         d[i] = n, d[i + n] = c[i] - n, \A j \in H : j # i => d[j] = c[j]
  PROVE  /\ i + n \in Slice
         /\ i + n \notin H
         /\ Tiles(H \cup {i + n}, d)
<1> DEFINE k == i + n
           G == H \cup {k}
<1>1. \A h \in H : /\ h \in Int /\ c[h] \in Int /\ c[h] >= 1 /\ 0 <= h
                   /\ h + c[h] \in H \cup {SliceCount}
                   /\ \A j \in H : j > h => j >= h + c[h]
  BY SliceCountAssumption DEF Tiles, Slice
<1>2. k \in Slice /\ k < i + c[i] /\ i < k
  <2>1. i + c[i] <= SliceCount
    BY <1>1, SliceCountAssumption DEF Slice
  <2> QED BY <1>1, <2>1, SliceCountAssumption DEF Slice
<1>3. k \notin H
  BY <1>1, <1>2
<1>4. ASSUME NEW h \in G
      PROVE  /\ d[h] >= 1
             /\ h + d[h] \in G \cup {SliceCount}
             /\ \A j \in G : j > h => j >= h + d[h]
  <2>1. CASE h = i
    BY <2>1, <1>1, <1>2
  <2>2. CASE h = k
    BY <2>2, <1>1, <1>2
  <2>3. CASE h \in H /\ h # i
    <3>1. d[h] = c[h]
      BY <2>3
    <3>2. ASSUME NEW j \in G, j > h PROVE j >= h + c[h]
      <4>1. CASE j \in H
        BY <1>1, <2>3, <3>2, <4>1
      <4>2. CASE j = k
        <5>1. h < i
          BY <1>1, <1>2, <2>3, <3>2, <4>2
        <5> QED BY <1>1, <1>2, <2>3, <4>2, <5>1
      <4> QED BY <4>1, <4>2
    <3> QED BY <1>1, <2>3, <3>1, <3>2
  <2> QED BY <2>1, <2>2, <2>3
<1>5. ASSUME NEW j \in Slice PROVE \E h \in G : h <= j /\ j < h + d[h]
  <2>1. PICK h \in H : h <= j /\ j < h + c[h]
    BY DEF Tiles
  <2>2. CASE h # i
    BY <2>1, <2>2
  <2>3. CASE h = i /\ j < k
    BY <2>1, <2>3
  <2>4. CASE h = i /\ j >= k
    BY <2>1, <2>4, <1>1, <1>2
  <2> QED BY <2>1, <2>2, <2>3, <2>4, <1>2 DEF Slice
<1>6. Tiles(G, d)
  BY <1>4, <1>5 DEF Tiles
<1> QED BY <1>2, <1>3, <1>6

-----------------------------------------------------------------------------
(* One segment                                                              *)

\* SInv for one segment: free spans F, pages P, headers c, o, x, counter u
SegOK(F, P, c, o, x, u) ==
  /\ F \subseteq Slice /\ P \subseteq Slice
  /\ 0 \notin F /\ 0 \notin P
  /\ c \in [Slice -> 0 .. SliceCount - 1]
  /\ o \in [Slice -> 0 .. SliceCount - 1]
  /\ x \in [Slice -> {0, 1}]
  /\ c[0] = 1 /\ x[0] = 1
  /\ \A i \in F : x[i] = 0
  /\ \A i \in P : x[i] = 1
  /\ Tiles({0} \cup F \cup P, c)
  /\ \A i \in {0} \cup F \cup P : o[i + c[i] - 1] = c[i] - 1
  /\ \A i \in P : \A j \in i .. i + c[i] - 1 : o[j] = j - i
  /\ \A i \in F : i + c[i] \notin F
  /\ u = Cardinality(P)

\* the facts about first slices that the steps use, in a form without Tiles
LEMMA Around ==
  ASSUME NEW F, NEW P, NEW c, NEW o, NEW x, NEW u, SegOK(F, P, c, o, x, u)
  PROVE  LET H == {0} \cup F \cup P IN
         /\ H \in SUBSET Slice
         /\ c \in [Slice -> Int]
         /\ \A h \in H :
              /\ h \in Int /\ 0 <= h /\ h < SliceCount
              /\ c[h] \in Int /\ c[h] >= 1
              /\ h + c[h] <= SliceCount
              /\ h + c[h] \in H \cup {SliceCount}
              /\ \A j \in H : j > h => j >= h + c[h]
         /\ IsFiniteSet(P)
<1>1. {0} \cup F \cup P \in SUBSET Slice /\ c \in [Slice -> Int]
  BY SliceCountAssumption DEF SegOK, Slice
<1>2. IsFiniteSet(P)
  <2>1. IsFiniteSet(Slice)
    BY FS_Interval, SliceCountAssumption DEF Slice
  <2> QED BY <2>1, FS_Subset DEF SegOK
<1>3. Tiles({0} \cup F \cup P, c)
  BY DEF SegOK
<1>4. ASSUME NEW h \in {0} \cup F \cup P
      PROVE  /\ h \in Int /\ 0 <= h /\ h < SliceCount
             /\ c[h] \in Int /\ c[h] >= 1
             /\ h + c[h] \in ({0} \cup F \cup P) \cup {SliceCount}
             /\ \A j \in {0} \cup F \cup P : j > h => j >= h + c[h]
  BY <1>1, <1>3, SliceCountAssumption DEF Tiles, Slice
<1>5. ASSUME NEW h \in {0} \cup F \cup P PROVE h + c[h] <= SliceCount
  <2>1. CASE h + c[h] = SliceCount
    BY <2>1, SliceCountAssumption
  <2>2. CASE h + c[h] \in {0} \cup F \cup P
    BY <2>2, <1>4, SliceCountAssumption
  <2> QED BY <2>1, <2>2, <1>4
<1> QED BY <1>1, <1>2, <1>4, <1>5

\* the free spans after FindAndAllocate
TakeFree(c, F, i, n) == IF c[i] > n THEN (F \ {i}) \cup {i + n} ELSE F \ {i}

\* what FindAndAllocate leaves, and that it writes no header of a page in use
TakeResult(F, P, c, o, x, u, i, n) ==
  /\ SegOK(TakeFree(c, F, i, n), P \cup {i}, TakeCount(c, i, n),
           TakeOffset(c, o, i, n), TakeBlock(c, x, i, n), u + 1)
  /\ c[i] > n => /\ i + n \in Slice /\ i + n \notin F \cup P
                 /\ TakeCount(c, i, n)[i + n] = c[i] - n
  /\ \A h \in F \cup P : h # i => TakeCount(c, i, n)[h] = c[h]
  /\ TakeCount(c, i, n)[i] = n
  /\ \A h \in P : \A j \in h .. h + c[h] - 1 :
       /\ TakeCount(c, i, n)[j] = c[j]
       /\ TakeOffset(c, o, i, n)[j] = o[j]
       /\ TakeBlock(c, x, i, n)[j] = x[j]

\* FindAndAllocate: a page of n slices is cut off the free span at i.
LEMMA TakeOK ==
  ASSUME NEW F, NEW P, NEW c, NEW o, NEW x, NEW u, SegOK(F, P, c, o, x, u),
         NEW i \in F, NEW n \in 1 .. c[i]
  PROVE  TakeResult(F, P, c, o, x, u, i, n)
<1> DEFINE H == {0} \cup F \cup P
           d == TakeCount(c, i, n)
           q == TakeOffset(c, o, i, n)
           y == TakeBlock(c, x, i, n)
           G == TakeFree(c, F, i, n)
           K == {0} \cup G \cup (P \cup {i})
           m == i + c[i]
<1>1. /\ H \in SUBSET Slice /\ c \in [Slice -> Int] /\ IsFiniteSet(P)
      /\ \A h \in H :
              /\ h \in Int /\ 0 <= h /\ h < SliceCount
              /\ c[h] \in Int /\ c[h] >= 1
              /\ h + c[h] <= SliceCount
              /\ h + c[h] \in H \cup {SliceCount}
              /\ \A j \in H : j > h => j >= h + c[h]
  BY Around
<1>2. /\ i \in H /\ i # 0 /\ i \notin P /\ i \in Slice
      /\ n \in Int /\ 1 <= n /\ n <= c[i]
      /\ i \in Int /\ 1 <= i /\ c[i] \in Int /\ i + c[i] <= SliceCount
  <2>1. i # 0 /\ i \notin P /\ i \in Slice
    BY DEF SegOK
  <2>2. i \in Int /\ 0 <= i /\ c[i] \in Int /\ i + c[i] <= SliceCount
    BY <1>1
  <2> QED BY <2>1, <2>2
<1>3. ASSUME NEW h \in H, h # i
      PROVE  /\ h \in Int /\ c[h] \in Int /\ c[h] >= 1 /\ h + c[h] <= SliceCount
             /\ h \in Slice
             /\ (h < i /\ h + c[h] <= i) \/ h >= i + c[i]
  BY <1>1, <1>2, <1>3
<1>4. \A j \in Slice :
        /\ j \in Int /\ 0 <= j /\ j < SliceCount
        /\ j < i \/ j >= m => d[j] = c[j] /\ q[j] = o[j] /\ y[j] = x[j]
        /\ i <= j /\ j < i + n => q[j] = j - i
        /\ c[i] > n /\ j = i + n => d[j] = c[i] - n /\ y[j] = 0
        /\ c[i] > n /\ j = m - 1 => q[j] = c[i] - n - 1
        /\ j = i => d[j] = n /\ y[j] = 1
  BY <1>2, SliceCountAssumption
     DEF Slice, SplitLast, PageSlices, TakeCount, TakeOffset, TakeBlock
<1>5. d \in [Slice -> 0 .. SliceCount - 1]
  <2>1. c \in [Slice -> 0 .. SliceCount - 1]
    BY DEF SegOK
  <2> QED BY <1>2, <2>1, SliceCountAssumption DEF TakeCount, SplitLast
<1>6. q \in [Slice -> 0 .. SliceCount - 1]
  <2>1. o \in [Slice -> 0 .. SliceCount - 1]
    BY DEF SegOK
  <2>2. ASSUME NEW j \in Slice, j \in i .. i + n - 1 PROVE j - i \in 0 .. SliceCount - 1
    BY <1>2, <1>4, <2>2, SliceCountAssumption
  <2>3. c[i] > n => c[i] - n - 1 \in 0 .. SliceCount - 1
    BY <1>2, SliceCountAssumption
  <2>4. 0 \in 0 .. SliceCount - 1
    BY SliceCountAssumption
  <2> QED BY <2>1, <2>2, <2>3, <2>4 DEF TakeOffset, PageSlices, SplitLast
<1>7. y \in [Slice -> {0, 1}]
  BY DEF TakeBlock, SplitLast, SegOK
<1> HIDE DEF d, q, y
<1>8. c[i] > n => i + n \in Slice /\ m - 1 \in Slice
  BY <1>2, SliceCountAssumption DEF Slice
<1>9. ASSUME NEW h \in H, h # i
      PROVE  /\ d[h] = c[h] /\ y[h] = x[h]
             /\ h + c[h] - 1 \in Slice /\ q[h + c[h] - 1] = o[h + c[h] - 1]
  BY <1>2, <1>3, <1>4, <1>9, SliceCountAssumption DEF Slice
<1>10. /\ Tiles(K, d)
       /\ K = IF c[i] > n THEN H \cup {i + n} ELSE H
       /\ c[i] > n => i + n \notin H
  <2>1. Tiles(H, c)
    BY DEF SegOK
  <2>2. \A j \in H : j # i => d[j] = c[j]
    BY <1>9
  <2>3. d[i] = n /\ d \in [Slice -> Int]
    BY <1>2, <1>4, <1>5, SliceCountAssumption
  <2>4. CASE c[i] > n
    <3>1. i + n \in Slice /\ d[i + n] = c[i] - n
      BY <2>4, <1>4, <1>8
    <3>2. i + n \notin H /\ Tiles(H \cup {i + n}, d)
      BY <1>1, <1>2, <2>1, <2>2, <2>3, <2>4, <3>1, TilesSplit
    <3>3. K = H \cup {i + n}
      BY <2>4, <1>2 DEF TakeFree
    <3> QED BY <2>4, <3>2, <3>3
  <2>5. CASE ~(c[i] > n)
    <3>1. K = H
      BY <2>5, <1>2 DEF TakeFree
    <3>2. c[i] = n
      BY <1>2, <2>5
    <3>3. \A j \in H : d[j] = c[j]
      BY <2>2, <2>3, <3>2
    <3>4. Tiles(H, d)
      BY <1>1, <2>1, <2>3, <3>3, TilesSame
    <3> QED BY <2>5, <3>1, <3>4
  <2> QED BY <2>4, <2>5
<1>11. ASSUME NEW h \in K PROVE q[h + d[h] - 1] = d[h] - 1
  <2>1. CASE h = i
    <3>1. i + n - 1 \in Slice
      BY <1>2, SliceCountAssumption DEF Slice
    <3> QED BY <2>1, <3>1, <1>2, <1>4
  <2>2. CASE c[i] > n /\ h = i + n
    <3>1. d[h] = c[i] - n /\ h + d[h] - 1 = m - 1
      BY <2>2, <1>2, <1>4, <1>8
    <3> QED BY <2>2, <3>1, <1>2, <1>4, <1>8
  <2>3. CASE h \in H /\ h # i
    BY <2>3, <1>9 DEF SegOK
  <2> QED BY <2>1, <2>2, <2>3, <1>10
<1>12. ASSUME NEW h \in P \cup {i}, NEW j \in h .. h + d[h] - 1 PROVE q[j] = j - h
  <2>1. CASE h = i
    <3>1. d[h] = n
      BY <2>1, <1>2, <1>4
    <3>2. j \in Int /\ i <= j /\ j < i + n
      BY <2>1, <3>1, <1>2
    <3>3. j \in Slice
      BY <3>2, <1>2, SliceCountAssumption DEF Slice
    <3> QED BY <2>1, <3>2, <3>3, <1>4
  <2>2. CASE h # i
    <3>1. h \in H /\ h \in P
      BY <2>2
    <3>2. d[h] = c[h] /\ h \in Int /\ c[h] \in Int /\ h + c[h] <= SliceCount /\ 0 <= h
      BY <1>1, <1>9, <2>2, <3>1
    <3>3. j \in Int /\ h <= j /\ j < h + c[h]
      BY <3>2
    <3>4. j \in Slice
      BY <3>2, <3>3, SliceCountAssumption DEF Slice
    <3>5. o[j] = j - h
      BY <3>1, <3>2 DEF SegOK
    <3>6. j < i \/ j >= m
      BY <1>2, <1>3, <2>2, <3>1, <3>2, <3>3
    <3> QED BY <3>4, <3>5, <3>6, <1>4
  <2> QED BY <2>1, <2>2
<1>13. ASSUME NEW h \in G PROVE h + d[h] \notin G
  <2>0. m \notin F
    BY DEF SegOK
  <2>1. CASE c[i] > n /\ h = i + n
    <3>1. h + d[h] = m
      BY <2>1, <1>2, <1>4, <1>8
    <3>2. m # i + n
      BY <2>1, <1>2
    <3> QED BY <2>0, <2>1, <3>1, <3>2 DEF TakeFree
  <2>2. CASE h \in F /\ h # i
    <3>1. d[h] = c[h]
      BY <2>2, <1>9
    <3>2. h + c[h] \in H \cup {SliceCount} /\ h + c[h] \notin F
      BY <2>2, <1>1 DEF SegOK
    <3>3. c[i] > n => h + c[h] # i + n
      BY <3>2, <1>8, <1>10, SliceCountAssumption DEF Slice
    <3> QED BY <3>1, <3>2, <3>3 DEF TakeFree
  <2> QED BY <2>1, <2>2 DEF TakeFree
<1>14. /\ \A j \in G : y[j] = 0
       /\ \A j \in P \cup {i} : y[j] = 1
       /\ y[0] = 1 /\ d[0] = 1
  <2>1. c[i] > n => y[i + n] = 0
    BY <1>4, <1>8
  <2>2. y[i] = 1
    BY <1>2, <1>4
  <2>3. \A h \in H : h # i => y[h] = x[h] /\ d[h] = c[h]
    BY <1>9
  <2>4. x[0] = 1 /\ c[0] = 1 /\ (\A j \in F : x[j] = 0) /\ (\A j \in P : x[j] = 1)
    BY DEF SegOK
  <2> QED BY <1>2, <2>1, <2>2, <2>3, <2>4 DEF TakeFree
<1>15. u + 1 = Cardinality(P \cup {i})
  BY <1>1, <1>2, FS_AddElement DEF SegOK
<1>16. G \subseteq Slice /\ P \cup {i} \subseteq Slice /\ 0 \notin G /\ 0 \notin P \cup {i}
  <2>1. F \subseteq Slice /\ P \subseteq Slice /\ 0 \notin F /\ 0 \notin P
    BY DEF SegOK
  <2>2. i + n # 0
    BY <1>2
  <2> QED BY <1>2, <1>8, <2>1, <2>2 DEF TakeFree
<1>17. SegOK(G, P \cup {i}, d, q, y, u + 1)
  BY <1>5, <1>6, <1>7, <1>10, <1>11, <1>12, <1>13, <1>14, <1>15, <1>16 DEF SegOK
<1>18. ASSUME NEW h \in P, NEW j \in h .. h + c[h] - 1
       PROVE  d[j] = c[j] /\ q[j] = o[j] /\ y[j] = x[j]
  <2>1. h \in H /\ h # i
    BY <1>2
  <2>2. h \in Int /\ c[h] \in Int /\ h + c[h] <= SliceCount /\ h \in Slice
        /\ ((h < i /\ h + c[h] <= i) \/ h >= i + c[i])
    BY <1>3, <2>1
  <2>3. j \in Int /\ h <= j /\ j < h + c[h] /\ 0 <= h
    BY <1>4, <2>2
  <2>4. j \in Slice /\ (j < i \/ j >= m)
    BY <1>2, <2>2, <2>3, SliceCountAssumption DEF Slice
  <2> QED BY <1>4, <2>4
<1>19. \A h \in F \cup P : h # i => d[h] = c[h]
  BY <1>9
<1>20. c[i] > n => d[i + n] = c[i] - n
  BY <1>4, <1>8
<1>21. d[i] = n
  BY <1>2, <1>4
<1>22. c[i] > n => i + n \in Slice /\ i + n \notin F \cup P
  BY <1>8, <1>10
<1> QED BY <1>17, <1>18, <1>19, <1>20, <1>21, <1>22 DEF d, q, y, TakeResult

\* the free spans after PageFree
GiveFree(F, c, o, x, i) ==
  (F \ ((IF FreeAfter(c, x, i) THEN {SpanAfter(c, i)} ELSE {})
        \cup (IF FreeBefore(o, x, i) THEN {SpanBefore(o, i)} ELSE {})))
  \cup {MergedStart(o, x, i)}

\* PageFree: the neighbours of the page at i that are merged are free spans,
\* they touch the page, and they are all that touches it.
LEMMA GiveNeighbours ==
  ASSUME NEW F, NEW P, NEW c, NEW o, NEW x, NEW u, SegOK(F, P, c, o, x, u), NEW i \in P
  PROVE  /\ FreeAfter(c, x, i) <=> SpanAfter(c, i) \in F
         /\ FreeBefore(o, x, i) => SpanBefore(o, i) \in F
         /\ SpanBefore(o, i) \in {0} \cup F \cup P
         /\ SpanBefore(o, i) + c[SpanBefore(o, i)] = i
         /\ SpanBefore(o, i) \in F => FreeBefore(o, x, i)
<1> DEFINE H == {0} \cup F \cup P
<1>1. /\ H \in SUBSET Slice /\ c \in [Slice -> Int]
      /\ \A h \in H :
              /\ h \in Int /\ 0 <= h /\ h < SliceCount
              /\ c[h] \in Int /\ c[h] >= 1
              /\ h + c[h] <= SliceCount
              /\ h + c[h] \in H \cup {SliceCount}
              /\ \A j \in H : j > h => j >= h + c[h]
  BY Around
<1>2. /\ x[0] = 1 /\ c[0] = 1 /\ (\A j \in F : x[j] = 0) /\ (\A j \in P : x[j] = 1)
      /\ i # 0
  BY DEF SegOK
<1>3. /\ i \in H /\ i \in Int /\ i >= 1 /\ c[i] \in Int /\ c[i] >= 1 /\ i < SliceCount
      /\ i + c[i] <= SliceCount /\ i + c[i] \in H \cup {SliceCount}
  <2>1. i \in H
    OBVIOUS
  <2> QED BY <1>1, <1>2, <2>1
<1>4. FreeAfter(c, x, i) <=> SpanAfter(c, i) \in F
  <2>1. CASE i + c[i] = SliceCount
    <3>1. i + c[i] \notin F
      BY <1>1, <2>1, SliceCountAssumption
    <3> QED BY <2>1, <3>1, SliceCountAssumption DEF FreeAfter, SpanAfter
  <2>2. CASE i + c[i] \in H
    <3>1. i + c[i] < SliceCount
      BY <1>1, <2>2
    <3> QED BY <1>2, <2>2, <3>1 DEF FreeAfter, SpanAfter
  <2> QED BY <1>3, <2>1, <2>2
<1>5. SpanBefore(o, i) \in H /\ SpanBefore(o, i) + c[SpanBefore(o, i)] = i
  <2>1. i - 1 \in Slice
    BY <1>3, SliceCountAssumption DEF Slice
  <2>2. PICK h \in H : h <= i - 1 /\ i - 1 < h + c[h]
    BY <2>1 DEF SegOK, Tiles
  <2>3. h \in Int /\ c[h] \in Int /\ (i > h => i >= h + c[h])
    BY <1>1, <1>3
  <2>4. h + c[h] = i
    BY <1>3, <2>2, <2>3
  <2>5. o[h + c[h] - 1] = c[h] - 1
    BY DEF SegOK
  <2>6. SpanBefore(o, i) = h
    BY <1>3, <2>3, <2>4, <2>5 DEF SpanBefore
  <2> QED BY <2>4, <2>6
<1>6. ASSUME NEW h \in H PROVE x[h] = 0 <=> h \in F
  BY <1>2
<1>7. FreeBefore(o, x, i) <=> SpanBefore(o, i) \in F
  <2>1. i > 0
    BY <1>3
  <2>2. x[SpanBefore(o, i)] = 0 <=> SpanBefore(o, i) \in F
    BY <1>5, <1>6
  <2> QED BY <2>1, <2>2 DEF FreeBefore
<1> QED BY <1>4, <1>5, <1>7

\* what PageFree leaves, and that it writes no header of another page
GiveResult(F, P, c, o, x, u, i) ==
  /\ SegOK(GiveFree(F, c, o, x, i), P \ {i}, FreedCount(c, o, x, i),
           FreedOffset(c, o, x, i), FreedBlock(c, o, x, i), u - 1)
  /\ MergedCount(c, o, x, i) \in 1 .. SliceCount - 1
  /\ MergedStart(o, x, i) \in Slice
  /\ u - 1 \in Nat
  /\ \A h \in P \ {i} : \A j \in h .. h + c[h] - 1 :
       /\ FreedCount(c, o, x, i)[j] = c[j]
       /\ FreedOffset(c, o, x, i)[j] = o[j]
       /\ FreedBlock(c, o, x, i)[j] = x[j]

\* PageFree: the page at i and its free neighbours become one free span.
LEMMA GiveOK ==
  ASSUME NEW F, NEW P, NEW c, NEW o, NEW x, NEW u, SegOK(F, P, c, o, x, u), NEW i \in P
  PROVE  GiveResult(F, P, c, o, x, u, i)
<1> DEFINE H == {0} \cup F \cup P
           d == FreedCount(c, o, x, i)
           q == FreedOffset(c, o, x, i)
           y == FreedBlock(c, o, x, i)
           G == GiveFree(F, c, o, x, i)
           K == {0} \cup G \cup (P \ {i})
           from == MergedStart(o, x, i)
           size == MergedCount(c, o, x, i)
           a == SpanAfter(c, i)
           z == SpanBefore(o, i)
           ma == FreeAfter(c, x, i)
           mb == FreeBefore(o, x, i)
<1>1. /\ H \in SUBSET Slice /\ c \in [Slice -> Int] /\ IsFiniteSet(P)
      /\ \A h \in H :
              /\ h \in Int /\ 0 <= h /\ h < SliceCount
              /\ c[h] \in Int /\ c[h] >= 1
              /\ h + c[h] <= SliceCount
              /\ h + c[h] \in H \cup {SliceCount}
              /\ \A j \in H : j > h => j >= h + c[h]
  BY Around
<1>2. /\ ma <=> a \in F
      /\ mb <=> z \in F
      /\ z \in H /\ z + c[z] = i /\ a = i + c[i]
  BY GiveNeighbours DEF SpanAfter
<1>3. /\ x[0] = 1 /\ c[0] = 1 /\ (\A j \in F : x[j] = 0) /\ (\A j \in P : x[j] = 1)
      /\ 0 \notin F /\ 0 \notin P /\ Tiles(H, c)
  BY DEF SegOK
<1>4. /\ i \in H /\ i \in Int /\ c[i] \in Int /\ c[i] >= 1 /\ i + c[i] <= SliceCount
      /\ z \in Int /\ 0 <= z /\ c[z] \in Int /\ c[z] >= 1 /\ z < i
      /\ i \notin F /\ i \in Slice /\ z \in Slice
  <2>1. i \in H /\ i \notin F
    BY <1>3
  <2>2. i \in Int /\ c[i] \in Int /\ c[i] >= 1 /\ i + c[i] <= SliceCount /\ i \in Slice
    BY <1>1, <2>1
  <2>3. z \in Int /\ 0 <= z /\ c[z] \in Int /\ c[z] >= 1 /\ z \in Slice
    BY <1>1, <1>2
  <2>4. z < i
    BY <1>2, <2>2, <2>3
  <2> QED BY <2>1, <2>2, <2>3, <2>4
<1>5. ma => a \in H /\ a \in Int /\ a > i /\ c[a] \in Int /\ c[a] >= 1 /\ a + c[a] <= SliceCount
             /\ a \in Slice
  BY <1>1, <1>2, <1>4
<1>6. /\ from = IF mb THEN z ELSE i
      /\ size = c[i] + (IF ma THEN c[a] ELSE 0) + (IF mb THEN c[z] ELSE 0)
  BY DEF MergedStart, MergedCount
<1> DEFINE end == IF ma THEN a + c[a] ELSE a
<1>7. /\ from \in Int /\ 1 <= from /\ from <= i /\ from \in Slice /\ from \in H
      /\ size \in Int /\ size >= 1 /\ from + size = end
      /\ end \in Int /\ i + c[i] <= end /\ end <= SliceCount
      /\ end \in H \cup {SliceCount}
  <2>1. mb => z # 0
    BY <1>2, <1>3
  <2>2. end \in Int /\ i + c[i] <= end /\ end <= SliceCount /\ end \in H \cup {SliceCount}
    BY <1>1, <1>2, <1>4, <1>5
  <2>3. i # 0
    BY <1>3
  <2>4. CASE mb
    BY <1>2, <1>4, <1>5, <1>6, <2>1, <2>2, <2>4
  <2>5. CASE ~mb
    BY <1>2, <1>4, <1>5, <1>6, <2>2, <2>3, <2>5
  <2> QED BY <2>4, <2>5
<1>8. size \in 1 .. SliceCount - 1
  BY <1>7, SliceCountAssumption
<1>9. \A j \in Slice :
        /\ j \in Int /\ 0 <= j /\ j < SliceCount
        /\ j # from => d[j] = c[j]
        /\ j # from /\ j # end - 1 => q[j] = o[j]
        /\ j # from /\ j # i => y[j] = x[j]
        /\ j = from => d[j] = size /\ y[j] = 0
        /\ j = end - 1 => q[j] = size - 1
  <2>1. ASSUME NEW j \in Slice, j = from, j = end - 1 PROVE size - 1 = 0
    BY <1>7, <2>1
  <2>2. from + size - 1 = end - 1
    BY <1>7
  <2>3. \A j \in Slice : j \in Int /\ 0 <= j /\ j < SliceCount
    BY SliceCountAssumption DEF Slice
  <2>4. \A j \in Slice :
        /\ j # from => d[j] = c[j]
        /\ j # from /\ j # i => y[j] = x[j]
        /\ j = from => d[j] = size /\ y[j] = 0
    BY DEF FreedCount, FreedBlock
  <2>5. \A j \in Slice : q[j] = IF j = from THEN 0
                                ELSE IF j = end - 1 THEN size - 1 ELSE o[j]
    BY <2>2 DEF FreedOffset
  <2> QED BY <2>1, <2>3, <2>4, <2>5
<1>10. /\ d \in [Slice -> 0 .. SliceCount - 1]
       /\ q \in [Slice -> 0 .. SliceCount - 1]
       /\ y \in [Slice -> {0, 1}]
  <2>1. size \in 0 .. SliceCount - 1 /\ size - 1 \in 0 .. SliceCount - 1
        /\ 0 \in 0 .. SliceCount - 1
    BY <1>8, SliceCountAssumption
  <2>2. c \in [Slice -> 0 .. SliceCount - 1] /\ o \in [Slice -> 0 .. SliceCount - 1]
        /\ x \in [Slice -> {0, 1}]
    BY DEF SegOK
  <2>3. d \in [Slice -> 0 .. SliceCount - 1]
    BY <2>1, <2>2 DEF FreedCount
  <2>4. q \in [Slice -> 0 .. SliceCount - 1]
    BY <2>1, <2>2 DEF FreedOffset
  <2>5. y \in [Slice -> {0, 1}]
    BY <2>2 DEF FreedBlock
  <2> QED BY <2>3, <2>4, <2>5
<1> HIDE DEF d, q, y, from, size, ma, mb, a, z
\* the first slices that are left are those outside the merged span, and from
<1>11. /\ K \subseteq H
       /\ \A h \in H : h \in K <=> h = from \/ h < from \/ h >= end
  <2>1. G = (F \ ((IF ma THEN {a} ELSE {}) \cup (IF mb THEN {z} ELSE {}))) \cup {from}
    BY DEF GiveFree, ma, mb, a, z, from
  <2>2. K \subseteq H
    BY <1>7, <2>1
  <2>3. ASSUME NEW h \in H PROVE h \in K <=> h = from \/ (h # i /\ (ma => h # a) /\ (mb => h # z))
    <3>1. h = 0 => h # i /\ (ma => h # a) /\ (mb => h # z)
      BY <1>2, <1>3
    <3> QED BY <1>2, <1>3, <1>4, <2>1, <3>1
  <2>4. ASSUME NEW h \in H, h # i, ma => h # a, mb => h # z PROVE h < from \/ h >= end
    <3>1. h \in Int /\ (h > i => h >= i + c[i]) /\ (ma /\ h > a => h >= a + c[a])
          /\ (h > z => h >= z + c[z])
      BY <1>1, <1>2, <1>4, <1>5
    <3> QED BY <1>2, <1>4, <1>5, <1>6, <2>4, <3>1
  <2>5. ASSUME NEW h \in H, h < from \/ h >= end PROVE h # i /\ (ma => h # a) /\ (mb => h # z)
    BY <1>1, <1>2, <1>4, <1>5, <1>6, <1>7, <2>5
  <2> QED BY <2>2, <2>3, <2>4, <2>5
<1>12. \A h \in H : /\ h < from => h + c[h] <= from
                    /\ h < end => h + c[h] <= end
                    /\ h >= end => h + c[h] > end
  <2>1. ASSUME NEW h \in H, h < end PROVE h + c[h] <= end
    BY <1>1, <1>7, <2>1
  <2>2. ASSUME NEW h \in H, h < from PROVE h + c[h] <= from
    BY <1>1, <1>7, <2>2
  <2>3. ASSUME NEW h \in H, h >= end PROVE h + c[h] > end
    BY <1>1, <1>7, <2>3
  <2> QED BY <2>1, <2>2, <2>3
<1>13. from \in K /\ d[from] = size
  BY <1>7, <1>9, <1>11
<1>14. ASSUME NEW h \in K, h # from
       PROVE  /\ h \in H /\ h \in Slice /\ d[h] = c[h] /\ h \in Int /\ c[h] \in Int /\ c[h] >= 1
              /\ 0 <= h /\ h + c[h] <= SliceCount /\ h + c[h] \in H \cup {SliceCount}
              /\ (h < from /\ h + c[h] <= from) \/ (h >= end /\ h + c[h] > end)
  <2>1. h \in H /\ (h < from \/ h >= end)
    BY <1>11, <1>14
  <2> QED BY <1>1, <1>9, <1>12, <1>14, <2>1
<1>15. Tiles(K, d)
  <2>1. ASSUME NEW h \in K
        PROVE  /\ d[h] >= 1
               /\ h + d[h] \in K \cup {SliceCount}
               /\ \A j \in K : j > h => j >= h + d[h]
    <3>1. CASE h = from
      <4>1. end \in K \cup {SliceCount}
        BY <1>7, <1>11
      <4>2. ASSUME NEW j \in K, j > from PROVE j >= end
        BY <1>7, <1>14, <4>2
      <4> QED BY <1>7, <1>13, <3>1, <4>1, <4>2
    <3>2. CASE h # from
      <4>1. h + c[h] \in K \cup {SliceCount}
        <5>1. CASE h + c[h] \in H
          BY <1>7, <1>11, <1>14, <3>2, <5>1
        <5> QED BY <1>14, <3>2, <5>1
      <4>2. ASSUME NEW j \in K, j > h PROVE j >= h + c[h]
        BY <1>1, <1>11, <1>14, <3>2, <4>2
      <4> QED BY <1>14, <3>2, <4>1, <4>2
    <3> QED BY <3>1, <3>2
  <2>2. ASSUME NEW j \in Slice PROVE \E h \in K : h <= j /\ j < h + d[h]
    <3>1. PICK h \in H : h <= j /\ j < h + c[h]
      BY <1>3 DEF Tiles
    <3>2. CASE h < from \/ h >= end
      <4>1. h \in K /\ h # from
        BY <1>1, <1>7, <1>11, <3>2
      <4> QED BY <1>14, <3>1, <4>1
    <3>3. CASE ~(h < from \/ h >= end)
      <4>1. h \in Int /\ c[h] \in Int /\ from <= h /\ h < end /\ h + c[h] <= end /\ j \in Int
        BY <1>1, <1>7, <1>9, <1>12, <3>3
      <4>2. from <= j /\ j < from + size
        BY <1>7, <3>1, <4>1
      <4> QED BY <1>13, <4>2
    <3> QED BY <3>2, <3>3
  <2> QED BY <2>1, <2>2 DEF Tiles
<1>16. ASSUME NEW h \in K PROVE q[h + d[h] - 1] = d[h] - 1
  <2>1. CASE h = from
    <3>1. end - 1 \in Slice
      BY <1>7, SliceCountAssumption DEF Slice
    <3> QED BY <1>7, <1>9, <1>13, <2>1, <3>1
  <2>2. CASE h # from
    <3>1. o[h + c[h] - 1] = c[h] - 1
      BY <1>14, <2>2 DEF SegOK
    <3>2. h + c[h] - 1 \in Slice
      BY <1>14, <2>2, SliceCountAssumption DEF Slice
    <3>3. h + c[h] - 1 # from /\ h + c[h] - 1 # end - 1
      BY <1>7, <1>14, <2>2
    <3> QED BY <1>9, <1>14, <2>2, <3>1, <3>2, <3>3
  <2> QED BY <2>1, <2>2
<1>17. from \notin P \ {i} /\ from # 0
  <2>1. mb => z \notin P /\ z # 0
    BY <1>2, <1>3
  <2>2. CASE mb
    BY <1>3, <1>6, <2>1, <2>2
  <2>3. CASE ~mb
    BY <1>3, <1>6, <2>3
  <2> QED BY <2>2, <2>3
<1>18. ASSUME NEW h \in P \ {i}, NEW j \in h .. h + d[h] - 1 PROVE q[j] = j - h
  <2>1. h \in K /\ h # from
    BY <1>17
  <2>2. j \in Int /\ h <= j /\ j < h + c[h]
    BY <1>14, <2>1
  <2>3. j \in Slice
    BY <1>14, <2>1, <2>2, SliceCountAssumption DEF Slice
  <2>4. o[j] = j - h
    BY <1>14, <2>1 DEF SegOK
  <2>5. j # from /\ j # end - 1
    BY <1>7, <1>14, <2>1, <2>2
  <2> QED BY <1>9, <2>3, <2>4, <2>5
<1>19. G \subseteq F \cup {from} /\ from \in G
  BY DEF GiveFree, from
<1>20. \A h \in F : h + c[h] \notin F
  BY DEF SegOK
<1>21. ASSUME NEW h \in G PROVE h + d[h] \notin G
  <2>1. CASE h = from
    <3>1. end \notin F
      BY <1>2, <1>20
    <3> QED BY <1>7, <1>13, <1>19, <2>1, <3>1
  <2>2. CASE h # from
    <3>1. h \in F /\ h \in K
      BY <1>19, <2>2
    <3>2. d[h] = c[h] /\ h + c[h] \notin F
      BY <1>14, <1>20, <2>2, <3>1
    <3>3. h + c[h] # from
      <4>1. CASE mb
        BY <1>2, <1>6, <3>2, <4>1
      <4>2. CASE ~mb
        <5>1. SUFFICES ASSUME h + c[h] = i PROVE FALSE
          BY <1>6, <4>2
        <5>2. (h > z => h >= z + c[z]) /\ (z > h => z >= h + c[h])
          BY <1>1, <1>2, <3>1
        <5>3. h = z
          BY <1>2, <1>4, <1>14, <2>2, <3>1, <5>1, <5>2
        <5> QED BY <1>2, <3>1, <4>2, <5>3
      <4> QED BY <4>1, <4>2
    <3> QED BY <1>19, <3>2, <3>3
  <2> QED BY <2>1, <2>2
<1>22. /\ \A j \in G : y[j] = 0
       /\ \A j \in P \ {i} : y[j] = 1
       /\ y[0] = 1 /\ d[0] = 1
  <2>1. \A h \in H : h # from /\ h # i => y[h] = x[h] /\ d[h] = c[h]
    BY <1>1, <1>9
  <2>2. y[from] = 0
    BY <1>7, <1>9
  <2> QED BY <1>3, <1>4, <1>17, <1>19, <2>1, <2>2
<1>23. u - 1 = Cardinality(P \ {i})
  BY <1>1, FS_RemoveElement DEF SegOK
<1>24. G \subseteq Slice /\ P \ {i} \subseteq Slice /\ 0 \notin G /\ 0 \notin P \ {i}
  BY <1>1, <1>3, <1>7, <1>17, <1>19
<1>25. SegOK(G, P \ {i}, d, q, y, u - 1)
  BY <1>10, <1>15, <1>16, <1>18, <1>21, <1>22, <1>23, <1>24 DEF SegOK
<1>26. ASSUME NEW h \in P \ {i}, NEW j \in h .. h + c[h] - 1
       PROVE  d[j] = c[j] /\ q[j] = o[j] /\ y[j] = x[j]
  <2>1. h \in K /\ h # from /\ h \in H
    BY <1>17
  <2>2. j \in Int /\ h <= j /\ j < h + c[h]
    BY <1>14, <2>1
  <2>3. j \in Slice
    BY <1>14, <2>1, <2>2, SliceCountAssumption DEF Slice
  <2>4. j # from /\ j # end - 1 /\ j # i
    BY <1>4, <1>7, <1>14, <2>1, <2>2
  <2> QED BY <1>9, <2>3, <2>4
<1>27. u - 1 \in Nat
  BY <1>1, <1>23, FS_RemoveElement, FS_CardinalityType
<1> QED BY <1>7, <1>8, <1>25, <1>26, <1>27 DEF d, q, y, size, from, GiveResult

\* SegmentAlloc: one free span after the slice of the headers.
LEMMA FreshOK == SegOK({1}, {}, FreshCount, FreshOffset, FreshBlock, 0)
<1> DEFINE c == FreshCount
           o == FreshOffset
           x == FreshBlock
<1>1. /\ c \in [Slice -> 0 .. SliceCount - 1]
      /\ o \in [Slice -> 0 .. SliceCount - 1]
      /\ x \in [Slice -> {0, 1}]
  BY SliceCountAssumption DEF Slice, FreshCount, FreshOffset, FreshBlock
<1>2. 0 \in Slice /\ 1 \in Slice /\ SliceCount - 1 \in Slice
  BY SliceCountAssumption DEF Slice
<1>3. c[0] = 1 /\ c[1] = SliceCount - 1 /\ x[0] = 1 /\ x[1] = 0 /\ o[0] = 0
      /\ o[SliceCount - 1] = SliceCount - 2
  BY <1>2, SliceCountAssumption DEF FreshCount, FreshOffset, FreshBlock
<1> HIDE DEF c, o, x
<1>4. Tiles({0} \cup {1} \cup {}, c)
  BY <1>3, SliceCountAssumption DEF Tiles, Slice
<1>5. \A i \in {0} \cup {1} \cup {} : o[i + c[i] - 1] = c[i] - 1
  BY <1>3, SliceCountAssumption
<1>6. \A i \in {1} : i + c[i] \notin {1}
  BY <1>3, SliceCountAssumption
<1>7. 0 = Cardinality({})
  BY FS_EmptySet
<1>8. \A i \in {} : \A j \in i .. i + c[i] - 1 : o[j] = j - i
  OBVIOUS
<1>9. {1} \subseteq Slice /\ {} \subseteq Slice /\ 0 \notin {1} /\ 0 \notin {}
  BY <1>2
<1>10. SegOK({1}, {}, c, o, x, 0)
  BY <1>9, <1>8, <1>1, <1>2, <1>3, <1>4, <1>5, <1>6, <1>7 DEF SegOK
<1> QED BY <1>10 DEF c, o, x

-----------------------------------------------------------------------------
(* All segments                                                             *)

Frees(s)  == {i \in Slice : <<s, i>> \in FreeSpans}
PagesOf(s) == {i \in Slice : <<s, i>> \in pages}
Good(s)   == SegOK(Frees(s), PagesOf(s), count[s], offset[s], xblock_size[s], used[s])

InBins ==
  \A b \in Bin, s \in Segment, i \in Slice :
    <<s, i>> \in queue[b] => s \in segs /\ b = SliceBin[count[s][i]]

\* The inductive invariant: every segment is in order, every free span in the
\* queue of its size, and pages lie in segments.
SInv ==
  /\ TypeOK
  /\ \A s \in segs : Good(s)
  /\ \A s \in Segment \ segs : PagesOf(s) = {}
  /\ InBins
  /\ GrownIsEnough

\* a free span of a segment is one that is in some queue
LEMMA InFrees ==
  ASSUME NEW s, NEW i
  PROVE  /\ i \in Frees(s) <=> i \in Slice /\ \E b \in Bin : <<s, i>> \in queue[b]
         /\ i \in Frees(s)' <=> i \in Slice /\ \E b \in Bin : <<s, i>> \in queue'[b]
BY DEF Frees, FreeSpans

\* The initial state is in order.
LEMMA InitSInv == Init => SInv
<1> SUFFICES ASSUME Init PROVE SInv
  OBVIOUS
<1>1. TypeOK
  <2>1. 0 \in 0 .. SliceCount - 1 /\ 0 \in {0, 1} /\ 0 \in Nat
    BY SliceCountAssumption
  <2>2. /\ [i \in Slice |-> 0] \in [Slice -> 0 .. SliceCount - 1]
        /\ [i \in Slice |-> 0] \in [Slice -> {0, 1}]
    BY <2>1
  <2>3. /\ count \in [Segment -> [Slice -> 0 .. SliceCount - 1]]
        /\ offset \in [Segment -> [Slice -> 0 .. SliceCount - 1]]
        /\ xblock_size \in [Segment -> [Slice -> {0, 1}]]
    BY <2>2, Zenon DEF Init
  <2>4. used \in [Segment -> Nat] /\ queue \in [Bin -> SUBSET (Segment \X Slice)]
    BY <2>1 DEF Init
  <2> QED BY <2>3, <2>4 DEF Init, TypeOK
<1>2. \A s \in Segment \ segs : PagesOf(s) = {}
  BY DEF Init, PagesOf
<1>3. InBins
  BY DEF Init, InBins
<1> QED BY <1>1, <1>2, <1>3 DEF Init, SInv, GrownIsEnough

\* FindAndAllocate works on a free span that is large enough (TakeOK).
LEMMA Taken ==
  ASSUME SInv, NEW b \in Bin, NEW s \in Segment, NEW i \in Slice, FindAndAllocate(b, s, i)
  PROVE  /\ <<s, i>> \in queue[b] /\ s \in segs /\ b = SliceBin[count[s][i]]
         /\ i \in Frees(s) /\ req \in 1 .. count[s][i] /\ count[s][i] \in 0 .. SliceCount - 1
         /\ TakeResult(Frees(s), PagesOf(s), count[s], offset[s], xblock_size[s],
                       used[s], i, req)
<1>1. <<s, i>> \in queue[b] /\ count[s][i] >= req /\ req # 0
  BY DEF FindAndAllocate, Fits
<1>2. req \in 1 .. SliceCount - 1 /\ count[s][i] \in 0 .. SliceCount - 1
  BY <1>1, RequestAssumption DEF SInv, TypeOK
<1>3. s \in segs /\ b = SliceBin[count[s][i]]
  BY <1>1 DEF SInv, InBins
<1>4. i \in Frees(s) /\ req \in 1 .. count[s][i]
  BY <1>1, <1>2, InFrees, SliceCountAssumption
<1>5. SegOK(Frees(s), PagesOf(s), count[s], offset[s], xblock_size[s], used[s])
  BY <1>3 DEF SInv, Good
<1>6. TakeResult(Frees(s), PagesOf(s), count[s], offset[s], xblock_size[s], used[s], i, req)
  BY <1>4, <1>5, TakeOK
<1> QED BY <1>1, <1>2, <1>3, <1>4, <1>6

\* PageFree works on a page of a segment in order (GiveOK).
LEMMA Given ==
  ASSUME SInv, NEW s \in Segment, NEW i \in Slice, PageFree(s, i)
  PROVE  /\ i \in PagesOf(s) /\ s \in segs
         /\ SegOK(Frees(s), PagesOf(s), count[s], offset[s], xblock_size[s], used[s])
         /\ GiveResult(Frees(s), PagesOf(s), count[s], offset[s], xblock_size[s], used[s], i)
<1>1. i \in PagesOf(s)
  BY DEF PageFree, PagesOf
<1>2. s \in segs
  BY <1>1 DEF SInv
<1>3. SegOK(Frees(s), PagesOf(s), count[s], offset[s], xblock_size[s], used[s])
  BY <1>2 DEF SInv, Good
<1>4. GiveResult(Frees(s), PagesOf(s), count[s], offset[s], xblock_size[s], used[s], i)
  BY <1>1, <1>3, GiveOK
<1> QED BY <1>1, <1>2, <1>3, <1>4

\* FindAndAllocate puts its segment in order again and touches no other.
LEMMA TakeInv ==
  ASSUME SInv, NEW b \in Bin, NEW s \in Segment, NEW i \in Slice, FindAndAllocate(b, s, i)
  PROVE  SInv'
<1> DEFINE n == req
           c == count[s][i]
<1>1. /\ <<s, i>> \in queue[b] /\ n \in Nat /\ n >= 1 /\ n <= c /\ s \in segs
      /\ b = SliceBin[c] /\ i \in Frees(s) /\ n \in 1 .. c
      /\ c \in 0 .. SliceCount - 1
  <2>1. n \in 1 .. SliceCount - 1
    BY RequestAssumption DEF FindAndAllocate, SInv, TypeOK
  <2> QED BY <2>1, Taken, SliceCountAssumption
<1>2. /\ count' = [count EXCEPT ![s] = TakeCount(count[s], i, n)]
      /\ offset' = [offset EXCEPT ![s] = TakeOffset(count[s], offset[s], i, n)]
      /\ xblock_size' = [xblock_size EXCEPT ![s] = TakeBlock(count[s], xblock_size[s], i, n)]
  BY DEF FindAndAllocate
<1>3. /\ SegOK(TakeFree(count[s], Frees(s), i, n), PagesOf(s) \cup {i},
               TakeCount(count[s], i, n), TakeOffset(count[s], offset[s], i, n),
               TakeBlock(count[s], xblock_size[s], i, n), used[s] + 1)
      /\ c > n => /\ i + n \in Slice /\ i + n \notin Frees(s) \cup PagesOf(s)
                  /\ TakeCount(count[s], i, n)[i + n] = c - n
      /\ \A h \in Frees(s) \cup PagesOf(s) : h # i => TakeCount(count[s], i, n)[h] = count[s][h]
  <2>1. TakeResult(Frees(s), PagesOf(s), count[s], offset[s], xblock_size[s], used[s], i, n)
    BY Taken
  <2> HIDE DEF n
  <2> QED BY <2>1 DEF TakeResult
<1>4. /\ used' = [used EXCEPT ![s] = used[s] + 1]
      /\ pages' = pages \cup {<<s, i>>} /\ req' = 0 /\ grown' = FALSE
      /\ segs' = segs /\ aborted' = aborted
  BY DEF FindAndAllocate
<1>5. c > n => c - n \in 1 .. SliceCount - 1 /\ SliceBin[c - n] \in Bin
  BY <1>1, BinAssumption, SliceCountAssumption
<1>6. ASSUME NEW e \in Bin, NEW t \in Segment, NEW j \in Slice
      PROVE  <<t, j>> \in queue'[e] <=>
               \/ <<t, j>> \in queue[e] /\ ~(t = s /\ j = i)
               \/ c > n /\ e = SliceBin[c - n] /\ t = s /\ j = i + n
  <2>1. queue \in [Bin -> SUBSET (Segment \X Slice)]
    BY DEF SInv, TypeOK
  <2>2. queue' = IF c > n
           THEN [[queue EXCEPT ![b] = @ \ {<<s, i>>}]
                   EXCEPT ![SliceBin[c - n]] = @ \cup {<<s, i + n>>}]
           ELSE [queue EXCEPT ![b] = @ \ {<<s, i>>}]
    BY DEF FindAndAllocate, Push, Unlink
  <2>3. <<s, i>> \in queue[e] => e = b
    BY <1>1 DEF SInv, InBins
  <2>4. <<t, j>> = <<s, i>> <=> t = s /\ j = i
    OBVIOUS
  <2>5. <<t, j>> = <<s, i + n>> <=> t = s /\ j = i + n
    OBVIOUS
  <2>6. CASE c > n
    BY <1>5, <2>1, <2>2, <2>3, <2>4, <2>5, <2>6
  <2>7. CASE ~(c > n)
    BY <2>1, <2>2, <2>3, <2>4, <2>7
  <2> QED BY <2>6, <2>7
<1>7. Frees(s)' = TakeFree(count[s], Frees(s), i, n)
  <2>1. ASSUME NEW j \in Slice
        PROVE  j \in Frees(s)' <=> (j \in Frees(s) /\ j # i) \/ (c > n /\ j = i + n)
    <3>1. j \in Frees(s) <=> \E e \in Bin : <<s, j>> \in queue[e]
      BY InFrees
    <3>2. j \in Frees(s)' <=> \E e \in Bin : <<s, j>> \in queue'[e]
      BY InFrees
    <3> QED BY <1>5, <1>6, <3>1, <3>2
  <2>2. Frees(s)' \subseteq Slice /\ Frees(s) \subseteq Slice
    BY DEF Frees
  <2> QED BY <1>1, <1>3, <2>1, <2>2 DEF TakeFree
<1>8. ASSUME NEW t \in Segment, t # s PROVE Frees(t)' = Frees(t) /\ PagesOf(t)' = PagesOf(t)
  <2>1. ASSUME NEW j \in Slice PROVE j \in Frees(t)' <=> j \in Frees(t)
    BY <1>6, <1>8, InFrees
  <2>2. Frees(t)' \subseteq Slice /\ Frees(t) \subseteq Slice
    BY DEF Frees
  <2>3. PagesOf(t)' = PagesOf(t)
    BY <1>4, <1>8 DEF PagesOf
  <2> QED BY <2>1, <2>2, <2>3
<1>9. PagesOf(s)' = PagesOf(s) \cup {i}
  BY <1>4 DEF PagesOf
<1>10. ASSUME NEW t \in segs' PROVE Good(t)'
  <2>1. t \in segs /\ t \in Segment
    BY <1>4 DEF SInv, TypeOK
  <2>2. Good(t)
    BY <2>1 DEF SInv
  <2>3. count \in [Segment -> [Slice -> 0 .. SliceCount - 1]]
        /\ offset \in [Segment -> [Slice -> 0 .. SliceCount - 1]]
        /\ xblock_size \in [Segment -> [Slice -> {0, 1}]]
        /\ used \in [Segment -> Nat]
    BY DEF SInv, TypeOK
  <2>4. CASE t = s
    <3>1. /\ count'[s] = TakeCount(count[s], i, n)
          /\ offset'[s] = TakeOffset(count[s], offset[s], i, n)
          /\ xblock_size'[s] = TakeBlock(count[s], xblock_size[s], i, n)
          /\ used'[s] = used[s] + 1
      BY <1>2, <1>4, <2>3
    <3> QED BY <1>3, <1>7, <1>9, <2>4, <3>1 DEF Good
  <2>5. CASE t # s
    <3>1. /\ count'[t] = count[t] /\ offset'[t] = offset[t]
          /\ xblock_size'[t] = xblock_size[t] /\ used'[t] = used[t]
      BY <1>2, <1>4, <2>1, <2>3, <2>5
    <3> QED BY <1>8, <2>1, <2>2, <2>5, <3>1 DEF Good
  <2> QED BY <2>4, <2>5
<1>11. InBins'
  <2>1. ASSUME NEW e \in Bin, NEW t \in Segment, NEW j \in Slice, <<t, j>> \in queue'[e]
        PROVE  t \in segs' /\ e = SliceBin[count'[t][j]]
    <3>1. count \in [Segment -> [Slice -> 0 .. SliceCount - 1]]
      BY DEF SInv, TypeOK
    <3>2. count'[s] = TakeCount(count[s], i, n) /\ (t # s => count'[t] = count[t])
      BY <1>2, <3>1
    <3>3. CASE <<t, j>> \in queue[e] /\ ~(t = s /\ j = i)
      <4>1. t \in segs /\ e = SliceBin[count[t][j]]
        BY <3>3 DEF SInv, InBins
      <4>2. count'[t][j] = count[t][j]
        <5>1. CASE t = s
          BY <1>3, <3>2, <3>3, <5>1, InFrees
        <5> QED BY <3>2, <5>1
      <4> QED BY <1>4, <4>1, <4>2
    <3>4. CASE c > n /\ e = SliceBin[c - n] /\ t = s /\ j = i + n
      BY <1>1, <1>3, <1>4, <3>2, <3>4
    <3> QED BY <1>6, <2>1, <3>3, <3>4
  <2> QED BY <2>1 DEF InBins
<1>12. TypeOK'
  <2>1. SegOK(TakeFree(count[s], Frees(s), i, n), PagesOf(s) \cup {i},
               TakeCount(count[s], i, n), TakeOffset(count[s], offset[s], i, n),
               TakeBlock(count[s], xblock_size[s], i, n), used[s] + 1)
    BY <1>3
  <2>2. /\ TakeCount(count[s], i, n) \in [Slice -> 0 .. SliceCount - 1]
        /\ TakeOffset(count[s], offset[s], i, n) \in [Slice -> 0 .. SliceCount - 1]
        /\ TakeBlock(count[s], xblock_size[s], i, n) \in [Slice -> {0, 1}]
    BY <2>1 DEF SegOK
  <2>3. queue' \in [Bin -> SUBSET (Segment \X Slice)]
    <3>1. Unlink(queue, b, s, i) \in [Bin -> SUBSET (Segment \X Slice)]
      BY DEF Unlink, SInv, TypeOK
    <3>2. queue' = IF c > n THEN Push(Unlink(queue, b, s, i), s, i + n, c - n)
                            ELSE Unlink(queue, b, s, i)
      BY DEF FindAndAllocate
    <3>3. c > n => Push(Unlink(queue, b, s, i), s, i + n, c - n)
                     \in [Bin -> SUBSET (Segment \X Slice)]
      BY <1>3, <1>5, <3>1 DEF Push
    <3> QED BY <3>1, <3>2, <3>3
  <2>4. /\ count' \in [Segment -> [Slice -> 0 .. SliceCount - 1]]
        /\ offset' \in [Segment -> [Slice -> 0 .. SliceCount - 1]]
        /\ xblock_size' \in [Segment -> [Slice -> {0, 1}]]
    BY <1>2, <2>2 DEF SInv, TypeOK
  <2>5. used' \in [Segment -> Nat]
    BY <1>4 DEF SInv, TypeOK
  <2>6. pages' \subseteq Segment \X Slice
    BY <1>4 DEF SInv, TypeOK
  <2> QED BY <1>4, <2>3, <2>4, <2>5, <2>6 DEF SInv, TypeOK
<1>13. \A t \in Segment \ segs' : PagesOf(t)' = {}
  BY <1>1, <1>4, <1>8 DEF SInv
<1> QED BY <1>4, <1>10, <1>11, <1>12, <1>13 DEF SInv, GrownIsEnough

\* PageFree puts its segment in order again and touches no other.
LEMMA GiveInv ==
  ASSUME SInv, NEW s \in Segment, NEW i \in Slice, PageFree(s, i)
  PROVE  SInv'
<1> DEFINE fa == FreeAfter(count[s], xblock_size[s], i)
           fb == FreeBefore(offset[s], xblock_size[s], i)
           a == SpanAfter(count[s], i)
           z == SpanBefore(offset[s], i)
           from == MergedStart(offset[s], xblock_size[s], i)
           size == MergedCount(count[s], offset[s], xblock_size[s], i)
<1>1. /\ i \in PagesOf(s) /\ s \in segs
      /\ SegOK(Frees(s), PagesOf(s), count[s], offset[s], xblock_size[s], used[s])
  BY Given
<1>2. /\ count' = [count EXCEPT ![s] = FreedCount(count[s], offset[s], xblock_size[s], i)]
      /\ offset' = [offset EXCEPT ![s] = FreedOffset(count[s], offset[s], xblock_size[s], i)]
      /\ xblock_size' = [xblock_size EXCEPT ![s] =
                           FreedBlock(count[s], offset[s], xblock_size[s], i)]
  BY DEF PageFree
<1>3. GiveResult(Frees(s), PagesOf(s), count[s], offset[s], xblock_size[s], used[s], i)
  BY Given
<1>4. /\ used' = [used EXCEPT ![s] = used[s] - 1]
      /\ pages' = pages \ {<<s, i>>} /\ req' = req /\ grown' = grown /\ req = 0
      /\ segs' = segs /\ aborted' \in BOOLEAN
  BY DEF PageFree, Released
<1>5. /\ fa => a \in Frees(s)
      /\ fb => z \in Frees(s)
  BY <1>1, GiveNeighbours
<1>6. size \in 1 .. SliceCount - 1 /\ SliceBin[size] \in Bin /\ from \in Slice
  BY <1>3, BinAssumption DEF GiveResult
<1>7. ASSUME NEW e \in Bin, NEW t \in Segment, NEW j \in Slice
      PROVE  <<t, j>> \in queue'[e] <=>
               \/ <<t, j>> \in queue[e] /\ ~(t = s /\ ((fa /\ j = a) \/ (fb /\ j = z)))
               \/ e = SliceBin[size] /\ t = s /\ j = from
  <2> DEFINE ba == SliceBin[count[s][a]]
             bz == SliceBin[count[s][z]]
             q == IF fa THEN [queue EXCEPT ![ba] = @ \ {<<s, a>>}] ELSE queue
             r == IF fb THEN [q EXCEPT ![bz] = @ \ {<<s, z>>}] ELSE q
  <2>1. queue \in [Bin -> SUBSET (Segment \X Slice)]
    BY DEF SInv, TypeOK
  <2>2. queue' = [r EXCEPT ![SliceBin[size]] = @ \cup {<<s, from>>}]
    BY DEF PageFree, Push, Neighbours, Unlink
  <2>3. /\ fa => a \in Slice /\ (<<s, a>> \in queue[e] => e = ba)
        /\ fb => z \in Slice /\ (<<s, z>> \in queue[e] => e = bz)
    <3>1. Frees(s) \subseteq Slice
      BY DEF Frees
    <3> QED BY <1>5, <3>1 DEF SInv, InBins
  <2> HIDE DEF fa, fb, a, z, ba, bz, from, size
  <2>4. /\ <<t, j>> = <<s, a>> <=> t = s /\ j = a
        /\ <<t, j>> = <<s, z>> <=> t = s /\ j = z
        /\ <<t, j>> = <<s, from>> <=> t = s /\ j = from
    OBVIOUS
  <2>5. <<t, j>> \in q[e] <=> <<t, j>> \in queue[e] /\ ~(t = s /\ fa /\ j = a)
    <3>1. CASE fa
      BY <2>1, <2>3, <2>4, <3>1
    <3>2. CASE ~fa
      BY <3>2
    <3> QED BY <3>1, <3>2
  <2>6. DOMAIN q = Bin
    BY <2>1
  <2> HIDE DEF q
  <2>7. <<t, j>> \in r[e] <=> <<t, j>> \in q[e] /\ ~(t = s /\ fb /\ j = z)
    <3>1. CASE fb
      BY <2>3, <2>4, <2>5, <2>6, <3>1
    <3>2. CASE ~fb
      BY <3>2
    <3> QED BY <3>1, <3>2
  <2>8. DOMAIN r = Bin
    BY <2>6
  <2> HIDE DEF r
  <2>9. <<t, j>> \in queue'[e] <=>
          <<t, j>> \in r[e] \/ (e = SliceBin[size] /\ t = s /\ j = from)
    BY <1>6, <2>2, <2>4, <2>8
  <2> QED BY <2>5, <2>7, <2>9
<1>8. Frees(s)' = GiveFree(Frees(s), count[s], offset[s], xblock_size[s], i)
  <2>1. ASSUME NEW j \in Slice
        PROVE  j \in Frees(s)' <=>
                 \/ j \in Frees(s) /\ ~((fa /\ j = a) \/ (fb /\ j = z))
                 \/ j = from
    <3>1. j \in Frees(s) <=> \E e \in Bin : <<s, j>> \in queue[e]
      BY InFrees
    <3>2. j \in Frees(s)' <=> \E e \in Bin : <<s, j>> \in queue'[e]
      BY InFrees
    <3> HIDE DEF fa, fb, a, z, from, size
    <3> QED BY <1>6, <1>7, <3>1, <3>2
  <2>2. Frees(s)' \subseteq Slice /\ Frees(s) \subseteq Slice
    BY DEF Frees
  <2>3. GiveFree(Frees(s), count[s], offset[s], xblock_size[s], i) =
          {j \in Slice : \/ j \in Frees(s) /\ ~((fa /\ j = a) \/ (fb /\ j = z))
                         \/ j = from}
    <3> HIDE DEF fa, fb, a, z, from
    <3>1. GiveFree(Frees(s), count[s], offset[s], xblock_size[s], i) =
            (Frees(s) \ ((IF fa THEN {a} ELSE {}) \cup (IF fb THEN {z} ELSE {}))) \cup {from}
      BY DEF GiveFree, fa, fb, a, z, from
    <3> QED BY <1>6, <2>2, <3>1
  <2> HIDE DEF fa, fb, a, z, from
  <2> QED BY <2>1, <2>2, <2>3
<1>9. ASSUME NEW t \in Segment, t # s PROVE Frees(t)' = Frees(t) /\ PagesOf(t)' = PagesOf(t)
  <2>1. ASSUME NEW j \in Slice PROVE j \in Frees(t)' <=> j \in Frees(t)
    BY <1>7, <1>9, InFrees
  <2>2. Frees(t)' \subseteq Slice /\ Frees(t) \subseteq Slice
    BY DEF Frees
  <2>3. PagesOf(t)' = PagesOf(t)
    BY <1>4, <1>9 DEF PagesOf
  <2> QED BY <2>1, <2>2, <2>3
<1>10. PagesOf(s)' = PagesOf(s) \ {i}
  BY <1>4 DEF PagesOf
<1>11. /\ count \in [Segment -> [Slice -> 0 .. SliceCount - 1]]
       /\ offset \in [Segment -> [Slice -> 0 .. SliceCount - 1]]
       /\ xblock_size \in [Segment -> [Slice -> {0, 1}]]
       /\ used \in [Segment -> Nat]
  BY DEF SInv, TypeOK
<1>12. /\ count'[s] = FreedCount(count[s], offset[s], xblock_size[s], i)
       /\ offset'[s] = FreedOffset(count[s], offset[s], xblock_size[s], i)
       /\ xblock_size'[s] = FreedBlock(count[s], offset[s], xblock_size[s], i)
       /\ used'[s] = used[s] - 1
  BY <1>2, <1>4, <1>11
<1>13. SegOK(Frees(s), PagesOf(s), count[s], offset[s], xblock_size[s], used[s])'
  BY <1>3, <1>8, <1>10, <1>12 DEF GiveResult
<1>14. ASSUME NEW t \in segs' PROVE Good(t)'
  <2>1. t \in segs /\ t \in Segment /\ Good(t)
    BY <1>4 DEF SInv, TypeOK
  <2>2. CASE t = s
    BY <1>13, <2>2 DEF Good
  <2>3. CASE t # s
    <3>1. /\ count'[t] = count[t] /\ offset'[t] = offset[t]
          /\ xblock_size'[t] = xblock_size[t] /\ used'[t] = used[t]
      BY <1>2, <1>4, <1>11, <2>1, <2>3
    <3> QED BY <1>9, <2>1, <2>3, <3>1 DEF Good
  <2> QED BY <2>2, <2>3
<1>15. InBins'
  <2>1. ASSUME NEW e \in Bin, NEW t \in Segment, NEW j \in Slice, <<t, j>> \in queue'[e]
        PROVE  t \in segs' /\ e = SliceBin[count'[t][j]]
    <3>1. t # s => count'[t] = count[t]
      BY <1>2, <1>11
    <3>2. count'[s][j] = IF j = from THEN size ELSE count[s][j]
      BY <1>12 DEF FreedCount
    <3> HIDE DEF fa, fb, a, z, from, size
    <3>3. CASE e = SliceBin[size] /\ t = s /\ j = from
      BY <1>1, <1>4, <3>2, <3>3
    <3>4. CASE <<t, j>> \in queue[e] /\ ~(t = s /\ ((fa /\ j = a) \/ (fb /\ j = z)))
      <4>1. t \in segs /\ e = SliceBin[count[t][j]]
        BY <3>4 DEF SInv, InBins
      <4>2. t = s => j # from
        <5>1. SUFFICES ASSUME t = s, j = from PROVE FALSE
          OBVIOUS
        <5>2. j \in Frees(s)
          BY <3>4, <5>1, InFrees
        <5>3. i \notin Frees(s)
          BY <1>1, <2>1 DEF SegOK
        <5>4. from = IF fb THEN z ELSE i
          BY DEF MergedStart, fb, z, from
        <5> QED BY <3>4, <5>1, <5>2, <5>3, <5>4
      <4> QED BY <1>4, <3>1, <3>2, <4>1, <4>2
    <3> QED BY <1>7, <2>1, <3>3, <3>4
  <2> QED BY <2>1 DEF InBins
<1>16. TypeOK'
  <2>1. /\ FreedCount(count[s], offset[s], xblock_size[s], i) \in [Slice -> 0 .. SliceCount - 1]
        /\ FreedOffset(count[s], offset[s], xblock_size[s], i) \in [Slice -> 0 .. SliceCount - 1]
        /\ FreedBlock(count[s], offset[s], xblock_size[s], i) \in [Slice -> {0, 1}]
    BY <1>3 DEF GiveResult, SegOK
  <2>2. /\ count' \in [Segment -> [Slice -> 0 .. SliceCount - 1]]
        /\ offset' \in [Segment -> [Slice -> 0 .. SliceCount - 1]]
        /\ xblock_size' \in [Segment -> [Slice -> {0, 1}]]
    BY <1>2, <1>11, <2>1
  <2>3. used' \in [Segment -> Nat]
    <3>1. used[s] - 1 \in Nat
      BY <1>3 DEF GiveResult
    <3> QED BY <1>4, <1>11, <3>1
  <2>4. pages' \subseteq Segment \X Slice /\ segs' \subseteq Segment
    BY <1>4 DEF SInv, TypeOK
  <2>5. queue' \in [Bin -> SUBSET (Segment \X Slice)]
    <3>1. queue \in [Bin -> SUBSET (Segment \X Slice)]
      BY DEF SInv, TypeOK
    <3>2. Neighbours(s, count[s], offset[s], xblock_size[s], i)
            \in [Bin -> SUBSET (Segment \X Slice)]
      BY <3>1 DEF Neighbours, Unlink
    <3>3. queue' = Push(Neighbours(s, count[s], offset[s], xblock_size[s], i), s, from, size)
      BY DEF PageFree
    <3> HIDE DEF from, size
    <3> QED BY <1>6, <3>2, <3>3 DEF Push
  <2> QED BY <1>4, <2>2, <2>3, <2>4, <2>5 DEF SInv, TypeOK
<1>17. \A t \in Segment \ segs' : PagesOf(t)' = {}
  BY <1>1, <1>4, <1>9 DEF SInv
<1>18. GrownIsEnough'
  BY <1>4 DEF SInv, GrownIsEnough
<1> QED BY <1>14, <1>15, <1>16, <1>17, <1>18 DEF SInv

\* SegmentAlloc adds a segment that has room for the request.
LEMMA GrowInv ==
  ASSUME SInv, NEW s \in Segment, SegmentAlloc(s)
  PROVE  SInv'
<1> DEFINE b == SliceBin[SliceCount - 1]
           cf == FreshCount
           of == FreshOffset
           xf == FreshBlock
<1>1. /\ s \notin segs /\ segs' = segs \cup {s} /\ req # 0 /\ req' = req
      /\ used' = [used EXCEPT ![s] = 0] /\ pages' = pages
      /\ grown' = TRUE /\ aborted' = aborted
  BY DEF SegmentAlloc
<1>2. /\ count' = [count EXCEPT ![s] = cf]
      /\ offset' = [offset EXCEPT ![s] = of]
      /\ xblock_size' = [xblock_size EXCEPT ![s] = xf]
      /\ queue' = [queue EXCEPT ![b] = @ \cup {<<s, 1>>}]
  BY DEF SegmentAlloc, Push
<1>3. SegOK({1}, {}, cf, of, xf, 0)
  BY FreshOK
<1>4. b \in Bin /\ 1 \in Slice /\ cf[1] = SliceCount - 1
  <2>1. 1 \in Slice /\ SliceCount - 1 \in 1 .. SliceCount - 1
    BY SliceCountAssumption DEF Slice
  <2> QED BY <2>1, BinAssumption DEF FreshCount
<1> HIDE DEF b, cf, of, xf
<1>5. /\ count \in [Segment -> [Slice -> 0 .. SliceCount - 1]]
      /\ offset \in [Segment -> [Slice -> 0 .. SliceCount - 1]]
      /\ xblock_size \in [Segment -> [Slice -> {0, 1}]]
      /\ used \in [Segment -> Nat]
      /\ queue \in [Bin -> SUBSET (Segment \X Slice)]
  BY DEF SInv, TypeOK
<1>6. ASSUME NEW e \in Bin, NEW t \in Segment, NEW j \in Slice
      PROVE  <<t, j>> \in queue'[e] <=>
               <<t, j>> \in queue[e] \/ (e = b /\ t = s /\ j = 1)
  <2>1. <<t, j>> = <<s, 1>> <=> t = s /\ j = 1
    OBVIOUS
  <2> QED BY <1>2, <1>4, <1>5, <2>1
<1>7. ASSUME NEW t \in Segment, t # s PROVE Frees(t)' = Frees(t) /\ PagesOf(t)' = PagesOf(t)
  <2>1. ASSUME NEW j \in Slice PROVE j \in Frees(t)' <=> j \in Frees(t)
    BY <1>6, <1>7, InFrees
  <2>2. Frees(t)' \subseteq Slice /\ Frees(t) \subseteq Slice
    BY DEF Frees
  <2>3. PagesOf(t)' = PagesOf(t)
    BY <1>1 DEF PagesOf
  <2> QED BY <2>1, <2>2, <2>3
<1>8. Frees(s)' = {1} /\ PagesOf(s)' = {}
  <2>1. ASSUME NEW j \in Slice PROVE j \in Frees(s)' <=> j = 1
    <3>1. \A e \in Bin : <<s, j>> \notin queue[e]
      BY <1>1 DEF SInv, InBins
    <3> QED BY <1>4, <1>6, <3>1, InFrees
  <2>2. Frees(s)' \subseteq Slice
    BY DEF Frees
  <2>3. PagesOf(s) = {}
    BY <1>1 DEF SInv
  <2> QED BY <1>1, <1>4, <2>1, <2>2, <2>3 DEF PagesOf
<1>9. ASSUME NEW t \in segs' PROVE Good(t)'
  <2>1. t \in Segment
    BY <1>1 DEF SInv, TypeOK
  <2>2. CASE t = s
    <3>1. count'[s] = cf /\ offset'[s] = of /\ xblock_size'[s] = xf /\ used'[s] = 0
      BY <1>1, <1>2, <1>5
    <3> QED BY <1>3, <1>8, <2>2, <3>1 DEF Good
  <2>3. CASE t # s
    <3>1. /\ count'[t] = count[t] /\ offset'[t] = offset[t]
          /\ xblock_size'[t] = xblock_size[t] /\ used'[t] = used[t]
      BY <1>1, <1>2, <1>5, <2>1, <2>3
    <3>2. Good(t)
      BY <1>1, <2>3 DEF SInv
    <3> QED BY <1>7, <2>1, <2>3, <3>1, <3>2 DEF Good
  <2> QED BY <2>2, <2>3
<1>10. InBins'
  <2>1. ASSUME NEW e \in Bin, NEW t \in Segment, NEW j \in Slice, <<t, j>> \in queue'[e]
        PROVE  t \in segs' /\ e = SliceBin[count'[t][j]]
    <3>1. CASE e = b /\ t = s /\ j = 1
      BY <1>1, <1>2, <1>4, <1>5, <3>1 DEF b
    <3>2. CASE <<t, j>> \in queue[e]
      <4>1. t \in segs /\ e = SliceBin[count[t][j]]
        BY <3>2 DEF SInv, InBins
      <4> QED BY <1>1, <1>2, <1>5, <4>1
    <3> QED BY <1>6, <2>1, <3>1, <3>2
  <2> QED BY <2>1 DEF InBins
<1>11. TypeOK'
  <2>1. cf \in [Slice -> 0 .. SliceCount - 1] /\ of \in [Slice -> 0 .. SliceCount - 1]
        /\ xf \in [Slice -> {0, 1}]
    BY <1>3 DEF SegOK
  <2>2. /\ count' \in [Segment -> [Slice -> 0 .. SliceCount - 1]]
        /\ offset' \in [Segment -> [Slice -> 0 .. SliceCount - 1]]
        /\ xblock_size' \in [Segment -> [Slice -> {0, 1}]]
        /\ used' \in [Segment -> Nat]
    BY <1>1, <1>2, <1>5, <2>1
  <2>3. queue' \in [Bin -> SUBSET (Segment \X Slice)]
    BY <1>2, <1>4, <1>5
  <2> QED BY <1>1, <2>2, <2>3 DEF SInv, TypeOK
<1>12. \A t \in Segment \ segs' : PagesOf(t)' = {}
  BY <1>1, <1>7 DEF SInv
<1>13. GrownIsEnough'
  <2>1. req \in 1 .. SliceCount - 1
    BY <1>1, RequestAssumption DEF SInv, TypeOK
  <2>2. SliceBin[req] <= b /\ SliceBin[req] \in Bin
    BY <2>1, BinMonotone, BinAssumption, SliceCountAssumption DEF b
  <2>3. b \in FirstBin(req) .. SEGMENT_BIN_MAX
    BY <1>4, <2>2, BinAssumption DEF Bin, FirstBin
  <2>4. <<s, 1>> \in queue'[b] /\ count'[s][1] = SliceCount - 1
    BY <1>2, <1>4, <1>5
  <2>5. count'[<<s, 1>>[1]][<<s, 1>>[2]] >= req
    BY <2>1, <2>4, SliceCountAssumption
  <2>6. <<s, 1>> \in Fits(b, req)'
    BY <1>1, <2>4, <2>5 DEF Fits
  <2>7. Found(req)'
    BY <1>1, <2>3, <2>6 DEF Found, FirstBin
  <2> QED BY <1>1, <2>7 DEF GrownIsEnough
<1> QED BY <1>9, <1>10, <1>11, <1>12, <1>13 DEF SInv

\* The other actions leave the segments alone.
LEMMA QuietInv ==
  ASSUME SInv, UNCHANGED <<segs, count, offset, xblock_size, queue, used, pages>>,
         req' \in Request \cup {0}, grown' \in BOOLEAN, aborted' \in BOOLEAN,
         grown' => grown /\ req' = req
  PROVE  SInv'
<1>1. TypeOK'
  BY DEF SInv, TypeOK
<1>2. (\A s \in segs : Good(s))' /\ (\A s \in Segment \ segs : PagesOf(s) = {})'
  BY DEF SInv, Good, Frees, FreeSpans, PagesOf
<1>3. InBins'
  BY DEF SInv, InBins
<1>4. GrownIsEnough'
  BY DEF SInv, GrownIsEnough, Found, Fits, FirstBin
<1> QED BY <1>1, <1>2, <1>3, <1>4 DEF SInv

\* Every step keeps all segments in order.
LEMMA NextSInv ==
  ASSUME SInv, [Next]_vars
  PROVE  SInv'
<1>1. ASSUME NEW n \in Request, PageAlloc(n) PROVE SInv'
  BY <1>1, QuietInv DEF PageAlloc, SInv, TypeOK
<1>2. ASSUME NEW b \in Bin, NEW s \in Segment, NEW i \in Slice, FindAndAllocate(b, s, i)
      PROVE  SInv'
  BY <1>2, TakeInv
<1>3. ASSUME NEW s \in Segment, SegmentAlloc(s) PROVE SInv'
  BY <1>3, GrowInv
<1>4. CASE AllocFails
  BY <1>4, QuietInv DEF AllocFails, SInv, TypeOK
<1>5. CASE AllocMisaligned \/ CommitRefused
  <2>1. aborted' = TRUE
        /\ UNCHANGED <<segs, count, offset, xblock_size, queue, used, pages, req, grown>>
    BY <1>5 DEF AllocMisaligned, CommitRefused
  <2> QED BY <2>1, QuietInv DEF SInv, TypeOK
<1>6. ASSUME NEW s \in Segment, NEW i \in Slice, PageFree(s, i) PROVE SInv'
  BY <1>6, GiveInv
<1>7. CASE UNCHANGED vars
  BY <1>7, QuietInv DEF vars, SInv, TypeOK
<1> QED BY <1>1, <1>2, <1>3, <1>4, <1>5, <1>6, <1>7 DEF Next, Aborted

\* The segments stay in order.
LEMMA SpecSInv == Spec => []SInv
<1>1. SInv /\ [Next]_vars => SInv'
  BY NextSInv
<1> QED BY <1>1, InitSInv, PTL DEF Spec

-----------------------------------------------------------------------------
(* What the invariant says                                                  *)

\* a page or a free span is a pair of a segment and a slice of it
LEMMA Pairs ==
  ASSUME SInv
  PROVE  /\ \A p \in pages :
              /\ p[1] \in segs /\ p[2] \in PagesOf(p[1]) /\ p = <<p[1], p[2]>>
         /\ \A p \in FreeSpans :
              /\ p[1] \in segs /\ p[2] \in Frees(p[1]) /\ p = <<p[1], p[2]>>
<1>1. ASSUME NEW p \in pages
      PROVE  p[1] \in segs /\ p[2] \in PagesOf(p[1]) /\ p = <<p[1], p[2]>>
  <2>1. p \in Segment \X Slice
    BY DEF SInv, TypeOK
  <2>2. p = <<p[1], p[2]>> /\ p[1] \in Segment /\ p[2] \in Slice
    BY <2>1
  <2>3. p[2] \in PagesOf(p[1])
    BY <2>2 DEF PagesOf
  <2> QED BY <2>2, <2>3 DEF SInv
<1>2. ASSUME NEW p \in FreeSpans
      PROVE  p[1] \in segs /\ p[2] \in Frees(p[1]) /\ p = <<p[1], p[2]>>
  <2>1. PICK b \in Bin : p \in queue[b]
    BY DEF FreeSpans
  <2>2. p \in Segment \X Slice
    BY <2>1 DEF SInv, TypeOK
  <2>3. p = <<p[1], p[2]>> /\ p[1] \in Segment /\ p[2] \in Slice
    BY <2>2
  <2>4. <<p[1], p[2]>> \in queue[b]
    BY <2>1, <2>3
  <2> QED BY <2>3, <2>4, InFrees DEF SInv, InBins
<1> QED BY <1>1, <1>2

\* The spans of every segment lie side by side, whatever the requests and the
\* number of slices (segment_slice_split, segment_span_free_coalesce).
THEOREM TilingHolds == Spec => []Tiling
<1>1. SInv => Tiling
  <2> SUFFICES ASSUME SInv, NEW s \in segs PROVE Tiles(Heads(s), count[s])
    BY DEF Tiling
  <2>1. Heads(s) = {0} \cup Frees(s) \cup PagesOf(s)
    BY DEF Heads, Frees, PagesOf
  <2> QED BY <2>1 DEF SInv, Good, SegOK
<1> QED BY <1>1, SpecSInv, PTL

\* The offset of every slice of a page leads to its first slice (the page a
\* block is freed to, free.rs).
THEOREM PageLookupHolds == Spec => []PageLookup
<1>1. SInv => PageLookup
  <2> SUFFICES ASSUME SInv, NEW p \in pages, NEW j \in 0 .. count[p[1]][p[2]] - 1
               PROVE  offset[p[1]][p[2] + j] = j
    BY DEF PageLookup
  <2> DEFINE s == p[1]  i == p[2]  c == count[s][i]
  <2>1. s \in segs /\ i \in PagesOf(s)
    BY Pairs
  <2>2. SegOK(Frees(s), PagesOf(s), count[s], offset[s], xblock_size[s], used[s])
    BY <2>1 DEF SInv, Good
  <2>3. i \in Int /\ c \in Int
    <3>1. i \in Slice /\ count[s] \in [Slice -> 0 .. SliceCount - 1]
      BY <2>1, <2>2 DEF SegOK
    <3>2. c \in 0 .. SliceCount - 1
      BY <3>1
    <3> QED BY <3>1, <3>2, SliceCountAssumption DEF Slice
  <2>4. \A k \in i .. i + c - 1 : offset[s][k] = k - i
    BY <2>1, <2>2 DEF SegOK
  <2>5. i + j \in i .. i + c - 1 /\ (i + j) - i = j
    BY <2>3
  <2> QED BY <2>4, <2>5
<1> QED BY <1>1, SpecSInv, PTL

\* A span is in the queue of its size exactly if it is free (span_queue_delete
\* finds it where the count of its header says).
THEOREM QueueExactHolds == Spec => []QueueExact
<1>1. SInv => QueueExact
  <2> SUFFICES ASSUME SInv PROVE QueueExact
    OBVIOUS
  <2>1. ASSUME NEW b \in Bin, NEW p \in queue[b]
        PROVE  /\ p[1] \in segs /\ xblock_size[p[1]][p[2]] = 0
               /\ count[p[1]][p[2]] >= 1 /\ b = SliceBin[count[p[1]][p[2]]]
    <3>1. p \in FreeSpans
      BY DEF FreeSpans
    <3>2. p[1] \in segs /\ p[2] \in Frees(p[1]) /\ p = <<p[1], p[2]>>
      BY <3>1, Pairs
    <3>3. SegOK(Frees(p[1]), PagesOf(p[1]), count[p[1]], offset[p[1]], xblock_size[p[1]], used[p[1]])
      BY <3>2 DEF SInv, Good
    <3>4. count[p[1]][p[2]] >= 1
      BY <3>2, <3>3, Around
    <3>5. xblock_size[p[1]][p[2]] = 0
      BY <3>2, <3>3 DEF SegOK
    <3>6. <<p[1], p[2]>> \in queue[b] /\ p[2] \in Slice /\ p[1] \in Segment
      BY <3>2 DEF Frees, SInv, TypeOK
    <3>7. b = SliceBin[count[p[1]][p[2]]]
      BY <3>6 DEF SInv, InBins
    <3> QED BY <3>2, <3>4, <3>5, <3>7
  <2>2. ASSUME NEW p \in pages PROVE p[1] \in segs /\ xblock_size[p[1]][p[2]] = 1
    BY Pairs DEF SInv, Good, SegOK
  <2> QED BY <2>1, <2>2 DEF QueueExact
<1> QED BY <1>1, SpecSInv, PTL

\* Coalescing is complete: no two free spans touch.
THEOREM NoFreeNeighboursHolds == Spec => []NoFreeNeighbours
<1>1. SInv => NoFreeNeighbours
  <2> SUFFICES ASSUME SInv, NEW p \in FreeSpans,
                      <<p[1], p[2] + count[p[1]][p[2]]>> \in FreeSpans
               PROVE  FALSE
    BY DEF NoFreeNeighbours
  <2> DEFINE s == p[1]  k == p[2] + count[p[1]][p[2]]  r == <<s, k>>
  <2>1. s \in segs /\ p[2] \in Frees(s)
    BY Pairs
  <2>2. r[2] \in Frees(r[1])
    BY Pairs
  <2>3. k \in Frees(s)
    BY <2>2
  <2> QED BY <2>1, <2>3 DEF SInv, Good, SegOK
<1> QED BY <1>1, SpecSInv, PTL

\* The counter used of a segment is the number of its pages, so segment_free
\* is called exactly for the last one (segment_page_free).
THEOREM UsedIsPagesHolds == Spec => []UsedIsPages
<1>1. SInv => UsedIsPages
  BY DEF SInv, Good, SegOK, UsedIsPages, PagesOf
<1> QED BY <1>1, SpecSInv, PTL

\* The types of the header fields.
THEOREM SpanTypes == Spec => []TypeOK
<1>1. SInv => TypeOK
  BY DEF SInv
<1> QED BY <1>1, SpecSInv, PTL

\* LiveHeadersUntouched for one step
HeadersStay ==
  \A p \in pages \cap pages' :
    \A j \in p[2] .. p[2] + count[p[1]][p[2]] - 1 :
      /\ offset'[p[1]][j] = offset[p[1]][j]
      /\ count'[p[1]][j] = count[p[1]][j]
      /\ xblock_size'[p[1]][j] = xblock_size[p[1]][j]

\* No step writes a header of a page that is in use before and after it.
LEMMA HeadersKept == SInv /\ [Next]_vars => HeadersStay
<1>1. ASSUME SInv, NEW s \in Segment,
             \A t \in Segment : t # s =>
               count'[t] = count[t] /\ offset'[t] = offset[t] /\ xblock_size'[t] = xblock_size[t],
             \A h \in PagesOf(s) : <<s, h>> \in pages' =>
               \A j \in h .. h + count[s][h] - 1 :
                 /\ count'[s][j] = count[s][j]
                 /\ offset'[s][j] = offset[s][j]
                 /\ xblock_size'[s][j] = xblock_size[s][j]
      PROVE  HeadersStay
  <2> SUFFICES ASSUME NEW p \in pages \cap pages',
                      NEW j \in p[2] .. p[2] + count[p[1]][p[2]] - 1
               PROVE  /\ offset'[p[1]][j] = offset[p[1]][j]
                      /\ count'[p[1]][j] = count[p[1]][j]
                      /\ xblock_size'[p[1]][j] = xblock_size[p[1]][j]
    BY DEF HeadersStay
  <2>1. p[1] \in Segment /\ p[2] \in PagesOf(p[1]) /\ p = <<p[1], p[2]>>
    BY <1>1, Pairs DEF SInv, TypeOK
  <2>2. CASE p[1] # s
    BY <1>1, <2>1, <2>2
  <2>3. CASE p[1] = s
    BY <1>1, <2>1, <2>3
  <2> QED BY <2>2, <2>3
<1>2. ASSUME SInv, NEW b \in Bin, NEW s \in Segment, NEW i \in Slice, FindAndAllocate(b, s, i)
      PROVE  HeadersStay
  <2>1. /\ count' = [count EXCEPT ![s] = TakeCount(count[s], i, req)]
        /\ offset' = [offset EXCEPT ![s] = TakeOffset(count[s], offset[s], i, req)]
        /\ xblock_size' = [xblock_size EXCEPT ![s] = TakeBlock(count[s], xblock_size[s], i, req)]
    BY <1>2 DEF FindAndAllocate
  <2>2. TakeResult(Frees(s), PagesOf(s), count[s], offset[s], xblock_size[s], used[s], i, req)
    BY <1>2, Taken
  <2>3. count \in [Segment -> [Slice -> 0 .. SliceCount - 1]]
        /\ offset \in [Segment -> [Slice -> 0 .. SliceCount - 1]]
        /\ xblock_size \in [Segment -> [Slice -> {0, 1}]]
    BY <1>2 DEF SInv, TypeOK
  <2>4. /\ count'[s] = TakeCount(count[s], i, req)
        /\ offset'[s] = TakeOffset(count[s], offset[s], i, req)
        /\ xblock_size'[s] = TakeBlock(count[s], xblock_size[s], i, req)
        /\ \A t \in Segment : t # s =>
             count'[t] = count[t] /\ offset'[t] = offset[t] /\ xblock_size'[t] = xblock_size[t]
    BY <2>1, <2>3
  <2>5. \A h \in PagesOf(s) : \A j \in h .. h + count[s][h] - 1 :
          /\ count'[s][j] = count[s][j]
          /\ offset'[s][j] = offset[s][j]
          /\ xblock_size'[s][j] = xblock_size[s][j]
    BY <2>2, <2>4 DEF TakeResult
  <2> QED BY <1>1, <1>2, <2>4, <2>5
<1>3. ASSUME SInv, NEW s \in Segment, NEW i \in Slice, PageFree(s, i)
      PROVE  HeadersStay
  <2>1. /\ count' = [count EXCEPT ![s] = FreedCount(count[s], offset[s], xblock_size[s], i)]
        /\ offset' = [offset EXCEPT ![s] = FreedOffset(count[s], offset[s], xblock_size[s], i)]
        /\ xblock_size' = [xblock_size EXCEPT ![s] =
                             FreedBlock(count[s], offset[s], xblock_size[s], i)]
    BY <1>3 DEF PageFree
  <2>2. GiveResult(Frees(s), PagesOf(s), count[s], offset[s], xblock_size[s], used[s], i)
    BY <1>3, Given
  <2>3. count \in [Segment -> [Slice -> 0 .. SliceCount - 1]]
        /\ offset \in [Segment -> [Slice -> 0 .. SliceCount - 1]]
        /\ xblock_size \in [Segment -> [Slice -> {0, 1}]]
    BY <1>3 DEF SInv, TypeOK
  <2>4. /\ count'[s] = FreedCount(count[s], offset[s], xblock_size[s], i)
        /\ offset'[s] = FreedOffset(count[s], offset[s], xblock_size[s], i)
        /\ xblock_size'[s] = FreedBlock(count[s], offset[s], xblock_size[s], i)
        /\ \A t \in Segment : t # s =>
             count'[t] = count[t] /\ offset'[t] = offset[t] /\ xblock_size'[t] = xblock_size[t]
    BY <2>1, <2>3
  <2>5. \A h \in PagesOf(s) \ {i} : \A j \in h .. h + count[s][h] - 1 :
          /\ count'[s][j] = count[s][j]
          /\ offset'[s][j] = offset[s][j]
          /\ xblock_size'[s][j] = xblock_size[s][j]
    BY <2>2, <2>4 DEF GiveResult
  <2>6. <<s, i>> \notin pages'
    BY <1>3 DEF PageFree
  <2> QED BY <1>1, <1>3, <2>4, <2>5, <2>6
<1>4. ASSUME SInv, NEW s \in Segment, SegmentAlloc(s)
      PROVE  HeadersStay
  <2>1. PagesOf(s) = {}
    BY <1>4 DEF SegmentAlloc, SInv
  <2>2. \A t \in Segment : t # s =>
          count'[t] = count[t] /\ offset'[t] = offset[t] /\ xblock_size'[t] = xblock_size[t]
    BY <1>4 DEF SegmentAlloc, SInv, TypeOK
  <2> QED BY <1>1, <1>4, <2>1, <2>2
<1>5. ASSUME UNCHANGED <<count, offset, xblock_size>> PROVE HeadersStay
  BY <1>5 DEF HeadersStay
<1> QED BY <1>2, <1>3, <1>4, <1>5 DEF Next, PageAlloc, AllocFails, AllocMisaligned,
           CommitRefused, Aborted, vars

\* No step of the owner writes a header of a page that stays in use; other
\* threads read these headers without a lock (free.rs).
THEOREM LiveHeaders == Spec => LiveHeadersUntouched
<1>1. SInv /\ [Next]_vars => [HeadersStay]_vars
  BY HeadersKept
<1>2. LiveHeadersUntouched <=> [][HeadersStay]_vars
  BY DEF LiveHeadersUntouched, HeadersStay
<1> QED BY <1>1, <1>2, SpecSInv, PTL DEF Spec

-----------------------------------------------------------------------------
(* SegmentSpans implements SpanSpec                                         *)

Alloc == {<<p[1], p[2], count[p[1]][p[2]]>> : p \in pages}

\* the pages of SpanSpec, by segment and first slice
LEMMA InAlloc ==
  ASSUME SInv
  PROVE  /\ \A s \in Segment : \A h \in PagesOf(s) : <<s, h, count[s][h]>> \in Alloc
         /\ \A x \in Alloc : /\ x[1] \in segs /\ x[2] \in PagesOf(x[1])
                            /\ x[3] = count[x[1]][x[2]] /\ x = <<x[1], x[2], x[3]>>
<1>1. ASSUME NEW s \in Segment, NEW h \in PagesOf(s) PROVE <<s, h, count[s][h]>> \in Alloc
  <2> DEFINE p == <<s, h>>
  <2>1. p \in pages /\ p[1] = s /\ p[2] = h
    BY DEF PagesOf
  <2> QED BY <2>1 DEF Alloc
<1>2. ASSUME NEW x \in Alloc
      PROVE  /\ x[1] \in segs /\ x[2] \in PagesOf(x[1])
             /\ x[3] = count[x[1]][x[2]] /\ x = <<x[1], x[2], x[3]>>
  <2>1. PICK p \in pages : x = <<p[1], p[2], count[p[1]][p[2]]>>
    BY DEF Alloc
  <2>2. p[1] \in segs /\ p[2] \in PagesOf(p[1])
    BY Pairs
  <2> QED BY <2>1, <2>2
<1> QED BY <1>1, <1>2

\* If n adjacent slices are in no page the search finds a span: they lie in one
\* free span, because no two free spans touch, and its bin is not below that of n.
LEMMA RoomFound ==
  ASSUME SInv, NEW n \in 1 .. SliceCount - 1, Heap!Room(n)
  PROVE  Found(n)
<1>1. PICK s \in Segment, i \in 1 .. SliceCount - 1 : Heap!Vacant(s, i, n)
  BY DEF Heap!Room
<1> DEFINE F == Frees(s)
           P == PagesOf(s)
           c == count[s]
           H == {0} \cup F \cup P
<1>2. /\ s \in segs /\ i \in Int /\ n \in Int /\ 1 <= i /\ 1 <= n /\ i + n <= SliceCount
      /\ \A x \in Alloc : x[1] = s => (x[2] .. x[2] + x[3] - 1) \cap (i .. i + n - 1) = {}
  BY <1>1 DEF Heap!Vacant, Heap!Run, Alloc
<1>3. SegOK(F, P, c, offset[s], xblock_size[s], used[s])
  BY <1>2 DEF SInv, Good
<1>4. /\ H \in SUBSET Slice /\ c \in [Slice -> Int]
      /\ \A h \in H :
              /\ h \in Int /\ 0 <= h /\ h < SliceCount
              /\ c[h] \in Int /\ c[h] >= 1
              /\ h + c[h] <= SliceCount
              /\ h + c[h] \in H \cup {SliceCount}
              /\ \A j \in H : j > h => j >= h + c[h]
  BY <1>3, Around
<1>5. Tiles(H, c) /\ c[0] = 1 /\ \A h \in F : h + c[h] \notin F
  BY <1>3 DEF SegOK
<1>6. \A h \in P : (h .. h + c[h] - 1) \cap (i .. i + n - 1) = {}
  <2>1. ASSUME NEW h \in P PROVE (h .. h + c[h] - 1) \cap (i .. i + n - 1) = {}
    <3> DEFINE x == <<s, h, c[h]>>
    <3>1. x \in Alloc /\ x[1] = s /\ x[2] = h /\ x[3] = c[h]
      BY InAlloc
    <3> HIDE DEF x
    <3> QED BY <1>2, <3>1
  <2> QED BY <2>1
<1> HIDE DEF F, P, c
<1>7. i \in Slice
  BY SliceCountAssumption DEF Slice
<1>8. PICK h \in H : h <= i /\ i < h + c[h]
  BY <1>5, <1>7 DEF Tiles
<1>9. h \in F
  <2>1. h # 0
    BY <1>2, <1>5, <1>8
  <2>2. h \notin P
    BY <1>2, <1>4, <1>6, <1>8
  <2> QED BY <2>1, <2>2
<1>10. n <= c[h]
  <2> SUFFICES ASSUME n > c[h] PROVE FALSE
    BY <1>2, <1>4
  <2> DEFINE k == h + c[h]
  <2>1. k \in Int /\ i < k /\ k < i + n /\ k \in H /\ k # 0
    BY <1>2, <1>4, <1>8, SliceCountAssumption
  <2>2. k \notin F
    BY <1>5, <1>9
  <2>3. k \in P /\ c[k] \in Int /\ c[k] >= 1
    BY <1>4, <2>1, <2>2
  <2>4. k \in k .. k + c[k] - 1 /\ k \in i .. i + n - 1
    BY <1>2, <2>1, <2>3
  <2> QED BY <1>6, <2>3, <2>4
<1>11. PICK b \in Bin : <<s, h>> \in queue[b]
  BY <1>9, InFrees DEF F
<1>12. h \in Slice /\ c[h] \in 1 .. SliceCount - 1
  <2>1. c \in [Slice -> 0 .. SliceCount - 1]
    BY <1>3 DEF SegOK, c
  <2> QED BY <1>4, <1>9, <2>1, SliceCountAssumption
<1>13. b = SliceBin[c[h]]
  BY <1>11, <1>12 DEF SInv, InBins, c
<1>14. b \in FirstBin(n) .. SEGMENT_BIN_MAX
  <2>1. SliceBin[n] <= SliceBin[c[h]] /\ SliceBin[n] \in Bin
    BY <1>10, <1>12, BinMonotone, BinAssumption
  <2> QED BY <1>13, <2>1, BinAssumption DEF FirstBin, Bin
<1>15. <<s, h>> \in Fits(b, n)
  <2>1. <<s, h>>[1] = s /\ <<s, h>>[2] = h /\ count[s][h] >= n
    BY <1>2, <1>4, <1>10 DEF c
  <2> QED BY <1>11, <2>1 DEF Fits
<1> QED BY <1>14, <1>15 DEF Found

\* Alloc if no page comes or goes and the counts of pages stay
LEMMA AllocSame ==
  ASSUME pages' = pages, \A p \in pages : count'[p[1]][p[2]] = count[p[1]][p[2]]
  PROVE  Alloc' = Alloc
BY DEF Alloc

\* FindAndAllocate takes slices that are in no page.
LEMMA TakeStep ==
  ASSUME SInv, NEW b \in Bin, NEW s \in Segment, NEW i \in Slice, FindAndAllocate(b, s, i)
  PROVE  i \in 1 .. SliceCount - 1 /\ Heap!Take(s, i)
<1> DEFINE n == req
           F == Frees(s)
           P == PagesOf(s)
           c == count[s]
<1>1. /\ s \in segs /\ i \in F /\ n \in 1 .. c[i]
      /\ TakeResult(F, P, c, offset[s], xblock_size[s], used[s], i, n)
  BY Taken
<1>2. SegOK(F, P, c, offset[s], xblock_size[s], used[s])
  BY <1>1 DEF SInv, Good
<1>3. \A h \in {0} \cup F \cup P :
        /\ h \in Int /\ 0 <= h /\ h < SliceCount /\ c[h] \in Int /\ c[h] >= 1
        /\ h + c[h] <= SliceCount
        /\ \A j \in {0} \cup F \cup P : j > h => j >= h + c[h]
  BY <1>2, Around
<1>4. 0 \notin F /\ i \notin P
  BY <1>1, <1>2 DEF SegOK
<1>5. /\ i \in Int /\ 1 <= i /\ n \in Int /\ 1 <= n /\ n <= c[i] /\ c[i] \in Int
      /\ i + c[i] <= SliceCount
  BY <1>1, <1>3, <1>4
<1>6. i \in 1 .. SliceCount - 1 /\ i + n <= SliceCount
  BY <1>5, SliceCountAssumption
<1>7. ASSUME NEW x \in Alloc, x[1] = s
      PROVE  (x[2] .. x[2] + x[3] - 1) \cap (i .. i + n - 1) = {}
  <2>1. x[2] \in P /\ x[3] = c[x[2]]
    BY <1>7, InAlloc
  <2>2. ASSUME NEW h \in P, NEW j \in Int, h <= j, j < h + c[h], i <= j, j < i + n PROVE FALSE
    <3>1. h # i /\ h \in Int /\ c[h] \in Int
      BY <1>3, <1>4
    <3>2. CASE h < i
      <4>1. i >= h + c[h]
        BY <1>1, <1>3, <3>2
      <4> QED BY <1>5, <2>2, <3>1, <4>1
    <3>3. CASE i < h
      <4>1. h >= i + c[i]
        BY <1>1, <1>3, <3>3
      <4> QED BY <1>5, <2>2, <3>1, <4>1
    <3> QED BY <1>5, <3>1, <3>2, <3>3
  <2>3. x[2] \in Int /\ x[3] \in Int
    BY <1>3, <2>1
  <2> HIDE DEF n, P, c
  <2> QED BY <1>5, <2>1, <2>2, <2>3
<1>8. Heap!Vacant(s, i, req)
  BY <1>1, <1>5, <1>6, <1>7 DEF Heap!Vacant, Heap!Run, Alloc
<1>9. /\ pages' = pages \cup {<<s, i>>} /\ req' = 0 /\ grown' = FALSE /\ segs' = segs /\ req # 0
      /\ count' = [count EXCEPT ![s] = TakeCount(c, i, n)]
  BY DEF FindAndAllocate, TakeCount, SplitLast
<1>10. count \in [Segment -> [Slice -> 0 .. SliceCount - 1]]
  BY DEF SInv, TypeOK
<1>11. /\ count'[s] = TakeCount(c, i, n)
       /\ \A t \in Segment : t # s => count'[t] = count[t]
  BY <1>9, <1>10
<1>12. count'[s][i] = n
  BY <1>1, <1>11 DEF TakeResult
<1>13. ASSUME NEW p \in pages PROVE count'[p[1]][p[2]] = count[p[1]][p[2]]
  <2>1. p[1] \in Segment /\ p[2] \in PagesOf(p[1])
    BY Pairs DEF SInv, TypeOK
  <2>2. CASE p[1] = s
    <3>1. p[2] \in P /\ p[2] # i
      BY <1>4, <2>1, <2>2
    <3> QED BY <1>1, <1>11, <2>2, <3>1 DEF TakeResult
  <2>3. CASE p[1] # s
    BY <1>11, <2>1, <2>3
  <2> QED BY <2>2, <2>3
<1>14. Alloc' = Alloc \cup {<<s, i, req>>}
  <2> DEFINE g(p) == <<p[1], p[2], count[p[1]][p[2]]>>
             gp(p) == <<p[1], p[2], count'[p[1]][p[2]]>>
  <2>1. Alloc' = {gp(p) : p \in pages \cup {<<s, i>>}} /\ Alloc = {g(p) : p \in pages}
    BY <1>9 DEF Alloc
  <2>2. \A p \in pages : gp(p) = g(p)
    BY <1>13
  <2>3. gp(<<s, i>>) = <<s, i, req>>
    BY <1>12
  <2> HIDE DEF g, gp
  <2> QED BY <2>1, <2>2, <2>3
<1> QED BY <1>6, <1>8, <1>9, <1>14 DEF Heap!Take, Alloc

\* PageFree gives one page back and leaves the others.
LEMMA GiveStep ==
  ASSUME SInv, NEW s \in Segment, NEW i \in Slice, PageFree(s, i)
  PROVE  \E x \in Alloc : Heap!Give(x)
<1> DEFINE x == <<s, i, count[s][i]>>
<1>1. i \in PagesOf(s) /\ x \in Alloc
  BY Given, InAlloc
<1>2. pages' = pages \ {<<s, i>>} /\ req = 0 /\ UNCHANGED <<segs, req, grown>>
  BY DEF PageFree
<1>3. ASSUME NEW p \in pages, p # <<s, i>> PROVE count'[p[1]][p[2]] = count[p[1]][p[2]]
  <2>1. p[1] \in Segment /\ p[2] \in PagesOf(p[1]) /\ p = <<p[1], p[2]>> /\ p[1] \in segs
    BY Pairs DEF SInv, TypeOK
  <2>2. SegOK(Frees(p[1]), PagesOf(p[1]), count[p[1]], offset[p[1]], xblock_size[p[1]], used[p[1]])
    BY <2>1 DEF SInv, Good
  <2>3. count[p[1]][p[2]] \in Int /\ count[p[1]][p[2]] >= 1 /\ p[2] \in Int
    BY <2>1, <2>2, Around
  <2>4. p[2] \in p[2] .. p[2] + count[p[1]][p[2]] - 1
    BY <2>3
  <2>5. p \in pages \cap pages'
    BY <1>2, <1>3
  <2>6. HeadersStay
    BY HeadersKept DEF Next
  <2> QED BY <2>4, <2>5, <2>6 DEF HeadersStay
<1>4. Alloc' = Alloc \ {x}
  <2> DEFINE g(p) == <<p[1], p[2], count[p[1]][p[2]]>>
             gp(p) == <<p[1], p[2], count'[p[1]][p[2]]>>
  <2>1. Alloc' = {gp(p) : p \in pages \ {<<s, i>>}} /\ Alloc = {g(p) : p \in pages}
    BY <1>2 DEF Alloc
  <2>2. \A p \in pages \ {<<s, i>>} : gp(p) = g(p)
    BY <1>3
  <2>3. \A p \in pages : g(p) = x => p = <<s, i>>
    BY Pairs
  <2>4. g(<<s, i>>) = x
    OBVIOUS
  <2> HIDE DEF g, gp, x
  <2> QED BY <2>1, <2>2, <2>3, <2>4
<1> HIDE DEF x
<1> QED BY <1>1, <1>2, <1>4 DEF Heap!Give, Alloc

\* The segments keep the promise of SpanSpec, for every number of slices, every
\* set of page sizes and every monotone slice_bin (segments_page_alloc).
THEOREM Implements == Spec => KeepsSpanPromise
<1>1. Init => Heap!Init
  BY DEF Init, Heap!Init
<1>2. ASSUME SInv, [Next]_vars PROVE [Heap!Next]_(Heap!vars)
  <2>1. ASSUME NEW n \in Request, PageAlloc(n) PROVE Heap!Ask(n)
    BY <2>1 DEF PageAlloc, Heap!Ask
  <2>2. ASSUME NEW b \in Bin, NEW s \in Segment, NEW i \in Slice, FindAndAllocate(b, s, i)
        PROVE  i \in 1 .. SliceCount - 1 /\ Heap!Take(s, i)
    BY <1>2, <2>2, TakeStep
  <2>3. ~Found(req) /\ req # 0 => ~grown /\ ~Heap!Room(req)
    <3>1. req # 0 => req \in 1 .. SliceCount - 1
      BY <1>2, RequestAssumption DEF SInv, TypeOK
    <3> QED BY <1>2, <3>1, RoomFound DEF SInv, GrownIsEnough
  <2>4. ASSUME NEW s \in Segment, SegmentAlloc(s) PROVE Heap!Grow(s)
    <3>1. \A p \in pages : count'[p[1]][p[2]] = count[p[1]][p[2]]
      BY <1>2, <2>4, Pairs DEF SegmentAlloc, SInv, TypeOK
    <3>2. Alloc' = Alloc
      BY <2>4, <3>1, AllocSame DEF SegmentAlloc
    <3> QED BY <2>3, <2>4, <3>2 DEF SegmentAlloc, Heap!Grow, Alloc
  <2>5. ASSUME AllocFails PROVE Heap!Refuse
    BY <2>3, <2>5 DEF AllocFails, Heap!Refuse
  <2>6. ASSUME NEW s \in Segment, NEW i \in Slice, PageFree(s, i)
        PROVE  \E x \in Alloc : Heap!Give(x)
    BY <1>2, <2>6, GiveStep
  <2>7. ASSUME AllocMisaligned \/ CommitRefused \/ UNCHANGED vars PROVE UNCHANGED Heap!vars
    BY <2>7 DEF AllocMisaligned, CommitRefused, vars, Heap!vars
  <2> QED BY <1>2, <2>1, <2>2, <2>4, <2>5, <2>6, <2>7 DEF Next, Aborted, Heap!Next, Alloc
<1> QED BY <1>1, <1>2, SpecSInv, PTL DEF Spec, KeepsSpanPromise, Heap!Spec
=============================================================================
