--------------------------- MODULE PageOrgProofs ---------------------------
(***************************************************************************)
(* The theorems about PageOrg.  OrgInv is inductive.                       *)
(*                                                                         *)
(* The invariants of the source follow a segment from its beginning, span  *)
(* by span (attached_rec).  OrgInv says the same of every span for itself: *)
(* where it ends another one begins, and where it begins another one ends. *)
(* What a transition does to one span is then seen at this span and its    *)
(* neighbours.  The walk of the source is recovered from OrgInv by         *)
(* induction from the end of the segment (SegmentAttached).                 *)
(***************************************************************************)
EXTENDS PageOrg, SequenceTheorems, FiniteSetTheorems, FunctionTheorems,
        NaturalsInduction, WellFoundedInduction, TLAPS

N == SLICES_PER_SEGMENT
Slice == 0 .. N - 1

-----------------------------------------------------------------------------
(* The invariant                                                            *)

Link == PageId \cup {NONE}
Dlist == [prev : Link, next : Link]
PageData == [dlist : Dlist \cup {NONE}, count : 1 .. N \cup {NONE}, offset : Slice \cup {NONE},
             is_used : BOOLEAN, full : BOOLEAN \cup {NONE}, kind : ValidBin \cup {NONE}]
PagesType == [PageId -> PageData]
Ends == [first : Link, last : Link]

TypeOK ==
  /\ pages \in PagesType
  /\ DOMAIN used \subseteq Segment /\ used \in [DOMAIN used -> Int]
  /\ unused_headers \in [Sbin -> Ends] /\ unused_lists \in [Sbin -> Seq(PageId)]
  /\ used_headers \in [UsedBin -> Ends] /\ used_lists \in [UsedBin -> Seq(PageId)]

\* slice i of segment s is the first one of a range that is taken out and blank
Hole(pop, s, i) == pop.tag = "VeryUnready" /\ pop.seg = s /\ pop.start = i
IsReady(pop, p) == pop.tag = "Ready" /\ pop.page = p
IsTaken(pop, p) == pop.tag = "Used" /\ pop.page = p
PopOn(pop, p)   == Hole(pop, p[1], p[2]) \/ IsReady(pop, p) \/ IsTaken(pop, p)

\* the spans of a segment: at the first slice of each the number of its slices
Ext(pg, pop, s) ==
  [i \in Slice |-> IF Hole(pop, s, i) THEN pop.count
                   ELSE IF pg[<<s, i>>].offset = 0 THEN pg[<<s, i>>].count ELSE 0]

\* where the spans of a segment begin; it is being set up or given up otherwise
Lo(pop, s) ==
  CASE pop.tag = "SegmentCreating" /\ pop.seg = s -> N
    [] pop.tag = "SegmentFreeing" /\ pop.seg = s -> pop.idx
    [] OTHER -> 0

\* what the span that begins at slice i is
Class(pg, pop, s, i) ==
  CASE Hole(pop, s, i) -> "gone"
    [] IsReady(pop, <<s, i>>) -> "ready"
    [] IsTaken(pop, <<s, i>>) -> "taken"
    [] OTHER -> IF i = 0 THEN "head" ELSE IF pg[<<s, i>>].is_used THEN "page" ELSE "free"

\* the spans e lie side by side from slice lo up to the end
Tiling(e, lo) ==
  /\ e \in [Slice -> 0 .. N]
  /\ lo \in 0 .. N
  /\ lo < N => e[lo] # 0
  /\ \A i \in Slice : e[i] # 0 =>
       /\ lo <= i /\ i + e[i] <= N
       /\ i + e[i] < N => e[i + e[i]] # 0
       /\ \A k \in i + 1 .. i + e[i] - 1 : e[k] = 0
       /\ i # lo => \E j \in Slice : e[j] # 0 /\ j + e[j] = i

\* header r of slice k of a span of n slices
Piece(r, k, n, c) ==
  /\ r.count = IF k = 0 /\ c # "gone" THEN n ELSE NONE
  /\ r.offset = IF c = "gone" \/ (c = "free" /\ k # 0 /\ k # n - 1) THEN NONE ELSE k
  /\ r.is_used <=> c \in {"page", "taken"}
  /\ r.dlist # NONE <=> c \in {"page", "free"} /\ k = 0
  /\ r.full # NONE <=> c = "page" /\ k = 0
  /\ r.kind # NONE <=> c \in {"page", "taken"} /\ k = 0

\* the n slices from a are a span
Span(pg, s, a, n, c) == \A x \in a .. a + n - 1 : Piece(pg[<<s, x>>], x - a, n, c)

Empty(r) ==
  /\ r.dlist = NONE /\ r.count = NONE /\ r.offset = NONE
  /\ ~r.is_used /\ r.full = NONE /\ r.kind = NONE

SegmentOK(pg, pop, s) ==
  /\ Tiling(Ext(pg, pop, s), Lo(pop, s))
  /\ \A a \in Slice : Ext(pg, pop, s)[a] # 0 =>
       Span(pg, s, a, Ext(pg, pop, s)[a], Class(pg, pop, s, a))
  /\ \A i \in 0 .. Lo(pop, s) - 1 : Empty(pg[<<s, i>>])

OutsideOK(pg, D) ==
  \A q \in PageId : q[2] = N \/ q[1] \notin D => Empty(pg[q])

PoppedOK(pg, pop, u) ==
  \/ pop = No
  \/ \E p \in PageId, b \in BOOLEAN :
       /\ pop = Ready(p, b) \/ pop = Used(p, b)
       /\ p[1] \in DOMAIN u /\ p[2] \in 1 .. N - 1
       /\ pg[p].offset = 0
       /\ pg[p].is_used <=> pop.tag = "Used"
  \/ \E s \in DOMAIN u, i \in 1 .. N - 1, n \in 1 .. N, b \in BOOLEAN :
       pop = VeryUnready(s, i, n, b)
  \/ \E s \in DOMAIN u : pop = SegmentCreating(s) /\ u[s] = 0
  \/ \E s \in DOMAIN u, i \in 1 .. N : pop = SegmentFreeing(s, i) /\ u[s] = 0
  \/ \E s \in DOMAIN u : pop = ExtraCount(s)

At(ll, k) == IF k \in 1 .. Len(ll) THEN ll[k] ELSE NONE

\* the list ll from and to the ends h
Links(pg, h, ll) ==
  /\ h = [first |-> At(ll, 1), last |-> At(ll, Len(ll))]
  /\ \A j \in 1 .. Len(ll) : pg[ll[j]].dlist = [prev |-> At(ll, j - 1), next |-> At(ll, j + 1)]
  /\ \A j, k \in 1 .. Len(ll) : ll[j] = ll[k] => j = k

\* the lists L with the ends H contain the pages of S, p in the list key[p]
Family(pg, H, L, B, S, key) ==
  /\ H \in [B -> Ends] /\ L \in [B -> Seq(PageId)] /\ S \subseteq PageId
  /\ \A b \in B : Links(pg, H[b], L[b])
  /\ \A b \in B : \A j \in 1 .. Len(L[b]) : L[b][j] \in S /\ key[L[b][j]] = b
  /\ \A p \in S : key[p] \in B /\ \E j \in 1 .. Len(L[key[p]]) : L[key[p]][j] = p

FreeSpans(pg, pop) ==
  {p \in PageId : p[2] # 0 /\ pg[p].offset = 0 /\ ~pg[p].is_used /\ ~IsReady(pop, p)}
ListedPages(pg, pop) ==
  {p \in PageId : pg[p].is_used /\ pg[p].offset = 0 /\ ~IsTaken(pop, p)}
FreeKey(pg) == [p \in PageId |-> SmallestSbin[pg[p].count]]
PageKey(pg) == [p \in PageId |-> IF pg[p].full = TRUE THEN BIN_FULL ELSE pg[p].kind]

\* the pages that the counter of a segment counts
Headed(pg, s) == {i \in Slice : i # 0 /\ pg[<<s, i>>].is_used /\ pg[<<s, i>>].offset = 0}

\* what the popped range adds to the counter
Ec(pop, s) ==
  CASE pop.tag = "Ready" /\ pop.page[1] = s -> IF pop.ec THEN 1 ELSE 0
    [] pop.tag = "Used" /\ pop.page[1] = s -> IF pop.ec THEN 0 ELSE -1
    [] pop.tag = "VeryUnready" /\ pop.seg = s -> IF pop.ec THEN 1 ELSE 0
    [] pop.tag = "ExtraCount" /\ pop.seg = s -> 1
    [] OTHER -> 0

Counted(pg, pop, u) == \A s \in DOMAIN u : u[s] = Cardinality(Headed(pg, s)) + Ec(pop, s)

\* the spans of all segments
Laid(pg, pop, D) ==
  /\ OutsideOK(pg, D)
  /\ \A s \in D : SegmentOK(pg, pop, s)

OrgInv ==
  /\ TypeOK /\ PoppedOK(pages, popped, used)
  /\ Laid(pages, popped, DOMAIN used)
  /\ Family(pages, unused_headers, unused_lists, Sbin, FreeSpans(pages, popped), FreeKey(pages))
  /\ Family(pages, used_headers, used_lists, UsedBin, ListedPages(pages, popped), PageKey(pages))
  /\ Counted(pages, popped, used)

-----------------------------------------------------------------------------
(* Lists: what it means for the links that a page leaves or enters          *)

LEMMA RemoveAtIs ==
  ASSUME NEW S, NEW s \in Seq(S), NEW j \in 1 .. Len(s)
  PROVE  /\ RemoveAt(s, j) \in Seq(S)
         /\ Len(RemoveAt(s, j)) = Len(s) - 1
         /\ \A k \in 1 .. Len(s) - 1 : RemoveAt(s, j)[k] = IF k < j THEN s[k] ELSE s[k + 1]
<1> DEFINE a == SubSeq(s, 1, j - 1)
           b == SubSeq(s, j + 1, Len(s))
<1>0. Len(s) \in Nat
  OBVIOUS
<1>1. a \in Seq(S) /\ Len(a) = j - 1 /\ \A k \in 1 .. j - 1 : a[k] = s[k]
  BY <1>0
<1>2. b \in Seq(S) /\ Len(b) = Len(s) - j /\ \A k \in 1 .. Len(s) - j : b[k] = s[k + j]
  BY <1>0
<1>3. RemoveAt(s, j) = a \o b
  BY DEF RemoveAt
<1> HIDE DEF a, b
<1>c. /\ a \o b \in Seq(S) /\ Len(a \o b) = Len(a) + Len(b)
      /\ \A k \in 1 .. Len(a) + Len(b) :
           (a \o b)[k] = IF k <= Len(a) THEN a[k] ELSE b[k - Len(a)]
  BY <1>1, <1>2, ConcatProperties
<1>4. a \o b \in Seq(S) /\ Len(a \o b) = Len(s) - 1
  BY <1>0, <1>1, <1>2, <1>c
<1>5. \A k \in 1 .. Len(s) - 1 : (a \o b)[k] = IF k < j THEN s[k] ELSE s[k + 1]
  <2> SUFFICES ASSUME NEW k \in 1 .. Len(s) - 1
               PROVE  (a \o b)[k] = IF k < j THEN s[k] ELSE s[k + 1]
    OBVIOUS
  <2>1. CASE k < j
    BY <1>0, <1>1, <1>2, <1>c, <2>1
  <2>2. CASE ~(k < j)
    <3>1. (a \o b)[k] = b[k - (j - 1)]
      BY <1>0, <1>1, <1>2, <1>c, <2>2
    <3>2. k - (j - 1) \in 1 .. Len(s) - j /\ k - (j - 1) + j = k + 1
      BY <1>0, <2>2
    <3> QED BY <1>2, <2>2, <3>1, <3>2
  <2> QED BY <2>1, <2>2
<1> QED BY <1>3, <1>4, <1>5

LEMMA ConsIs ==
  ASSUME NEW S, NEW s \in Seq(S), NEW p \in S
  PROVE  /\ <<p>> \o s \in Seq(S)
         /\ Len(<<p>> \o s) = Len(s) + 1
         /\ \A k \in 1 .. Len(s) + 1 : (<<p>> \o s)[k] = IF k = 1 THEN p ELSE s[k - 1]
<1> DEFINE a == <<p>>
<1>1. a \in Seq(S) /\ Len(a) = 1 /\ a[1] = p
  OBVIOUS
<1> HIDE DEF a
<1>c. /\ a \o s \in Seq(S) /\ Len(a \o s) = Len(a) + Len(s)
      /\ \A k \in 1 .. Len(a) + Len(s) :
           (a \o s)[k] = IF k <= Len(a) THEN a[k] ELSE s[k - Len(a)]
  BY <1>1, ConcatProperties
<1>2. /\ a \o s \in Seq(S)
      /\ Len(a \o s) = Len(s) + 1
      /\ \A k \in 1 .. Len(s) + 1 : (a \o s)[k] = IF k = 1 THEN p ELSE s[k - 1]
  <2>1. Len(s) \in Nat
    OBVIOUS
  <2> QED BY <1>1, <1>c, <2>1
<1> QED BY <1>2 DEF a

\* p is taken out of its list in pg: in pg2 its neighbours are linked
Bypassed(pg, pg2, p) ==
  LET e == pg[p].dlist IN
  /\ \A q \in PageId : q # p /\ q # e.prev /\ q # e.next => pg2[q].dlist = pg[q].dlist
  /\ e.prev # NONE => pg2[e.prev].dlist = [prev |-> pg[e.prev].dlist.prev, next |-> e.next]
  /\ e.next # NONE => pg2[e.next].dlist = [prev |-> e.prev, next |-> pg[e.next].dlist.next]

LEMMA NotNone == ASSUME NEW p \in PageId PROVE p # NONE
  BY NoneAssumption

LEMMA LinksOut ==
  ASSUME NEW pg, NEW pg2, NEW h, NEW ll \in Seq(PageId), Links(pg, h, ll),
         NEW j \in 1 .. Len(ll), Bypassed(pg, pg2, ll[j])
  PROVE  Links(pg2, UnlinkedHeader(pg, h, ll[j]), RemoveAt(ll, j))
<1>m. PICK m : m = Len(ll)
  OBVIOUS
<1>p. PICK p : p = ll[j]
  OBVIOUS
<1>r. PICK r : r = RemoveAt(ll, j)
  OBVIOUS
<1>0. m \in Nat /\ j \in 1 .. m /\ p \in PageId /\ p = ll[j] /\ ll \in Seq(PageId)
  BY <1>m, <1>p
<1>1. /\ r \in Seq(PageId) /\ Len(r) = m - 1
      /\ \A k \in 1 .. m - 1 : r[k] = IF k < j THEN ll[k] ELSE ll[k + 1]
  BY <1>m, <1>r, RemoveAtIs
<1>2. \A k \in Int : At(r, k) = IF k < j THEN At(ll, k) ELSE At(ll, k + 1)
  BY <1>m, <1>0, <1>1 DEF At
<1>3. /\ h = [first |-> At(ll, 1), last |-> At(ll, m)]
      /\ \A k \in 1 .. m : pg[ll[k]].dlist = [prev |-> At(ll, k - 1), next |-> At(ll, k + 1)]
      /\ \A i, k \in 1 .. m : ll[i] = ll[k] => i = k
  BY <1>m DEF Links
<1>9. \A k \in 1 .. m : pg[ll[k]].dlist.prev = At(ll, k - 1) /\ pg[ll[k]].dlist.next = At(ll, k + 1)
  <2> SUFFICES ASSUME NEW k \in 1 .. m
               PROVE  pg[ll[k]].dlist.prev = At(ll, k - 1) /\ pg[ll[k]].dlist.next = At(ll, k + 1)
    OBVIOUS
  <2>1. pg[ll[k]].dlist = [prev |-> At(ll, k - 1), next |-> At(ll, k + 1)]
    BY <1>3
  <2> QED BY <2>1
<1>4. pg[p].dlist.prev = At(ll, j - 1) /\ pg[p].dlist.next = At(ll, j + 1)
  BY <1>0, <1>9
<1>5. UnlinkedHeader(pg, h, p) = [first |-> At(r, 1), last |-> At(r, m - 1)]
  <2>0. \A k \in 1 .. m : ll[k] # NONE
    BY <1>m, <1>0, NotNone
  <2>1. At(ll, j - 1) = NONE <=> j = 1
    <3>1. (j - 1 \in 1 .. m <=> j # 1) /\ j \in Int
      BY <1>0
    <3>2. At(ll, j - 1) = IF j - 1 \in 1 .. m THEN ll[j - 1] ELSE NONE
      BY <1>m DEF At
    <3> QED BY <2>0, <3>1, <3>2
  <2>2. At(ll, j + 1) = NONE <=> j = m
    <3>1. (j + 1 \in 1 .. m <=> j # m) /\ j \in Int
      BY <1>0
    <3>2. At(ll, j + 1) = IF j + 1 \in 1 .. m THEN ll[j + 1] ELSE NONE
      BY <1>m DEF At
    <3> QED BY <2>0, <3>1, <3>2
  <2>3. At(r, 1) = IF j = 1 THEN At(ll, j + 1) ELSE At(ll, 1)
    <3>1. 1 \in Int /\ (1 < j <=> j # 1) /\ (j = 1 => 1 + 1 = j + 1)
      BY <1>0
    <3>2. At(r, 1) = IF 1 < j THEN At(ll, 1) ELSE At(ll, 1 + 1)
      BY <1>2, <3>1
    <3> QED BY <3>1, <3>2
  <2>4. At(r, m - 1) = IF j = m THEN At(ll, j - 1) ELSE At(ll, m)
    <3>1. m - 1 \in Int /\ m - 1 + 1 = m /\ (m - 1 < j <=> j = m)
      BY <1>0
    <3>2. At(r, m - 1) = IF m - 1 < j THEN At(ll, m - 1) ELSE At(ll, m - 1 + 1)
      BY <1>2, <3>1
    <3> QED BY <3>1, <3>2
  <2> QED BY <1>3, <1>4, <2>1, <2>2, <2>3, <2>4 DEF UnlinkedHeader
<1>6. ASSUME NEW k \in 1 .. m - 1
      PROVE  pg2[r[k]].dlist = [prev |-> At(r, k - 1), next |-> At(r, k + 1)]
  <2>1. At(r, k - 1) = (IF k - 1 < j THEN At(ll, k - 1) ELSE At(ll, k))
        /\ At(r, k + 1) = (IF k + 1 < j THEN At(ll, k + 1) ELSE At(ll, k + 2))
    <3>1. k - 1 \in Int /\ k + 1 \in Int /\ k - 1 + 1 = k /\ k + 1 + 1 = k + 2
      BY <1>0
    <3>2. /\ At(r, k - 1) = IF k - 1 < j THEN At(ll, k - 1) ELSE At(ll, k - 1 + 1)
          /\ At(r, k + 1) = IF k + 1 < j THEN At(ll, k + 1) ELSE At(ll, k + 1 + 1)
      BY <1>2, <3>1
    <3> QED BY <3>1, <3>2
  <2>2. CASE k = j - 1
    <3>1. r[k] = ll[k] /\ At(ll, j - 1) = ll[k] /\ ll[k] # NONE /\ k \in 1 .. m
      BY <1>m, <1>0, <1>1, <2>2, NotNone DEF At
    <3>2. pg2[ll[k]].dlist = [prev |-> pg[ll[k]].dlist.prev, next |-> At(ll, j + 1)]
      BY <1>p, <1>4, <3>1 DEF Bypassed
    <3>3. pg[ll[k]].dlist.prev = At(ll, k - 1)
      BY <1>9, <3>1
    <3>4. k - 1 < j /\ ~(k + 1 < j) /\ k + 2 = j + 1
      BY <1>0, <2>2
    <3> QED BY <2>1, <3>1, <3>2, <3>3, <3>4
  <2>3. CASE k = j
    <3>1. r[k] = ll[k + 1] /\ At(ll, j + 1) = ll[k + 1] /\ ll[k + 1] # NONE /\ k + 1 \in 1 .. m
      BY <1>m, <1>0, <1>1, <2>3, NotNone DEF At
    <3>2. pg2[ll[k + 1]].dlist = [prev |-> At(ll, j - 1), next |-> pg[ll[k + 1]].dlist.next]
      BY <1>p, <1>4, <3>1 DEF Bypassed
    <3>3. pg[ll[k + 1]].dlist.next = At(ll, k + 2)
      <4>1. k + 1 + 1 = k + 2
        OBVIOUS
      <4> QED BY <1>9, <3>1, <4>1
    <3>4. k - 1 < j /\ ~(k + 1 < j) /\ k - 1 = j - 1
      BY <1>0, <2>3
    <3> QED BY <2>1, <3>1, <3>2, <3>3, <3>4
  <2>4. CASE k # j - 1 /\ k # j
    <3> DEFINE i == IF k < j THEN k ELSE k + 1
    <3>1. i \in 1 .. m /\ r[k] = ll[i] /\ i # j /\ i # j - 1 /\ i # j + 1
      BY <1>0, <1>1, <2>4
    <3>2. /\ At(r, k - 1) = At(ll, i - 1)
          /\ At(r, k + 1) = At(ll, i + 1)
      <4>1. CASE k < j
        BY <1>0, <2>1, <2>4, <4>1
      <4>2. CASE ~(k < j)
        <5>1. ~(k - 1 < j) /\ ~(k + 1 < j) /\ i = k + 1 /\ i - 1 = k /\ i + 1 = k + 2
          BY <1>0, <2>4, <4>2
        <5> QED BY <2>1, <5>1
      <4> QED BY <4>1, <4>2
    <3> HIDE DEF i
    <3>3. ll[i] \in PageId /\ ll[i] # p /\ ll[i] # At(ll, j - 1) /\ ll[i] # At(ll, j + 1)
      BY <1>m, <1>0, <1>3, <3>1, NotNone DEF At
    <3>4. pg2[ll[i]].dlist = pg[ll[i]].dlist
      BY <1>p, <1>4, <3>3 DEF Bypassed
    <3> QED BY <1>3, <3>1, <3>2, <3>4
  <2> QED BY <2>2, <2>3, <2>4
<1>7. ASSUME NEW i \in 1 .. m - 1, NEW k \in 1 .. m - 1, r[i] = r[k] PROVE i = k
  <2>1. /\ (IF i < j THEN i ELSE i + 1) \in 1 .. m
        /\ (IF k < j THEN k ELSE k + 1) \in 1 .. m
        /\ r[i] = ll[IF i < j THEN i ELSE i + 1]
        /\ r[k] = ll[IF k < j THEN k ELSE k + 1]
    BY <1>0, <1>1
  <2>2. (IF i < j THEN i ELSE i + 1) = (IF k < j THEN k ELSE k + 1)
    BY <1>3, <1>7, <2>1
  <2> QED BY <1>0, <2>2
<1>8. Links(pg2, UnlinkedHeader(pg, h, p), r)
  BY <1>1, <1>5, <1>6, <1>7 DEF Links
<1> QED BY <1>8, <1>p, <1>r

\* p enters the list with the ends h at the front, or at the end
Fronted(pg, pg2, h, p) ==
  /\ pg2[p].dlist = [prev |-> NONE, next |-> h.first]
  /\ h.first # NONE => pg2[h.first].dlist = [prev |-> p, next |-> pg[h.first].dlist.next]
  /\ \A q \in PageId : q # p /\ q # h.first => pg2[q].dlist = pg[q].dlist
Backed(pg, pg2, h, p) ==
  /\ pg2[p].dlist = [prev |-> h.last, next |-> NONE]
  /\ h.last # NONE => pg2[h.last].dlist = [prev |-> pg[h.last].dlist.prev, next |-> p]
  /\ \A q \in PageId : q # p /\ q # h.last => pg2[q].dlist = pg[q].dlist

LEMMA LinksIn ==
  ASSUME NEW pg, NEW h, NEW ll \in Seq(PageId), Links(pg, h, ll)
  PROVE  /\ h.first = At(ll, 1) /\ h.last = At(ll, Len(ll))
         /\ \A k \in 1 .. Len(ll) : /\ pg[ll[k]].dlist.prev = At(ll, k - 1)
                                    /\ pg[ll[k]].dlist.next = At(ll, k + 1)
<1>1. ASSUME NEW k \in 1 .. Len(ll)
      PROVE  pg[ll[k]].dlist.prev = At(ll, k - 1) /\ pg[ll[k]].dlist.next = At(ll, k + 1)
  <2>1. pg[ll[k]].dlist = [prev |-> At(ll, k - 1), next |-> At(ll, k + 1)]
    BY DEF Links
  <2> QED BY <2>1
<1>2. h = [first |-> At(ll, 1), last |-> At(ll, Len(ll))]
  BY DEF Links
<1> QED BY <1>1, <1>2

LEMMA LinksFront ==
  ASSUME NEW pg, NEW pg2, NEW h, NEW ll \in Seq(PageId), Links(pg, h, ll),
         NEW p \in PageId, \A k \in 1 .. Len(ll) : ll[k] # p,
         Fronted(pg, pg2, h, p)
  PROVE  Links(pg2, FrontHeader(h, p), <<p>> \o ll)
<1>m. PICK m : m = Len(ll)
  OBVIOUS
<1>r. PICK r : r = <<p>> \o ll
  OBVIOUS
<1>0. m \in Nat /\ ll \in Seq(PageId)
  BY <1>m
<1>1. /\ r \in Seq(PageId) /\ Len(r) = m + 1
      /\ \A k \in 1 .. m + 1 : r[k] = IF k = 1 THEN p ELSE ll[k - 1]
  BY <1>m, <1>r, ConsIs
<1>2. \A k \in Int : At(r, k) = IF k = 1 THEN p ELSE At(ll, k - 1)
  BY <1>m, <1>0, <1>1 DEF At
<1>3. /\ h.first = At(ll, 1) /\ h.last = At(ll, m)
      /\ \A k \in 1 .. m : /\ pg[ll[k]].dlist = [prev |-> At(ll, k - 1), next |-> At(ll, k + 1)]
                           /\ pg[ll[k]].dlist.prev = At(ll, k - 1)
                           /\ pg[ll[k]].dlist.next = At(ll, k + 1)
      /\ \A i, k \in 1 .. m : ll[i] = ll[k] => i = k
  BY <1>m, LinksIn DEF Links
<1>4. FrontHeader(h, p) = [first |-> At(r, 1), last |-> At(r, m + 1)]
  <2>1. At(ll, 1) = NONE <=> m = 0
    BY <1>m, <1>0, NotNone DEF At
  <2>2. At(r, 1) = p /\ At(r, m + 1) = IF m = 0 THEN p ELSE At(ll, m)
    <3>1. m + 1 \in Int /\ 1 \in Int /\ m + 1 - 1 = m /\ (m + 1 = 1 <=> m = 0)
      BY <1>0
    <3>2. At(r, 1) = p
      BY <1>2, <3>1
    <3>3. PICK z \in Int : z = m + 1
      BY <3>1
    <3>4. At(r, z) = IF z = 1 THEN p ELSE At(ll, z - 1)
      BY <1>2
    <3>5. z - 1 = m /\ (z = 1 <=> m = 0)
      BY <1>0, <3>3
    <3>6. At(r, z) = IF m = 0 THEN p ELSE At(ll, m)
      BY <3>4, <3>5
    <3> QED BY <3>2, <3>3, <3>6
  <2> QED BY <1>3, <2>1, <2>2 DEF FrontHeader
<1>5. ASSUME NEW k \in 1 .. m + 1
      PROVE  pg2[r[k]].dlist = [prev |-> At(r, k - 1), next |-> At(r, k + 1)]
  <2>0. /\ k - 1 \in Int /\ k + 1 \in Int /\ k + 1 # 1 /\ k + 1 - 1 = k
        /\ (k - 1 = 1 <=> k = 2) /\ k - 1 - 1 = k - 2
    BY <1>0
  <2>1. At(r, k - 1) = (IF k = 2 THEN p ELSE At(ll, k - 2)) /\ At(r, k + 1) = At(ll, k)
    <3>1. At(r, k - 1) = IF k - 1 = 1 THEN p ELSE At(ll, k - 1 - 1)
      BY <1>2, <2>0
    <3>2. At(r, k + 1) = IF k + 1 = 1 THEN p ELSE At(ll, k + 1 - 1)
      BY <1>2, <2>0
    <3> QED BY <2>0, <3>1, <3>2
  <2>2. CASE k = 1
    <3>1. r[k] = p /\ At(ll, k - 2) = NONE
      BY <1>0, <1>1, <2>2 DEF At
    <3> QED BY <1>3, <2>1, <2>2, <3>1 DEF Fronted
  <2>3. CASE k = 2
    <3>1. r[k] = ll[1] /\ 1 \in 1 .. m /\ At(ll, 1) = ll[1] /\ ll[1] # NONE /\ 1 + 1 = k
      BY <1>m, <1>0, <1>1, <2>3, NotNone DEF At
    <3>3. pg[ll[1]].dlist.next = At(ll, k)
      BY <1>3, <3>1
    <3>4. h.first = ll[1] /\ h.first # NONE
      BY <1>3, <3>1
    <3>2. pg2[ll[1]].dlist = [prev |-> p, next |-> At(ll, k)]
      BY <3>3, <3>4, Zenon DEF Fronted
    <3> QED BY <2>1, <2>3, <3>1, <3>2
  <2>4. CASE k # 1 /\ k # 2
    <3>1. /\ k - 1 \in 1 .. m /\ r[k] = ll[k - 1] /\ k - 1 # 1
          /\ k - 1 - 1 = k - 2 /\ k - 1 + 1 = k
      BY <1>0, <1>1, <2>4
    <3>2. ll[k - 1] \in PageId /\ ll[k - 1] # p
      BY <1>m, <3>1
    <3>3. ll[k - 1] # At(ll, 1)
      BY <1>m, <1>0, <1>3, <3>1, <3>2, NotNone DEF At
    <3>4. pg2[ll[k - 1]].dlist = pg[ll[k - 1]].dlist
      BY <1>3, <3>2, <3>3 DEF Fronted
    <3>5. pg[ll[k - 1]].dlist = [prev |-> At(ll, k - 1 - 1), next |-> At(ll, k - 1 + 1)]
      BY <1>3, <3>1
    <3> QED BY <2>1, <2>4, <3>1, <3>4, <3>5
  <2> QED BY <2>2, <2>3, <2>4
<1>6. ASSUME NEW i \in 1 .. m + 1, NEW k \in 1 .. m + 1, r[i] = r[k] PROVE i = k
  <2>1. i # 1 => i - 1 \in 1 .. m /\ r[i] = ll[i - 1] /\ ll[i - 1] # p
    BY <1>m, <1>0, <1>1
  <2>2. k # 1 => k - 1 \in 1 .. m /\ r[k] = ll[k - 1] /\ ll[k - 1] # p
    BY <1>m, <1>0, <1>1
  <2>3. r[1] = p
    BY <1>0, <1>1
  <2>4. CASE i = 1 \/ k = 1
    BY <1>6, <2>1, <2>2, <2>3, <2>4
  <2>5. CASE i # 1 /\ k # 1
    <3>1. i - 1 = k - 1
      BY <1>3, <1>6, <2>1, <2>2, <2>5
    <3> QED BY <1>0, <3>1
  <2> QED BY <2>4, <2>5
<1>7. Links(pg2, FrontHeader(h, p), r)
  BY <1>1, <1>4, <1>5, <1>6 DEF Links
<1> QED BY <1>7, <1>r

LEMMA LinksBack ==
  ASSUME NEW pg, NEW pg2, NEW h, NEW ll \in Seq(PageId), Links(pg, h, ll),
         NEW p \in PageId, \A k \in 1 .. Len(ll) : ll[k] # p,
         Backed(pg, pg2, h, p)
  PROVE  Links(pg2, BackHeader(h, p), Append(ll, p))
<1>m. PICK m : m = Len(ll)
  OBVIOUS
<1>r. PICK r : r = Append(ll, p)
  OBVIOUS
<1>0. m \in Nat /\ ll \in Seq(PageId)
  BY <1>m
<1>1. /\ r \in Seq(PageId) /\ Len(r) = m + 1
      /\ \A k \in 1 .. m + 1 : r[k] = IF k = m + 1 THEN p ELSE ll[k]
  BY <1>m, <1>r, <1>0, AppendProperties
<1>2. \A k \in Int : At(r, k) = IF k = m + 1 THEN p ELSE At(ll, k)
  BY <1>m, <1>0, <1>1 DEF At
<1>3. /\ h.first = At(ll, 1) /\ h.last = At(ll, m)
      /\ \A k \in 1 .. m : /\ pg[ll[k]].dlist = [prev |-> At(ll, k - 1), next |-> At(ll, k + 1)]
                           /\ pg[ll[k]].dlist.prev = At(ll, k - 1)
                           /\ pg[ll[k]].dlist.next = At(ll, k + 1)
      /\ \A i, k \in 1 .. m : ll[i] = ll[k] => i = k
  BY <1>m, LinksIn DEF Links
<1>4. BackHeader(h, p) = [first |-> At(r, 1), last |-> At(r, m + 1)]
  <2>1. At(ll, m) = NONE <=> m = 0
    BY <1>m, <1>0, NotNone DEF At
  <2>2. At(r, m + 1) = p /\ At(r, 1) = IF m = 0 THEN p ELSE At(ll, 1)
    <3>1. m + 1 \in Int /\ 1 \in Int /\ (1 = m + 1 <=> m = 0)
      BY <1>0
    <3> QED BY <1>2, <3>1
  <2> QED BY <1>3, <2>1, <2>2 DEF BackHeader
<1>5. ASSUME NEW k \in 1 .. m + 1
      PROVE  pg2[r[k]].dlist = [prev |-> At(r, k - 1), next |-> At(r, k + 1)]
  <2>0. k - 1 \in Int /\ k + 1 \in Int /\ k - 1 # m + 1 /\ (k + 1 = m + 1 <=> k = m)
    BY <1>0
  <2>1. At(r, k - 1) = At(ll, k - 1) /\ At(r, k + 1) = IF k = m THEN p ELSE At(ll, k + 1)
    BY <1>2, <2>0
  <2>2. CASE k = m + 1
    <3>1. r[k] = p /\ At(ll, k + 1) = NONE /\ k # m /\ k - 1 = m
      BY <1>m, <1>0, <1>1, <2>2 DEF At
    <3> QED BY <1>3, <2>1, <3>1 DEF Backed
  <2>3. CASE k = m
    <3>1. r[k] = ll[m] /\ m \in 1 .. m /\ At(ll, m) = ll[m] /\ ll[m] # NONE
      BY <1>m, <1>0, <1>1, <2>3, NotNone DEF At
    <3>3. pg[ll[m]].dlist.prev = At(ll, m - 1)
      BY <1>3, <3>1
    <3>4. h.last = ll[m] /\ h.last # NONE
      BY <1>3, <3>1
    <3>2. pg2[ll[m]].dlist = [prev |-> At(ll, m - 1), next |-> p]
      BY <3>3, <3>4, Zenon DEF Backed
    <3> QED BY <2>1, <2>3, <3>1, <3>2
  <2>4. CASE k # m + 1 /\ k # m
    <3>1. k \in 1 .. m /\ r[k] = ll[k] /\ m \in 1 .. m
      BY <1>0, <1>1, <2>4
    <3>2. ll[k] \in PageId /\ ll[k] # p
      BY <1>m, <3>1
    <3>3. ll[k] # At(ll, m)
      BY <1>m, <1>0, <1>3, <2>4, <3>1 DEF At
    <3>4. pg2[ll[k]].dlist = pg[ll[k]].dlist
      BY <1>3, <3>2, <3>3 DEF Backed
    <3> QED BY <1>3, <2>1, <2>4, <3>1, <3>4
  <2> QED BY <2>2, <2>3, <2>4
<1>6. ASSUME NEW i \in 1 .. m + 1, NEW k \in 1 .. m + 1, r[i] = r[k] PROVE i = k
  <2>1. i # m + 1 => i \in 1 .. m /\ r[i] = ll[i] /\ ll[i] # p
    BY <1>m, <1>0, <1>1
  <2>2. k # m + 1 => k \in 1 .. m /\ r[k] = ll[k] /\ ll[k] # p
    BY <1>m, <1>0, <1>1
  <2>3. r[m + 1] = p
    BY <1>0, <1>1
  <2> QED BY <1>3, <1>6, <2>1, <2>2, <2>3
<1>7. Links(pg2, BackHeader(h, p), r)
  BY <1>1, <1>4, <1>5, <1>6 DEF Links
<1> QED BY <1>7, <1>r

LEMMA LinksSame ==
  ASSUME NEW pg, NEW pg2, NEW h, NEW ll \in Seq(PageId), Links(pg, h, ll),
         \A k \in 1 .. Len(ll) : pg2[ll[k]].dlist = pg[ll[k]].dlist
  PROVE  Links(pg2, h, ll)
  BY DEF Links

LEMMA AtLink == ASSUME NEW ll \in Seq(PageId), NEW k \in Int PROVE At(ll, k) \in Link
  BY DEF At, Link

\* the neighbours of a member are members of the same list
LEMMA FamilyOut ==
  ASSUME NEW pg, NEW pg2, NEW H, NEW L, NEW B, NEW S, NEW key, Family(pg, H, L, B, S, key),
         NEW b \in B, NEW j \in 1 .. Len(L[b]), Bypassed(pg, pg2, L[b][j])
  PROVE  Family(pg2, [H EXCEPT ![b] = UnlinkedHeader(pg, @, L[b][j])],
                [L EXCEPT ![b] = RemoveAt(@, j)], B, S \ {L[b][j]}, key)
<1>p. PICK p : p = L[b][j]
  OBVIOUS
<1>r. PICK r : r = RemoveAt(L[b], j)
  OBVIOUS
<1>h. PICK h : h = UnlinkedHeader(pg, H[b], p)
  OBVIOUS
<1>G. PICK G : G = [H EXCEPT ![b] = h]
  OBVIOUS
<1>M. PICK M : M = [L EXCEPT ![b] = r]
  OBVIOUS
<1>1. /\ H \in [B -> Ends] /\ L \in [B -> Seq(PageId)] /\ S \subseteq PageId
      /\ \A c \in B : Links(pg, H[c], L[c])
      /\ \A c \in B : \A k \in 1 .. Len(L[c]) : L[c][k] \in S /\ key[L[c][k]] = c
      /\ \A q \in S : key[q] \in B /\ \E k \in 1 .. Len(L[key[q]]) : L[key[q]][k] = q
  BY DEF Family
<1>2. L[b] \in Seq(PageId) /\ Links(pg, H[b], L[b]) /\ H[b] \in Ends /\ Len(L[b]) \in Nat
  BY <1>1
<1>3. p \in S /\ p \in PageId /\ key[p] = b
  BY <1>1, <1>p
<1>4. /\ r \in Seq(PageId) /\ Len(r) = Len(L[b]) - 1
      /\ \A k \in 1 .. Len(L[b]) - 1 : r[k] = IF k < j THEN L[b][k] ELSE L[b][k + 1]
  BY <1>2, <1>r, RemoveAtIs
<1>5. Links(pg2, h, r)
  BY <1>2, <1>p, <1>r, <1>h, LinksOut
<1>6. /\ pg[p].dlist.prev = At(L[b], j - 1) /\ pg[p].dlist.next = At(L[b], j + 1)
      /\ j - 1 \in Int /\ j + 1 \in Int
  BY <1>2, <1>p, LinksIn
<1>7. h \in Ends
  <2>1. pg[p].dlist.prev \in Link /\ pg[p].dlist.next \in Link
    BY <1>2, <1>6, AtLink
  <2>2. H[b].first \in Link /\ H[b].last \in Link
    BY <1>2 DEF Ends
  <2> QED BY <1>h, <2>1, <2>2 DEF UnlinkedHeader, Ends
<1>8. ASSUME NEW c \in B, c # b PROVE Links(pg2, H[c], L[c])
  <2>1. ASSUME NEW k \in 1 .. Len(L[c]) PROVE pg2[L[c][k]].dlist = pg[L[c][k]].dlist
    <3>1. L[c][k] \in PageId /\ L[c][k] # p /\ key[L[c][k]] = c
      BY <1>1, <1>3, <1>8
    <3>2. \A i \in Int : L[c][k] # At(L[b], i)
      BY <1>1, <1>8, <3>1, NotNone DEF At
    <3> QED BY <1>p, <1>6, <3>1, <3>2 DEF Bypassed
  <2>2. L[c] \in Seq(PageId) /\ Links(pg, H[c], L[c])
    BY <1>1
  <2> QED BY <2>1, <2>2, LinksSame
<1>9. /\ G \in [B -> Ends] /\ M \in [B -> Seq(PageId)]
      /\ G[b] = h /\ M[b] = r
      /\ \A c \in B : c # b => G[c] = H[c] /\ M[c] = L[c]
  BY <1>1, <1>4, <1>7, <1>G, <1>M
<1>10. \A c \in B : Links(pg2, G[c], M[c])
  BY <1>5, <1>8, <1>9
<1>11. ASSUME NEW c \in B, NEW k \in 1 .. Len(M[c])
       PROVE  M[c][k] \in S \ {p} /\ key[M[c][k]] = c
  <2>1. CASE c = b
    <3>3. k \in 1 .. Len(L[b]) - 1 /\ M[c][k] = r[k]
      BY <1>4, <1>9, <2>1
    <3>4. PICK i \in 1 .. Len(L[b]) : i = (IF k < j THEN k ELSE k + 1)
      BY <1>2, <3>3
    <3>1. M[c][k] = L[b][i] /\ i # j
      BY <1>2, <1>4, <3>3, <3>4
    <3>2. L[b][i] # L[b][j]
      BY <1>2, <3>1 DEF Links
    <3> QED BY <1>1, <1>p, <2>1, <3>1, <3>2
  <2>2. CASE c # b
    BY <1>1, <1>3, <1>9, <2>2
  <2> QED BY <2>1, <2>2
<1>12. ASSUME NEW q \in S \ {p}
       PROVE  key[q] \in B /\ \E k \in 1 .. Len(M[key[q]]) : M[key[q]][k] = q
  <2>1. PICK i \in 1 .. Len(L[key[q]]) : L[key[q]][i] = q
    BY <1>1
  <2>2. CASE key[q] = b
    <3>1. i # j /\ i \in 1 .. Len(L[b]) /\ L[b][i] = q
      BY <1>p, <2>1, <2>2
    <3>2. PICK k \in 1 .. Len(L[b]) - 1 : k = IF i < j THEN i ELSE i - 1
      BY <1>2, <3>1
    <3>3. r[k] = q
      <4>1. CASE i < j
        BY <1>4, <3>1, <3>2, <4>1
      <4>2. CASE ~(i < j)
        <5>1. k = i - 1 /\ ~(k < j) /\ k + 1 = i
          BY <1>2, <3>1, <3>2, <4>2
        <5> QED BY <1>4, <3>1, <5>1
      <4> QED BY <4>1, <4>2
    <3> QED BY <1>4, <1>9, <2>2, <3>2, <3>3
  <2>3. CASE key[q] # b
    BY <1>1, <1>9, <2>1, <2>3
  <2> QED BY <2>2, <2>3
<1>13. Family(pg2, G, M, B, S \ {p}, key)
  <2>1. S \ {p} \subseteq PageId
    BY <1>1
  <2> QED BY <1>9, <1>10, <1>11, <1>12, <2>1 DEF Family
<1> QED BY <1>13, <1>p, <1>r, <1>h, <1>G, <1>M

\* ll has the members of l, and p
Grown(l, p, ll) ==
  /\ \A k \in 1 .. Len(ll) : ll[k] = p \/ \E i \in 1 .. Len(l) : ll[k] = l[i]
  /\ \E k \in 1 .. Len(ll) : ll[k] = p
  /\ \A i \in 1 .. Len(l) : \E k \in 1 .. Len(ll) : ll[k] = l[i]

\* the other lists keep their links
Others(pg, pg2, L, B, b) ==
  \A c \in B \ {b} : \A k \in 1 .. Len(L[c]) : pg2[L[c][k]].dlist = pg[L[c][k]].dlist

\* p gets the key b
Keyed(key, key2, S, p, b) == key2[p] = b /\ \A q \in S : key2[q] = key[q]

\* a list of the family becomes ll with the ends h
LEMMA FamilyIn ==
  ASSUME NEW pg, NEW pg2, NEW H, NEW L, NEW B, NEW S, NEW key, Family(pg, H, L, B, S, key),
         NEW b \in B, NEW p \in PageId \ S, NEW h \in Ends, NEW ll \in Seq(PageId),
         Links(pg2, h, ll), Grown(L[b], p, ll), Others(pg, pg2, L, B, b),
         NEW key2, Keyed(key, key2, S, p, b)
  PROVE  Family(pg2, [H EXCEPT ![b] = h], [L EXCEPT ![b] = ll], B, S \cup {p}, key2)
<1>G. PICK G : G = [H EXCEPT ![b] = h]
  OBVIOUS
<1>M. PICK M : M = [L EXCEPT ![b] = ll]
  OBVIOUS
<1>1. /\ H \in [B -> Ends] /\ L \in [B -> Seq(PageId)] /\ S \subseteq PageId
      /\ \A c \in B : Links(pg, H[c], L[c])
      /\ \A c \in B : \A k \in 1 .. Len(L[c]) : L[c][k] \in S /\ key[L[c][k]] = c
      /\ \A q \in S : key[q] \in B /\ \E k \in 1 .. Len(L[key[q]]) : L[key[q]][k] = q
  BY DEF Family
<1>0. key2[p] = b /\ \A q \in S : key2[q] = key[q]
  BY DEF Keyed
<1>2. /\ G \in [B -> Ends] /\ M \in [B -> Seq(PageId)]
      /\ G[b] = h /\ M[b] = ll
      /\ \A c \in B : c # b => G[c] = H[c] /\ M[c] = L[c]
  BY <1>1, <1>G, <1>M
<1>3. ASSUME NEW c \in B PROVE Links(pg2, G[c], M[c])
  <2>1. CASE c = b
    BY <1>2, <2>1
  <2>2. CASE c # b
    <3>1. L[c] \in Seq(PageId) /\ Links(pg, H[c], L[c])
      BY <1>1
    <3>2. Links(pg2, H[c], L[c])
      BY <2>2, <3>1, LinksSame DEF Others
    <3> QED BY <1>2, <2>2, <3>2
  <2> QED BY <2>1, <2>2
<1>4. ASSUME NEW c \in B, NEW k \in 1 .. Len(M[c])
      PROVE  M[c][k] \in S \cup {p} /\ key2[M[c][k]] = c
  <2>1. CASE c = b
    <3>1. k \in 1 .. Len(ll) /\ M[c][k] = ll[k]
      BY <1>2, <2>1
    <3>2. ll[k] = p \/ \E i \in 1 .. Len(L[b]) : ll[k] = L[b][i]
      BY <3>1 DEF Grown
    <3>3. ASSUME NEW i \in 1 .. Len(L[b]) PROVE L[b][i] \in S /\ key2[L[b][i]] = b
      BY <1>0, <1>1
    <3>4. ll[k] \in S \cup {p} /\ key2[ll[k]] = b
      BY <1>0, <3>2, <3>3
    <3> QED BY <2>1, <3>1, <3>4
  <2>2. CASE c # b
    <3>1. k \in 1 .. Len(L[c]) /\ M[c][k] = L[c][k]
      BY <1>2, <2>2
    <3>2. L[c][k] \in S /\ key[L[c][k]] = c
      BY <1>1, <3>1
    <3> QED BY <1>0, <3>1, <3>2
  <2> QED BY <2>1, <2>2
<1>5. ASSUME NEW q \in S \cup {p}
      PROVE  key2[q] \in B /\ \E k \in 1 .. Len(M[key2[q]]) : M[key2[q]][k] = q
  <2>1. CASE q = p
    BY <1>0, <1>2, <2>1 DEF Grown
  <2>2. CASE q # p
    <3>1. q \in S /\ key2[q] = key[q]
      BY <1>0, <2>2
    <3>2. PICK i \in 1 .. Len(L[key[q]]) : L[key[q]][i] = q
      BY <1>1, <3>1
    <3>3. CASE key[q] = b
      <4>1. \E k \in 1 .. Len(ll) : ll[k] = q
        BY <3>2, <3>3 DEF Grown
      <4> QED BY <1>2, <3>1, <3>3, <4>1
    <3>4. CASE key[q] # b
      <4>1. key[q] \in B
        BY <1>1, <3>1
      <4>2. M[key[q]] = L[key[q]]
        BY <1>2, <3>4, <4>1
      <4> QED BY <3>1, <3>2, <4>1, <4>2
    <3> QED BY <3>3, <3>4
  <2> QED BY <2>1, <2>2
<1>6. S \cup {p} \subseteq PageId
  BY <1>1
<1>7. Family(pg2, G, M, B, S \cup {p}, key2)
  BY <1>2, <1>3, <1>4, <1>5, <1>6 DEF Family
<1> QED BY <1>7, <1>G, <1>M

LEMMA FamilyFront ==
  ASSUME NEW pg, NEW pg2, NEW H, NEW L, NEW B, NEW S, NEW key, Family(pg, H, L, B, S, key),
         NEW b \in B, NEW p \in PageId \ S, Fronted(pg, pg2, H[b], p),
         NEW key2, Keyed(key, key2, S, p, b)
  PROVE  Family(pg2, [H EXCEPT ![b] = FrontHeader(@, p)], [L EXCEPT ![b] = <<p>> \o @],
                B, S \cup {p}, key2)
<1>1. /\ H \in [B -> Ends] /\ L \in [B -> Seq(PageId)] /\ S \subseteq PageId
      /\ \A c \in B : Links(pg, H[c], L[c])
      /\ \A c \in B : \A k \in 1 .. Len(L[c]) : L[c][k] \in S /\ key[L[c][k]] = c
  BY DEF Family
<1>2. L[b] \in Seq(PageId) /\ H[b] \in Ends /\ Len(L[b]) \in Nat /\ Links(pg, H[b], L[b])
  BY <1>1
<1>h. PICK h : h = FrontHeader(H[b], p)
  OBVIOUS
<1>r. PICK ll : ll = <<p>> \o L[b]
  OBVIOUS
<1>3. /\ ll \in Seq(PageId) /\ Len(ll) = Len(L[b]) + 1
      /\ \A k \in 1 .. Len(L[b]) + 1 : ll[k] = IF k = 1 THEN p ELSE L[b][k - 1]
  BY <1>2, <1>r, ConsIs
<1>4. Links(pg2, h, ll)
  <2>1. \A k \in 1 .. Len(L[b]) : L[b][k] # p
    BY <1>1
  <2> QED BY <1>2, <1>h, <1>r, <2>1, LinksFront
<1>5. h \in Ends
  BY <1>2, <1>h DEF Ends, FrontHeader, Link
<1>6. \A k \in 1 .. Len(ll) : ll[k] = p \/ \E i \in 1 .. Len(L[b]) : ll[k] = L[b][i]
  <2> SUFFICES ASSUME NEW k \in 1 .. Len(ll), k # 1
               PROVE  \E i \in 1 .. Len(L[b]) : ll[k] = L[b][i]
    BY <1>2, <1>3
  <2>1. k - 1 \in 1 .. Len(L[b]) /\ ll[k] = L[b][k - 1]
    BY <1>2, <1>3
  <2> QED BY <2>1
<1>7. \E k \in 1 .. Len(ll) : ll[k] = p
  <2>1. 1 \in 1 .. Len(ll) /\ ll[1] = p
    BY <1>2, <1>3
  <2> QED BY <2>1
<1>8. \A i \in 1 .. Len(L[b]) : \E k \in 1 .. Len(ll) : ll[k] = L[b][i]
  <2> SUFFICES ASSUME NEW i \in 1 .. Len(L[b]) PROVE \E k \in 1 .. Len(ll) : ll[k] = L[b][i]
    OBVIOUS
  <2>1. i + 1 \in 1 .. Len(ll) /\ i + 1 # 1 /\ i + 1 - 1 = i
    BY <1>2, <1>3
  <2>2. ll[i + 1] = L[b][i]
    BY <1>3, <2>1
  <2> QED BY <2>1, <2>2
<1>9. Others(pg, pg2, L, B, b)
  <2> SUFFICES ASSUME NEW c \in B \ {b}, NEW k \in 1 .. Len(L[c])
               PROVE  pg2[L[c][k]].dlist = pg[L[c][k]].dlist
    BY DEF Others
  <2>1. L[c][k] \in PageId /\ L[c][k] # p /\ key[L[c][k]] = c
    BY <1>1
  <2>2. L[c][k] # At(L[b], 1)
    BY <1>1, <2>1, NotNone DEF At
  <2>3. H[b].first = At(L[b], 1)
    BY <1>2, LinksIn
  <2> QED BY <2>1, <2>2, <2>3 DEF Fronted
<1>10. Family(pg2, [H EXCEPT ![b] = h], [L EXCEPT ![b] = ll], B, S \cup {p}, key2)
  <2>1. Grown(L[b], p, ll)
    BY <1>6, <1>7, <1>8 DEF Grown
  <2> QED BY <1>3, <1>4, <1>5, <1>9, <2>1, FamilyIn
<1> QED BY <1>10, <1>h, <1>r

LEMMA FamilyBack ==
  ASSUME NEW pg, NEW pg2, NEW H, NEW L, NEW B, NEW S, NEW key, Family(pg, H, L, B, S, key),
         NEW b \in B, NEW p \in PageId \ S, Backed(pg, pg2, H[b], p),
         NEW key2, Keyed(key, key2, S, p, b)
  PROVE  Family(pg2, [H EXCEPT ![b] = BackHeader(@, p)], [L EXCEPT ![b] = Append(@, p)],
                B, S \cup {p}, key2)
<1>1. /\ H \in [B -> Ends] /\ L \in [B -> Seq(PageId)] /\ S \subseteq PageId
      /\ \A c \in B : Links(pg, H[c], L[c])
      /\ \A c \in B : \A k \in 1 .. Len(L[c]) : L[c][k] \in S /\ key[L[c][k]] = c
  BY DEF Family
<1>2. L[b] \in Seq(PageId) /\ H[b] \in Ends /\ Len(L[b]) \in Nat /\ Links(pg, H[b], L[b])
  BY <1>1
<1>h. PICK h : h = BackHeader(H[b], p)
  OBVIOUS
<1>r. PICK ll : ll = Append(L[b], p)
  OBVIOUS
<1>3. /\ ll \in Seq(PageId) /\ Len(ll) = Len(L[b]) + 1
      /\ \A k \in 1 .. Len(L[b]) + 1 : ll[k] = IF k = Len(L[b]) + 1 THEN p ELSE L[b][k]
  BY <1>2, <1>r, AppendProperties
<1>4. Links(pg2, h, ll)
  <2>1. \A k \in 1 .. Len(L[b]) : L[b][k] # p
    BY <1>1
  <2> QED BY <1>2, <1>h, <1>r, <2>1, LinksBack
<1>5. h \in Ends
  BY <1>2, <1>h DEF Ends, BackHeader, Link
<1>6. \A k \in 1 .. Len(ll) : ll[k] = p \/ \E i \in 1 .. Len(L[b]) : ll[k] = L[b][i]
  <2> SUFFICES ASSUME NEW k \in 1 .. Len(ll), k # Len(L[b]) + 1
               PROVE  \E i \in 1 .. Len(L[b]) : ll[k] = L[b][i]
    BY <1>2, <1>3
  <2>1. k \in 1 .. Len(L[b]) /\ ll[k] = L[b][k]
    BY <1>2, <1>3
  <2> QED BY <2>1
<1>7. \E k \in 1 .. Len(ll) : ll[k] = p
  <2>1. Len(L[b]) + 1 \in 1 .. Len(ll) /\ ll[Len(L[b]) + 1] = p
    BY <1>2, <1>3
  <2> QED BY <2>1
<1>8. \A i \in 1 .. Len(L[b]) : \E k \in 1 .. Len(ll) : ll[k] = L[b][i]
  <2> SUFFICES ASSUME NEW i \in 1 .. Len(L[b]) PROVE \E k \in 1 .. Len(ll) : ll[k] = L[b][i]
    OBVIOUS
  <2>1. i \in 1 .. Len(ll) /\ ll[i] = L[b][i]
    BY <1>2, <1>3
  <2> QED BY <2>1
<1>9. Others(pg, pg2, L, B, b)
  <2> SUFFICES ASSUME NEW c \in B \ {b}, NEW k \in 1 .. Len(L[c])
               PROVE  pg2[L[c][k]].dlist = pg[L[c][k]].dlist
    BY DEF Others
  <2>1. L[c][k] \in PageId /\ L[c][k] # p /\ key[L[c][k]] = c
    BY <1>1
  <2>2. L[c][k] # At(L[b], Len(L[b]))
    BY <1>1, <2>1, NotNone DEF At
  <2>3. H[b].last = At(L[b], Len(L[b]))
    BY <1>2, LinksIn
  <2> QED BY <2>1, <2>2, <2>3 DEF Backed
<1>10. Family(pg2, [H EXCEPT ![b] = h], [L EXCEPT ![b] = ll], B, S \cup {p}, key2)
  <2>1. Grown(L[b], p, ll)
    BY <1>6, <1>7, <1>8 DEF Grown
  <2> QED BY <1>3, <1>4, <1>5, <1>9, <2>1, FamilyIn
<1> QED BY <1>10, <1>h, <1>r

LEMMA FamilySame ==
  ASSUME NEW pg, NEW pg2, NEW H, NEW L, NEW B, NEW S, NEW key, Family(pg, H, L, B, S, key),
         \A q \in S : pg2[q].dlist = pg[q].dlist,
         NEW key2, \A q \in S : key2[q] = key[q]
  PROVE  Family(pg2, H, L, B, S, key2)
<1>1. ASSUME NEW b \in B PROVE Links(pg2, H[b], L[b])
  <2>1. L[b] \in Seq(PageId) /\ Links(pg, H[b], L[b])
        /\ \A k \in 1 .. Len(L[b]) : L[b][k] \in S
    BY DEF Family
  <2> QED BY <2>1, LinksSame
<1> QED BY <1>1 DEF Family

-----------------------------------------------------------------------------
(* Headers                                                                  *)

\* the same header but for the links
Alike(r, r2) ==
  /\ r2.count = r.count /\ r2.offset = r.offset /\ (r2.is_used <=> r.is_used)
  /\ r2.full = r.full /\ r2.kind = r.kind

LEMMA NextSet ==
  ASSUME NEW r \in PageData, r.dlist # NONE, NEW v \in Link
  PROVE  /\ [r EXCEPT !.dlist.next = v] \in PageData
         /\ Alike(r, [r EXCEPT !.dlist.next = v])
         /\ [r EXCEPT !.dlist.next = v].dlist = [prev |-> r.dlist.prev, next |-> v]
<1>1. r.dlist \in Dlist
  BY DEF PageData
<1>2. PICK e : e = [r.dlist EXCEPT !.next = v]
  OBVIOUS
<1>3. e \in Dlist /\ e = [prev |-> r.dlist.prev, next |-> v]
  BY <1>1, <1>2 DEF Dlist
<1>4. PICK r2 : r2 = [r EXCEPT !.dlist = e]
  OBVIOUS
<1>5. r2 \in PageData /\ Alike(r, r2) /\ r2.dlist = e
  BY <1>3, <1>4 DEF PageData, Alike
<1>6. r2 = [r EXCEPT !.dlist.next = v]
  BY <1>2, <1>4
<1> QED BY <1>3, <1>5, <1>6

LEMMA PrevSet ==
  ASSUME NEW r \in PageData, r.dlist # NONE, NEW v \in Link
  PROVE  /\ [r EXCEPT !.dlist.prev = v] \in PageData
         /\ Alike(r, [r EXCEPT !.dlist.prev = v])
         /\ [r EXCEPT !.dlist.prev = v].dlist = [prev |-> v, next |-> r.dlist.next]
<1>1. r.dlist \in Dlist
  BY DEF PageData
<1>2. PICK e : e = [r.dlist EXCEPT !.prev = v]
  OBVIOUS
<1>3. e \in Dlist /\ e = [prev |-> v, next |-> r.dlist.next]
  BY <1>1, <1>2 DEF Dlist
<1>4. PICK r2 : r2 = [r EXCEPT !.dlist = e]
  OBVIOUS
<1>5. r2 \in PageData /\ Alike(r, r2) /\ r2.dlist = e
  BY <1>3, <1>4 DEF PageData, Alike
<1>6. r2 = [r EXCEPT !.dlist.prev = v]
  BY <1>2, <1>4
<1> QED BY <1>3, <1>5, <1>6

LEMMA LinksSet ==
  ASSUME NEW r \in PageData, NEW u \in Link, NEW v \in Link
  PROVE  /\ [r EXCEPT !.dlist = [prev |-> u, next |-> v]] \in PageData
         /\ Alike(r, [r EXCEPT !.dlist = [prev |-> u, next |-> v]])
         /\ [r EXCEPT !.dlist = [prev |-> u, next |-> v]].dlist = [prev |-> u, next |-> v]
<1>1. PICK e : e = [prev |-> u, next |-> v]
  OBVIOUS
<1>2. e \in Dlist
  BY <1>1 DEF Dlist
<1>3. PICK r2 : r2 = [r EXCEPT !.dlist = e]
  OBVIOUS
<1>4. r2 \in PageData /\ Alike(r, r2) /\ r2.dlist = e
  BY <1>2, <1>3 DEF PageData, Alike
<1> QED BY <1>1, <1>3, <1>4

LEMMA FrontIs ==
  ASSUME NEW pg \in PagesType, NEW h \in Ends, NEW p \in PageId, h.first # p,
         h.first # NONE => pg[h.first].dlist # NONE
  PROVE  /\ LinkedFront(pg, h, p) \in PagesType
         /\ Fronted(pg, LinkedFront(pg, h, p), h, p)
         /\ \A q \in PageId : Alike(pg[q], LinkedFront(pg, h, p)[q])
         /\ \A q \in PageId : q # p =>
              (LinkedFront(pg, h, p)[q].dlist = NONE <=> pg[q].dlist = NONE)
<1>1. h.first \in Link /\ p \in Link /\ NONE \in Link
  BY DEF Ends, Link
<1>2. ASSUME NEW q \in PageId
      PROVE  /\ LinkedFront(pg, h, p)[q] \in PageData
             /\ Alike(pg[q], LinkedFront(pg, h, p)[q])
             /\ q = p => LinkedFront(pg, h, p)[q].dlist = [prev |-> NONE, next |-> h.first]
             /\ q = h.first => /\ LinkedFront(pg, h, p)[q].dlist
                                    = [prev |-> p, next |-> pg[q].dlist.next]
                               /\ pg[q].dlist # NONE
             /\ q # p /\ q # h.first => LinkedFront(pg, h, p)[q].dlist = pg[q].dlist
  <2>1. pg[q] \in PageData
    BY DEF PagesType
  <2>2. LinkedFront(pg, h, p)[q] =
          CASE q = p -> [pg[q] EXCEPT !.dlist = [prev |-> NONE, next |-> h.first]]
            [] q = h.first -> [pg[q] EXCEPT !.dlist.prev = p]
            [] OTHER -> pg[q]
    BY DEF LinkedFront
  <2>3. CASE q = p
    <3>1. LinkedFront(pg, h, p)[q] = [pg[q] EXCEPT !.dlist = [prev |-> NONE, next |-> h.first]]
      BY <2>2, <2>3
    <3> QED BY <1>1, <2>1, <2>3, <3>1, LinksSet
  <2>4. CASE q # p /\ q = h.first
    <3>1. LinkedFront(pg, h, p)[q] = [pg[q] EXCEPT !.dlist.prev = p]
      BY <2>2, <2>4
    <3>2. pg[q].dlist # NONE
      BY <2>4, NotNone
    <3> QED BY <1>1, <2>1, <2>4, <3>1, <3>2, PrevSet
  <2>5. CASE q # p /\ q # h.first
    <3>1. LinkedFront(pg, h, p)[q] = pg[q]
      BY <2>2, <2>5
    <3> QED BY <2>1, <2>5, <3>1 DEF Alike
  <2> QED BY <2>3, <2>4, <2>5
<1>3. LinkedFront(pg, h, p) \in PagesType
  <2>1. LinkedFront(pg, h, p) = [q \in PageId |-> LinkedFront(pg, h, p)[q]]
    BY DEF LinkedFront
  <2> QED BY <1>2, <2>1 DEF PagesType
<1>4. Fronted(pg, LinkedFront(pg, h, p), h, p)
  <2>1. h.first # NONE => h.first \in PageId
    BY <1>1 DEF Link
  <2> QED BY <1>2, <2>1 DEF Fronted
<1>5. ASSUME NEW q \in PageId, q # p
      PROVE  LinkedFront(pg, h, p)[q].dlist = NONE <=> pg[q].dlist = NONE
  <2>1. CASE q = h.first
    <3>1. pg[q].dlist \in Dlist
      BY <1>2, <2>1 DEF PagesType, PageData
    <3>2. [prev |-> p, next |-> pg[q].dlist.next] \in Dlist
      BY <1>1, <3>1 DEF Dlist
    <3>3. [prev |-> p, next |-> pg[q].dlist.next] # NONE
      BY <3>2, NoneAssumption DEF Dlist, Link
    <3> QED BY <1>2, <2>1, <3>3
  <2>2. CASE q # h.first
    BY <1>2, <1>5, <2>2
  <2> QED BY <2>1, <2>2
<1> QED BY <1>2, <1>3, <1>4, <1>5

LEMMA BackIs ==
  ASSUME NEW pg \in PagesType, NEW h \in Ends, NEW p \in PageId, h.last # p,
         h.last # NONE => pg[h.last].dlist # NONE
  PROVE  /\ LinkedBack(pg, h, p) \in PagesType
         /\ Backed(pg, LinkedBack(pg, h, p), h, p)
         /\ \A q \in PageId : Alike(pg[q], LinkedBack(pg, h, p)[q])
         /\ \A q \in PageId : q # p =>
              (LinkedBack(pg, h, p)[q].dlist = NONE <=> pg[q].dlist = NONE)
<1>1. h.last \in Link /\ p \in Link /\ NONE \in Link
  BY DEF Ends, Link
<1>2. ASSUME NEW q \in PageId
      PROVE  /\ LinkedBack(pg, h, p)[q] \in PageData
             /\ Alike(pg[q], LinkedBack(pg, h, p)[q])
             /\ q = p => LinkedBack(pg, h, p)[q].dlist = [prev |-> h.last, next |-> NONE]
             /\ q = h.last => /\ LinkedBack(pg, h, p)[q].dlist
                                    = [prev |-> pg[q].dlist.prev, next |-> p]
                               /\ pg[q].dlist # NONE
             /\ q # p /\ q # h.last => LinkedBack(pg, h, p)[q].dlist = pg[q].dlist
  <2>1. pg[q] \in PageData
    BY DEF PagesType
  <2>2. LinkedBack(pg, h, p)[q] =
          CASE q = p -> [pg[q] EXCEPT !.dlist = [prev |-> h.last, next |-> NONE]]
            [] q = h.last -> [pg[q] EXCEPT !.dlist.next = p]
            [] OTHER -> pg[q]
    BY DEF LinkedBack
  <2>3. CASE q = p
    <3>1. LinkedBack(pg, h, p)[q] = [pg[q] EXCEPT !.dlist = [prev |-> h.last, next |-> NONE]]
      BY <2>2, <2>3
    <3> QED BY <1>1, <2>1, <2>3, <3>1, LinksSet
  <2>4. CASE q # p /\ q = h.last
    <3>1. LinkedBack(pg, h, p)[q] = [pg[q] EXCEPT !.dlist.next = p]
      BY <2>2, <2>4
    <3>2. pg[q].dlist # NONE
      BY <2>4, NotNone
    <3> QED BY <1>1, <2>1, <2>4, <3>1, <3>2, NextSet
  <2>5. CASE q # p /\ q # h.last
    <3>1. LinkedBack(pg, h, p)[q] = pg[q]
      BY <2>2, <2>5
    <3> QED BY <2>1, <2>5, <3>1 DEF Alike
  <2> QED BY <2>3, <2>4, <2>5
<1>3. LinkedBack(pg, h, p) \in PagesType
  <2>1. LinkedBack(pg, h, p) = [q \in PageId |-> LinkedBack(pg, h, p)[q]]
    BY DEF LinkedBack
  <2> QED BY <1>2, <2>1 DEF PagesType
<1>4. Backed(pg, LinkedBack(pg, h, p), h, p)
  <2>1. h.last # NONE => h.last \in PageId
    BY <1>1 DEF Link
  <2> QED BY <1>2, <2>1 DEF Backed
<1>5. ASSUME NEW q \in PageId, q # p
      PROVE  LinkedBack(pg, h, p)[q].dlist = NONE <=> pg[q].dlist = NONE
  <2>1. CASE q = h.last
    <3>1. pg[q].dlist \in Dlist
      BY <1>2, <2>1 DEF PagesType, PageData
    <3>2. [prev |-> pg[q].dlist.prev, next |-> p] \in Dlist
      BY <1>1, <3>1 DEF Dlist
    <3>3. [prev |-> pg[q].dlist.prev, next |-> p] # NONE
      BY <3>2, NoneAssumption DEF Dlist, Link
    <3> QED BY <1>2, <2>1, <3>3
  <2>2. CASE q # h.last
    BY <1>2, <1>5, <2>2
  <2> QED BY <2>1, <2>2
<1> QED BY <1>2, <1>3, <1>4, <1>5

LEMMA UnlinkedIs ==
  ASSUME NEW pg \in PagesType, NEW p \in PageId, pg[p].dlist # NONE,
         pg[p].dlist.prev # NONE => /\ pg[p].dlist.prev # p
                                    /\ pg[p].dlist.prev # pg[p].dlist.next
                                    /\ pg[pg[p].dlist.prev].dlist # NONE,
         pg[p].dlist.next # NONE => /\ pg[p].dlist.next # p
                                    /\ pg[pg[p].dlist.next].dlist # NONE
  PROVE  /\ Unlinked(pg, p) \in PagesType
         /\ Bypassed(pg, Unlinked(pg, p), p)
         /\ Unlinked(pg, p)[p] = pg[p]
         /\ \A q \in PageId : /\ Alike(pg[q], Unlinked(pg, p)[q])
                              /\ Unlinked(pg, p)[q].dlist = NONE <=> pg[q].dlist = NONE
<1>a. PICK a : a = pg[p].dlist.prev
  OBVIOUS
<1>b. PICK b : b = pg[p].dlist.next
  OBVIOUS
<1>1. a \in Link /\ b \in Link
  <2>1. pg[p].dlist \in Dlist
    BY DEF PagesType, PageData
  <2> QED BY <1>a, <1>b, <2>1 DEF Dlist
<1>2. ASSUME NEW q \in PageId
      PROVE  /\ Unlinked(pg, p)[q] \in PageData
             /\ Alike(pg[q], Unlinked(pg, p)[q])
             /\ q = a => Unlinked(pg, p)[q].dlist = [prev |-> pg[q].dlist.prev, next |-> b]
             /\ q = b => Unlinked(pg, p)[q].dlist = [prev |-> a, next |-> pg[q].dlist.next]
             /\ q # a /\ q # b => Unlinked(pg, p)[q] = pg[q]
             /\ Unlinked(pg, p)[q].dlist = NONE <=> pg[q].dlist = NONE
  <2>1. pg[q] \in PageData /\ q # NONE
    BY NotNone DEF PagesType
  <2>2. Unlinked(pg, p)[q] = CASE q = a -> [pg[q] EXCEPT !.dlist.next = b]
                               [] q = b -> [pg[q] EXCEPT !.dlist.prev = a]
                               [] OTHER -> pg[q]
    BY <1>a, <1>b DEF Unlinked
  <2>3. CASE q = a
    <3>1. pg[q].dlist # NONE /\ a # b
      BY <1>a, <1>b, <2>1, <2>3
    <3>2. Unlinked(pg, p)[q] = [pg[q] EXCEPT !.dlist.next = b]
      BY <2>2, <2>3, <3>1
    <3>3. [prev |-> pg[q].dlist.prev, next |-> b] # NONE
      <4>1. pg[q].dlist \in Dlist
        BY <2>1, <3>1 DEF PageData
      <4>2. [prev |-> pg[q].dlist.prev, next |-> b] \in Dlist
        BY <1>1, <4>1 DEF Dlist
      <4> QED BY <4>2, NoneAssumption DEF Dlist, Link
    <3> QED BY <1>1, <2>1, <2>3, <3>1, <3>2, <3>3, NextSet
  <2>4. CASE q # a /\ q = b
    <3>1. pg[q].dlist # NONE
      BY <1>b, <2>1, <2>4
    <3>2. Unlinked(pg, p)[q] = [pg[q] EXCEPT !.dlist.prev = a]
      BY <2>2, <2>4
    <3>3. [prev |-> a, next |-> pg[q].dlist.next] # NONE
      <4>1. pg[q].dlist \in Dlist
        BY <2>1, <3>1 DEF PageData
      <4>2. [prev |-> a, next |-> pg[q].dlist.next] \in Dlist
        BY <1>1, <4>1 DEF Dlist
      <4> QED BY <4>2, NoneAssumption DEF Dlist, Link
    <3> QED BY <1>1, <2>1, <2>4, <3>1, <3>2, <3>3, PrevSet
  <2>5. CASE q # a /\ q # b
    <3>1. Unlinked(pg, p)[q] = pg[q]
      BY <2>2, <2>5
    <3> QED BY <2>1, <2>5, <3>1 DEF Alike
  <2> QED BY <2>3, <2>4, <2>5
<1>3. Unlinked(pg, p) \in PagesType
  <2>1. Unlinked(pg, p) = [q \in PageId |-> Unlinked(pg, p)[q]]
    BY DEF Unlinked
  <2> QED BY <1>2, <2>1 DEF PagesType
<1>4. p # a /\ p # b
  BY <1>a, <1>b, NotNone
<1>5. Bypassed(pg, Unlinked(pg, p), p)
  <2>1. (a # NONE => a \in PageId) /\ (b # NONE => b \in PageId)
    BY <1>1 DEF Link
  <2> QED BY <1>a, <1>b, <1>2, <2>1 DEF Bypassed
<1> QED BY <1>2, <1>3, <1>4, <1>5

LEMMA PageIdIs ==
  /\ \A s \in Segment, i \in 0 .. N : <<s, i>> \in PageId
  /\ \A p \in PageId : p[1] \in Segment /\ p[2] \in 0 .. N /\ p = <<p[1], p[2]>>
  /\ \A s, t, i, j : <<s, i>> = <<t, j>> <=> s = t /\ i = j
  /\ N \in Nat /\ N >= 2
  BY SliceAssumption DEF PageId, Idx, N

LEMMA OffsetSet ==
  ASSUME NEW r \in PageData, NEW o \in Slice \cup {NONE}
  PROVE  /\ [r EXCEPT !.offset = o] \in PageData
         /\ [r EXCEPT !.offset = o].count = r.count
         /\ [r EXCEPT !.offset = o].offset = o
         /\ [r EXCEPT !.offset = o].dlist = r.dlist
         /\ [r EXCEPT !.offset = o].is_used <=> r.is_used
         /\ [r EXCEPT !.offset = o].full = r.full
         /\ [r EXCEPT !.offset = o].kind = r.kind
<1>1. PICK r2 : r2 = [r EXCEPT !.offset = o]
  OBVIOUS
<1>2. /\ r2 \in PageData /\ r2.count = r.count /\ r2.offset = o /\ r2.dlist = r.dlist
      /\ r2.is_used <=> r.is_used
      /\ r2.full = r.full /\ r2.kind = r.kind
  BY <1>1 DEF PageData
<1> QED BY <1>1, <1>2

LEMMA CountSet ==
  ASSUME NEW r \in PageData, NEW o \in 1 .. N \cup {NONE}
  PROVE  /\ [r EXCEPT !.count = o] \in PageData
         /\ [r EXCEPT !.count = o].offset = r.offset
         /\ [r EXCEPT !.count = o].count = o
         /\ [r EXCEPT !.count = o].dlist = r.dlist
         /\ [r EXCEPT !.count = o].is_used <=> r.is_used
         /\ [r EXCEPT !.count = o].full = r.full
         /\ [r EXCEPT !.count = o].kind = r.kind
<1>1. PICK r2 : r2 = [r EXCEPT !.count = o]
  OBVIOUS
<1>2. /\ r2 \in PageData /\ r2.offset = r.offset /\ r2.count = o /\ r2.dlist = r.dlist
      /\ r2.is_used <=> r.is_used
      /\ r2.full = r.full /\ r2.kind = r.kind
  BY <1>1 DEF PageData
<1> QED BY <1>1, <1>2

LEMMA DlistSet ==
  ASSUME NEW r \in PageData, NEW o \in Dlist \cup {NONE}
  PROVE  /\ [r EXCEPT !.dlist = o] \in PageData
         /\ [r EXCEPT !.dlist = o].count = r.count
         /\ [r EXCEPT !.dlist = o].dlist = o
         /\ [r EXCEPT !.dlist = o].offset = r.offset
         /\ [r EXCEPT !.dlist = o].is_used <=> r.is_used
         /\ [r EXCEPT !.dlist = o].full = r.full
         /\ [r EXCEPT !.dlist = o].kind = r.kind
<1>1. PICK r2 : r2 = [r EXCEPT !.dlist = o]
  OBVIOUS
<1>2. /\ r2 \in PageData /\ r2.count = r.count /\ r2.offset = r.offset /\ r2.dlist = o
      /\ r2.is_used <=> r.is_used
      /\ r2.full = r.full /\ r2.kind = r.kind
  BY <1>1 DEF PageData
<1> QED BY <1>1, <1>2

LEMMA SpanWrittenIs ==
  ASSUME NEW pg \in PagesType, NEW s \in Segment, NEW i \in Slice, NEW n \in 1 .. N - i
  PROVE  /\ SpanWritten(pg, s, i, n) \in PagesType
         /\ \A q \in PageId :
              /\ SpanWritten(pg, s, i, n)[q].count = IF q = <<s, i>> THEN n ELSE pg[q].count
              /\ SpanWritten(pg, s, i, n)[q].offset =
                   IF q = <<s, i + n - 1>> THEN n - 1 ELSE IF q = <<s, i>> THEN 0 ELSE pg[q].offset
              /\ SpanWritten(pg, s, i, n)[q].dlist = pg[q].dlist
              /\ SpanWritten(pg, s, i, n)[q].is_used <=> pg[q].is_used
              /\ SpanWritten(pg, s, i, n)[q].full = pg[q].full
              /\ SpanWritten(pg, s, i, n)[q].kind = pg[q].kind
<1>0. /\ i \in 0 .. N /\ i + n - 1 \in 0 .. N /\ n \in 1 .. N /\ n - 1 \in Slice /\ 0 \in Slice
  BY PageIdIs DEF Slice
<1>a. PICK a \in PageId : a = <<s, i>>
  BY <1>0, PageIdIs
<1>b. PICK b \in PageId : b = <<s, i + n - 1>>
  BY <1>0, PageIdIs
<1>1. PICK f : f = [pg EXCEPT ![a].count = n]
  OBVIOUS
<1>2. PICK g : g = [f EXCEPT ![a].offset = 0]
  OBVIOUS
<1>3. PICK g2 : g2 = [g EXCEPT ![b].offset = n - 1]
  OBVIOUS
<1>4. g2 = SpanWritten(pg, s, i, n)
  BY <1>a, <1>b, <1>1, <1>2, <1>3, Zenon DEF SpanWritten
<1>5. /\ f \in PagesType
      /\ f[a] = [pg[a] EXCEPT !.count = n]
      /\ \A q \in PageId : q # a => f[q] = pg[q]
      /\ f[a].count = n /\ f[a].offset = pg[a].offset /\ f[a].dlist = pg[a].dlist
      /\ f[a].is_used <=> pg[a].is_used
      /\ f[a].full = pg[a].full /\ f[a].kind = pg[a].kind
  <2>1. pg[a] \in PageData
    BY DEF PagesType
  <2>2. [pg[a] EXCEPT !.count = n] \in PageData
    BY <1>0, <2>1, CountSet
  <2>3. /\ f \in PagesType
        /\ f[a] = [pg[a] EXCEPT !.count = n]
        /\ \A q \in PageId : q # a => f[q] = pg[q]
    BY <1>1, <2>2 DEF PagesType
  <2> QED BY <1>0, <2>1, <2>3, CountSet
<1>6. /\ g \in PagesType
      /\ \A q \in PageId : q # a => g[q] = f[q]
      /\ g[a].count = f[a].count /\ g[a].offset = 0 /\ g[a].dlist = f[a].dlist
      /\ g[a].is_used <=> f[a].is_used
      /\ g[a].full = f[a].full /\ g[a].kind = f[a].kind
  <2>1. f[a] \in PageData
    BY <1>5 DEF PagesType
  <2>2. [f[a] EXCEPT !.offset = 0] \in PageData
    BY <1>0, <2>1, OffsetSet
  <2>3. /\ g \in PagesType
        /\ g[a] = [f[a] EXCEPT !.offset = 0]
        /\ \A q \in PageId : q # a => g[q] = f[q]
    BY <1>2, <1>5, <2>2 DEF PagesType
  <2> QED BY <1>0, <2>1, <2>3, OffsetSet
<1>8. /\ g2 \in PagesType
      /\ \A q \in PageId : q # b => g2[q] = g[q]
      /\ g2[b].count = g[b].count /\ g2[b].offset = n - 1 /\ g2[b].dlist = g[b].dlist
      /\ g2[b].is_used <=> g[b].is_used
      /\ g2[b].full = g[b].full /\ g2[b].kind = g[b].kind
  <2>1. g[b] \in PageData
    BY <1>6 DEF PagesType
  <2>2. [g[b] EXCEPT !.offset = n - 1] \in PageData
    BY <1>0, <2>1, OffsetSet
  <2>3. /\ g2 \in PagesType
        /\ g2[b] = [g[b] EXCEPT !.offset = n - 1]
        /\ \A q \in PageId : q # b => g2[q] = g[q]
    BY <1>3, <1>6, <2>2 DEF PagesType
  <2> QED BY <1>0, <2>1, <2>3, OffsetSet
<1>9. ASSUME NEW q \in PageId
      PROVE  /\ g2[q].count = IF q = a THEN n ELSE pg[q].count
             /\ g2[q].offset = IF q = b THEN n - 1 ELSE IF q = a THEN 0 ELSE pg[q].offset
             /\ g2[q].dlist = pg[q].dlist
             /\ g2[q].is_used <=> pg[q].is_used
             /\ g2[q].full = pg[q].full /\ g2[q].kind = pg[q].kind
  <2>1. /\ g[q].count = IF q = a THEN n ELSE pg[q].count
        /\ g[q].offset = IF q = a THEN 0 ELSE pg[q].offset
        /\ g[q].dlist = pg[q].dlist
        /\ g[q].is_used <=> pg[q].is_used
        /\ g[q].full = pg[q].full /\ g[q].kind = pg[q].kind
    <3>1. CASE q = a
      BY <1>5, <1>6, <3>1
    <3>2. CASE q # a
      BY <1>5, <1>6, <3>2
    <3> QED BY <3>1, <3>2
  <2>2. CASE q = b
    BY <1>8, <2>1, <2>2
  <2>3. CASE q # b
    BY <1>8, <2>1, <2>3
  <2> QED BY <2>2, <2>3
<1> QED BY <1>4, <1>8, <1>9, <1>a, <1>b

LEMMA SpanErasedIs ==
  ASSUME NEW pg \in PagesType, NEW s \in Segment, NEW i \in Slice, NEW n \in 1 .. N - i
  PROVE  /\ SpanErased(pg, s, i, n) \in PagesType
         /\ \A q \in PageId :
              /\ SpanErased(pg, s, i, n)[q].count = IF q = <<s, i>> THEN NONE ELSE pg[q].count
              /\ SpanErased(pg, s, i, n)[q].offset =
                   IF q = <<s, i>> \/ q = <<s, i + n - 1>> THEN NONE ELSE pg[q].offset
              /\ SpanErased(pg, s, i, n)[q].dlist = IF q = <<s, i>> THEN NONE ELSE pg[q].dlist
              /\ SpanErased(pg, s, i, n)[q].is_used <=> pg[q].is_used
              /\ SpanErased(pg, s, i, n)[q].full = pg[q].full
              /\ SpanErased(pg, s, i, n)[q].kind = pg[q].kind
<1>0. i \in 0 .. N /\ i + n - 1 \in 0 .. N
  BY PageIdIs DEF Slice
<1>a. PICK a \in PageId : a = <<s, i>>
  BY <1>0, PageIdIs
<1>b. PICK b \in PageId : b = <<s, i + n - 1>>
  BY <1>0, PageIdIs
<1>1. PICK f : f = [pg EXCEPT ![a].count = NONE]
  OBVIOUS
<1>2. PICK g : g = [f EXCEPT ![a].offset = NONE]
  OBVIOUS
<1>3. PICK g2 : g2 = [g EXCEPT ![a].dlist = NONE]
  OBVIOUS
<1>4. PICK g3 : g3 = [g2 EXCEPT ![b].offset = NONE]
  OBVIOUS
<1>5. g3 = SpanErased(pg, s, i, n)
  BY <1>a, <1>b, <1>1, <1>2, <1>3, <1>4, Zenon DEF SpanErased
<1>6. /\ f \in PagesType
      /\ \A q \in PageId : q # a => f[q] = pg[q]
      /\ f[a].count = NONE
      /\ f[a].offset = pg[a].offset
      /\ f[a].dlist = pg[a].dlist
      /\ f[a].is_used <=> pg[a].is_used
      /\ f[a].full = pg[a].full
      /\ f[a].kind = pg[a].kind
  <2>1. pg[a] \in PageData
    BY <1>0 DEF PagesType
  <2>2. [pg[a] EXCEPT !.count = NONE] \in PageData
    BY <1>0, <2>1, CountSet
  <2>3. /\ f \in PagesType
        /\ f[a] = [pg[a] EXCEPT !.count = NONE]
        /\ \A q \in PageId : q # a => f[q] = pg[q]
    BY <1>1, <1>0, <2>2 DEF PagesType
  <2> QED BY <1>0, <2>1, <2>3, CountSet
<1>7. /\ g \in PagesType
      /\ \A q \in PageId : q # a => g[q] = f[q]
      /\ g[a].count = f[a].count
      /\ g[a].offset = NONE
      /\ g[a].dlist = f[a].dlist
      /\ g[a].is_used <=> f[a].is_used
      /\ g[a].full = f[a].full
      /\ g[a].kind = f[a].kind
  <2>1. f[a] \in PageData
    BY <1>6 DEF PagesType
  <2>2. [f[a] EXCEPT !.offset = NONE] \in PageData
    BY <1>0, <2>1, OffsetSet
  <2>3. /\ g \in PagesType
        /\ g[a] = [f[a] EXCEPT !.offset = NONE]
        /\ \A q \in PageId : q # a => g[q] = f[q]
    BY <1>2, <1>6, <2>2 DEF PagesType
  <2> QED BY <1>0, <2>1, <2>3, OffsetSet
<1>8. /\ g2 \in PagesType
      /\ \A q \in PageId : q # a => g2[q] = g[q]
      /\ g2[a].count = g[a].count
      /\ g2[a].offset = g[a].offset
      /\ g2[a].dlist = NONE
      /\ g2[a].is_used <=> g[a].is_used
      /\ g2[a].full = g[a].full
      /\ g2[a].kind = g[a].kind
  <2>1. g[a] \in PageData
    BY <1>7 DEF PagesType
  <2>2. [g[a] EXCEPT !.dlist = NONE] \in PageData
    BY <1>0, <2>1, DlistSet
  <2>3. /\ g2 \in PagesType
        /\ g2[a] = [g[a] EXCEPT !.dlist = NONE]
        /\ \A q \in PageId : q # a => g2[q] = g[q]
    BY <1>3, <1>7, <2>2 DEF PagesType
  <2> QED BY <1>0, <2>1, <2>3, DlistSet
<1>9. /\ g3 \in PagesType
      /\ \A q \in PageId : q # b => g3[q] = g2[q]
      /\ g3[b].count = g2[b].count
      /\ g3[b].offset = NONE
      /\ g3[b].dlist = g2[b].dlist
      /\ g3[b].is_used <=> g2[b].is_used
      /\ g3[b].full = g2[b].full
      /\ g3[b].kind = g2[b].kind
  <2>1. g2[b] \in PageData
    BY <1>8 DEF PagesType
  <2>2. [g2[b] EXCEPT !.offset = NONE] \in PageData
    BY <1>0, <2>1, OffsetSet
  <2>3. /\ g3 \in PagesType
        /\ g3[b] = [g2[b] EXCEPT !.offset = NONE]
        /\ \A q \in PageId : q # b => g3[q] = g2[q]
    BY <1>4, <1>8, <2>2 DEF PagesType
  <2> QED BY <1>0, <2>1, <2>3, OffsetSet
<1>10. ASSUME NEW q \in PageId
       PROVE  /\ g3[q].count = IF q = a THEN NONE ELSE pg[q].count
              /\ g3[q].offset = IF q = a \/ q = b THEN NONE ELSE pg[q].offset
              /\ g3[q].dlist = IF q = a THEN NONE ELSE pg[q].dlist
              /\ g3[q].is_used <=> pg[q].is_used
              /\ g3[q].full = pg[q].full /\ g3[q].kind = pg[q].kind
  <2>1. /\ g2[q].count = IF q = a THEN NONE ELSE pg[q].count
        /\ g2[q].offset = IF q = a THEN NONE ELSE pg[q].offset
        /\ g2[q].dlist = IF q = a THEN NONE ELSE pg[q].dlist
        /\ g2[q].is_used <=> pg[q].is_used
        /\ g2[q].full = pg[q].full /\ g2[q].kind = pg[q].kind
    <3>1. CASE q = a
      BY <1>6, <1>7, <1>8, <3>1
    <3>2. CASE q # a
      BY <1>6, <1>7, <1>8, <3>2
    <3> QED BY <3>1, <3>2
  <2>2. CASE q = b
    BY <1>9, <2>1, <2>2
  <2>3. CASE q # b
    BY <1>9, <2>1, <2>3
  <2> QED BY <2>2, <2>3
<1> QED BY <1>5, <1>9, <1>10, <1>a, <1>b

-----------------------------------------------------------------------------
(* Spans: what a change inside one range of slices means for the invariant  *)

\* the same header but for the links it has, if it has some
SameShape(r, r2) == Alike(r, r2) /\ (r2.dlist = NONE <=> r.dlist = NONE)

LEMMA SpanAt ==
  ASSUME NEW pg, NEW s, NEW a \in Int, NEW n \in Int, NEW c, Span(pg, s, a, n, c),
         NEW x \in a .. a + n - 1
  PROVE  Piece(pg[<<s, x>>], x - a, n, c)
  BY DEF Span

LEMMA PieceSame ==
  ASSUME NEW r, NEW r2, SameShape(r, r2), NEW k, NEW n, NEW c, Piece(r, k, n, c)
  PROVE  Piece(r2, k, n, c)
  BY DEF SameShape, Alike, Piece

LEMMA EmptySame ==
  ASSUME NEW r, NEW r2, SameShape(r, r2), Empty(r)
  PROVE  Empty(r2)
  BY DEF SameShape, Alike, Empty

LEMMA GoneIsEmpty ==
  ASSUME NEW r, NEW k, NEW n
  PROVE  Piece(r, k, n, "gone") <=> Empty(r)
  BY DEF Piece, Empty

LEMMA ExtIs ==
  ASSUME NEW pg \in PagesType, NEW pop, NEW s \in Segment, NEW i \in Slice
  PROVE  /\ <<s, i>> \in PageId
         /\ Hole(pop, s, i) => Ext(pg, pop, s)[i] = pop.count
         /\ ~Hole(pop, s, i) /\ pg[<<s, i>>].offset = 0 => Ext(pg, pop, s)[i] = pg[<<s, i>>].count
         /\ ~Hole(pop, s, i) /\ pg[<<s, i>>].offset # 0 => Ext(pg, pop, s)[i] = 0
<1>1. <<s, i>> \in PageId
  BY PageIdIs DEF Slice
<1> QED BY <1>1 DEF Ext

\* outside R the headers keep their shape, and nothing there is taken out
Quiet(pg, pg2, pop, pop2, R) ==
  \A q \in PageId \ R : SameShape(pg[q], pg2[q]) /\ ~PopOn(pop, q) /\ ~PopOn(pop2, q)

\* the slices from a to b - 1
Region(s, a, b) == {q \in PageId : q[1] = s /\ q[2] \in a .. b - 1}

LEMMA OutsideSame ==
  ASSUME NEW pg, NEW pg2, NEW pop, NEW pop2, NEW R, Quiet(pg, pg2, pop, pop2, R),
         NEW t \in Segment, NEW i \in Slice, <<t, i>> \notin R
  PROVE  /\ SameShape(pg[<<t, i>>], pg2[<<t, i>>])
         /\ Ext(pg2, pop2, t)[i] = Ext(pg, pop, t)[i]
         /\ Class(pg2, pop2, t, i) = Class(pg, pop, t, i)
<1>1. PICK q : q = <<t, i>>
  OBVIOUS
<1>2. q \in PageId /\ q \notin R /\ q[1] = t /\ q[2] = i
  BY <1>1, PageIdIs DEF Slice
<1>3. SameShape(pg[q], pg2[q]) /\ ~PopOn(pop, q) /\ ~PopOn(pop2, q)
  BY <1>2 DEF Quiet
<1>4. /\ ~Hole(pop, t, i) /\ ~Hole(pop2, t, i)
      /\ ~IsReady(pop, q) /\ ~IsReady(pop2, q) /\ ~IsTaken(pop, q) /\ ~IsTaken(pop2, q)
  BY <1>2, <1>3 DEF PopOn
<1>5. pg2[q].offset = pg[q].offset /\ pg2[q].count = pg[q].count /\ (pg2[q].is_used <=> pg[q].is_used)
  BY <1>3 DEF SameShape, Alike
<1>6. Ext(pg2, pop2, t)[i] = Ext(pg, pop, t)[i]
  BY <1>1, <1>4, <1>5 DEF Ext
<1>7. Class(pg2, pop2, t, i) = Class(pg, pop, t, i)
  BY <1>1, <1>4, <1>5 DEF Class
<1> QED BY <1>1, <1>3, <1>6, <1>7

\* a span before the first slice of another one ends before it
LEMMA SpansApart ==
  ASSUME NEW e, NEW lo, Tiling(e, lo), NEW j \in Slice, NEW a \in Slice,
         e[j] # 0, e[a] # 0, j < a
  PROVE  j + e[j] <= a
<1>1. e[j] \in 0 .. N /\ \A k \in j + 1 .. j + e[j] - 1 : e[k] = 0
  BY DEF Tiling
<1> QED BY <1>1 DEF Slice

\* no span begins before slice a and reaches beyond it
Cut(e, a) == \A j \in Slice : j < a /\ e[j] # 0 => j + e[j] <= a

LEMMA CutAt ==
  ASSUME NEW e, NEW lo, Tiling(e, lo), NEW a \in Slice, e[a] # 0 \/ a = 0 \/ a = lo
  PROVE  Cut(e, a)
<1> SUFFICES ASSUME NEW j \in Slice, j < a, e[j] # 0
             PROVE  j + e[j] <= a
  BY DEF Cut
<1>1. a # 0
  BY PageIdIs DEF Slice
<1>2. a # lo
  BY PageIdIs DEF Tiling, Slice
<1> QED BY <1>1, <1>2, SpansApart

\* the spans outside the region are what they were
LEMMA SegmentStep ==
  ASSUME NEW pg, NEW pg2, NEW pop, NEW pop2, NEW s \in Segment,
         NEW a \in 0 .. N, NEW b \in 0 .. N, SegmentOK(pg, pop, s),
         Quiet(pg, pg2, pop, pop2, Region(s, a, b)),
         Cut(Ext(pg, pop, s), a),
         Tiling(Ext(pg2, pop2, s), Lo(pop2, s)),
         \A x \in a .. b - 1 : Ext(pg2, pop2, s)[x] # 0 =>
           Span(pg2, s, x, Ext(pg2, pop2, s)[x], Class(pg2, pop2, s, x)),
         \A i \in 0 .. Lo(pop2, s) - 1 : Empty(pg2[<<s, i>>])
  PROVE  SegmentOK(pg2, pop2, s)
<1>e. PICK e : e = Ext(pg, pop, s)
  OBVIOUS
<1>f. PICK f : f = Ext(pg2, pop2, s)
  OBVIOUS
<1>0. N \in Nat
  BY PageIdIs
<1>1. ASSUME NEW x \in Slice, f[x] # 0
      PROVE  Span(pg2, s, x, f[x], Class(pg2, pop2, s, x))
  <2>1. CASE x \in a .. b - 1
    BY <1>f, <1>1, <2>1
  <2>2. CASE x \notin a .. b - 1
    <3>1. ASSUME NEW y \in Slice, y \notin a .. b - 1
          PROVE  /\ SameShape(pg[<<s, y>>], pg2[<<s, y>>])
                 /\ f[y] = e[y]
                 /\ Class(pg2, pop2, s, y) = Class(pg, pop, s, y)
      <4>1. <<s, y>> \notin Region(s, a, b)
        BY <3>1 DEF Region
      <4> QED BY <1>e, <1>f, <3>1, <4>1, OutsideSame
    <3>2. f[x] = e[x] /\ Class(pg2, pop2, s, x) = Class(pg, pop, s, x)
      BY <2>2, <3>1
    <3>3. Tiling(e, Lo(pop, s)) /\ Span(pg, s, x, e[x], Class(pg, pop, s, x))
      BY <1>e, <1>1, <3>2 DEF SegmentOK
    <3>4. e[x] \in 0 .. N /\ x + e[x] <= N
      BY <1>1, <3>2, <3>3 DEF Tiling
    <3>5. x < a => x + e[x] <= a
      BY <1>1, <1>e, <3>2 DEF Cut
    <3>6. ASSUME NEW y \in x .. x + e[x] - 1
          PROVE  Piece(pg2[<<s, y>>], y - x, e[x], Class(pg, pop, s, x))
      <4>1. y \in Slice /\ y \notin a .. b - 1
        BY <1>0, <2>2, <3>4, <3>5 DEF Slice
      <4>2. SameShape(pg[<<s, y>>], pg2[<<s, y>>])
        BY <3>1, <4>1
      <4>3. Piece(pg[<<s, y>>], y - x, e[x], Class(pg, pop, s, x))
        BY <3>3, <3>4, SpanAt DEF Slice
      <4> QED BY <4>2, <4>3, PieceSame
    <3> QED BY <3>2, <3>6 DEF Span
  <2> QED BY <2>1, <2>2
<1> QED BY <1>f, <1>1 DEF SegmentOK

\* the other segments are what they were
LEMMA SegmentKept ==
  ASSUME NEW pg, NEW pg2, NEW pop, NEW pop2, NEW R, NEW t \in Segment,
         SegmentOK(pg, pop, t), Quiet(pg, pg2, pop, pop2, R),
         \A q \in R : q[1] # t, Lo(pop2, t) = Lo(pop, t)
  PROVE  SegmentOK(pg2, pop2, t)
<1>e. PICK e : e = Ext(pg, pop, t)
  OBVIOUS
<1>0. N \in Nat
  BY PageIdIs
<1>1. ASSUME NEW y \in Slice
      PROVE  /\ SameShape(pg[<<t, y>>], pg2[<<t, y>>])
             /\ Ext(pg2, pop2, t)[y] = e[y]
             /\ Class(pg2, pop2, t, y) = Class(pg, pop, t, y)
  <2>1. <<t, y>> \notin R
    <3>1. <<t, y>>[1] = t
      OBVIOUS
    <3> QED BY <3>1
  <2> QED BY <1>e, <2>1, OutsideSame
<1>2. Ext(pg2, pop2, t) = e
  BY <1>e, <1>1 DEF Ext
<1>3. /\ Tiling(e, Lo(pop, t))
      /\ \A a \in Slice : e[a] # 0 => Span(pg, t, a, e[a], Class(pg, pop, t, a))
      /\ \A i \in 0 .. Lo(pop, t) - 1 : Empty(pg[<<t, i>>])
  BY <1>e DEF SegmentOK
<1>4. ASSUME NEW a \in Slice, e[a] # 0
      PROVE  Span(pg2, t, a, e[a], Class(pg2, pop2, t, a))
  <2>1. e[a] \in 0 .. N /\ a + e[a] <= N
    BY <1>3, <1>4 DEF Tiling
  <2>2. ASSUME NEW y \in a .. a + e[a] - 1
        PROVE  Piece(pg2[<<t, y>>], y - a, e[a], Class(pg, pop, t, a))
    <3>1. y \in Slice
      BY <1>0, <2>1 DEF Slice
    <3>2. SameShape(pg[<<t, y>>], pg2[<<t, y>>])
      BY <1>1, <3>1
    <3>3. Piece(pg[<<t, y>>], y - a, e[a], Class(pg, pop, t, a))
      BY <1>3, <1>4, <2>1, SpanAt DEF Slice
    <3> QED BY <3>2, <3>3, PieceSame
  <2> QED BY <1>1, <2>2 DEF Span
<1>5. ASSUME NEW i \in 0 .. Lo(pop, t) - 1 PROVE Empty(pg2[<<t, i>>])
  <2>1. i \in Slice
    BY <1>0, <1>3 DEF Slice, Tiling
  <2> QED BY <1>1, <1>3, <2>1, EmptySame
<1> QED BY <1>2, <1>3, <1>4, <1>5 DEF SegmentOK

\* a span as it is told by its first header, or by what is taken out
LEMMA ExtOfSpan ==
  ASSUME NEW pg \in PagesType, NEW pop, NEW s \in Segment, NEW a \in Slice, NEW n \in 1 .. N - a,
         Span(pg, s, a, n, Class(pg, pop, s, a)),
         Class(pg, pop, s, a) = "gone" => pop.count = n,
         \A x \in a + 1 .. a + n - 1 : ~Hole(pop, s, x)
  PROVE  /\ Ext(pg, pop, s)[a] = n
         /\ \A x \in a + 1 .. a + n - 1 : Ext(pg, pop, s)[x] = 0
<1>0. N \in Nat /\ n \in Nat /\ a \in Nat /\ a + n <= N
  BY PageIdIs DEF Slice
<1>c. PICK c : c = Class(pg, pop, s, a)
  OBVIOUS
<1>1. c = "gone" <=> Hole(pop, s, a)
  BY <1>c DEF Class, Hole, IsReady, IsTaken
<1>2. Ext(pg, pop, s)[a] = n
  <2>1. CASE c = "gone"
    BY <1>1, <1>c, <2>1, ExtIs
  <2>2. CASE c # "gone"
    <3>1. Piece(pg[<<s, a>>], 0, n, c)
      <4>1. a \in a .. a + n - 1 /\ a - a = 0
        BY <1>0
      <4> QED BY <1>0, <1>c, <4>1, SpanAt
    <3>2. pg[<<s, a>>].offset = 0 /\ pg[<<s, a>>].count = n
      BY <2>2, <3>1 DEF Piece
    <3> QED BY <1>1, <2>2, <3>2, ExtIs
  <2> QED BY <2>1, <2>2
<1>3. ASSUME NEW x \in a + 1 .. a + n - 1 PROVE Ext(pg, pop, s)[x] = 0
  <2>1. x \in Slice /\ x \in a .. a + n - 1 /\ x - a # 0 /\ x - a \in Int
    BY <1>0 DEF Slice
  <2>2. Piece(pg[<<s, x>>], x - a, n, c)
    BY <1>0, <1>c, <2>1, SpanAt
  <2>3. pg[<<s, x>>].offset # 0
    BY <2>1, <2>2, NoneAssumption DEF Piece
  <2> QED BY <2>1, <2>3, ExtIs
<1> QED BY <1>2, <1>3

LEMMA EmptyExt ==
  ASSUME NEW pg \in PagesType, NEW pop, NEW s \in Segment, NEW x \in Slice,
         Empty(pg[<<s, x>>]), ~Hole(pop, s, x)
  PROVE  Ext(pg, pop, s)[x] = 0
  BY ExtIs, NoneAssumption DEF Empty

\* which headers of a span are in the lists and in the count: its first one
LEMMA SpanMembers ==
  ASSUME NEW pg \in PagesType, NEW pop, NEW s \in Segment, NEW a \in Slice, NEW n \in 1 .. N - a,
         NEW c, c = Class(pg, pop, s, a), c = "taken" => a # 0,
         Span(pg, s, a, n, c), NEW x \in a .. a + n - 1
  PROVE  /\ <<s, x>> \in FreeSpans(pg, pop) <=> x = a /\ c = "free"
         /\ <<s, x>> \in ListedPages(pg, pop) <=> x = a /\ c = "page"
         /\ x \in Headed(pg, s) <=> x = a /\ c \in {"page", "taken"}
<1>0. /\ N \in Nat /\ n \in Nat /\ a \in Nat /\ a + n <= N
      /\ x \in Slice /\ x - a \in Int /\ (x - a = 0 <=> x = a)
  BY PageIdIs DEF Slice
<1>q. PICK q : q = <<s, x>>
  OBVIOUS
<1>1. q \in PageId /\ q[2] = x /\ q[1] = s
  BY <1>0, <1>q, PageIdIs DEF Slice
<1>2. Piece(pg[q], x - a, n, c)
  <2>1. Piece(pg[<<s, x>>], x - a, n, c)
    BY <1>0, SpanAt
  <2> QED BY <1>q, <2>1
<1>3. pg[q].offset = 0 <=> x = a /\ c # "gone"
  BY <1>0, <1>2, NoneAssumption DEF Piece
<1>4. pg[q].is_used <=> c \in {"page", "taken"}
  BY <1>2 DEF Piece
<1>5. x = a => /\ (c = "gone" <=> Hole(pop, s, a))
               /\ (c = "ready" => IsReady(pop, q))
               /\ (c = "taken" => IsTaken(pop, q))
               /\ (IsReady(pop, q) => c \in {"gone", "ready"})
               /\ (IsTaken(pop, q) => c \in {"gone", "ready", "taken"})
               /\ (c = "head" => a = 0) /\ (c \in {"page", "free"} => a # 0)
               /\ c \in {"gone", "ready", "taken", "head", "page", "free"}
  BY <1>q DEF Class, Hole, IsReady, IsTaken
<1>6. q \in FreeSpans(pg, pop) <=> x = a /\ c = "free"
  <2>1. q \in FreeSpans(pg, pop) <=> x # 0 /\ pg[q].offset = 0 /\ ~pg[q].is_used /\ ~IsReady(pop, q)
    BY <1>1 DEF FreeSpans
  <2> QED BY <1>3, <1>4, <1>5, <2>1
<1>7. q \in ListedPages(pg, pop) <=> x = a /\ c = "page"
  <2>1. q \in ListedPages(pg, pop) <=> pg[q].is_used /\ pg[q].offset = 0 /\ ~IsTaken(pop, q)
    BY <1>1 DEF ListedPages
  <2> QED BY <1>3, <1>4, <1>5, <2>1
<1>8. x \in Headed(pg, s) <=> x = a /\ c \in {"page", "taken"}
  <2>1. x \in Headed(pg, s) <=> x # 0 /\ pg[q].is_used /\ pg[q].offset = 0
    BY <1>0, <1>q DEF Headed
  <2> QED BY <1>3, <1>4, <1>5, <2>1
<1> QED BY <1>q, <1>6, <1>7, <1>8

LEMMA EmptyMembers ==
  ASSUME NEW pg, NEW pop, NEW s, NEW x, Empty(pg[<<s, x>>])
  PROVE  /\ <<s, x>> \notin FreeSpans(pg, pop)
         /\ <<s, x>> \notin ListedPages(pg, pop)
         /\ x \notin Headed(pg, s)
  BY NoneAssumption DEF Empty, FreeSpans, ListedPages, Headed

LEMMA QuietMembers ==
  ASSUME NEW pg, NEW pg2, NEW pop, NEW pop2, NEW R, Quiet(pg, pg2, pop, pop2, R),
         NEW q \in PageId \ R
  PROVE  /\ q \in FreeSpans(pg2, pop2) <=> q \in FreeSpans(pg, pop)
         /\ q \in ListedPages(pg2, pop2) <=> q \in ListedPages(pg, pop)
         /\ q[2] \in Headed(pg2, q[1]) <=> q[2] \in Headed(pg, q[1])
<1>1. SameShape(pg[q], pg2[q]) /\ ~IsReady(pop, q) /\ ~IsTaken(pop, q)
      /\ ~IsReady(pop2, q) /\ ~IsTaken(pop2, q)
  BY DEF Quiet, PopOn
<1>2. pg2[q].offset = pg[q].offset /\ (pg2[q].is_used <=> pg[q].is_used)
  BY <1>1 DEF SameShape, Alike
<1>3. q[2] \in Headed(pg2, q[1]) <=> q[2] \in Headed(pg, q[1])
  <2>1. q = <<q[1], q[2]>>
    BY PageIdIs
  <2> QED BY <1>2, <2>1 DEF Headed
<1> QED BY <1>1, <1>2, <1>3 DEF FreeSpans, ListedPages

LEMMA HeadedKept ==
  ASSUME NEW pg, NEW pg2, NEW pop, NEW pop2, NEW R, Quiet(pg, pg2, pop, pop2, R),
         NEW t \in Segment, \A q \in R : q[1] # t
  PROVE  Headed(pg2, t) = Headed(pg, t)
<1>1. ASSUME NEW x \in Slice PROVE x \in Headed(pg2, t) <=> x \in Headed(pg, t)
  <2>q. PICK q : q = <<t, x>>
    OBVIOUS
  <2>1. q \in PageId /\ q[1] = t /\ q[2] = x
    BY <2>q, PageIdIs DEF Slice
  <2>2. q \in PageId \ R
    BY <2>1
  <2> QED BY <2>1, <2>2, QuietMembers
<1> QED BY <1>1 DEF Headed

\* the span at slice a of a segment is something else than before
If(c, S) == IF c THEN S ELSE {}

TurnHere(pg, pg2, pop, pop2, s, a, n, c, c2) ==
  /\ pg \in PagesType /\ pg2 \in PagesType /\ s \in Segment /\ SegmentOK(pg, pop, s)
  /\ a \in Slice /\ n = Ext(pg, pop, s)[a] /\ n # 0 /\ a # 0
  /\ c = Class(pg, pop, s, a) /\ c2 = Class(pg2, pop2, s, a)
  /\ Quiet(pg, pg2, pop, pop2, Region(s, a, a + n))
  /\ Span(pg2, s, a, n, c2) /\ (c2 = "gone" => pop2.count = n)
  /\ \A x \in a + 1 .. a + n - 1 : ~Hole(pop2, s, x)
  /\ Lo(pop2, s) = Lo(pop, s)

LEMMA SpanTurns ==
  ASSUME NEW pg, NEW pg2, NEW pop, NEW pop2, NEW s, NEW a, NEW n, NEW c, NEW c2,
         TurnHere(pg, pg2, pop, pop2, s, a, n, c, c2)
  PROVE  /\ SegmentOK(pg2, pop2, s)
         /\ FreeSpans(pg2, pop2) =
              (FreeSpans(pg, pop) \ {<<s, a>>}) \cup If(c2 = "free", {<<s, a>>})
         /\ ListedPages(pg2, pop2) =
              (ListedPages(pg, pop) \ {<<s, a>>}) \cup If(c2 = "page", {<<s, a>>})
         /\ Headed(pg2, s) = (Headed(pg, s) \ {a}) \cup If(c2 \in {"page", "taken"}, {a})
         /\ <<s, a>> \in FreeSpans(pg, pop) <=> c = "free"
         /\ <<s, a>> \in ListedPages(pg, pop) <=> c = "page"
         /\ a \in Headed(pg, s) <=> c \in {"page", "taken"}
<1>0. /\ pg \in PagesType /\ pg2 \in PagesType /\ s \in Segment /\ SegmentOK(pg, pop, s)
      /\ a \in Slice /\ n = Ext(pg, pop, s)[a] /\ n # 0 /\ a # 0
      /\ c = Class(pg, pop, s, a) /\ c2 = Class(pg2, pop2, s, a)
      /\ Quiet(pg, pg2, pop, pop2, Region(s, a, a + n))
      /\ Span(pg2, s, a, n, c2) /\ (c2 = "gone" => pop2.count = n)
      /\ \A x \in a + 1 .. a + n - 1 : ~Hole(pop2, s, x)
      /\ Lo(pop2, s) = Lo(pop, s)
  BY DEF TurnHere
<1> USE <1>0
<1>e. PICK e : e = Ext(pg, pop, s)
  OBVIOUS
<1>f. PICK f : f = Ext(pg2, pop2, s)
  OBVIOUS
<1>1. Tiling(e, Lo(pop, s)) /\ Span(pg, s, a, n, c) /\ n = e[a]
  BY <1>e DEF SegmentOK
<1>2. /\ n \in 1 .. N - a /\ N \in Nat /\ a + n \in 0 .. N /\ a \in 0 .. N
      /\ \A x \in a + 1 .. a + n - 1 : e[x] = 0
  <2>1. e[a] \in 0 .. N /\ a + e[a] <= N /\ \A x \in a + 1 .. a + e[a] - 1 : e[x] = 0
    BY <1>1 DEF Tiling
  <2> QED BY <1>1, <2>1, PageIdIs DEF Slice
<1>3. f[a] = n /\ \A x \in a + 1 .. a + n - 1 : f[x] = 0
  BY <1>2, <1>f, ExtOfSpan
<1>4. ASSUME NEW x \in Slice PROVE f[x] = e[x]
  <2>1. CASE x = a
    BY <1>1, <1>3, <2>1
  <2>2. CASE x \in a + 1 .. a + n - 1
    BY <1>2, <1>3, <2>2
  <2>3. CASE x # a /\ x \notin a + 1 .. a + n - 1
    <3>1. <<s, x>> \notin Region(s, a, a + n)
      BY <1>2, <2>3 DEF Region, Slice
    <3> QED BY <1>e, <1>f, <3>1, OutsideSame
  <2> QED BY <2>1, <2>2, <2>3
<1>5. f = e
  BY <1>e, <1>f, <1>4 DEF Ext
<1>6. ASSUME NEW x \in a .. a + n - 1, f[x] # 0
      PROVE  Span(pg2, s, x, f[x], Class(pg2, pop2, s, x))
  <2>1. x = a
    BY <1>2, <1>3, <1>6 DEF Slice
  <2> QED BY <1>3, <2>1
<1>7. ASSUME NEW i \in 0 .. Lo(pop, s) - 1 PROVE Empty(pg2[<<s, i>>])
  <2>1. Lo(pop, s) <= a /\ Lo(pop, s) \in 0 .. N
    BY <1>1, <1>2 DEF Tiling
  <2>2. i \in Slice /\ <<s, i>> \notin Region(s, a, a + n)
    BY <1>2, <2>1 DEF Region, Slice
  <2>3. Empty(pg[<<s, i>>])
    BY DEF SegmentOK
  <2> QED BY <2>2, <2>3, OutsideSame, EmptySame
<1>8. SegmentOK(pg2, pop2, s)
  <2>1. Cut(e, a)
    BY <1>1, CutAt
  <2>2. Tiling(Ext(pg2, pop2, s), Lo(pop2, s)) /\ Cut(Ext(pg, pop, s), a)
    BY <1>1, <1>5, <1>e, <1>f, <2>1
  <2> QED BY <1>2, <1>6, <1>7, <1>f, <2>2, SegmentStep
<1>9. <<s, a>> \in PageId
  BY <1>2, PageIdIs
<1>10. ASSUME NEW x \in a .. a + n - 1
       PROVE  /\ <<s, x>> \in FreeSpans(pg2, pop2) <=> x = a /\ c2 = "free"
              /\ <<s, x>> \in ListedPages(pg2, pop2) <=> x = a /\ c2 = "page"
              /\ x \in Headed(pg2, s) <=> x = a /\ c2 \in {"page", "taken"}
              /\ <<s, x>> \in FreeSpans(pg, pop) <=> x = a /\ c = "free"
              /\ <<s, x>> \in ListedPages(pg, pop) <=> x = a /\ c = "page"
              /\ x \in Headed(pg, s) <=> x = a /\ c \in {"page", "taken"}
  BY <1>1, <1>2, SpanMembers
<1>11. ASSUME NEW q \in PageId
       PROVE  /\ q \in FreeSpans(pg2, pop2) <=>
                   (q \in FreeSpans(pg, pop) /\ q # <<s, a>>) \/ (c2 = "free" /\ q = <<s, a>>)
              /\ q \in ListedPages(pg2, pop2) <=>
                   (q \in ListedPages(pg, pop) /\ q # <<s, a>>) \/ (c2 = "page" /\ q = <<s, a>>)
              /\ q[1] = s => (q[2] \in Headed(pg2, s) <=>
                   (q[2] \in Headed(pg, s) /\ q[2] # a) \/ (c2 \in {"page", "taken"} /\ q[2] = a))
  <2>1. CASE q \in Region(s, a, a + n)
    <3>0. q = <<q[1], q[2]>>
      BY PageIdIs, Zenon
    <3>1. q[1] = s /\ q[2] \in a .. a + n - 1
      BY <1>2, <2>1 DEF Region
    <3>2. q = <<s, q[2]>> /\ (q = <<s, a>> <=> q[2] = a)
      BY <3>0, <3>1
    <3> QED BY <1>10, <3>1, <3>2
  <2>2. CASE q \notin Region(s, a, a + n)
    <3>1. q # <<s, a>> /\ (q[1] = s => q[2] # a)
      BY <1>2, <1>9, <2>2 DEF Region, Slice
    <3> QED BY <2>2, <3>1, QuietMembers
  <2> QED BY <2>1, <2>2
<1>12. /\ FreeSpans(pg2, pop2) \subseteq PageId /\ FreeSpans(pg, pop) \subseteq PageId
       /\ ListedPages(pg2, pop2) \subseteq PageId /\ ListedPages(pg, pop) \subseteq PageId
  BY DEF FreeSpans, ListedPages
<1>13. ASSUME NEW x \in Slice
       PROVE  x \in Headed(pg2, s) <=>
                (x \in Headed(pg, s) /\ x # a) \/ (c2 \in {"page", "taken"} /\ x = a)
  <2>1. <<s, x>> \in PageId /\ <<s, x>>[1] = s /\ <<s, x>>[2] = x
    BY PageIdIs DEF Slice
  <2> QED BY <1>11, <2>1
<1>14. Headed(pg2, s) \subseteq Slice /\ Headed(pg, s) \subseteq Slice
  BY DEF Headed
<1>15. /\ FreeSpans(pg2, pop2) = (FreeSpans(pg, pop) \ {<<s, a>>}) \cup If(c2 = "free", {<<s, a>>})
       /\ ListedPages(pg2, pop2) = (ListedPages(pg, pop) \ {<<s, a>>}) \cup If(c2 = "page", {<<s, a>>})
  BY <1>9, <1>11, <1>12 DEF If
<1>16. Headed(pg2, s) = (Headed(pg, s) \ {a}) \cup If(c2 \in {"page", "taken"}, {a})
  BY <1>13, <1>14 DEF If
<1>17. a \in a .. a + n - 1
  BY <1>2
<1> QED BY <1>8, <1>10, <1>15, <1>16, <1>17

LEMMA TileAt ==
  ASSUME NEW e, NEW lo, Tiling(e, lo), NEW i \in Slice, e[i] # 0
  PROVE  /\ e[i] \in 1 .. N /\ i + e[i] \in 0 .. N /\ lo \in 0 .. N /\ lo <= i
         /\ i + e[i] < N => i + e[i] \in Slice /\ e[i + e[i]] # 0
         /\ \A k \in i + 1 .. i + e[i] - 1 : k \in Slice /\ e[k] = 0
         /\ i # lo => \E j \in Slice : e[j] # 0 /\ j + e[j] = i
<1>1. /\ e[i] \in 0 .. N /\ i + e[i] <= N /\ lo \in 0 .. N /\ lo <= i
      /\ i + e[i] < N => e[i + e[i]] # 0
      /\ \A k \in i + 1 .. i + e[i] - 1 : e[k] = 0
      /\ i # lo => \E j \in Slice : e[j] # 0 /\ j + e[j] = i
  BY DEF Tiling
<1>2. N \in Nat /\ i \in Nat /\ e[i] \in Nat
  BY <1>1, PageIdIs DEF Slice
<1>3. \A k \in i + 1 .. i + e[i] - 1 : k \in Slice
  BY <1>1, <1>2 DEF Slice
<1>4. i + e[i] < N => i + e[i] \in Slice
  BY <1>1, <1>2 DEF Slice
<1> QED BY <1>1, <1>2, <1>3, <1>4

\* the first span is given up, a span is cut in two, two spans become one
LEMMA TileDrop ==
  ASSUME NEW e, NEW lo, Tiling(e, lo), lo < N, NEW f \in [Slice -> 0 .. N],
         \A x \in Slice : f[x] = IF x = lo THEN 0 ELSE e[x]
  PROVE  Tiling(f, lo + e[lo])
<1>1. N \in Nat /\ lo \in Slice /\ e[lo] # 0
  BY PageIdIs DEF Tiling, Slice
<1>2. /\ e[lo] \in 1 .. N /\ lo + e[lo] \in 0 .. N
      /\ lo + e[lo] < N => lo + e[lo] \in Slice /\ e[lo + e[lo]] # 0
  BY <1>1, TileAt
<1>3. ASSUME NEW i \in Slice, f[i] # 0
      PROVE  /\ lo + e[lo] <= i /\ i + f[i] <= N
             /\ i + f[i] < N => f[i + f[i]] # 0
             /\ \A k \in i + 1 .. i + f[i] - 1 : f[k] = 0
             /\ i # lo + e[lo] => \E j \in Slice : f[j] # 0 /\ j + f[j] = i
  <2>1. i # lo /\ f[i] = e[i] /\ e[i] # 0
    BY <1>3
  <2>2. /\ e[i] \in 1 .. N /\ i + e[i] \in 0 .. N /\ lo <= i
        /\ i + e[i] < N => i + e[i] \in Slice /\ e[i + e[i]] # 0
        /\ \A k \in i + 1 .. i + e[i] - 1 : k \in Slice /\ e[k] = 0
        /\ \E j \in Slice : e[j] # 0 /\ j + e[j] = i
    BY <2>1, TileAt
  <2>3. lo + e[lo] <= i
    BY <1>1, <2>1, <2>2, SpansApart DEF Slice
  <2>4. i + f[i] < N => f[i + f[i]] # 0
    <3>1. i + e[i] # lo
      BY <1>1, <2>1, <2>2 DEF Slice
    <3> QED BY <2>1, <2>2, <3>1
  <2>5. \A k \in i + 1 .. i + f[i] - 1 : f[k] = 0
    BY <2>1, <2>2
  <2>6. ASSUME i # lo + e[lo] PROVE \E j \in Slice : f[j] # 0 /\ j + f[j] = i
    BY <2>2, <2>6
  <2> QED BY <2>1, <2>2, <2>3, <2>4, <2>5, <2>6
<1>4. lo + e[lo] < N => f[lo + e[lo]] # 0
  BY <1>1, <1>2 DEF Slice
<1> QED BY <1>2, <1>3, <1>4 DEF Tiling

LEMMA TileSplit ==
  ASSUME NEW e, NEW lo, Tiling(e, lo), NEW a \in Slice, NEW m \in 1 .. N, NEW n,
         n = e[a], m < n, NEW f \in [Slice -> 0 .. N],
         \A x \in Slice : f[x] = IF x = a THEN m ELSE IF x = a + m THEN n - m ELSE e[x]
  PROVE  Tiling(f, lo)
<1>1. N \in Nat /\ n # 0
  <2>1. n \in 0 .. N
    BY DEF Tiling
  <2> QED BY <2>1, PageIdIs
<1>2. /\ n \in 1 .. N /\ a + n \in 0 .. N /\ lo \in 0 .. N /\ lo <= a
      /\ a + n < N => a + n \in Slice /\ e[a + n] # 0
      /\ \A k \in a + 1 .. a + n - 1 : k \in Slice /\ e[k] = 0
      /\ a # lo => \E j \in Slice : e[j] # 0 /\ j + e[j] = a
  BY <1>1, TileAt
<1>3. /\ a \in Nat /\ a + m \in a + 1 .. a + n - 1 /\ a # a + m
      /\ n - m \in 1 .. N /\ a + m + (n - m) = a + n /\ lo <= a + m
  <2>1. a \in Nat /\ n \in Nat /\ n <= N /\ m \in Nat /\ 1 <= m /\ lo \in Nat /\ lo <= a
    BY <1>1, <1>2 DEF Slice
  <2>2. n - m \in 1 .. N /\ a + m + (n - m) = a + n /\ a # a + m /\ lo <= a + m
    BY <1>1, <2>1
  <2>3. a + m \in a + 1 .. a + n - 1
    BY <1>1, <2>1
  <2> QED BY <2>1, <2>2, <2>3
<1>4. a + m \in Slice /\ e[a + m] = 0
  BY <1>2, <1>3
<1>5. f[a] = m /\ f[a + m] = n - m
      /\ \A x \in Slice : x # a /\ x # a + m => f[x] = e[x]
  BY <1>3, <1>4
<1>6. ASSUME NEW x \in Slice, e[x] # 0 PROVE f[x] # 0
  <2>1. x # a + m
    BY <1>4, <1>6
  <2>2. CASE x = a
    <3>1. m # 0
      BY <1>2
    <3> QED BY <1>5, <2>2, <3>1
  <2> QED BY <1>5, <1>6, <2>1, <2>2
<1>7. ASSUME NEW k \in a + 1 .. a + n - 1, k # a + m PROVE f[k] = 0
  <2>1. k \in Slice /\ e[k] = 0 /\ k # a
    BY <1>2, <1>3
  <2> QED BY <1>5, <1>7, <2>1
<1>8. ASSUME NEW i \in Slice, f[i] # 0
      PROVE  /\ lo <= i /\ i + f[i] <= N
             /\ i + f[i] < N => f[i + f[i]] # 0
             /\ \A k \in i + 1 .. i + f[i] - 1 : f[k] = 0
             /\ i # lo => \E j \in Slice : f[j] # 0 /\ j + f[j] = i
  <2>1. CASE i = a
    <3>1. f[i] = m /\ i + f[i] = a + m
      BY <1>5, <2>1
    <3>2. ASSUME NEW k \in i + 1 .. i + f[i] - 1 PROVE f[k] = 0
      <4>1. k \in a + 1 .. a + n - 1 /\ k # a + m
        BY <1>2, <1>3, <2>1, <3>1
      <4> QED BY <1>7, <4>1
    <3>3. ASSUME i # lo PROVE \E j \in Slice : f[j] # 0 /\ j + f[j] = i
      <4>1. PICK j \in Slice : e[j] # 0 /\ j + e[j] = a
        BY <1>2, <2>1, <3>3
      <4>2. j # a /\ j # a + m
        BY <1>1, <1>2, <1>3, <1>4, <4>1
      <4> QED BY <1>5, <2>1, <4>1, <4>2
    <3>4. f[a + m] # 0 /\ a + m <= N
      <4>1. n - m # 0
        BY <1>3
      <4>2. a + m <= N
        BY <1>1, <1>4 DEF Slice
      <4> QED BY <1>5, <4>1, <4>2
    <3> QED BY <1>2, <2>1, <3>1, <3>2, <3>3, <3>4
  <2>2. CASE i = a + m
    <3>1. f[i] = n - m /\ i + f[i] = a + n
      BY <1>3, <1>5, <2>2
    <3>2. ASSUME NEW k \in i + 1 .. i + f[i] - 1 PROVE f[k] = 0
      <4>1. k \in a + 1 .. a + n - 1 /\ k # a + m
        BY <1>2, <1>3, <2>2, <3>1
      <4> QED BY <1>7, <4>1
    <3>3. f[a] # 0 /\ a + f[a] = i
      BY <1>2, <1>5, <2>2
    <3>4. a + n < N => f[a + n] # 0
      BY <1>2, <1>6
    <3> QED BY <1>2, <1>3, <2>2, <3>1, <3>2, <3>3, <3>4
  <2>3. CASE i # a /\ i # a + m
    <3>1. e[i] # 0 /\ f[i] = e[i]
      BY <1>5, <1>8, <2>3
    <3>2. /\ e[i] \in 1 .. N /\ i + e[i] \in 0 .. N /\ lo <= i
          /\ i + e[i] < N => i + e[i] \in Slice /\ e[i + e[i]] # 0
          /\ \A k \in i + 1 .. i + e[i] - 1 : k \in Slice /\ e[k] = 0
          /\ i # lo => \E j \in Slice : e[j] # 0 /\ j + e[j] = i
      BY <3>1, TileAt
    <3>3. i + e[i] <= a \/ a + n <= i
      <4>1. i < a => i + e[i] <= a
        BY <1>1, <3>1, SpansApart
      <4>2. a < i => a + n <= i
        BY <1>1, <3>1, SpansApart
      <4> QED BY <2>3, <4>1, <4>2 DEF Slice
    <3>4. ASSUME NEW k \in i + 1 .. i + f[i] - 1 PROVE f[k] = 0
      <4>1. k \in Slice /\ e[k] = 0
        BY <3>1, <3>2
      <4>2. k # a /\ k # a + m
        <5>1. i \in Nat /\ a \in Nat /\ n \in Nat /\ e[i] \in Nat /\ m \in Nat /\ 1 <= m /\ k \in Nat
          <6>1. i \in Nat /\ k \in Nat
            BY <1>1, <4>1 DEF Slice
          <6>2. n \in Nat /\ m \in Nat /\ 1 <= m
            BY <1>1, <1>2
          <6>3. e[i] \in Nat
            BY <1>1, <3>2
          <6> QED BY <1>3, <6>1, <6>2, <6>3
        <5>2. i < k /\ k < i + e[i]
          BY <3>1, <5>1
        <5> QED BY <3>3, <5>1, <5>2
      <4> QED BY <1>5, <4>1, <4>2
    <3>5. ASSUME i # lo PROVE \E j \in Slice : f[j] # 0 /\ j + f[j] = i
      <4>1. PICK j \in Slice : e[j] # 0 /\ j + e[j] = i
        BY <3>2, <3>5
      <4>2. CASE j = a
        <5>1. i = a + n
          BY <4>1, <4>2
        <5>2. f[a + m] # 0 /\ a + m + f[a + m] = i
          BY <1>3, <1>5, <5>1
        <5> QED BY <1>4, <5>2
      <4>3. CASE j # a
        <5>1. j # a + m
          BY <1>4, <4>1
        <5> QED BY <1>5, <4>1, <4>3, <5>1
      <4> QED BY <4>2, <4>3
    <3> QED BY <1>6, <3>1, <3>2, <3>4, <3>5
  <2> QED BY <2>1, <2>2, <2>3
<1>9. lo < N => f[lo] # 0
  <2>1. lo < N => lo \in Slice /\ e[lo] # 0
    BY <1>1, <1>2 DEF Tiling, Slice
  <2> QED BY <1>6, <2>1
<1> QED BY <1>2, <1>8, <1>9 DEF Tiling

LEMMA TileMerge ==
  ASSUME NEW e, NEW lo, Tiling(e, lo), NEW a \in Slice, NEW b \in Slice, NEW n, NEW m,
         n = e[a], m = e[b], n # 0, m # 0, b = a + n,
         NEW f \in [Slice -> 0 .. N],
         \A x \in Slice : f[x] = IF x = a THEN n + m ELSE IF x = b THEN 0 ELSE e[x]
  PROVE  Tiling(f, lo)
<1>1. N \in Nat /\ a \in Nat
  BY PageIdIs DEF Slice
<1>2. /\ n \in 1 .. N /\ lo \in 0 .. N /\ lo <= a
      /\ \A k \in a + 1 .. a + n - 1 : k \in Slice /\ e[k] = 0
  BY TileAt
<1>3. /\ m \in 1 .. N /\ b + m \in 0 .. N
      /\ b + m < N => b + m \in Slice /\ e[b + m] # 0
      /\ \A k \in b + 1 .. b + m - 1 : k \in Slice /\ e[k] = 0
  BY TileAt
<1>4. /\ a < b /\ a # b
      /\ f[a] = n + m /\ f[b] = 0 /\ f[a] # 0 /\ a + f[a] = b + m
  BY <1>1, <1>2, <1>3
<1>5. \A x \in Slice : x # a /\ x # b => f[x] = e[x]
  OBVIOUS
<1>6. ASSUME NEW i \in Slice, f[i] # 0
      PROVE  /\ lo <= i /\ i + f[i] <= N
             /\ i + f[i] < N => f[i + f[i]] # 0
             /\ \A k \in i + 1 .. i + f[i] - 1 : f[k] = 0
             /\ i # lo => \E j \in Slice : f[j] # 0 /\ j + f[j] = i
  <2>1. e[i] # 0 /\ i # b
    BY <1>4, <1>5, <1>6
  <2>2. /\ e[i] \in 1 .. N /\ i + e[i] \in 0 .. N /\ lo <= i
        /\ i + e[i] < N => i + e[i] \in Slice /\ e[i + e[i]] # 0
        /\ \A k \in i + 1 .. i + e[i] - 1 : k \in Slice /\ e[k] = 0
        /\ i # lo => \E j \in Slice : e[j] # 0 /\ j + e[j] = i
    BY <2>1, TileAt
  <2>3. ASSUME i # lo PROVE \E j \in Slice : f[j] # 0 /\ j + f[j] = i
    <3>1. PICK j \in Slice : e[j] # 0 /\ j + e[j] = i
      BY <2>2, <2>3
    <3>2. CASE j = a
      BY <2>1, <3>1, <3>2
    <3>3. CASE j = b
      BY <1>4, <3>1, <3>3
    <3>4. CASE j # a /\ j # b
      BY <1>5, <3>1, <3>4
    <3> QED BY <3>2, <3>3, <3>4
  <2>4. CASE i = a
    <3>1. ASSUME NEW k \in i + 1 .. i + f[i] - 1 PROVE f[k] = 0
      <4>1. k \in a + 1 .. a + n - 1 \/ k = b \/ k \in b + 1 .. b + m - 1
        BY <1>1, <1>2, <1>3, <1>4, <2>4
      <4>2. k # a
        BY <1>1, <2>4
      <4> QED BY <1>2, <1>3, <1>4, <1>5, <4>1, <4>2
    <3>2. ASSUME i + f[i] < N PROVE f[i + f[i]] # 0
      <4>1. b + m \in Slice /\ e[b + m] # 0 /\ b + m # a /\ b + m # b
        BY <1>1, <1>2, <1>3, <1>4, <2>4, <3>2
      <4> QED BY <1>4, <1>5, <2>4, <4>1
    <3> QED BY <1>2, <1>3, <1>4, <2>3, <2>4, <3>1, <3>2
  <2>5. CASE i # a
    <3>1. f[i] = e[i]
      BY <1>5, <2>1, <2>5
    <3>2. ASSUME NEW k \in i + 1 .. i + f[i] - 1 PROVE f[k] = 0
      <4>1. k \in Slice /\ e[k] = 0
        BY <2>2, <3>1
      <4>2. k # a
        BY <4>1
      <4> QED BY <1>4, <1>5, <4>1, <4>2
    <3>3. i + e[i] # b
      <4>1. i < a => i + e[i] <= a
        BY <2>1, SpansApart
      <4>2. a < i => b <= i
        BY <2>1, SpansApart
      <4>3. i \in Nat /\ e[i] \in Nat /\ 1 <= e[i] /\ b \in Nat
        BY <1>1, <1>2, <2>2 DEF Slice
      <4> QED BY <1>1, <1>4, <2>5, <4>1, <4>2, <4>3
    <3>4. ASSUME i + f[i] < N PROVE f[i + f[i]] # 0
      <4>1. i + e[i] \in Slice /\ e[i + e[i]] # 0
        BY <2>2, <3>1, <3>4
      <4>2. CASE i + e[i] = a
        BY <1>4, <3>1, <4>2
      <4>3. CASE i + e[i] # a
        BY <1>5, <3>1, <3>3, <4>1, <4>3
      <4> QED BY <4>2, <4>3
    <3> QED BY <2>2, <2>3, <3>1, <3>2, <3>4
  <2> QED BY <2>4, <2>5
<1>7. lo < N => f[lo] # 0
  <2>1. lo < N => lo \in Slice /\ e[lo] # 0
    BY <1>1, <1>2 DEF Tiling, Slice
  <2>2. lo # b
    BY <1>2, <1>4, <1>1
  <2> QED BY <1>4, <1>5, <2>1, <2>2
<1> QED BY <1>2, <1>6, <1>7 DEF Tiling

\* nothing yet, and the first two spans
LEMMA TileNone ==
  ASSUME NEW f \in [Slice -> 0 .. N], \A x \in Slice : f[x] = 0
  PROVE  Tiling(f, N)
  BY PageIdIs DEF Tiling, Slice

LEMMA TileFirst ==
  ASSUME NEW m \in 1 .. N - 1, NEW f \in [Slice -> 0 .. N],
         \A x \in Slice : f[x] = IF x = 0 THEN m ELSE IF x = m THEN N - m ELSE 0
  PROVE  Tiling(f, 0)
<1>0. N \in Nat /\ m \in Slice /\ 0 \in Slice /\ m # 0 /\ f[0] = m /\ f[m] = N - m /\ N - m # 0
  BY PageIdIs DEF Slice
<1>1. ASSUME NEW i \in Slice, f[i] # 0
      PROVE  /\ 0 <= i /\ i + f[i] <= N
             /\ i + f[i] < N => f[i + f[i]] # 0
             /\ \A k \in i + 1 .. i + f[i] - 1 : f[k] = 0
             /\ i # 0 => \E j \in Slice : f[j] # 0 /\ j + f[j] = i
  <2>1. CASE i = 0
    BY <1>0, <2>1 DEF Slice
  <2>2. CASE i = m
    BY <1>0, <2>2 DEF Slice
  <2> QED BY <1>0, <1>1, <2>1, <2>2
<1> QED BY <1>0, <1>1 DEF Tiling

-----------------------------------------------------------------------------
(* Headers that are written for a range of slices at once                   *)

LEMMA BlankIs ==
  /\ Blank \in PageData /\ Empty(Blank)
  /\ \A r \in PageData : Empty(r) => r = Blank
<1>1. Blank \in PageData /\ Empty(Blank)
  BY DEF Blank, PageData, Empty
<1>2. ASSUME NEW r \in PageData, Empty(r) PROVE r = Blank
  BY <1>2 DEF Blank, PageData, Empty
<1> QED BY <1>1, <1>2

LEMMA RangeIs ==
  ASSUME NEW s, NEW a \in Int, NEW b \in Int, NEW q \in PageId
  PROVE  q \in Range2(s, a, b) <=> q \in Region(s, a, b)
  BY DEF Range2, Region, PageId

LEMMA InRegion ==
  ASSUME NEW s \in Segment, NEW a \in Slice, NEW n \in 1 .. N - a, NEW x \in a .. a + n - 1
  PROVE  /\ <<s, x>> \in PageId /\ <<s, x>>[1] = s /\ <<s, x>>[2] = x
         /\ <<s, x>> \in Region(s, a, a + n)
         /\ x \in Slice /\ x \in Nat /\ x - a \in Slice /\ (x - a = 0 <=> x = a)
         /\ <<s, x>> = <<s, a>> <=> x = a
<1>1. /\ x \in Slice /\ x \in Nat /\ x - a \in Slice /\ (x - a = 0 <=> x = a)
      /\ x \in a .. (a + n) - 1
  BY PageIdIs DEF Slice
<1>2. <<s, x>> \in PageId
  BY <1>1, PageIdIs DEF Slice
<1> QED BY <1>1, <1>2 DEF Region

LEMMA BlankOver ==
  ASSUME NEW pg \in PagesType, NEW s, NEW a \in Int, NEW b \in Int,
         NEW pg2, pg2 = Overwrite(pg, Range2(s, a, b), LAMBDA p : Blank)
  PROVE  /\ pg2 \in PagesType
         /\ \A q \in PageId : q \in Region(s, a, b) => Empty(pg2[q])
         /\ \A q \in PageId : q \notin Region(s, a, b) => pg2[q] = pg[q]
<1>1. pg2 = [q \in PageId |-> IF q \in Range2(s, a, b) THEN Blank ELSE pg[q]]
  BY DEF Overwrite
<1>2. pg2 \in PagesType
  BY <1>1, BlankIs DEF PagesType
<1>3. \A q \in PageId : pg2[q] = IF q \in Region(s, a, b) THEN Blank ELSE pg[q]
  BY <1>1, RangeIs
<1> QED BY <1>2, <1>3, BlankIs

\* the slices of a page, or of the segment header
LEMMA RangeWrittenIs ==
  ASSUME NEW pg \in PagesType, NEW s \in Segment, NEW a \in Slice, NEW n \in 1 .. N - a,
         Span(pg, s, a, n, "gone"), NEW pg2, pg2 = RangeWritten(pg, s, a, n)
  PROVE  /\ pg2 \in PagesType
         /\ \A q \in PageId : q \notin Region(s, a, a + n) => pg2[q] = pg[q]
         /\ Span(pg2, s, a, n, "ready") /\ Span(pg2, s, a, n, "head")
<1>0. N \in Nat /\ n \in Nat /\ a \in Nat /\ a + n \in Nat /\ n \in 1 .. N
  BY PageIdIs DEF Slice
<1>1. \A q \in PageId : pg2[q] =
        IF q \in Region(s, a, a + n)
        THEN [Blank EXCEPT !.dlist = pg[q].dlist, !.offset = q[2] - a,
                           !.count = IF q[2] = a THEN n ELSE pg[q].count]
        ELSE pg[q]
  <2>1. \A q \in PageId : pg2[q] =
          IF q \in Range2(s, a, a + n)
          THEN [Blank EXCEPT !.dlist = pg[q].dlist, !.offset = q[2] - a,
                             !.count = IF q[2] = a THEN n ELSE pg[q].count]
          ELSE pg[q]
    BY DEF RangeWritten, Overwrite
  <2>2. \A q \in PageId : q \in Range2(s, a, a + n) <=> q \in Region(s, a, a + n)
    BY <1>0, RangeIs
  <2> QED BY <2>1, <2>2
<1>2. ASSUME NEW q \in Region(s, a, a + n)
      PROVE  /\ pg2[q] \in PageData
             /\ pg2[q].dlist = NONE /\ pg2[q].offset = q[2] - a
             /\ pg2[q].count = IF q[2] = a THEN n ELSE NONE
             /\ ~pg2[q].is_used /\ pg2[q].full = NONE /\ pg2[q].kind = NONE
  <2>1. q \in PageId /\ q[1] = s /\ q[2] \in a .. (a + n) - 1
    BY DEF Region
  <2>2. q = <<s, q[2]>>
    <3>1. q = <<q[1], q[2]>>
      BY <2>1, PageIdIs, Zenon
    <3> QED BY <2>1, <3>1
  <2>3. Piece(pg[<<s, q[2]>>], q[2] - a, n, "gone")
    BY <1>0, <2>1, SpanAt
  <2>4. Empty(pg[q])
    BY <2>2, <2>3, GoneIsEmpty
  <2>5. pg[q].dlist = NONE /\ pg[q].count = NONE
    BY <2>4 DEF Empty
  <2>6. q[2] - a \in Slice
    BY <1>0, <2>1 DEF Slice
  <2>7. pg2[q] = [Blank EXCEPT !.dlist = NONE, !.offset = q[2] - a,
                                !.count = IF q[2] = a THEN n ELSE NONE]
    BY <1>1, <2>1, <2>5
  <2>8. pg2[q] = [dlist |-> NONE, count |-> IF q[2] = a THEN n ELSE NONE, offset |-> q[2] - a,
                  is_used |-> FALSE, full |-> NONE, kind |-> NONE]
    BY <2>7 DEF Blank
  <2> QED BY <1>0, <2>6, <2>8 DEF PageData
<1>3. pg2 \in PagesType
  <2>1. pg2 = [q \in PageId |-> pg2[q]]
    BY DEF RangeWritten, Overwrite
  <2>2. \A q \in PageId : pg2[q] \in PageData
    BY <1>1, <1>2 DEF PagesType
  <2> QED BY <2>1, <2>2 DEF PagesType
<1>4. ASSUME NEW x \in a .. a + n - 1, NEW c \in {"ready", "head"}
      PROVE  Piece(pg2[<<s, x>>], x - a, n, c)
  <2>1. <<s, x>> \in Region(s, a, a + n) /\ <<s, x>>[2] = x /\ (x - a = 0 <=> x = a)
    BY InRegion
  <2> QED BY <1>2, <2>1 DEF Piece
<1>5. Span(pg2, s, a, n, "ready") /\ Span(pg2, s, a, n, "head")
  BY <1>4 DEF Span
<1> QED BY <1>1, <1>3, <1>5

\* the range becomes a page of bin k
AsPage(pg, s, a, n, k) ==
  Overwrite(pg, Range2(s, a, a + n), LAMBDA p :
    [pg[p] EXCEPT !.is_used = TRUE, !.kind = IF p = <<s, a>> THEN k ELSE NONE])

LEMMA SetUsedIs ==
  ASSUME NEW pg \in PagesType, NEW s \in Segment, NEW a \in Slice, NEW n \in 1 .. N - a,
         Span(pg, s, a, n, "ready"), NEW k \in ValidBin, NEW pg2,
         pg2 = AsPage(pg, s, a, n, k)
  PROVE  /\ pg2 \in PagesType
         /\ \A q \in PageId : q \notin Region(s, a, a + n) => pg2[q] = pg[q]
         /\ Span(pg2, s, a, n, "taken")
<1>0. N \in Nat /\ n \in Nat /\ a \in Nat /\ a + n \in Nat
  BY PageIdIs DEF Slice
<1>1. \A q \in PageId : pg2[q] =
        IF q \in Region(s, a, a + n)
        THEN [pg[q] EXCEPT !.is_used = TRUE, !.kind = IF q = <<s, a>> THEN k ELSE NONE]
        ELSE pg[q]
  <2>1. \A q \in PageId : pg2[q] =
          IF q \in Range2(s, a, a + n)
          THEN [pg[q] EXCEPT !.is_used = TRUE, !.kind = IF q = <<s, a>> THEN k ELSE NONE]
          ELSE pg[q]
    BY DEF Overwrite, AsPage
  <2>2. \A q \in PageId : q \in Range2(s, a, a + n) <=> q \in Region(s, a, a + n)
    BY <1>0, RangeIs
  <2> QED BY <2>1, <2>2
<1>2. ASSUME NEW q \in PageId, q \in Region(s, a, a + n)
      PROVE  /\ pg2[q] \in PageData
             /\ pg2[q].dlist = pg[q].dlist /\ pg2[q].offset = pg[q].offset
             /\ pg2[q].count = pg[q].count /\ pg2[q].full = pg[q].full
             /\ pg2[q].is_used /\ pg2[q].kind = IF q = <<s, a>> THEN k ELSE NONE
  <2>1. pg2[q] = [pg[q] EXCEPT !.is_used = TRUE, !.kind = IF q = <<s, a>> THEN k ELSE NONE]
    BY <1>1, <1>2
  <2>2. PICK v \in ValidBin \cup {NONE} : v = IF q = <<s, a>> THEN k ELSE NONE
    OBVIOUS
  <2>3. PICK r \in PageData : r = pg[q]
    BY DEF PagesType
  <2>4. pg2[q] = [r EXCEPT !.is_used = TRUE, !.kind = v]
    BY <2>1, <2>2, <2>3
  <2>5. /\ pg2[q] \in PageData
        /\ pg2[q].dlist = r.dlist /\ pg2[q].offset = r.offset
        /\ pg2[q].count = r.count /\ pg2[q].full = r.full
        /\ pg2[q].is_used /\ pg2[q].kind = v
    BY <2>4 DEF PageData
  <2> QED BY <2>2, <2>3, <2>5
<1>3. pg2 \in PagesType
  <2>1. pg2 = [q \in PageId |-> pg2[q]]
    BY DEF Overwrite, AsPage
  <2>2. \A q \in PageId : pg2[q] \in PageData
    BY <1>1, <1>2 DEF PagesType
  <2> QED BY <2>1, <2>2 DEF PagesType
<1>4. ASSUME NEW x \in a .. a + n - 1
      PROVE  Piece(pg2[<<s, x>>], x - a, n, "taken")
  <2>1. /\ <<s, x>> \in PageId /\ <<s, x>> \in Region(s, a, a + n)
        /\ (x - a = 0 <=> x = a) /\ (<<s, x>> = <<s, a>> <=> x = a)
    BY InRegion
  <2>2. Piece(pg[<<s, x>>], x - a, n, "ready")
    BY <1>0, SpanAt
  <2>3. k # NONE
    BY NoneAssumption
  <2> QED BY <1>2, <2>1, <2>2, <2>3 DEF Piece
<1>5. Span(pg2, s, a, n, "taken")
  BY <1>4 DEF Span
<1> QED BY <1>1, <1>3, <1>5

\* the page is cleared
LEMMA ClearedIs ==
  ASSUME NEW pg \in PagesType, NEW s \in Segment, NEW a \in Slice, NEW n \in 1 .. N - a,
         Span(pg, s, a, n, "taken"), NEW pg2,
         pg2 = Overwrite(pg, Range2(s, a, a + n), LAMBDA p : Cleared(pg[p]))
  PROVE  /\ pg2 \in PagesType
         /\ \A q \in PageId : q \notin Region(s, a, a + n) => pg2[q] = pg[q]
         /\ Span(pg2, s, a, n, "gone")
<1>0. N \in Nat /\ n \in Nat /\ a \in Nat /\ a + n \in Nat
  BY PageIdIs DEF Slice
<1>1. \A q \in PageId : pg2[q] = IF q \in Region(s, a, a + n) THEN Cleared(pg[q]) ELSE pg[q]
  <2>1. \A q \in PageId : pg2[q] = IF q \in Range2(s, a, a + n) THEN Cleared(pg[q]) ELSE pg[q]
    BY DEF Overwrite
  <2>2. \A q \in PageId : q \in Range2(s, a, a + n) <=> q \in Region(s, a, a + n)
    BY <1>0, RangeIs
  <2> QED BY <2>1, <2>2
<1>2. ASSUME NEW q \in PageId, q \in Region(s, a, a + n)
      PROVE  /\ pg2[q] \in PageData
             /\ pg2[q].dlist = pg[q].dlist /\ pg2[q].full = pg[q].full
             /\ pg2[q].offset = NONE /\ pg2[q].count = NONE
             /\ ~pg2[q].is_used /\ pg2[q].kind = NONE
  <2>1. pg2[q] = Cleared(pg[q])
    BY <1>1, <1>2
  <2>2. PICK r \in PageData : r = pg[q]
    BY DEF PagesType
  <2>3. pg2[q] = [r EXCEPT !.is_used = FALSE, !.kind = NONE, !.offset = NONE, !.count = NONE]
    BY <2>1, <2>2 DEF Cleared
  <2>4. /\ pg2[q] \in PageData
        /\ pg2[q].dlist = r.dlist /\ pg2[q].full = r.full
        /\ pg2[q].offset = NONE /\ pg2[q].count = NONE
        /\ ~pg2[q].is_used /\ pg2[q].kind = NONE
    BY <2>3 DEF PageData
  <2> QED BY <2>2, <2>4
<1>3. pg2 \in PagesType
  <2>1. pg2 = [q \in PageId |-> pg2[q]]
    BY DEF Overwrite
  <2>2. \A q \in PageId : pg2[q] \in PageData
    BY <1>1, <1>2 DEF PagesType
  <2> QED BY <2>1, <2>2 DEF PagesType
<1>4. ASSUME NEW x \in a .. a + n - 1
      PROVE  Piece(pg2[<<s, x>>], x - a, n, "gone")
  <2>1. <<s, x>> \in PageId /\ <<s, x>> \in Region(s, a, a + n)
    BY InRegion
  <2>2. Piece(pg[<<s, x>>], x - a, n, "taken")
    BY <1>0, SpanAt
  <2> QED BY <1>2, <2>1, <2>2 DEF Piece
<1>5. Span(pg2, s, a, n, "gone")
  BY <1>4 DEF Span
<1> QED BY <1>1, <1>3, <1>5

\* the flag of a page is set, and it is forgotten with the links
LEMMA FullSet ==
  ASSUME NEW r \in PageData, NEW v, v \in BOOLEAN \/ v = NONE
  PROVE  /\ [r EXCEPT !.full = v] \in PageData
         /\ [r EXCEPT !.full = v].full = v
         /\ [r EXCEPT !.full = v].count = r.count
         /\ [r EXCEPT !.full = v].dlist = r.dlist
         /\ [r EXCEPT !.full = v].offset = r.offset
         /\ [r EXCEPT !.full = v].is_used <=> r.is_used
         /\ [r EXCEPT !.full = v].kind = r.kind
<1>1. PICK r2 : r2 = [r EXCEPT !.full = v]
  OBVIOUS
<1>2. /\ r2 \in PageData /\ r2.full = v /\ r2.count = r.count /\ r2.offset = r.offset
      /\ r2.dlist = r.dlist /\ (r2.is_used <=> r.is_used) /\ r2.kind = r.kind
  BY <1>1 DEF PageData
<1> QED BY <1>1, <1>2

LEMMA PlacedIs ==
  ASSUME NEW pg \in PagesType, NEW p \in PageId, NEW b, NEW pg2, pg2 = Placed(pg, p, b)
  PROVE  /\ pg2 \in PagesType
         /\ \A q \in PageId : q # p => pg2[q] = pg[q]
         /\ pg2[p].full = (b = BIN_FULL) /\ pg2[p].full # NONE
         /\ pg2[p].count = pg[p].count /\ pg2[p].offset = pg[p].offset
         /\ pg2[p].dlist = pg[p].dlist /\ (pg2[p].is_used <=> pg[p].is_used)
         /\ pg2[p].kind = pg[p].kind
<1>1. PICK v \in BOOLEAN : v = (b = BIN_FULL)
  OBVIOUS
<1>2. pg2 = [pg EXCEPT ![p].full = v]
  BY <1>1, Zenon DEF Placed
<1>3. pg[p] \in PageData
  BY DEF PagesType
<1>4. [pg[p] EXCEPT !.full = v] \in PageData
  BY <1>3, FullSet
<1>5. pg2 \in PagesType /\ pg2[p] = [pg[p] EXCEPT !.full = v] /\ \A q \in PageId : q # p => pg2[q] = pg[q]
  BY <1>2, <1>4 DEF PagesType
<1>6. /\ pg2[p].full = v
      /\ pg2[p].count = pg[p].count /\ pg2[p].offset = pg[p].offset
      /\ pg2[p].dlist = pg[p].dlist /\ (pg2[p].is_used <=> pg[p].is_used)
      /\ pg2[p].kind = pg[p].kind
  BY <1>3, <1>5, FullSet
<1>7. v # NONE
  BY NoneAssumption
<1> QED BY <1>1, <1>5, <1>6, <1>7

Forgotten(pg, p) == [pg EXCEPT ![p].full = NONE, ![p].dlist = NONE]

LEMMA ForgottenIs ==
  ASSUME NEW pg \in PagesType, NEW p \in PageId, NEW pg2, pg2 = Forgotten(pg, p)
  PROVE  /\ pg2 \in PagesType
         /\ \A q \in PageId : q # p => pg2[q] = pg[q]
         /\ pg2[p].full = NONE /\ pg2[p].dlist = NONE
         /\ pg2[p].count = pg[p].count /\ pg2[p].offset = pg[p].offset
         /\ (pg2[p].is_used <=> pg[p].is_used) /\ pg2[p].kind = pg[p].kind
<1>1. PICK f : f = [pg EXCEPT ![p].full = NONE]
  OBVIOUS
<1>2. PICK g : g = [f EXCEPT ![p].dlist = NONE]
  OBVIOUS
<1>3. g = pg2
  BY <1>1, <1>2, Zenon DEF Forgotten
<1>4. /\ f \in PagesType /\ \A q \in PageId : q # p => f[q] = pg[q]
      /\ f[p].full = NONE
      /\ f[p].count = pg[p].count /\ f[p].offset = pg[p].offset
      /\ (f[p].is_used <=> pg[p].is_used) /\ f[p].kind = pg[p].kind
  <2>1. pg[p] \in PageData
    BY DEF PagesType
  <2>2. [pg[p] EXCEPT !.full = NONE] \in PageData
    BY <2>1, FullSet
  <2>3. /\ f \in PagesType /\ f[p] = [pg[p] EXCEPT !.full = NONE]
        /\ \A q \in PageId : q # p => f[q] = pg[q]
    BY <1>1, <2>2 DEF PagesType
  <2> QED BY <2>1, <2>3, FullSet
<1>5. f[p] \in PageData
  BY <1>4 DEF PagesType
<1>6. /\ g \in PagesType /\ g[p] = [f[p] EXCEPT !.dlist = NONE]
      /\ \A q \in PageId : q # p => g[q] = f[q]
  <2>1. [f[p] EXCEPT !.dlist = NONE] \in PageData
    BY <1>5, DlistSet
  <2> QED BY <1>2, <1>4, <2>1 DEF PagesType
<1>7. /\ g[p].dlist = NONE /\ g[p].full = f[p].full
      /\ g[p].count = f[p].count /\ g[p].offset = f[p].offset
      /\ (g[p].is_used <=> f[p].is_used) /\ g[p].kind = f[p].kind
  BY <1>5, <1>6, DlistSet
<1> QED BY <1>3, <1>4, <1>6, <1>7

-----------------------------------------------------------------------------
(* A span or a page leaves or enters its list, its header and links included *)

LEMMA DlistIs ==
  ASSUME NEW u \in Link, NEW v \in Link
  PROVE  [prev |-> u, next |-> v] # NONE
  BY NoneAssumption DEF Link

LEMMA FamilyMember ==
  ASSUME NEW pg, NEW H, NEW L, NEW B, NEW S, NEW key, Family(pg, H, L, B, S, key),
         NEW b \in B, NEW j \in 1 .. Len(L[b]), NEW p, p = L[b][j]
  PROVE  /\ p \in S /\ p \in PageId /\ key[p] = b /\ pg[p].dlist # NONE
         /\ pg[p].dlist.prev # NONE => /\ pg[p].dlist.prev \in S
                                       /\ pg[p].dlist.prev # p
                                       /\ pg[p].dlist.prev # pg[p].dlist.next
                                       /\ pg[pg[p].dlist.prev].dlist # NONE
         /\ pg[p].dlist.next # NONE => /\ pg[p].dlist.next \in S
                                       /\ pg[p].dlist.next # p
                                       /\ pg[pg[p].dlist.next].dlist # NONE
<1>l. PICK ll : ll = L[b]
  OBVIOUS
<1>1. /\ ll \in Seq(PageId) /\ Links(pg, H[b], ll) /\ S \subseteq PageId
      /\ \A k \in 1 .. Len(ll) : ll[k] \in S /\ key[ll[k]] = b
  BY <1>l DEF Family
<1>2. /\ \A k \in 1 .. Len(ll) : pg[ll[k]].dlist = [prev |-> At(ll, k - 1), next |-> At(ll, k + 1)]
      /\ \A i, k \in 1 .. Len(ll) : ll[i] = ll[k] => i = k
  BY <1>1 DEF Links
<1>3. /\ \A k \in 1 .. Len(ll) : /\ pg[ll[k]].dlist.prev = At(ll, k - 1)
                                 /\ pg[ll[k]].dlist.next = At(ll, k + 1)
  BY <1>1, LinksIn
<1>4. ASSUME NEW k \in 1 .. Len(ll) PROVE pg[ll[k]].dlist # NONE
  <2>1. At(ll, k - 1) \in Link /\ At(ll, k + 1) \in Link
    BY <1>1, AtLink
  <2> QED BY <1>2, <2>1, DlistIs
<1>m. PICK m \in Nat : m = Len(ll)
  BY <1>1
<1>5. j \in 1 .. m /\ p = ll[j] /\ p \in S /\ p \in PageId /\ key[p] = b
  BY <1>l, <1>m, <1>1
<1>6. pg[p].dlist.prev = At(ll, j - 1) /\ pg[p].dlist.next = At(ll, j + 1)
  BY <1>3, <1>m, <1>5
<1>7. ASSUME At(ll, j - 1) # NONE
      PROVE  j - 1 \in 1 .. m /\ At(ll, j - 1) = ll[j - 1]
  BY <1>7, <1>m DEF At
<1>8. ASSUME At(ll, j + 1) # NONE
      PROVE  j + 1 \in 1 .. m /\ At(ll, j + 1) = ll[j + 1]
  BY <1>8, <1>m DEF At
<1>9. ASSUME At(ll, j - 1) # NONE
      PROVE  /\ At(ll, j - 1) \in S /\ At(ll, j - 1) # p /\ At(ll, j - 1) # At(ll, j + 1)
             /\ pg[At(ll, j - 1)].dlist # NONE
  <2>1. ll[j - 1] \in S /\ pg[ll[j - 1]].dlist # NONE /\ ll[j - 1] # p
    BY <1>1, <1>2, <1>4, <1>5, <1>7, <1>9, <1>m
  <2>2. ll[j - 1] # At(ll, j + 1)
    <3>1. CASE At(ll, j + 1) = NONE
      BY <1>7, <1>9, <3>1
    <3>2. CASE At(ll, j + 1) # NONE
      <4>1. j - 1 # j + 1
        BY <1>5
      <4> QED BY <1>2, <1>7, <1>8, <1>9, <1>m, <3>2, <4>1
    <3> QED BY <3>1, <3>2
  <2> QED BY <1>7, <1>9, <2>1, <2>2
<1>10. ASSUME At(ll, j + 1) # NONE
       PROVE  /\ At(ll, j + 1) \in S /\ At(ll, j + 1) # p
              /\ pg[At(ll, j + 1)].dlist # NONE
  <2>1. ll[j + 1] \in S /\ pg[ll[j + 1]].dlist # NONE /\ ll[j + 1] # p
    BY <1>1, <1>2, <1>4, <1>5, <1>8, <1>10, <1>m
  <2> QED BY <1>8, <1>10, <2>1
<1>11. pg[p].dlist # NONE
  BY <1>4, <1>5, <1>m
<1> QED BY <1>5, <1>6, <1>9, <1>10, <1>11

LEMMA FamilyEnds ==
  ASSUME NEW pg, NEW H, NEW L, NEW B, NEW S, NEW key, Family(pg, H, L, B, S, key),
         NEW b \in B
  PROVE  /\ H[b] \in Ends
         /\ H[b].first # NONE => H[b].first \in S /\ pg[H[b].first].dlist # NONE
         /\ H[b].last # NONE => H[b].last \in S /\ pg[H[b].last].dlist # NONE
<1>l. PICK ll : ll = L[b]
  OBVIOUS
<1>1. ll \in Seq(PageId) /\ Links(pg, H[b], ll) /\ H[b] \in Ends
  BY <1>l DEF Family
<1>2. H[b].first = At(ll, 1) /\ H[b].last = At(ll, Len(ll))
  BY <1>1, LinksIn
<1>3. ASSUME NEW k \in 1 .. Len(ll) PROVE ll[k] \in S /\ pg[ll[k]].dlist # NONE
  BY <1>l, FamilyMember
<1> QED BY <1>1, <1>2, <1>3 DEF At

LEMMA BypassedSame ==
  ASSUME NEW pg, NEW pg1, NEW pg2, NEW p \in PageId, Bypassed(pg, pg1, p),
         pg[p].dlist.prev # NONE => pg[p].dlist.prev \in PageId /\ pg[p].dlist.prev # p,
         pg[p].dlist.next # NONE => pg[p].dlist.next \in PageId /\ pg[p].dlist.next # p,
         \A q \in PageId : q # p => pg2[q].dlist = pg1[q].dlist
  PROVE  Bypassed(pg, pg2, p)
  BY DEF Bypassed

\* p is slice a of segment s, and its header says n
Heads(pg, p, s, a, n) == p = <<s, a>> /\ n = pg[p].count

LEMMA HeadsOf == ASSUME NEW pg, NEW p \in PageId PROVE Heads(pg, p, p[1], p[2], pg[p].count)
  BY PageIdIs, Zenon DEF Heads

\* p, j-th page of the list b, leaves it and its header is forgotten
Leaves(pg, H, L, B, S, key, b, j, s, a, n, p, pg2) ==
  /\ pg \in PagesType /\ Family(pg, H, L, B, S, key) /\ b \in B /\ j \in 1 .. Len(L[b])
  /\ s \in Segment /\ a \in Slice /\ n \in 1 .. N - a /\ Heads(pg, p, s, a, n)
  /\ p = L[b][j] /\ pg2 = SpanErased(Unlinked(pg, p), s, a, n)

Left(pg, H, L, B, S, key, b, j, s, a, n, p, pg2) ==
  /\ pg2 \in PagesType
  /\ \A q \in PageId :
       /\ pg2[q].count = IF q = p THEN NONE ELSE pg[q].count
       /\ pg2[q].offset = IF q = p \/ q = <<s, a + n - 1>> THEN NONE ELSE pg[q].offset
       /\ pg2[q].dlist = NONE <=> q = p \/ pg[q].dlist = NONE
       /\ pg2[q].is_used <=> pg[q].is_used
       /\ pg2[q].full = pg[q].full /\ pg2[q].kind = pg[q].kind
  /\ \A q \in PageId \ S : pg2[q].dlist = pg[q].dlist
  /\ Family(pg2, [H EXCEPT ![b] = UnlinkedHeader(pg, @, p)],
            [L EXCEPT ![b] = RemoveAt(@, j)], B, S \ {p}, key)

\* a free span leaves its list
LEMMA SpanLeaves ==
  ASSUME NEW pg, NEW H, NEW L, NEW B, NEW S, NEW key, NEW b, NEW j, NEW s, NEW a, NEW n,
         NEW p, NEW pg2, Leaves(pg, H, L, B, S, key, b, j, s, a, n, p, pg2)
  PROVE  Left(pg, H, L, B, S, key, b, j, s, a, n, p, pg2)
<1>0. /\ pg \in PagesType /\ Family(pg, H, L, B, S, key) /\ b \in B /\ j \in 1 .. Len(L[b])
      /\ s \in Segment /\ a \in Slice /\ n \in 1 .. N - a /\ Heads(pg, p, s, a, n)
      /\ p = L[b][j] /\ pg2 = SpanErased(Unlinked(pg, p), s, a, n)
  BY DEF Leaves
<1>1. /\ p \in S /\ p \in PageId /\ pg[p].dlist # NONE
      /\ pg[p].dlist.prev # NONE => /\ pg[p].dlist.prev \in S
                                    /\ pg[p].dlist.prev # p
                                    /\ pg[p].dlist.prev # pg[p].dlist.next
                                    /\ pg[pg[p].dlist.prev].dlist # NONE
      /\ pg[p].dlist.next # NONE => /\ pg[p].dlist.next \in S
                                    /\ pg[p].dlist.next # p
                                    /\ pg[pg[p].dlist.next].dlist # NONE
  <2>1. PICK x : x = L[b][j]
    OBVIOUS
  <2>2. /\ x \in S /\ x \in PageId /\ pg[x].dlist # NONE
        /\ pg[x].dlist.prev # NONE => /\ pg[x].dlist.prev \in S
                                      /\ pg[x].dlist.prev # x
                                      /\ pg[x].dlist.prev # pg[x].dlist.next
                                      /\ pg[pg[x].dlist.prev].dlist # NONE
        /\ pg[x].dlist.next # NONE => /\ pg[x].dlist.next \in S
                                      /\ pg[x].dlist.next # x
                                      /\ pg[pg[x].dlist.next].dlist # NONE
    BY <1>0, <2>1, FamilyMember
  <2>3. x = p
    BY <1>0, <2>1
  <2> QED BY <2>2, <2>3
<1>p. p = <<s, a>>
  BY <1>0 DEF Heads
<1>2. S \subseteq PageId
  BY <1>0 DEF Family
<1>u. PICK pu : pu = Unlinked(pg, p)
  OBVIOUS
<1>3. /\ pu \in PagesType /\ Bypassed(pg, pu, p) /\ pu[p] = pg[p]
      /\ \A q \in PageId : Alike(pg[q], pu[q]) /\ (pu[q].dlist = NONE <=> pg[q].dlist = NONE)
  BY <1>0, <1>1, <1>u, UnlinkedIs
<1>4. /\ pg2 \in PagesType
      /\ \A q \in PageId :
           /\ pg2[q].count = IF q = p THEN NONE ELSE pu[q].count
           /\ pg2[q].offset = IF q = p \/ q = <<s, a + n - 1>> THEN NONE ELSE pu[q].offset
           /\ pg2[q].dlist = IF q = p THEN NONE ELSE pu[q].dlist
           /\ pg2[q].is_used <=> pu[q].is_used
           /\ pg2[q].full = pu[q].full
           /\ pg2[q].kind = pu[q].kind
  BY <1>0, <1>3, <1>p, <1>u, SpanErasedIs
<1>5. Bypassed(pg, pg2, p)
  BY <1>0, <1>1, <1>2, <1>3, <1>4, BypassedSame
<1>6. Family(pg2, [H EXCEPT ![b] = UnlinkedHeader(pg, @, p)],
             [L EXCEPT ![b] = RemoveAt(@, j)], B, S \ {p}, key)
  BY <1>0, <1>1, <1>5, FamilyOut
<1>7. \A q \in PageId \ S : pg2[q].dlist = pg[q].dlist
  BY <1>1, <1>5, NotNone DEF Bypassed
<1>8. ASSUME NEW q \in PageId
      PROVE  /\ pg2[q].count = IF q = p THEN NONE ELSE pg[q].count
             /\ pg2[q].offset = IF q = p \/ q = <<s, a + n - 1>> THEN NONE ELSE pg[q].offset
             /\ pg2[q].dlist = NONE <=> q = p \/ pg[q].dlist = NONE
             /\ pg2[q].is_used <=> pg[q].is_used
             /\ pg2[q].full = pg[q].full /\ pg2[q].kind = pg[q].kind
  BY <1>3, <1>4 DEF Alike
<1> QED BY <1>4, <1>6, <1>7, <1>8 DEF Left

\* n slices from a become a free span, the first one of the list b
Enters(pg, H, L, B, S, key, b, s, a, n, p, pg2, key2) ==
  /\ pg \in PagesType /\ Family(pg, H, L, B, S, key) /\ b \in B
  /\ s \in Segment /\ a \in Slice /\ n \in 1 .. N - a /\ p = <<s, a>> /\ p \notin S
  /\ pg2 = LinkedFront(SpanWritten(pg, s, a, n), H[b], p) /\ Keyed(key, key2, S, p, b)

Came(pg, H, L, B, S, key, b, s, a, n, p, pg2, key2) ==
  /\ pg2 \in PagesType
  /\ \A q \in PageId :
       /\ pg2[q].count = IF q = p THEN n ELSE pg[q].count
       /\ pg2[q].offset =
            IF q = <<s, a + n - 1>> THEN n - 1 ELSE IF q = p THEN 0 ELSE pg[q].offset
       /\ pg2[q].dlist = NONE <=> q # p /\ pg[q].dlist = NONE
       /\ pg2[q].is_used <=> pg[q].is_used
       /\ pg2[q].full = pg[q].full /\ pg2[q].kind = pg[q].kind
  /\ \A q \in PageId \ (S \cup {p}) : pg2[q].dlist = pg[q].dlist
  /\ Family(pg2, [H EXCEPT ![b] = FrontHeader(@, p)], [L EXCEPT ![b] = <<p>> \o @],
            B, S \cup {p}, key2)

\* a free span enters its list
LEMMA SpanEnters ==
  ASSUME NEW pg, NEW H, NEW L, NEW B, NEW S, NEW key, NEW b, NEW s, NEW a, NEW n,
         NEW p, NEW pg2, NEW key2, Enters(pg, H, L, B, S, key, b, s, a, n, p, pg2, key2)
  PROVE  Came(pg, H, L, B, S, key, b, s, a, n, p, pg2, key2)
<1>0. /\ pg \in PagesType /\ Family(pg, H, L, B, S, key) /\ b \in B
      /\ s \in Segment /\ a \in Slice /\ n \in 1 .. N - a /\ p = <<s, a>> /\ p \notin S
      /\ pg2 = LinkedFront(SpanWritten(pg, s, a, n), H[b], p) /\ Keyed(key, key2, S, p, b)
  BY DEF Enters
<1>1. p \in PageId
  BY <1>0, PageIdIs DEF Slice
<1>2. S \subseteq PageId
  BY <1>0 DEF Family
<1>h. PICK h : h = H[b]
  OBVIOUS
<1>3. h \in Ends /\ h.first # p /\ (h.first # NONE => h.first \in S /\ pg[h.first].dlist # NONE)
  <2>1. h \in Ends /\ (h.first # NONE => h.first \in S /\ pg[h.first].dlist # NONE)
    BY <1>0, <1>h, FamilyEnds
  <2> QED BY <1>0, <1>1, <2>1, NotNone
<1>w. PICK pw : pw = SpanWritten(pg, s, a, n)
  OBVIOUS
<1>4. /\ pw \in PagesType
      /\ \A q \in PageId :
              /\ pw[q].count = IF q = <<s, a>> THEN n ELSE pg[q].count
              /\ pw[q].offset =
                   IF q = <<s, a + n - 1>> THEN n - 1 ELSE IF q = <<s, a>> THEN 0 ELSE pg[q].offset
              /\ pw[q].dlist = pg[q].dlist
              /\ pw[q].is_used <=> pg[q].is_used
              /\ pw[q].full = pg[q].full
              /\ pw[q].kind = pg[q].kind
  BY <1>0, <1>w, SpanWrittenIs
<1>5. h.first # NONE => h.first \in PageId /\ pw[h.first].dlist # NONE
  BY <1>2, <1>3, <1>4
<1>6. pg2 = LinkedFront(pw, h, p)
  BY <1>0, <1>h, <1>w
<1>7. /\ pg2 \in PagesType /\ Fronted(pw, pg2, h, p)
      /\ \A q \in PageId : Alike(pw[q], pg2[q])
      /\ \A q \in PageId : q # p => (pg2[q].dlist = NONE <=> pw[q].dlist = NONE)
  BY <1>0, <1>1, <1>3, <1>4, <1>5, <1>6, FrontIs
<1>8. Fronted(pg, pg2, h, p)
  BY <1>0, <1>1, <1>4, <1>5, <1>7 DEF Fronted
<1>9. Family(pg2, [H EXCEPT ![b] = FrontHeader(@, p)], [L EXCEPT ![b] = <<p>> \o @],
             B, S \cup {p}, key2)
  BY <1>0, <1>1, <1>8, <1>h, FamilyFront
<1>10. \A q \in PageId \ (S \cup {p}) : pg2[q].dlist = pg[q].dlist
  BY <1>3, <1>8, NotNone DEF Fronted
<1>11. pg2[p].dlist # NONE
  <2>1. pg2[p].dlist = [prev |-> NONE, next |-> h.first]
    BY <1>8 DEF Fronted
  <2>2. NONE \in Link /\ h.first \in Link
    BY <1>3 DEF Link, Ends
  <2> QED BY <2>1, <2>2, DlistIs
<1>12. ASSUME NEW q \in PageId
       PROVE  /\ pg2[q].count = IF q = p THEN n ELSE pg[q].count
              /\ pg2[q].offset =
                   IF q = <<s, a + n - 1>> THEN n - 1 ELSE IF q = p THEN 0 ELSE pg[q].offset
              /\ pg2[q].dlist = NONE <=> q # p /\ pg[q].dlist = NONE
              /\ pg2[q].is_used <=> pg[q].is_used
              /\ pg2[q].full = pg[q].full /\ pg2[q].kind = pg[q].kind
  BY <1>0, <1>4, <1>7, <1>11 DEF Alike
<1> QED BY <1>7, <1>9, <1>10, <1>12 DEF Came

\* what a page that enters or leaves a list is like then
Entered(pg, pg2, p, b) ==
  /\ pg2[p].count = pg[p].count /\ pg2[p].offset = pg[p].offset
  /\ (pg2[p].is_used <=> pg[p].is_used) /\ pg2[p].kind = pg[p].kind
  /\ pg2[p].dlist # NONE /\ pg2[p].full # NONE
  /\ pg2[p].full = (b = BIN_FULL)

PageCame(pg, pg2, S, p, b) ==
  /\ pg2 \in PagesType
  /\ \A q \in PageId : q # p => SameShape(pg[q], pg2[q])
  /\ Entered(pg, pg2, p, b)
  /\ \A q \in PageId \ (S \cup {p}) : pg2[q].dlist = pg[q].dlist

\* a page becomes the first one of a list, or the last one
InFront(pg, H, L, B, S, key, b, p, pg2, H2, L2, key2) ==
  /\ pg \in PagesType /\ Family(pg, H, L, B, S, key) /\ b \in B /\ p \in PageId /\ p \notin S
  /\ pg2 = Placed(LinkedFront(pg, H[b], p), p, b) /\ Keyed(key, key2, S, p, b)
  /\ H2 = [H EXCEPT ![b] = FrontHeader(@, p)] /\ L2 = [L EXCEPT ![b] = <<p>> \o @]

LEMMA PageEnters ==
  ASSUME NEW pg, NEW H, NEW L, NEW B, NEW S, NEW key, NEW b, NEW p, NEW pg2, NEW H2, NEW L2,
         NEW key2, InFront(pg, H, L, B, S, key, b, p, pg2, H2, L2, key2)
  PROVE  PageCame(pg, pg2, S, p, b) /\ Family(pg2, H2, L2, B, S \cup {p}, key2)
<1>0. /\ pg \in PagesType /\ Family(pg, H, L, B, S, key) /\ b \in B /\ p \in PageId /\ p \notin S
      /\ pg2 = Placed(LinkedFront(pg, H[b], p), p, b) /\ Keyed(key, key2, S, p, b)
      /\ H2 = [H EXCEPT ![b] = FrontHeader(@, p)] /\ L2 = [L EXCEPT ![b] = <<p>> \o @]
  BY DEF InFront
<1> USE <1>0
<1>h. PICK h : h = H[b]
  OBVIOUS
<1>1. h \in Ends /\ h.first # p /\ (h.first # NONE => h.first \in S /\ pg[h.first].dlist # NONE)
  <2>1. h \in Ends /\ (h.first # NONE => h.first \in S /\ pg[h.first].dlist # NONE)
    BY <1>h, FamilyEnds
  <2> QED BY <2>1, NotNone
<1>w. PICK pw : pw = LinkedFront(pg, h, p)
  OBVIOUS
<1>2. /\ pw \in PagesType /\ Fronted(pg, pw, h, p)
      /\ \A q \in PageId : Alike(pg[q], pw[q])
      /\ \A q \in PageId : q # p => (pw[q].dlist = NONE <=> pg[q].dlist = NONE)
  BY <1>1, <1>w, FrontIs
<1>3. /\ pg2 \in PagesType
      /\ \A q \in PageId : q # p => pg2[q] = pw[q]
      /\ pg2[p].full = (b = BIN_FULL) /\ pg2[p].full # NONE
      /\ pg2[p].count = pw[p].count /\ pg2[p].offset = pw[p].offset
      /\ pg2[p].dlist = pw[p].dlist /\ (pg2[p].is_used <=> pw[p].is_used)
      /\ pg2[p].kind = pw[p].kind
  BY <1>2, <1>h, <1>w, PlacedIs
<1>4. Fronted(pg, pg2, h, p)
  <2>1. h.first # NONE => h.first \in PageId
    BY <1>1 DEF Ends, Link
  <2>2. \A q \in PageId : pg2[q].dlist = pw[q].dlist
    BY <1>3
  <2> QED BY <1>2, <2>1, <2>2 DEF Fronted
<1>5. Family(pg2, [H EXCEPT ![b] = FrontHeader(@, p)], [L EXCEPT ![b] = <<p>> \o @],
             B, S \cup {p}, key2)
  BY <1>4, <1>h, FamilyFront
<1>6. \A q \in PageId \ (S \cup {p}) : pg2[q].dlist = pg[q].dlist
  BY <1>1, <1>4, NotNone DEF Fronted
<1>7. pg2[p].dlist # NONE
  <2>1. pg2[p].dlist = [prev |-> NONE, next |-> h.first]
    BY <1>4 DEF Fronted
  <2>2. NONE \in Link /\ h.first \in Link
    BY <1>1 DEF Link, Ends
  <2> QED BY <2>1, <2>2, DlistIs
<1>8. Entered(pg, pg2, p, b)
  BY <1>2, <1>3, <1>7 DEF Entered, Alike
<1>9. \A q \in PageId : q # p => SameShape(pg[q], pg2[q])
  BY <1>2, <1>3 DEF SameShape
<1> QED BY <1>3, <1>5, <1>6, <1>8, <1>9 DEF PageCame

InBack(pg, H, L, B, S, key, b, p, pg2, H2, L2, key2) ==
  /\ pg \in PagesType /\ Family(pg, H, L, B, S, key) /\ b \in B /\ p \in PageId /\ p \notin S
  /\ pg2 = Placed(LinkedBack(pg, H[b], p), p, b) /\ Keyed(key, key2, S, p, b)
  /\ H2 = [H EXCEPT ![b] = BackHeader(@, p)] /\ L2 = [L EXCEPT ![b] = Append(@, p)]

LEMMA PageEntersBack ==
  ASSUME NEW pg, NEW H, NEW L, NEW B, NEW S, NEW key, NEW b, NEW p, NEW pg2, NEW H2, NEW L2,
         NEW key2, InBack(pg, H, L, B, S, key, b, p, pg2, H2, L2, key2)
  PROVE  PageCame(pg, pg2, S, p, b) /\ Family(pg2, H2, L2, B, S \cup {p}, key2)
<1>0. /\ pg \in PagesType /\ Family(pg, H, L, B, S, key) /\ b \in B /\ p \in PageId /\ p \notin S
      /\ pg2 = Placed(LinkedBack(pg, H[b], p), p, b) /\ Keyed(key, key2, S, p, b)
      /\ H2 = [H EXCEPT ![b] = BackHeader(@, p)] /\ L2 = [L EXCEPT ![b] = Append(@, p)]
  BY DEF InBack
<1> USE <1>0
<1>h. PICK h : h = H[b]
  OBVIOUS
<1>1. h \in Ends /\ h.last # p /\ (h.last # NONE => h.last \in S /\ pg[h.last].dlist # NONE)
  <2>1. h \in Ends /\ (h.last # NONE => h.last \in S /\ pg[h.last].dlist # NONE)
    BY <1>h, FamilyEnds
  <2> QED BY <2>1, NotNone
<1>w. PICK pw : pw = LinkedBack(pg, h, p)
  OBVIOUS
<1>2. /\ pw \in PagesType /\ Backed(pg, pw, h, p)
      /\ \A q \in PageId : Alike(pg[q], pw[q])
      /\ \A q \in PageId : q # p => (pw[q].dlist = NONE <=> pg[q].dlist = NONE)
  BY <1>1, <1>w, BackIs
<1>3. /\ pg2 \in PagesType
      /\ \A q \in PageId : q # p => pg2[q] = pw[q]
      /\ pg2[p].full = (b = BIN_FULL) /\ pg2[p].full # NONE
      /\ pg2[p].count = pw[p].count /\ pg2[p].offset = pw[p].offset
      /\ pg2[p].dlist = pw[p].dlist /\ (pg2[p].is_used <=> pw[p].is_used)
      /\ pg2[p].kind = pw[p].kind
  BY <1>2, <1>h, <1>w, PlacedIs
<1>4. Backed(pg, pg2, h, p)
  <2>1. h.last # NONE => h.last \in PageId
    BY <1>1 DEF Ends, Link
  <2>2. \A q \in PageId : pg2[q].dlist = pw[q].dlist
    BY <1>3
  <2> QED BY <1>2, <2>1, <2>2 DEF Backed
<1>5. Family(pg2, [H EXCEPT ![b] = BackHeader(@, p)], [L EXCEPT ![b] = Append(@, p)],
             B, S \cup {p}, key2)
  BY <1>4, <1>h, FamilyBack
<1>6. \A q \in PageId \ (S \cup {p}) : pg2[q].dlist = pg[q].dlist
  BY <1>1, <1>4, NotNone DEF Backed
<1>7. pg2[p].dlist # NONE
  <2>1. pg2[p].dlist = [prev |-> h.last, next |-> NONE]
    BY <1>4 DEF Backed
  <2>2. NONE \in Link /\ h.last \in Link
    BY <1>1 DEF Link, Ends
  <2> QED BY <2>1, <2>2, DlistIs
<1>8. Entered(pg, pg2, p, b)
  BY <1>2, <1>3, <1>7 DEF Entered, Alike
<1>9. \A q \in PageId : q # p => SameShape(pg[q], pg2[q])
  BY <1>2, <1>3 DEF SameShape
<1> QED BY <1>3, <1>5, <1>6, <1>8, <1>9 DEF PageCame

\* a page leaves its list
PageOut(pg, H, L, B, S, key, b, j, p, pg2, H2, L2) ==
  /\ pg \in PagesType /\ Family(pg, H, L, B, S, key) /\ b \in B /\ j \in 1 .. Len(L[b])
  /\ p = L[b][j] /\ pg2 = [Unlinked(pg, p) EXCEPT ![p].full = NONE, ![p].dlist = NONE]
  /\ H2 = [H EXCEPT ![b] = UnlinkedHeader(pg, @, p)] /\ L2 = [L EXCEPT ![b] = RemoveAt(@, j)]

PageWent(pg, pg2, S, p) ==
  /\ pg2 \in PagesType /\ p \in PageId
  /\ \A q \in PageId : q # p => SameShape(pg[q], pg2[q])
  /\ pg2[p].full = NONE /\ pg2[p].dlist = NONE
  /\ pg2[p].count = pg[p].count /\ pg2[p].offset = pg[p].offset
  /\ (pg2[p].is_used <=> pg[p].is_used) /\ pg2[p].kind = pg[p].kind
  /\ \A q \in PageId \ S : pg2[q].dlist = pg[q].dlist

LEMMA PageLeaves ==
  ASSUME NEW pg, NEW H, NEW L, NEW B, NEW S, NEW key, NEW b, NEW j, NEW p, NEW pg2, NEW H2, NEW L2,
         PageOut(pg, H, L, B, S, key, b, j, p, pg2, H2, L2)
  PROVE  PageWent(pg, pg2, S, p) /\ Family(pg2, H2, L2, B, S \ {p}, key)
<1>0. pg \in PagesType /\ Family(pg, H, L, B, S, key) /\ b \in B /\ j \in 1 .. Len(L[b])
  BY DEF PageOut
<1>u. PICK pu : pu = Unlinked(pg, p)
  OBVIOUS
<1>w. pg2 = Forgotten(pu, p)
  BY <1>u DEF PageOut, Forgotten
<1>1. /\ p \in S /\ p \in PageId /\ pg[p].dlist # NONE
      /\ pg[p].dlist.prev # NONE => /\ pg[p].dlist.prev \in S
                                    /\ pg[p].dlist.prev # p
                                    /\ pg[p].dlist.prev # pg[p].dlist.next
                                    /\ pg[pg[p].dlist.prev].dlist # NONE
      /\ pg[p].dlist.next # NONE => /\ pg[p].dlist.next \in S
                                    /\ pg[p].dlist.next # p
                                    /\ pg[pg[p].dlist.next].dlist # NONE
  <2>1. PICK x : x = L[b][j]
    OBVIOUS
  <2>2. /\ x \in S /\ x \in PageId /\ pg[x].dlist # NONE
        /\ pg[x].dlist.prev # NONE => /\ pg[x].dlist.prev \in S
                                      /\ pg[x].dlist.prev # x
                                      /\ pg[x].dlist.prev # pg[x].dlist.next
                                      /\ pg[pg[x].dlist.prev].dlist # NONE
        /\ pg[x].dlist.next # NONE => /\ pg[x].dlist.next \in S
                                      /\ pg[x].dlist.next # x
                                      /\ pg[pg[x].dlist.next].dlist # NONE
    BY <1>0, <2>1, FamilyMember
  <2>3. x = p
    BY <2>1 DEF PageOut
  <2> QED BY <2>2, <2>3
<1>2. S \subseteq PageId
  BY <1>0 DEF Family
<1>3. /\ pu \in PagesType /\ Bypassed(pg, pu, p) /\ pu[p] = pg[p]
      /\ \A q \in PageId : Alike(pg[q], pu[q]) /\ (pu[q].dlist = NONE <=> pg[q].dlist = NONE)
  BY <1>0, <1>1, <1>u, UnlinkedIs
<1>4. /\ pg2 \in PagesType
      /\ \A q \in PageId : q # p => pg2[q] = pu[q]
      /\ pg2[p].full = NONE /\ pg2[p].dlist = NONE
      /\ pg2[p].count = pu[p].count /\ pg2[p].offset = pu[p].offset
      /\ (pg2[p].is_used <=> pu[p].is_used) /\ pg2[p].kind = pu[p].kind
  BY <1>1, <1>3, <1>w, ForgottenIs
<1>5. Bypassed(pg, pg2, p)
  <2>1. \A q \in PageId : q # p => pg2[q].dlist = pu[q].dlist
    BY <1>4
  <2>2. /\ pg[p].dlist.prev # NONE => pg[p].dlist.prev \in PageId /\ pg[p].dlist.prev # p
        /\ pg[p].dlist.next # NONE => pg[p].dlist.next \in PageId /\ pg[p].dlist.next # p
    BY <1>1, <1>2
  <2> QED BY <1>1, <1>3, <2>1, <2>2, BypassedSame
<1>6. Family(pg2, H2, L2, B, S \ {p}, key)
  <2>1. p = L[b][j]
    BY DEF PageOut
  <2>2. Family(pg2, [H EXCEPT ![b] = UnlinkedHeader(pg, @, p)],
               [L EXCEPT ![b] = RemoveAt(@, j)], B, S \ {p}, key)
    BY <1>0, <1>1, <1>5, <2>1, FamilyOut
  <2> QED BY <2>2 DEF PageOut
<1>7. \A q \in PageId \ S : pg2[q].dlist = pg[q].dlist
  BY <1>1, <1>5, NotNone DEF Bypassed
<1>8. \A q \in PageId : q # p => SameShape(pg[q], pg2[q])
  BY <1>3, <1>4 DEF SameShape
<1> QED BY <1>1, <1>3, <1>4, <1>6, <1>7, <1>8 DEF PageWent, Alike

-----------------------------------------------------------------------------
(* The popped range and the spans                                           *)

LEMMA PopNo ==
  /\ No.tag = "No"
  /\ \A q : ~PopOn(No, q)
  /\ \A t : Lo(No, t) = 0 /\ Ec(No, t) = 0
  BY DEF No, PopOn, Hole, IsReady, IsTaken, Lo, Ec

LEMMA PopExtra ==
  ASSUME NEW s
  PROVE  /\ ExtraCount(s).tag = "ExtraCount" /\ ExtraCount(s).seg = s
         /\ \A q : ~PopOn(ExtraCount(s), q)
         /\ \A t : Lo(ExtraCount(s), t) = 0 /\ Ec(ExtraCount(s), t) = IF t = s THEN 1 ELSE 0
  BY DEF ExtraCount, PopOn, Hole, IsReady, IsTaken, Lo, Ec

LEMMA PopCreating ==
  ASSUME NEW s
  PROVE  /\ SegmentCreating(s).tag = "SegmentCreating" /\ SegmentCreating(s).seg = s
         /\ \A q : ~PopOn(SegmentCreating(s), q)
         /\ \A t : /\ Lo(SegmentCreating(s), t) = IF t = s THEN N ELSE 0
                   /\ Ec(SegmentCreating(s), t) = 0
  BY DEF SegmentCreating, PopOn, Hole, IsReady, IsTaken, Lo, Ec

LEMMA PopFreeing ==
  ASSUME NEW s, NEW i
  PROVE  /\ SegmentFreeing(s, i).tag = "SegmentFreeing"
         /\ SegmentFreeing(s, i).seg = s /\ SegmentFreeing(s, i).idx = i
         /\ \A q : ~PopOn(SegmentFreeing(s, i), q)
         /\ \A t : /\ Lo(SegmentFreeing(s, i), t) = IF t = s THEN i ELSE 0
                   /\ Ec(SegmentFreeing(s, i), t) = 0
  BY DEF SegmentFreeing, PopOn, Hole, IsReady, IsTaken, Lo, Ec

LEMMA PopGone ==
  ASSUME NEW s, NEW i, NEW n, NEW b \in BOOLEAN
  PROVE  /\ VeryUnready(s, i, n, b).tag = "VeryUnready" /\ VeryUnready(s, i, n, b).seg = s
         /\ VeryUnready(s, i, n, b).start = i /\ VeryUnready(s, i, n, b).count = n
         /\ VeryUnready(s, i, n, b).ec <=> b
         /\ \A q \in PageId : PopOn(VeryUnready(s, i, n, b), q) <=> q = <<s, i>>
         /\ \A q : ~IsReady(VeryUnready(s, i, n, b), q) /\ ~IsTaken(VeryUnready(s, i, n, b), q)
         /\ \A t, j : Hole(VeryUnready(s, i, n, b), t, j) <=> t = s /\ j = i
         /\ \A t : /\ Lo(VeryUnready(s, i, n, b), t) = 0
                   /\ Ec(VeryUnready(s, i, n, b), t) = IF t = s /\ b THEN 1 ELSE 0
<1>v. PICK v : v = VeryUnready(s, i, n, b)
  OBVIOUS
<1>1. v.tag = "VeryUnready" /\ v.seg = s /\ v.start = i /\ v.count = n /\ (v.ec <=> b)
  BY <1>v DEF VeryUnready
<1>2. \A q : ~IsReady(v, q) /\ ~IsTaken(v, q)
  BY <1>1 DEF IsReady, IsTaken
<1>3. \A t, j : Hole(v, t, j) <=> t = s /\ j = i
  BY <1>1 DEF Hole
<1>4. \A q \in PageId : PopOn(v, q) <=> q = <<s, i>>
  BY <1>2, <1>3 DEF PopOn, PageId
<1>5. \A t : Lo(v, t) = 0 /\ Ec(v, t) = IF t = s /\ b THEN 1 ELSE 0
  BY <1>1 DEF Lo, Ec
<1> QED BY <1>v, <1>1, <1>2, <1>3, <1>4, <1>5

LEMMA PopReady ==
  ASSUME NEW p, NEW b \in BOOLEAN
  PROVE  /\ Ready(p, b).tag = "Ready" /\ Ready(p, b).page = p /\ (Ready(p, b).ec <=> b)
         /\ \A q : PopOn(Ready(p, b), q) <=> q = p
         /\ \A q : (IsReady(Ready(p, b), q) <=> q = p) /\ ~IsTaken(Ready(p, b), q)
         /\ \A t, j : ~Hole(Ready(p, b), t, j)
         /\ \A t : Lo(Ready(p, b), t) = 0 /\ Ec(Ready(p, b), t) = IF t = p[1] /\ b THEN 1 ELSE 0
<1>v. PICK v : v = Ready(p, b)
  OBVIOUS
<1>1. v.tag = "Ready" /\ v.page = p /\ (v.ec <=> b)
  BY <1>v DEF Ready
<1>2. \A q : (IsReady(v, q) <=> q = p) /\ ~IsTaken(v, q)
  BY <1>1 DEF IsReady, IsTaken
<1>3. \A t, j : ~Hole(v, t, j)
  BY <1>1 DEF Hole
<1>4. \A q : PopOn(v, q) <=> q = p
  BY <1>2, <1>3 DEF PopOn
<1>5. \A t : Lo(v, t) = 0 /\ Ec(v, t) = IF t = p[1] /\ b THEN 1 ELSE 0
  BY <1>1 DEF Lo, Ec
<1> QED BY <1>v, <1>1, <1>2, <1>3, <1>4, <1>5

LEMMA PopUsed ==
  ASSUME NEW p, NEW b \in BOOLEAN
  PROVE  /\ Used(p, b).tag = "Used" /\ Used(p, b).page = p /\ (Used(p, b).ec <=> b)
         /\ \A q : PopOn(Used(p, b), q) <=> q = p
         /\ \A q : (IsTaken(Used(p, b), q) <=> q = p) /\ ~IsReady(Used(p, b), q)
         /\ \A t, j : ~Hole(Used(p, b), t, j)
         /\ \A t : Lo(Used(p, b), t) = 0 /\ Ec(Used(p, b), t) = IF t = p[1] /\ ~b THEN -1 ELSE 0
<1>v. PICK v : v = Used(p, b)
  OBVIOUS
<1>1. v.tag = "Used" /\ v.page = p /\ (v.ec <=> b)
  BY <1>v DEF Used
<1>2. \A q : (IsTaken(v, q) <=> q = p) /\ ~IsReady(v, q)
  BY <1>1 DEF IsReady, IsTaken
<1>3. \A t, j : ~Hole(v, t, j)
  BY <1>1 DEF Hole
<1>4. \A q : PopOn(v, q) <=> q = p
  BY <1>2, <1>3 DEF PopOn
<1>5. \A t : Lo(v, t) = 0 /\ Ec(v, t) = IF t = p[1] /\ ~b THEN -1 ELSE 0
  BY <1>1 DEF Lo, Ec
<1> QED BY <1>v, <1>1, <1>2, <1>3, <1>4, <1>5

\* a slice where a span begins
LEMMA SpanThere ==
  ASSUME NEW pg \in PagesType, NEW pop, NEW s \in Segment, SegmentOK(pg, pop, s),
         NEW a \in Slice, NEW n, n = Ext(pg, pop, s)[a], n # 0
  PROVE  /\ n \in 1 .. N - a /\ n \in 1 .. N /\ a + n \in 0 .. N /\ a + n - 1 \in Slice
         /\ Span(pg, s, a, n, Class(pg, pop, s, a))
         /\ Lo(pop, s) <= a
         /\ a + n < N => a + n \in Slice /\ Ext(pg, pop, s)[a + n] # 0
         /\ Cut(Ext(pg, pop, s), a)
         /\ \A x \in a + 1 .. a + n - 1 : x \in Slice /\ Ext(pg, pop, s)[x] = 0
         /\ a # Lo(pop, s) => \E j \in Slice : Ext(pg, pop, s)[j] # 0 /\ j + Ext(pg, pop, s)[j] = a
<1>e. PICK e : e = Ext(pg, pop, s)
  OBVIOUS
<1>1. Tiling(e, Lo(pop, s)) /\ Span(pg, s, a, n, Class(pg, pop, s, a)) /\ n = e[a]
  BY <1>e DEF SegmentOK
<1>2. /\ n \in 1 .. N /\ a + n \in 0 .. N /\ Lo(pop, s) <= a
      /\ a + n < N => a + n \in Slice /\ e[a + n] # 0
      /\ \A x \in a + 1 .. a + n - 1 : x \in Slice /\ e[x] = 0
      /\ a # Lo(pop, s) => \E j \in Slice : e[j] # 0 /\ j + e[j] = a
  BY <1>1, TileAt
<1>3. n \in 1 .. N - a /\ a + n - 1 \in Slice
  <2>1. N \in Nat /\ a \in Nat /\ a < N
    BY PageIdIs DEF Slice
  <2>2. n \in Nat /\ 1 <= n /\ a + n <= N
    BY <1>2, <2>1
  <2> QED BY <2>1, <2>2 DEF Slice
<1>4. Cut(e, a)
  BY <1>1, CutAt
<1> QED BY <1>e, <1>1, <1>2, <1>3, <1>4

\* a header that leads to itself
LEMMA HeaderAt ==
  ASSUME NEW pg \in PagesType, NEW pop, NEW D, D \subseteq Segment, Laid(pg, pop, D),
         pop.tag = "VeryUnready" => pop.count \in 1 .. N,
         NEW p \in PageId, pg[p].offset = 0, NEW s, s = p[1], NEW a, a = p[2]
  PROVE  /\ s \in D /\ a \in Slice /\ p = <<s, a>> /\ ~Hole(pop, s, a)
         /\ pg[p].count = Ext(pg, pop, s)[a] /\ pg[p].count # 0
<1>1. ~Empty(pg[p])
  BY NoneAssumption DEF Empty
<1>2. s \in D /\ a \in Slice /\ p = <<s, a>>
  <2>1. p[2] # N /\ p[1] \in D
    BY <1>1 DEF Laid, OutsideOK
  <2>2. p[2] \in 0 .. N /\ N \in Nat
    BY PageIdIs
  <2>3. p = <<p[1], p[2]>>
    BY PageIdIs, Zenon
  <2> QED BY <2>1, <2>2, <2>3 DEF Slice
<1>3. SegmentOK(pg, pop, s) /\ s \in Segment
  BY <1>2 DEF Laid
<1>4. ~Hole(pop, s, a)
  <2> SUFFICES ASSUME Hole(pop, s, a) PROVE FALSE
    OBVIOUS
  <2>1. Ext(pg, pop, s)[a] = pop.count /\ pop.count \in 1 .. N
    BY <1>2, <1>3, ExtIs DEF Hole
  <2>2. Class(pg, pop, s, a) = "gone"
    BY DEF Class, Hole, IsReady, IsTaken
  <2>3. PICK n : n = pop.count
    OBVIOUS
  <2>4. n # 0 /\ n = Ext(pg, pop, s)[a]
    BY <2>1, <2>3
  <2>5. Span(pg, s, a, n, "gone") /\ n \in 1 .. N - a
    BY <1>2, <1>3, <2>2, <2>4, SpanThere
  <2>6. a \in Int /\ n \in Int /\ a \in a .. a + n - 1
    BY <1>2, <2>5, PageIdIs DEF Slice
  <2>7. Piece(pg[<<s, a>>], a - a, n, "gone")
    BY <2>5, <2>6, SpanAt
  <2> QED BY <1>1, <1>2, <2>7, GoneIsEmpty
<1>5. pg[p].count = Ext(pg, pop, s)[a]
  BY <1>2, <1>3, <1>4, ExtIs
<1>6. pg[p].count # 0
  <2>1. pg[p].count \in 1 .. N \cup {NONE}
    BY DEF PagesType, PageData
  <2> QED BY <2>1, NoneAssumption
<1> QED BY <1>2, <1>4, <1>5, <1>6

\* what changed is within one segment
LEMMA LaidKept ==
  ASSUME NEW pg, NEW pg2, NEW pop, NEW pop2, NEW D, D \subseteq Segment, Laid(pg, pop, D),
         NEW s \in D, NEW a \in 0 .. N, NEW b \in 0 .. N,
         Quiet(pg, pg2, pop, pop2, Region(s, a, b)),
         SegmentOK(pg2, pop2, s),
         \A t : t # s => Lo(pop2, t) = Lo(pop, t)
  PROVE  /\ Laid(pg2, pop2, D)
         /\ \A t \in D \ {s} : Headed(pg2, t) = Headed(pg, t)
<1>1. ASSUME NEW t \in D, t # s
      PROVE  SegmentOK(pg2, pop2, t) /\ Headed(pg2, t) = Headed(pg, t)
  <2>1. \A q \in Region(s, a, b) : q[1] # t
    BY <1>1 DEF Region
  <2>2. SegmentOK(pg, pop, t) /\ t \in Segment /\ Lo(pop2, t) = Lo(pop, t)
    BY <1>1 DEF Laid
  <2> QED BY <2>1, <2>2, SegmentKept, HeadedKept
<1>2. ASSUME NEW q \in PageId, q[2] = N \/ q[1] \notin D PROVE Empty(pg2[q])
  <2>1. Empty(pg[q])
    BY <1>2 DEF Laid, OutsideOK
  <2>2. q \notin Region(s, a, b)
    <3>1. N \notin a .. b - 1
      BY PageIdIs
    <3> QED BY <1>2, <3>1 DEF Region
  <2> QED BY <2>1, <2>2, EmptySame DEF Quiet
<1> QED BY <1>1, <1>2 DEF Laid, OutsideOK

LEMMA CountedKept ==
  ASSUME NEW pg, NEW pg2, NEW pop, NEW pop2, NEW u, NEW u2, Counted(pg, pop, u),
         DOMAIN u2 = DOMAIN u, NEW s \in DOMAIN u,
         \A t \in DOMAIN u \ {s} : /\ u2[t] = u[t] /\ Headed(pg2, t) = Headed(pg, t)
                                   /\ Ec(pop2, t) = Ec(pop, t),
         u2[s] = Cardinality(Headed(pg2, s)) + Ec(pop2, s)
  PROVE  Counted(pg2, pop2, u2)
  BY DEF Counted

LEMMA HeadedIs ==
  ASSUME NEW pg, NEW s
  PROVE  /\ IsFiniteSet(Headed(pg, s)) /\ Cardinality(Headed(pg, s)) \in Nat
<1>1. IsFiniteSet(Slice)
  <2>1. N - 1 \in Int
    BY PageIdIs
  <2> QED BY <2>1, FS_Interval DEF Slice
<1>2. IsFiniteSet(Headed(pg, s))
  BY <1>1, FS_Subset DEF Headed
<1> QED BY <1>2, FS_CardinalityType

LEMMA HeadedMore ==
  ASSUME NEW pg, NEW pg2, NEW s, NEW a, a \notin Headed(pg, s),
         Headed(pg2, s) = Headed(pg, s) \cup {a}
  PROVE  Cardinality(Headed(pg2, s)) = Cardinality(Headed(pg, s)) + 1
  BY HeadedIs, FS_AddElement

LEMMA HeadedLess ==
  ASSUME NEW pg, NEW pg2, NEW s, NEW a, a \in Headed(pg, s),
         Headed(pg2, s) = Headed(pg, s) \ {a}
  PROVE  Cardinality(Headed(pg2, s)) = Cardinality(Headed(pg, s)) - 1
  BY HeadedIs, FS_RemoveElement

-----------------------------------------------------------------------------
(* A free span is taken out of its list, or put into one                    *)

\* what the invariant says of the popped range
LEMMA InvIs ==
  ASSUME OrgInv
  PROVE  /\ pages \in PagesType /\ DOMAIN used \subseteq Segment
         /\ Laid(pages, popped, DOMAIN used)
         /\ popped.tag = "VeryUnready" => popped.count \in 1 .. N
         /\ \A s \in DOMAIN used : used[s] \in Int
         /\ \A p \in PageId : /\ IsTaken(popped, p) => pages[p].is_used /\ pages[p].offset = 0
                              /\ IsReady(popped, p) => ~pages[p].is_used /\ pages[p].offset = 0
<1>1. /\ pages \in PagesType /\ DOMAIN used \subseteq Segment
      /\ Laid(pages, popped, DOMAIN used)
      /\ \A s \in DOMAIN used : used[s] \in Int
  BY DEF OrgInv, TypeOK
<1>2. PoppedOK(pages, popped, used)
  BY DEF OrgInv
<1>3. CASE popped = No
  BY <1>1, <1>3 DEF No, IsTaken, IsReady
<1>4. ASSUME NEW p \in PageId, NEW b \in BOOLEAN,
             popped = Ready(p, b) \/ popped = Used(p, b),
             pages[p].offset = 0, pages[p].is_used <=> popped.tag = "Used"
      PROVE  /\ popped.tag # "VeryUnready"
             /\ \A q \in PageId : /\ IsTaken(popped, q) => pages[q].is_used /\ pages[q].offset = 0
                                  /\ IsReady(popped, q) => ~pages[q].is_used /\ pages[q].offset = 0
  <2>1. CASE popped = Ready(p, b)
    BY <1>4, <2>1 DEF Ready, IsTaken, IsReady
  <2>2. CASE popped = Used(p, b)
    BY <1>4, <2>2 DEF Used, IsTaken, IsReady
  <2> QED BY <1>4, <2>1, <2>2
<1>5. CASE \E s \in DOMAIN used, i \in 1 .. N - 1, n \in 1 .. N, b \in BOOLEAN :
             popped = VeryUnready(s, i, n, b)
  BY <1>1, <1>5 DEF VeryUnready, IsTaken, IsReady
<1>6. CASE \E s \in DOMAIN used : popped = SegmentCreating(s) /\ used[s] = 0
  BY <1>1, <1>6 DEF SegmentCreating, IsTaken, IsReady
<1>7. CASE \E s \in DOMAIN used, i \in 1 .. N : popped = SegmentFreeing(s, i) /\ used[s] = 0
  BY <1>1, <1>7 DEF SegmentFreeing, IsTaken, IsReady
<1>8. CASE \E s \in DOMAIN used : popped = ExtraCount(s)
  BY <1>1, <1>8 DEF ExtraCount, IsTaken, IsReady
<1> QED BY <1>1, <1>2, <1>3, <1>4, <1>5, <1>6, <1>7, <1>8 DEF PoppedOK

\* a free span is where its header says, and nothing else is there
LEMMA FreeAt ==
  ASSUME OrgInv, NEW p \in FreeSpans(pages, popped), NEW s, NEW a, NEW n,
         Heads(pages, p, s, a, n)
  PROVE  /\ p \in PageId /\ p = <<s, a>> /\ s \in DOMAIN used /\ s \in Segment
         /\ a \in Slice /\ a # 0 /\ n # 0 /\ n \in 1 .. N - a
         /\ Ext(pages, popped, s)[a] = n /\ Class(pages, popped, s, a) = "free"
         /\ Span(pages, s, a, n, "free")
         /\ SegmentOK(pages, popped, s)
<1>0. s = p[1] /\ a = p[2] /\ p = <<s, a>> /\ n = pages[p].count
  BY DEF Heads
<1>1. /\ p \in PageId /\ a # 0 /\ pages[p].offset = 0 /\ ~pages[p].is_used /\ ~IsReady(popped, p)
  BY <1>0 DEF FreeSpans
<1>2. /\ s \in DOMAIN used /\ a \in Slice /\ p = <<s, a>> /\ ~Hole(popped, s, a)
      /\ n = Ext(pages, popped, s)[a] /\ n # 0
  BY <1>0, <1>1, InvIs, HeaderAt
<1>3. ~IsTaken(popped, p)
  BY <1>1, InvIs
<1>4. Class(pages, popped, s, a) = "free"
  BY <1>1, <1>2, <1>3 DEF Class
<1>5. SegmentOK(pages, popped, s) /\ s \in Segment /\ pages \in PagesType
  BY <1>2, InvIs DEF Laid
<1>6. Span(pages, s, a, n, "free") /\ n \in 1 .. N - a
  BY <1>2, <1>4, <1>5, SpanThere
<1> QED BY <1>1, <1>2, <1>4, <1>5, <1>6

\* the lists of pages are not touched
LEMMA ListedSame ==
  ASSUME NEW pg, NEW pg2, NEW H, NEW L, NEW S, Family(pg, H, L, UsedBin, S, PageKey(pg)),
         \A q \in S : /\ pg2[q].dlist = pg[q].dlist
                      /\ pg2[q].full = pg[q].full /\ pg2[q].kind = pg[q].kind
  PROVE  Family(pg2, H, L, UsedBin, S, PageKey(pg2))
<1>1. S \subseteq PageId
  BY DEF Family
<1>2. \A q \in S : PageKey(pg2)[q] = PageKey(pg)[q]
  BY <1>1 DEF PageKey
<1>3. \A q \in S : pg2[q].dlist = pg[q].dlist
  OBVIOUS
<1> QED BY <1>2, <1>3, FamilySame

LEMMA FreeSame ==
  ASSUME NEW pg, NEW pg2, NEW H, NEW L, NEW S, Family(pg, H, L, Sbin, S, FreeKey(pg)),
         \A q \in S : pg2[q].dlist = pg[q].dlist /\ pg2[q].count = pg[q].count
  PROVE  Family(pg2, H, L, Sbin, S, FreeKey(pg2))
<1>1. S \subseteq PageId
  BY DEF Family
<1>2. \A q \in S : FreeKey(pg2)[q] = FreeKey(pg)[q]
  BY <1>1 DEF FreeKey
<1>3. \A q \in S : pg2[q].dlist = pg[q].dlist
  OBVIOUS
<1> QED BY <1>2, <1>3, FamilySame

LEMMA Leaving ==
  ASSUME OrgInv, NEW b \in Sbin, NEW j \in 1 .. Len(unused_lists[b]),
         NEW p, p = unused_lists[b][j], LeavesUnused(p, b, j),
         UNCHANGED <<used_headers, used_lists>>,
         NEW s, NEW a, NEW n, Heads(pages, p, s, a, n)
  PROVE  /\ p \in FreeSpans(pages, popped)
         /\ pages' \in PagesType
         /\ \A q \in PageId : q \notin Region(s, a, a + n) => SameShape(pages[q], pages'[q])
         /\ Span(pages', s, a, n, "gone")
         /\ Family(pages', unused_headers', unused_lists', Sbin,
                   FreeSpans(pages, popped) \ {p}, FreeKey(pages'))
         /\ Family(pages', used_headers', used_lists', UsedBin,
                   ListedPages(pages, popped), PageKey(pages'))
<1>1. /\ Family(pages, unused_headers, unused_lists, Sbin, FreeSpans(pages, popped), FreeKey(pages))
      /\ Family(pages, used_headers, used_lists, UsedBin, ListedPages(pages, popped), PageKey(pages))
      /\ pages \in PagesType
  BY DEF OrgInv, TypeOK
<1>2. p \in FreeSpans(pages, popped)
  BY <1>1, FamilyMember
<1>3. /\ p \in PageId /\ p = <<s, a>> /\ s \in Segment /\ a \in Slice /\ n \in 1 .. N - a
      /\ Span(pages, s, a, n, "free")
  BY <1>2, FreeAt
<1>4. /\ pages' = SpanErased(Unlinked(pages, p), s, a, n)
      /\ unused_headers' = [unused_headers EXCEPT ![b] = UnlinkedHeader(pages, @, p)]
      /\ unused_lists' = [unused_lists EXCEPT ![b] = RemoveAt(@, j)]
  <2>1. p[1] = s /\ p[2] = a /\ pages[p].count = n
    BY DEF Heads
  <2> QED BY <2>1 DEF LeavesUnused
<1>n. a \in Nat /\ n \in Nat /\ 1 <= n /\ N \in Nat
  <2>1. N \in Nat
    BY PageIdIs
  <2> QED BY <1>3, <2>1 DEF Slice
<1>5. /\ pages' \in PagesType
      /\ \A q \in PageId :
           /\ pages'[q].count = IF q = p THEN NONE ELSE pages[q].count
           /\ pages'[q].offset = IF q = p \/ q = <<s, a + n - 1>> THEN NONE ELSE pages[q].offset
           /\ pages'[q].dlist = NONE <=> q = p \/ pages[q].dlist = NONE
           /\ pages'[q].is_used <=> pages[q].is_used
           /\ pages'[q].full = pages[q].full /\ pages'[q].kind = pages[q].kind
      /\ \A q \in PageId \ FreeSpans(pages, popped) : pages'[q].dlist = pages[q].dlist
      /\ Family(pages', [unused_headers EXCEPT ![b] = UnlinkedHeader(pages, @, p)],
                [unused_lists EXCEPT ![b] = RemoveAt(@, j)], Sbin,
                FreeSpans(pages, popped) \ {p}, FreeKey(pages))
  <2>S. PICK S : S = FreeSpans(pages, popped)
    OBVIOUS
  <2>k. PICK key : key = FreeKey(pages)
    OBVIOUS
  <2>1. Family(pages, unused_headers, unused_lists, Sbin, S, key)
    BY <1>1, <2>S, <2>k
  <2>3. Leaves(pages, unused_headers, unused_lists, Sbin, S, key, b, j, s, a, n, p, pages')
    BY <1>1, <1>3, <1>4, <2>1 DEF Leaves
  <2>4. Left(pages, unused_headers, unused_lists, Sbin, S, key, b, j, s, a, n, p, pages')
    BY <2>3, SpanLeaves
  <2>2. /\ pages' \in PagesType
        /\ \A q \in PageId :
             /\ pages'[q].count = IF q = p THEN NONE ELSE pages[q].count
             /\ pages'[q].offset = IF q = p \/ q = <<s, a + n - 1>> THEN NONE ELSE pages[q].offset
             /\ pages'[q].dlist = NONE <=> q = p \/ pages[q].dlist = NONE
             /\ pages'[q].is_used <=> pages[q].is_used
             /\ pages'[q].full = pages[q].full /\ pages'[q].kind = pages[q].kind
        /\ \A q \in PageId \ S : pages'[q].dlist = pages[q].dlist
        /\ Family(pages', [unused_headers EXCEPT ![b] = UnlinkedHeader(pages, @, p)],
                  [unused_lists EXCEPT ![b] = RemoveAt(@, j)], Sbin, S \ {p}, key)
    BY <2>4 DEF Left
  <2> QED BY <2>2, <2>S, <2>k
<1>6. ASSUME NEW q \in PageId, q \notin Region(s, a, a + n)
      PROVE  SameShape(pages[q], pages'[q])
  <2>1. a \in a .. (a + n) - 1 /\ a + n - 1 \in a .. (a + n) - 1
    BY <1>n
  <2>2. q # <<s, a>> /\ q # <<s, a + n - 1>>
    BY <1>6, <2>1 DEF Region
  <2> QED BY <1>3, <1>5, <2>2 DEF SameShape, Alike
<1>7. ASSUME NEW x \in a .. a + n - 1 PROVE Piece(pages'[<<s, x>>], x - a, n, "gone")
  <2>1. <<s, x>> \in PageId /\ (<<s, x>> = p <=> x - a = 0)
    BY <1>3, InRegion
  <2>2. Piece(pages[<<s, x>>], x - a, n, "free")
    BY <1>3 DEF Span
  <2>3. x = a + n - 1 <=> x - a = n - 1
    BY <1>n
  <2>4. <<s, x>> = <<s, a + n - 1>> <=> x - a = n - 1
    BY <2>3
  <2> QED BY <1>5, <2>1, <2>2, <2>4 DEF Piece
<1>8. Family(pages', unused_headers', unused_lists', Sbin,
             FreeSpans(pages, popped) \ {p}, FreeKey(pages'))
  <2>1. FreeSpans(pages, popped) \subseteq PageId
    BY DEF FreeSpans
  <2>2. \A q \in FreeSpans(pages, popped) \ {p} : FreeKey(pages')[q] = FreeKey(pages)[q]
    BY <1>5, <2>1 DEF FreeKey
  <2>3. Family(pages', unused_headers', unused_lists', Sbin,
               FreeSpans(pages, popped) \ {p}, FreeKey(pages))
    BY <1>4, <1>5
  <2> QED BY <2>2, <2>3, FamilySame
<1>9. Family(pages', used_headers', used_lists', UsedBin,
             ListedPages(pages, popped), PageKey(pages'))
  <2>1. ListedPages(pages, popped) \subseteq PageId \ FreeSpans(pages, popped)
    BY DEF FreeSpans, ListedPages
  <2>2. Family(pages', used_headers, used_lists, UsedBin, ListedPages(pages, popped), PageKey(pages'))
    BY <1>1, <1>5, <2>1, ListedSame
  <2> QED BY <2>2
<1>10. Span(pages', s, a, n, "gone")
  BY <1>7 DEF Span
<1> QED BY <1>2, <1>5, <1>6, <1>8, <1>9, <1>10

-----------------------------------------------------------------------------
(* A step changes one span, or the spans of one range of slices             *)

Sound(pg, pop, u) ==
  /\ pg \in PagesType /\ DOMAIN u \subseteq Segment /\ \A t \in DOMAIN u : u[t] \in Int
  /\ Laid(pg, pop, DOMAIN u) /\ Counted(pg, pop, u)

Unit(c) == IF c \in {"page", "taken"} THEN 1 ELSE 0

\* the counters change as the popped range does and by d
Recounted(pop, pop2, u, u2, s, d) ==
  /\ DOMAIN u2 = DOMAIN u
  /\ \A t \in DOMAIN u \ {s} : u2[t] = u[t] /\ Ec(pop2, t) = Ec(pop, t)
  /\ u2[s] - Ec(pop2, s) = u[s] - Ec(pop, s) + d
  /\ u2[s] \in Int

\* the span at slice a of segment s turns from class c to c2
Turn(pg, pg2, pop, pop2, u, u2, s, a, n, c, c2) ==
  /\ Sound(pg, pop, u) /\ pg2 \in PagesType
  /\ s \in DOMAIN u /\ a \in Slice
  /\ n = Ext(pg, pop, s)[a] /\ n # 0 /\ a # 0
  /\ c = Class(pg, pop, s, a) /\ c2 = Class(pg2, pop2, s, a)
  /\ Quiet(pg, pg2, pop, pop2, Region(s, a, a + n))
  /\ Span(pg2, s, a, n, c2) /\ (c2 = "gone" => pop2.count = n)
  /\ \A x \in a + 1 .. a + n - 1 : ~Hole(pop2, s, x)
  /\ \A t : Lo(pop2, t) = Lo(pop, t)
  /\ Recounted(pop, pop2, u, u2, s, Unit(c2) - Unit(c))

Turned(pg, pg2, pop, pop2, u2, s, a, c, c2) ==
  /\ Sound(pg2, pop2, u2)
  /\ FreeSpans(pg2, pop2) = (FreeSpans(pg, pop) \ {<<s, a>>}) \cup If(c2 = "free", {<<s, a>>})
  /\ ListedPages(pg2, pop2) = (ListedPages(pg, pop) \ {<<s, a>>}) \cup If(c2 = "page", {<<s, a>>})
  /\ <<s, a>> \in FreeSpans(pg, pop) <=> c = "free"
  /\ <<s, a>> \in ListedPages(pg, pop) <=> c = "page"

LEMMA EcIs == ASSUME NEW pop, NEW s PROVE Ec(pop, s) \in Int
  BY DEF Ec

\* a is counted before if c says so, and then if c2 does; d is the difference
Recount(S, S2, a, c, c2, d) ==
  /\ S2 = (S \ {a}) \cup If(c2 \in {"page", "taken"}, {a})
  /\ a \in S <=> c \in {"page", "taken"}
  /\ d = Unit(c2) - Unit(c)

LEMMA HeadedCount ==
  ASSUME NEW pg, NEW pg2, NEW s, NEW a, NEW c, NEW c2, NEW d,
         Recount(Headed(pg, s), Headed(pg2, s), a, c, c2, d)
  PROVE  Cardinality(Headed(pg2, s)) = Cardinality(Headed(pg, s)) + d
<1>1. Cardinality(Headed(pg, s)) \in Int /\ Cardinality(Headed(pg2, s)) \in Int
  BY HeadedIs
<1>2. CASE c \in {"page", "taken"} <=> c2 \in {"page", "taken"}
  <2>1. Headed(pg2, s) = Headed(pg, s)
    BY <1>2 DEF If, Recount
  <2>2. d = 0
    BY <1>2 DEF Unit, Recount
  <2> QED BY <1>1, <2>1, <2>2
<1>3. CASE c \in {"page", "taken"} /\ c2 \notin {"page", "taken"}
  <2>1. Headed(pg2, s) = Headed(pg, s) \ {a} /\ a \in Headed(pg, s)
    BY <1>3 DEF If, Recount
  <2>2. d = -1
    BY <1>3 DEF Unit, Recount
  <2>3. Cardinality(Headed(pg2, s)) = Cardinality(Headed(pg, s)) - 1
    BY <2>1, HeadedLess
  <2> QED BY <1>1, <2>2, <2>3
<1>4. CASE c \notin {"page", "taken"} /\ c2 \in {"page", "taken"}
  <2>1. Headed(pg2, s) = Headed(pg, s) \cup {a} /\ a \notin Headed(pg, s)
    BY <1>4 DEF If, Recount
  <2>2. d = 1
    BY <1>4 DEF Unit, Recount
  <2>3. Cardinality(Headed(pg2, s)) = Cardinality(Headed(pg, s)) + 1
    BY <2>1, HeadedMore
  <2> QED BY <1>1, <2>2, <2>3
<1> QED BY <1>2, <1>3, <1>4

\* the invariant but for the lists, after a change within one segment
LEMMA SoundStep ==
  ASSUME NEW pg, NEW pg2, NEW pop, NEW pop2, NEW u, NEW u2, NEW s, NEW a \in 0 .. N, NEW b \in 0 .. N,
         NEW d, d \in Int, Sound(pg, pop, u), pg2 \in PagesType, s \in DOMAIN u,
         Quiet(pg, pg2, pop, pop2, Region(s, a, b)), SegmentOK(pg2, pop2, s),
         \A t : t # s => Lo(pop2, t) = Lo(pop, t),
         Recounted(pop, pop2, u, u2, s, d),
         Cardinality(Headed(pg2, s)) = Cardinality(Headed(pg, s)) + d
  PROVE  Sound(pg2, pop2, u2)
<1>1. /\ pg \in PagesType /\ DOMAIN u \subseteq Segment /\ \A t \in DOMAIN u : u[t] \in Int
      /\ Laid(pg, pop, DOMAIN u) /\ Counted(pg, pop, u)
  BY DEF Sound
<1>2. /\ DOMAIN u2 = DOMAIN u
      /\ \A t \in DOMAIN u \ {s} : u2[t] = u[t] /\ Ec(pop2, t) = Ec(pop, t)
      /\ u2[s] - Ec(pop2, s) = u[s] - Ec(pop, s) + d
      /\ u2[s] \in Int
  BY DEF Recounted
<1>D. PICK D : D = DOMAIN u
  OBVIOUS
<1>3. /\ Laid(pg2, pop2, D)
      /\ \A t \in D \ {s} : Headed(pg2, t) = Headed(pg, t)
  BY <1>1, <1>D, LaidKept
<1>4. u2[s] = Cardinality(Headed(pg2, s)) + Ec(pop2, s)
  <2>1. u[s] = Cardinality(Headed(pg, s)) + Ec(pop, s)
    BY <1>1 DEF Counted
  <2>2. Ec(pop, s) \in Int /\ Ec(pop2, s) \in Int /\ Cardinality(Headed(pg, s)) \in Int
        /\ Cardinality(Headed(pg2, s)) \in Int /\ u[s] \in Int
    BY <1>1, EcIs, HeadedIs
  <2> QED BY <1>2, <2>1, <2>2
<1>5. Counted(pg2, pop2, u2)
  BY <1>1, <1>2, <1>3, <1>4, <1>D, CountedKept
<1>6. \A t \in DOMAIN u2 : u2[t] \in Int
  BY <1>1, <1>2
<1> QED BY <1>1, <1>2, <1>3, <1>5, <1>6, <1>D DEF Sound

LEMMA TurnStep ==
  ASSUME NEW pg, NEW pg2, NEW pop, NEW pop2, NEW u, NEW u2, NEW s, NEW a, NEW n, NEW c, NEW c2,
         Turn(pg, pg2, pop, pop2, u, u2, s, a, n, c, c2)
  PROVE  Turned(pg, pg2, pop, pop2, u2, s, a, c, c2)
<1>1. /\ Sound(pg, pop, u) /\ pg2 \in PagesType /\ pg \in PagesType
      /\ s \in DOMAIN u /\ s \in Segment /\ SegmentOK(pg, pop, s)
  BY DEF Turn, Sound, Laid
<1>2. /\ a \in Slice /\ n = Ext(pg, pop, s)[a] /\ n # 0 /\ a # 0
      /\ c = Class(pg, pop, s, a) /\ c2 = Class(pg2, pop2, s, a)
      /\ Quiet(pg, pg2, pop, pop2, Region(s, a, a + n))
      /\ Span(pg2, s, a, n, c2) /\ (c2 = "gone" => pop2.count = n)
      /\ \A x \in a + 1 .. a + n - 1 : ~Hole(pop2, s, x)
      /\ Lo(pop2, s) = Lo(pop, s)
  BY DEF Turn
<1>3. /\ SegmentOK(pg2, pop2, s)
      /\ FreeSpans(pg2, pop2) =
              (FreeSpans(pg, pop) \ {<<s, a>>}) \cup If(c2 = "free", {<<s, a>>})
      /\ ListedPages(pg2, pop2) =
              (ListedPages(pg, pop) \ {<<s, a>>}) \cup If(c2 = "page", {<<s, a>>})
      /\ Headed(pg2, s) = (Headed(pg, s) \ {a}) \cup If(c2 \in {"page", "taken"}, {a})
      /\ <<s, a>> \in FreeSpans(pg, pop) <=> c = "free"
      /\ <<s, a>> \in ListedPages(pg, pop) <=> c = "page"
      /\ a \in Headed(pg, s) <=> c \in {"page", "taken"}
  <2>1. TurnHere(pg, pg2, pop, pop2, s, a, n, c, c2)
    BY <1>1, <1>2 DEF TurnHere
  <2> QED BY <2>1, SpanTurns
<1>5. a + n \in 0 .. N /\ a \in 0 .. N
  BY <1>1, <1>2, PageIdIs, SpanThere DEF Slice
<1>d. PICK d : d = Unit(c2) - Unit(c)
  OBVIOUS
<1>4. Cardinality(Headed(pg2, s)) = Cardinality(Headed(pg, s)) + d
  <2>1. Recount(Headed(pg, s), Headed(pg2, s), a, c, c2, d)
    BY <1>3, <1>d DEF Recount
  <2> QED BY <2>1, HeadedCount
<1>6. d \in Int
  BY <1>d DEF Unit
<1>7. (\A t : t # s => Lo(pop2, t) = Lo(pop, t)) /\ Recounted(pop, pop2, u, u2, s, d)
  BY <1>d DEF Turn
<1>b. PICK b \in 0 .. N : b = a + n
  BY <1>5
<1>8. Quiet(pg, pg2, pop, pop2, Region(s, a, b)) /\ Cardinality(Headed(pg2, s)) = Cardinality(Headed(pg, s)) + d
  BY <1>2, <1>4, <1>b, <1>d
<1>9. Sound(pg2, pop2, u2)
  BY <1>1, <1>3, <1>5, <1>6, <1>7, <1>8, SoundStep
<1> QED BY <1>3, <1>9 DEF Turned

\* the slices from a to b - 1 of segment s, none of them of a page, are divided in
\* another way; of the free spans those of P are gone, those of P2 are new
Shift(pg, pg2, pop, pop2, u, u2, s, a, b, P, P2) ==
  /\ Sound(pg, pop, u) /\ pg2 \in PagesType
  /\ s \in DOMAIN u /\ a \in 0 .. N /\ b \in 0 .. N
  /\ Quiet(pg, pg2, pop, pop2, Region(s, a, b))
  /\ Cut(Ext(pg, pop, s), a)
  /\ Tiling(Ext(pg2, pop2, s), Lo(pop2, s))
  /\ \A x \in a .. b - 1 : Ext(pg2, pop2, s)[x] # 0 =>
       Span(pg2, s, x, Ext(pg2, pop2, s)[x], Class(pg2, pop2, s, x))
  /\ \A i \in 0 .. Lo(pop2, s) - 1 : Empty(pg2[<<s, i>>])
  /\ \A q \in Region(s, a, b) :
       /\ ~pg[q].is_used /\ ~pg2[q].is_used
       /\ q \in FreeSpans(pg, pop) <=> q \in P
       /\ q \in FreeSpans(pg2, pop2) <=> q \in P2
  /\ P \subseteq Region(s, a, b) /\ P2 \subseteq Region(s, a, b)
  /\ \A t : t # s => Lo(pop2, t) = Lo(pop, t)
  /\ Recounted(pop, pop2, u, u2, s, 0)

Shifted(pg, pg2, pop, pop2, u2, P, P2) ==
  /\ Sound(pg2, pop2, u2)
  /\ FreeSpans(pg2, pop2) = (FreeSpans(pg, pop) \ P) \cup P2
  /\ ListedPages(pg2, pop2) = ListedPages(pg, pop)

LEMMA ShiftStep ==
  ASSUME NEW pg, NEW pg2, NEW pop, NEW pop2, NEW u, NEW u2, NEW s, NEW a, NEW b, NEW P, NEW P2,
         Shift(pg, pg2, pop, pop2, u, u2, s, a, b, P, P2)
  PROVE  Shifted(pg, pg2, pop, pop2, u2, P, P2)
<1>1. /\ Sound(pg, pop, u) /\ pg2 \in PagesType /\ pg \in PagesType
      /\ s \in DOMAIN u /\ s \in Segment /\ SegmentOK(pg, pop, s)
      /\ a \in 0 .. N /\ b \in 0 .. N
      /\ Quiet(pg, pg2, pop, pop2, Region(s, a, b))
  BY DEF Shift, Sound, Laid
<1>2. SegmentOK(pg2, pop2, s)
  <2>1. /\ Cut(Ext(pg, pop, s), a)
        /\ Tiling(Ext(pg2, pop2, s), Lo(pop2, s))
        /\ \A x \in a .. b - 1 : Ext(pg2, pop2, s)[x] # 0 =>
             Span(pg2, s, x, Ext(pg2, pop2, s)[x], Class(pg2, pop2, s, x))
        /\ \A i \in 0 .. Lo(pop2, s) - 1 : Empty(pg2[<<s, i>>])
    BY DEF Shift
  <2> QED BY <1>1, <2>1, SegmentStep
<1>3. /\ \A q \in Region(s, a, b) :
           /\ ~pg[q].is_used /\ ~pg2[q].is_used
           /\ q \in FreeSpans(pg, pop) <=> q \in P
           /\ q \in FreeSpans(pg2, pop2) <=> q \in P2
      /\ P \subseteq Region(s, a, b) /\ P2 \subseteq Region(s, a, b)
      /\ \A t : t # s => Lo(pop2, t) = Lo(pop, t)
      /\ Recounted(pop, pop2, u, u2, s, 0)
  BY DEF Shift
<1>4. ASSUME NEW q \in PageId
      PROVE  /\ q \in FreeSpans(pg2, pop2) <=> (q \in FreeSpans(pg, pop) /\ q \notin P) \/ q \in P2
             /\ q \in ListedPages(pg2, pop2) <=> q \in ListedPages(pg, pop)
             /\ q[1] = s => (q[2] \in Headed(pg2, s) <=> q[2] \in Headed(pg, s))
  <2>1. CASE q \in Region(s, a, b)
    <3>1. ~pg[q].is_used /\ ~pg2[q].is_used
      BY <1>3, <2>1
    <3>2. q = <<q[1], q[2]>>
      BY PageIdIs, Zenon
    <3>3. q[1] = s => q[2] \notin Headed(pg, s) /\ q[2] \notin Headed(pg2, s)
      BY <3>1, <3>2 DEF Headed
    <3>4. q \notin ListedPages(pg2, pop2) /\ q \notin ListedPages(pg, pop)
      BY <3>1 DEF ListedPages
    <3> QED BY <1>3, <2>1, <3>3, <3>4
  <2>2. CASE q \notin Region(s, a, b)
    <3>1. q \notin P /\ q \notin P2
      BY <1>3, <2>2
    <3> QED BY <1>1, <2>2, <3>1, QuietMembers
  <2> QED BY <2>1, <2>2
<1>5. /\ FreeSpans(pg2, pop2) \subseteq PageId /\ FreeSpans(pg, pop) \subseteq PageId
      /\ ListedPages(pg2, pop2) \subseteq PageId /\ ListedPages(pg, pop) \subseteq PageId
      /\ P2 \subseteq PageId
  BY <1>3 DEF FreeSpans, ListedPages, Region
<1>6. /\ FreeSpans(pg2, pop2) = (FreeSpans(pg, pop) \ P) \cup P2
      /\ ListedPages(pg2, pop2) = ListedPages(pg, pop)
  BY <1>4, <1>5
<1>7. Headed(pg2, s) = Headed(pg, s)
  <2>1. ASSUME NEW x \in Slice PROVE x \in Headed(pg2, s) <=> x \in Headed(pg, s)
    <3>1. <<s, x>> \in PageId /\ <<s, x>>[1] = s /\ <<s, x>>[2] = x
      BY <1>1, PageIdIs DEF Slice
    <3> QED BY <1>4, <3>1
  <2>2. Headed(pg2, s) \subseteq Slice /\ Headed(pg, s) \subseteq Slice
    BY DEF Headed
  <2> QED BY <2>1, <2>2
<1>8. Cardinality(Headed(pg2, s)) = Cardinality(Headed(pg, s)) + 0
  BY <1>7, HeadedIs
<1>9. Sound(pg2, pop2, u2)
  BY <1>1, <1>2, <1>3, <1>8, SoundStep
<1> QED BY <1>6, <1>9 DEF Shifted

\* all parts together
LEMMA OrgNext ==
  ASSUME Sound(pages', popped', used'), PoppedOK(pages', popped', used'),
         Family(pages', unused_headers', unused_lists', Sbin, FreeSpans(pages', popped'), FreeKey(pages')),
         Family(pages', used_headers', used_lists', UsedBin, ListedPages(pages', popped'), PageKey(pages')),
         used' \in [DOMAIN used' -> Int]
  PROVE  OrgInv'
<1>1. TypeOK'
  BY DEF TypeOK, Sound, Family
<1> QED BY <1>1 DEF OrgInv, Sound

LEMMA SoundNow ==
  ASSUME OrgInv
  PROVE  /\ Sound(pages, popped, used)
         /\ used \in [DOMAIN used -> Int]
         /\ Family(pages, unused_headers, unused_lists, Sbin, FreeSpans(pages, popped), FreeKey(pages))
         /\ Family(pages, used_headers, used_lists, UsedBin, ListedPages(pages, popped), PageKey(pages))
<1>1. used \in [DOMAIN used -> Int]
  BY DEF OrgInv, TypeOK
<1>2. \A t \in DOMAIN used : used[t] \in Int
  BY <1>1
<1> QED BY <1>1, <1>2 DEF OrgInv, TypeOK, Sound

\* a range that is taken out is blank
LEMMA GoneIs ==
  ASSUME NEW pg, NEW s, NEW a \in Int, NEW n \in Int, Span(pg, s, a, n, "gone"),
         NEW x \in a .. a + n - 1
  PROVE  Empty(pg[<<s, x>>])
  BY SpanAt, GoneIsEmpty

LEMMA Entering ==
  ASSUME OrgInv, NEW s \in Segment, NEW a \in Slice, NEW n \in 1 .. N - a,
         EntersUnused(s, a, n), UNCHANGED <<used_headers, used_lists>>,
         Span(pages, s, a, n, "gone")
  PROVE  /\ pages' \in PagesType
         /\ \A q \in PageId : q \notin Region(s, a, a + n) => SameShape(pages[q], pages'[q])
         /\ Span(pages', s, a, n, "free")
         /\ Family(pages', unused_headers', unused_lists', Sbin,
                   FreeSpans(pages, popped) \cup {<<s, a>>}, FreeKey(pages'))
         /\ Family(pages', used_headers', used_lists', UsedBin,
                   ListedPages(pages, popped), PageKey(pages'))
<1>1. /\ Family(pages, unused_headers, unused_lists, Sbin, FreeSpans(pages, popped), FreeKey(pages))
      /\ Family(pages, used_headers, used_lists, UsedBin, ListedPages(pages, popped), PageKey(pages))
      /\ pages \in PagesType
  BY DEF OrgInv, TypeOK
<1>S. PICK S : S = FreeSpans(pages, popped)
  OBVIOUS
<1>b. PICK b : b = SmallestSbin[n]
  OBVIOUS
<1>p. PICK p : p = <<s, a>>
  OBVIOUS
<1>n. /\ a \in Nat /\ n \in Nat /\ 1 <= n /\ N \in Nat /\ n \in 1 .. N
      /\ a \in a .. (a + n) - 1 /\ a + n - 1 \in a .. (a + n) - 1
  BY PageIdIs DEF Slice
<1>2. b \in Sbin
  BY <1>b, <1>n, SbinAssumption DEF N
<1>3. /\ pages' = LinkedFront(SpanWritten(pages, s, a, n), unused_headers[b], p)
      /\ unused_headers' = [unused_headers EXCEPT ![b] = FrontHeader(@, p)]
      /\ unused_lists' = [unused_lists EXCEPT ![b] = <<p>> \o @]
  BY <1>b, <1>p DEF EntersUnused
<1>4. /\ p \in PageId /\ p \in Region(s, a, a + n) /\ Empty(pages[p])
  <2>1. PICK x \in a .. a + n - 1 : x = a
    BY <1>n
  <2>2. p = <<s, x>>
    BY <1>p, <2>1
  <2>3. p \in PageId /\ p \in Region(s, a, a + n)
    BY <2>2, InRegion
  <2>4. Empty(pages[<<s, x>>])
    BY <1>n, GoneIs
  <2> QED BY <2>2, <2>3, <2>4
<1>5. p \notin S /\ p \notin ListedPages(pages, popped) /\ S \subseteq PageId
  BY <1>4, <1>S, NoneAssumption DEF Empty, FreeSpans, ListedPages
<1>k. PICK key2 : key2 = [q \in PageId |-> IF q = p THEN b ELSE FreeKey(pages)[q]]
  OBVIOUS
<1>6. Enters(pages, unused_headers, unused_lists, Sbin, S, FreeKey(pages), b, s, a, n, p, pages', key2)
  <2>1. Keyed(FreeKey(pages), key2, S, p, b)
    BY <1>4, <1>5, <1>k DEF Keyed
  <2>2. Family(pages, unused_headers, unused_lists, Sbin, S, FreeKey(pages))
    BY <1>1, <1>S
  <2> QED BY <1>1, <1>2, <1>3, <1>p, <1>5, <2>1, <2>2 DEF Enters
<1>7. Came(pages, unused_headers, unused_lists, Sbin, S, FreeKey(pages), b, s, a, n, p, pages', key2)
  BY <1>6, SpanEnters
<1>8. /\ pages' \in PagesType
      /\ \A q \in PageId :
           /\ pages'[q].count = IF q = p THEN n ELSE pages[q].count
           /\ pages'[q].offset =
                IF q = <<s, a + n - 1>> THEN n - 1 ELSE IF q = p THEN 0 ELSE pages[q].offset
           /\ pages'[q].dlist = NONE <=> q # p /\ pages[q].dlist = NONE
           /\ pages'[q].is_used <=> pages[q].is_used
           /\ pages'[q].full = pages[q].full /\ pages'[q].kind = pages[q].kind
      /\ \A q \in PageId \ (S \cup {p}) : pages'[q].dlist = pages[q].dlist
      /\ Family(pages', [unused_headers EXCEPT ![b] = FrontHeader(@, p)],
                [unused_lists EXCEPT ![b] = <<p>> \o @], Sbin, S \cup {p}, key2)
  BY <1>7 DEF Came
<1>9. ASSUME NEW q \in PageId, q \notin Region(s, a, a + n)
      PROVE  SameShape(pages[q], pages'[q])
  <2>1. q # p /\ q # <<s, a + n - 1>>
    BY <1>4, <1>9, <1>n DEF Region
  <2> QED BY <1>8, <2>1 DEF SameShape, Alike
<1>10. ASSUME NEW x \in a .. a + n - 1 PROVE Piece(pages'[<<s, x>>], x - a, n, "free")
  <2>1. <<s, x>> \in PageId /\ (<<s, x>> = p <=> x - a = 0)
    BY <1>p, InRegion
  <2>2. Empty(pages[<<s, x>>])
    BY <1>n, GoneIs
  <2>3. x = a + n - 1 <=> x - a = n - 1
    BY <1>n
  <2>4. <<s, x>> = <<s, a + n - 1>> <=> x - a = n - 1
    BY <2>3
  <2>5. n - 1 = 0 /\ x - a = n - 1 => x - a = 0
    OBVIOUS
  <2>q. PICK q : q = <<s, x>>
    OBVIOUS
  <2>k. PICK k : k = x - a
    OBVIOUS
  <2>6. /\ pages'[q].count = IF k = 0 THEN n ELSE NONE
        /\ pages'[q].offset = IF k = n - 1 THEN n - 1 ELSE IF k = 0 THEN 0 ELSE NONE
        /\ pages'[q].dlist = NONE <=> k # 0
        /\ ~pages'[q].is_used /\ pages'[q].full = NONE /\ pages'[q].kind = NONE
    BY <1>8, <2>1, <2>2, <2>4, <2>q, <2>k DEF Empty
  <2>7. Piece(pages'[q], k, n, "free")
    BY <2>6 DEF Piece
  <2> QED BY <2>7, <2>q, <2>k
<1>11. Family(pages', unused_headers', unused_lists', Sbin, S \cup {p}, FreeKey(pages'))
  <2>1. Family(pages', unused_headers', unused_lists', Sbin, S \cup {p}, key2)
    BY <1>3, <1>8
  <2>2. \A q \in S \cup {p} : FreeKey(pages')[q] = key2[q]
    BY <1>b, <1>k, <1>4, <1>5, <1>8 DEF FreeKey
  <2> QED BY <2>1, <2>2, FamilySame
<1>12. Family(pages', used_headers', used_lists', UsedBin,
             ListedPages(pages, popped), PageKey(pages'))
  <2>1. ListedPages(pages, popped) \subseteq PageId \ (S \cup {p})
    BY <1>S, <1>5 DEF FreeSpans, ListedPages
  <2>2. Family(pages', used_headers, used_lists, UsedBin, ListedPages(pages, popped), PageKey(pages'))
    BY <1>1, <1>8, <2>1, ListedSame
  <2> QED BY <2>2
<1>13. Span(pages', s, a, n, "free")
  BY <1>10 DEF Span
<1> QED BY <1>8, <1>9, <1>11, <1>12, <1>13, <1>S, <1>p

LEMMA ClassIs ==
  ASSUME NEW pg, NEW pop, NEW s, NEW a
  PROVE  /\ Hole(pop, s, a) => Class(pg, pop, s, a) = "gone"
         /\ IsReady(pop, <<s, a>>) => Class(pg, pop, s, a) = "ready"
         /\ IsTaken(pop, <<s, a>>) => Class(pg, pop, s, a) = "taken"
         /\ ~Hole(pop, s, a) /\ ~IsReady(pop, <<s, a>>) /\ ~IsTaken(pop, <<s, a>>) =>
              Class(pg, pop, s, a) =
                IF a = 0 THEN "head" ELSE IF pg[<<s, a>>].is_used THEN "page" ELSE "free"
  BY DEF Class, Hole, IsReady, IsTaken

\* outside its region nothing is taken out
LEMMA QuietIs ==
  ASSUME NEW pg, NEW pg2, NEW pop, NEW pop2, NEW s, NEW a, NEW b,
         \A q \in PageId : q \notin Region(s, a, b) => SameShape(pg[q], pg2[q]),
         \A q \in PageId : PopOn(pop, q) => q \in Region(s, a, b),
         \A q \in PageId : PopOn(pop2, q) => q \in Region(s, a, b)
  PROVE  Quiet(pg, pg2, pop, pop2, Region(s, a, b))
  BY DEF Quiet

LEMMA TakeSpan ==
  ASSUME OrgInv, NEW b \in Sbin, NEW j \in 1 .. Len(unused_lists[b]),
         NEW p, p = unused_lists[b][j], LeavesUnused(p, b, j),
         popped = No, popped' = VeryUnready(p[1], p[2], pages[p].count, FALSE),
         UNCHANGED <<used, used_headers, used_lists>>
  PROVE  OrgInv'
<1>s. PICK s : s = p[1]
  OBVIOUS
<1>a. PICK a : a = p[2]
  OBVIOUS
<1>n. PICK n : n = pages[p].count
  OBVIOUS
<1>0. p \in PageId
  BY FamilyMember DEF OrgInv
<1>1. Heads(pages, p, s, a, n)
  BY <1>0, <1>s, <1>a, <1>n, PageIdIs, Zenon DEF Heads
<1>2. /\ p \in FreeSpans(pages, popped)
      /\ pages' \in PagesType
      /\ \A q \in PageId : q \notin Region(s, a, a + n) => SameShape(pages[q], pages'[q])
      /\ Span(pages', s, a, n, "gone")
      /\ Family(pages', unused_headers', unused_lists', Sbin,
                FreeSpans(pages, popped) \ {p}, FreeKey(pages'))
      /\ Family(pages', used_headers', used_lists', UsedBin,
                ListedPages(pages, popped), PageKey(pages'))
  BY <1>1, Leaving
<1>3. /\ p = <<s, a>> /\ s \in DOMAIN used /\ s \in Segment
      /\ a \in Slice /\ a # 0 /\ n # 0 /\ n \in 1 .. N - a
      /\ Ext(pages, popped, s)[a] = n /\ Class(pages, popped, s, a) = "free"
  BY <1>1, <1>2, FreeAt
<1>m. a \in Nat /\ n \in Nat /\ 1 <= n /\ N \in Nat /\ n \in 1 .. N /\ a \in 1 .. N - 1
      /\ a \in a .. (a + n) - 1 /\ a + n \in 0 .. N
  BY <1>3, PageIdIs DEF Slice
<1>4. popped' = VeryUnready(s, a, n, FALSE)
  BY <1>s, <1>a, <1>n
<1>q. PICK pop2 : pop2 = VeryUnready(s, a, n, FALSE)
  OBVIOUS
<1>5. /\ pop2.count = n
      /\ \A q \in PageId : PopOn(pop2, q) <=> q = <<s, a>>
      /\ \A t, i : Hole(pop2, t, i) <=> t = s /\ i = a
      /\ \A t : Lo(pop2, t) = 0 /\ Ec(pop2, t) = 0
  <2>1. PICK e \in BOOLEAN : e = FALSE
    OBVIOUS
  <2>2. pop2 = VeryUnready(s, a, n, e)
    BY <1>q, <2>1
  <2> QED BY <2>1, <2>2, PopGone
<1>6. p \in Region(s, a, a + n)
  BY <1>0, <1>3, <1>m DEF Region
<1>7. Turn(pages, pages', popped, pop2, used, used', s, a, n, "free", "gone")
  <2>1. Sound(pages, popped, used)
    BY SoundNow
  <2>2. Quiet(pages, pages', popped, pop2, Region(s, a, a + n))
    BY <1>2, <1>3, <1>5, <1>6, PopNo, QuietIs
  <2>3. Class(pages', pop2, s, a) = "gone"
    <3>1. Hole(pop2, s, a)
      BY <1>5
    <3> QED BY <3>1, ClassIs
  <2>4. \A x \in a + 1 .. a + n - 1 : ~Hole(pop2, s, x)
    BY <1>5, <1>m
  <2>5. Recounted(popped, pop2, used, used', s, Unit("gone") - Unit("free"))
    <3>1. Unit("gone") - Unit("free") = 0
      BY DEF Unit
    <3>2. used[s] \in Int
      BY <1>3, <2>1 DEF Sound
    <3>3. Recounted(popped, pop2, used, used', s, 0)
      BY <1>5, <3>2, PopNo DEF Recounted
    <3> QED BY <3>1, <3>3
  <2>6. \A t : Lo(pop2, t) = Lo(popped, t)
    BY <1>5, PopNo
  <2> QED BY <1>2, <1>3, <1>5, <2>1, <2>2, <2>3, <2>4, <2>5, <2>6 DEF Turn
<1>8. Turned(pages, pages', popped, pop2, used', s, a, "free", "gone")
  BY <1>7, TurnStep
<1>9. /\ Sound(pages', pop2, used')
      /\ FreeSpans(pages', pop2) = FreeSpans(pages, popped) \ {p}
      /\ ListedPages(pages', pop2) = ListedPages(pages, popped)
  BY <1>3, <1>8 DEF Turned, If
<1>10. PoppedOK(pages', pop2, used')
  BY <1>3, <1>m, <1>q DEF PoppedOK
<1>11. used' \in [DOMAIN used' -> Int]
  BY SoundNow
<1> QED BY <1>2, <1>4, <1>9, <1>10, <1>11, <1>q, OrgNext

\* the popped range while its slices are nothing, and while it is one of a page
GoneHere(s, a, n, b) ==
  /\ popped = VeryUnready(s, a, n, b) /\ b \in BOOLEAN
  /\ s \in DOMAIN used /\ s \in Segment /\ a \in 1 .. N - 1 /\ a \in Slice /\ a # 0
  /\ n \in 1 .. N - a /\ n # 0
  /\ Ext(pages, popped, s)[a] = n /\ Class(pages, popped, s, a) = "gone"
  /\ Span(pages, s, a, n, "gone")
  /\ SegmentOK(pages, popped, s)

LEMMA GoneAt ==
  ASSUME OrgInv, popped.tag = "VeryUnready"
  PROVE  \E b \in BOOLEAN : GoneHere(popped.seg, popped.start, popped.count, b)
<1>1. PICK s \in DOMAIN used, i \in 1 .. N - 1, n \in 1 .. N, b \in BOOLEAN :
        popped = VeryUnready(s, i, n, b)
  BY DEF OrgInv, PoppedOK, No, Ready, Used, SegmentCreating, SegmentFreeing, ExtraCount
<1>2. /\ popped.seg = s /\ popped.start = i /\ popped.count = n
      /\ Hole(popped, s, i)
  BY <1>1, PopGone
<1>3. pages \in PagesType /\ s \in Segment /\ SegmentOK(pages, popped, s)
  BY InvIs DEF Laid
<1>4. i \in Slice /\ i # 0 /\ n # 0
  BY PageIdIs DEF Slice
<1>5. Ext(pages, popped, s)[i] = n /\ Class(pages, popped, s, i) = "gone"
  <2>1. Ext(pages, popped, s)[i] = popped.count
    BY <1>2, <1>3, <1>4, ExtIs
  <2>2. Class(pages, popped, s, i) = "gone"
    BY <1>2, ClassIs
  <2> QED BY <1>2, <2>1, <2>2
<1>6. n \in 1 .. N - i /\ Span(pages, s, i, n, "gone")
  BY <1>3, <1>4, <1>5, SpanThere
<1> QED BY <1>1, <1>2, <1>3, <1>4, <1>5, <1>6 DEF GoneHere

PageHere(p, s, a, n, b, c) ==
  /\ popped = (IF c = "ready" THEN Ready(p, b) ELSE Used(p, b)) /\ b \in BOOLEAN
  /\ p \in PageId /\ p = <<s, a>> /\ n = pages[p].count
  /\ s \in DOMAIN used /\ s \in Segment /\ a \in 1 .. N - 1 /\ a \in Slice /\ a # 0
  /\ n \in 1 .. N - a /\ n # 0
  /\ Ext(pages, popped, s)[a] = n /\ Class(pages, popped, s, a) = c
  /\ Span(pages, s, a, n, c)
  /\ SegmentOK(pages, popped, s)

LEMMA PageAt ==
  ASSUME OrgInv, NEW c, \/ popped.tag = "Ready" /\ c = "ready"
                        \/ popped.tag = "Used" /\ c = "taken"
  PROVE  \E b \in BOOLEAN :
           PageHere(popped.page, popped.page[1], popped.page[2], pages[popped.page].count, b, c)
<1>1. PICK p \in PageId, b \in BOOLEAN :
        /\ popped = Ready(p, b) \/ popped = Used(p, b)
        /\ p[1] \in DOMAIN used /\ p[2] \in 1 .. N - 1
        /\ pages[p].offset = 0
  BY DEF OrgInv, PoppedOK, No, VeryUnready, SegmentCreating, SegmentFreeing, ExtraCount
<1>2. popped = (IF c = "ready" THEN Ready(p, b) ELSE Used(p, b)) /\ popped.page = p
  BY <1>1 DEF Ready, Used
<1>s. PICK s : s = p[1]
  OBVIOUS
<1>a. PICK a : a = p[2]
  OBVIOUS
<1>n. PICK n : n = pages[p].count
  OBVIOUS
<1>3. p = <<s, a>>
  BY <1>s, <1>a, PageIdIs, Zenon
<1>4. pages \in PagesType /\ s \in Segment /\ s \in DOMAIN used /\ SegmentOK(pages, popped, s)
  BY <1>1, <1>s, InvIs DEF Laid
<1>5. a \in 1 .. N - 1 /\ a \in Slice /\ a # 0
  BY <1>1, <1>a, PageIdIs DEF Slice
<1>6. /\ ~Hole(popped, s, a)
      /\ c = "ready" => IsReady(popped, <<s, a>>)
      /\ c = "taken" => IsTaken(popped, <<s, a>>)
  BY <1>2, <1>3, PopReady, PopUsed
<1>7. Ext(pages, popped, s)[a] = n /\ Class(pages, popped, s, a) = c
  BY <1>1, <1>3, <1>4, <1>5, <1>6, <1>n, ExtIs, ClassIs
<1>8. n # 0
  BY <1>1, <1>n, <1>s, <1>a, HeaderAt, InvIs
<1>9. n \in 1 .. N - a /\ Span(pages, s, a, n, c)
  BY <1>4, <1>5, <1>7, <1>8, SpanThere
<1>10. PageHere(p, s, a, n, b, c)
  BY <1>2, <1>3, <1>4, <1>5, <1>7, <1>8, <1>9, <1>n DEF PageHere
<1> QED BY <1>2, <1>10, <1>s, <1>a, <1>n

\* the lists do not know of a range that is taken out
LEMMA FamiliesKept ==
  ASSUME OrgInv, NEW s \in Segment, NEW a \in Slice, NEW n \in 1 .. N - a,
         NEW c, c = Class(pages, popped, s, a), c \in {"gone", "ready", "taken"}, a # 0,
         Span(pages, s, a, n, c),
         \A q \in PageId : q \notin Region(s, a, a + n) => pages'[q] = pages[q],
         UNCHANGED <<unused_headers, unused_lists, used_headers, used_lists>>
  PROVE  /\ Family(pages', unused_headers', unused_lists', Sbin,
                   FreeSpans(pages, popped), FreeKey(pages'))
         /\ Family(pages', used_headers', used_lists', UsedBin,
                   ListedPages(pages, popped), PageKey(pages'))
<1>1. ASSUME NEW q \in FreeSpans(pages, popped) \cup ListedPages(pages, popped)
      PROVE  pages'[q] = pages[q]
  <2>1. q \in PageId /\ q = <<q[1], q[2]>>
    <3>1. q \in PageId
      BY DEF FreeSpans, ListedPages
    <3> QED BY <3>1, PageIdIs, Zenon
  <2>2. CASE q \in Region(s, a, a + n)
    <3>1. q[1] = s /\ q[2] \in a .. a + n - 1
      BY <2>2, PageIdIs DEF Region, Slice
    <3>2. pages \in PagesType
      BY SoundNow DEF Sound
    <3>x. PICK x \in a .. a + n - 1 : x = q[2]
      BY <3>1
    <3>3. /\ <<s, x>> \in FreeSpans(pages, popped) <=> x = a /\ c = "free"
          /\ <<s, x>> \in ListedPages(pages, popped) <=> x = a /\ c = "page"
      BY <3>2, SpanMembers
    <3>4. <<s, x>> = q
      BY <2>1, <3>1, <3>x
    <3> QED BY <3>3, <3>4
  <2> QED BY <2>1, <2>2
<1>2. /\ Family(pages, unused_headers, unused_lists, Sbin, FreeSpans(pages, popped), FreeKey(pages))
      /\ Family(pages, used_headers, used_lists, UsedBin, ListedPages(pages, popped), PageKey(pages))
  BY SoundNow
<1>3. Family(pages', unused_headers, unused_lists, Sbin, FreeSpans(pages, popped), FreeKey(pages'))
  BY <1>1, <1>2, FreeSame
<1>4. Family(pages', used_headers, used_lists, UsedBin, ListedPages(pages, popped), PageKey(pages'))
  BY <1>1, <1>2, ListedSame
<1> QED BY <1>3, <1>4

\* headers that are the same have the same shape
LEMMA SameIsShape ==
  ASSUME NEW pg, NEW pg2, NEW s, NEW a, NEW b,
         \A q \in PageId : q \notin Region(s, a, b) => pg2[q] = pg[q]
  PROVE  \A q \in PageId : q \notin Region(s, a, b) => SameShape(pg[q], pg2[q])
  BY DEF SameShape, Alike

\* the first slice of a range is one of its region
LEMMA FirstIn ==
  ASSUME NEW s \in Segment, NEW a \in Slice, NEW n \in 1 .. N - a
  PROVE  /\ <<s, a>> \in PageId /\ <<s, a>> \in Region(s, a, a + n)
         /\ a \in Nat /\ n \in Nat /\ 1 <= n /\ N \in Nat /\ n \in 1 .. N
         /\ a + n \in 0 .. N /\ a \in 0 .. N /\ a + n - 1 \in Slice
<1>1. /\ a \in Nat /\ n \in Nat /\ 1 <= n /\ N \in Nat /\ n \in 1 .. N
      /\ a + n \in 0 .. N /\ a \in 0 .. N /\ a + n - 1 \in Slice
  BY PageIdIs DEF Slice
<1>2. a \in a .. (a + n) - 1 /\ <<s, a>> \in PageId
  BY <1>1, PageIdIs
<1> QED BY <1>1, <1>2 DEF Region

LEMMA FreeSpanStep == ASSUME OrgInv, free_to_unused_queue PROVE OrgInv'
<1>1. popped.tag = "VeryUnready"
  BY DEF free_to_unused_queue
<1>s. PICK s : s = popped.seg
  OBVIOUS
<1>a. PICK a : a = popped.start
  OBVIOUS
<1>n. PICK n : n = popped.count
  OBVIOUS
<1>b. PICK b \in BOOLEAN : GoneHere(s, a, n, b)
  BY <1>1, <1>s, <1>a, <1>n, GoneAt
<1>2. /\ popped = VeryUnready(s, a, n, b)
      /\ s \in DOMAIN used /\ s \in Segment /\ a \in Slice /\ a # 0
      /\ n \in 1 .. N - a /\ n # 0
      /\ Ext(pages, popped, s)[a] = n /\ Class(pages, popped, s, a) = "gone"
      /\ Span(pages, s, a, n, "gone")
  BY <1>b DEF GoneHere
<1>3. /\ EntersUnused(s, a, n)
      /\ popped' = (IF b THEN ExtraCount(s) ELSE No)
      /\ UNCHANGED <<used, used_headers, used_lists>>
  <2>1. popped.ec <=> b
    BY <1>2, PopGone
  <2> QED BY <1>s, <1>a, <1>n, <2>1 DEF free_to_unused_queue
<1>4. /\ pages' \in PagesType
      /\ \A q \in PageId : q \notin Region(s, a, a + n) => SameShape(pages[q], pages'[q])
      /\ Span(pages', s, a, n, "free")
      /\ Family(pages', unused_headers', unused_lists', Sbin,
                FreeSpans(pages, popped) \cup {<<s, a>>}, FreeKey(pages'))
      /\ Family(pages', used_headers', used_lists', UsedBin,
                ListedPages(pages, popped), PageKey(pages'))
  BY <1>2, <1>3, Entering
<1>f. <<s, a>> \in PageId /\ <<s, a>> \in Region(s, a, a + n) /\ a \in Nat /\ n \in Nat /\ 1 <= n /\ N \in Nat
      /\ n \in 1 .. N
  BY <1>2, FirstIn
<1>o. PICK pop : pop = popped
  OBVIOUS
<1>q. PICK pop2 : pop2 = popped'
  OBVIOUS
<1>5. /\ \A q \in PageId : PopOn(pop, q) <=> q = <<s, a>>
      /\ \A t : Lo(pop, t) = 0 /\ Ec(pop, t) = IF t = s /\ b THEN 1 ELSE 0
  BY <1>2, <1>o, PopGone
<1>6. /\ \A q : ~PopOn(pop2, q)
      /\ \A t : Lo(pop2, t) = 0 /\ Ec(pop2, t) = IF t = s /\ b THEN 1 ELSE 0
  BY <1>3, <1>q, PopNo, PopExtra
<1>7. Turn(pages, pages', pop, pop2, used, used', s, a, n, "gone", "free")
  <2>1. Sound(pages, pop, used)
    BY <1>o, SoundNow
  <2>2. Quiet(pages, pages', pop, pop2, Region(s, a, a + n))
    BY <1>4, <1>5, <1>6, <1>f, QuietIs
  <2>3. Class(pages', pop2, s, a) = "free"
    <3>1. /\ ~Hole(pop2, <<s, a>>[1], <<s, a>>[2])
          /\ ~IsReady(pop2, <<s, a>>) /\ ~IsTaken(pop2, <<s, a>>)
      BY <1>6 DEF PopOn
    <3>2. ~Hole(pop2, s, a)
      BY <3>1
    <3>3. Piece(pages'[<<s, a>>], a - a, n, "free")
      BY <1>4, <1>f, SpanAt
    <3>4. ~pages'[<<s, a>>].is_used
      BY <3>3 DEF Piece
    <3> QED BY <1>2, <3>1, <3>2, <3>4, ClassIs
  <2>4. \A x \in a + 1 .. a + n - 1 : ~Hole(pop2, s, x)
    <3>1. ASSUME NEW x PROVE ~Hole(pop2, s, x)
      <4>1. ~Hole(pop2, <<s, x>>[1], <<s, x>>[2])
        BY <1>6 DEF PopOn
      <4> QED BY <4>1
    <3> QED BY <3>1
  <2>5. Recounted(pop, pop2, used, used', s, Unit("free") - Unit("gone"))
    <3>1. Unit("free") - Unit("gone") = 0
      BY DEF Unit
    <3>2. used[s] \in Int /\ Ec(pop, s) \in Int
      BY <1>2, <2>1, EcIs DEF Sound
    <3>4. \A t : Ec(pop2, t) = Ec(pop, t)
      BY <1>5, <1>6
    <3>3. Recounted(pop, pop2, used, used', s, 0)
      BY <1>3, <3>2, <3>4 DEF Recounted
    <3> QED BY <3>1, <3>3
  <2>6. \A t : Lo(pop2, t) = Lo(pop, t)
    BY <1>5, <1>6
  <2>7. n = Ext(pages, pop, s)[a] /\ "gone" = Class(pages, pop, s, a)
    BY <1>2, <1>o
  <2> QED BY <1>2, <1>4, <2>1, <2>2, <2>3, <2>4, <2>5, <2>6, <2>7 DEF Turn
<1>8. Turned(pages, pages', pop, pop2, used', s, a, "gone", "free")
  BY <1>7, TurnStep
<1>9. /\ Sound(pages', pop2, used')
      /\ FreeSpans(pages', pop2) = FreeSpans(pages, pop) \cup {<<s, a>>}
      /\ ListedPages(pages', pop2) = ListedPages(pages, pop)
  BY <1>8 DEF Turned, If
<1>10. PoppedOK(pages', pop2, used')
  BY <1>2, <1>3, <1>q DEF PoppedOK
<1>11. used' \in [DOMAIN used' -> Int]
  BY <1>3, SoundNow
<1> QED BY <1>4, <1>9, <1>10, <1>11, <1>o, <1>q, OrgNext

-----------------------------------------------------------------------------
(* What is done to the popped range, and the pages                          *)

\* the popped range turns from one of its forms into another one
RangeTurn(s, a, n, c, c2) ==
  /\ s \in DOMAIN used /\ s \in Segment /\ a \in Slice /\ a # 0 /\ n \in 1 .. N - a /\ n # 0
  /\ c \in {"gone", "ready", "taken"} /\ c2 \in {"gone", "ready", "taken"}
  /\ Ext(pages, popped, s)[a] = n /\ Class(pages, popped, s, a) = c /\ Span(pages, s, a, n, c)
  /\ pages' \in PagesType
  /\ \A q \in PageId : q \notin Region(s, a, a + n) => pages'[q] = pages[q]
  /\ Class(pages', popped', s, a) = c2 /\ Span(pages', s, a, n, c2)
  /\ c2 = "gone" => popped'.count = n
  /\ \A q \in PageId : PopOn(popped, q) <=> q = <<s, a>>
  /\ \A q \in PageId : PopOn(popped', q) <=> q = <<s, a>>
  /\ \A t : Lo(popped, t) = 0 /\ Lo(popped', t) = 0
  /\ Recounted(popped, popped', used, used', s, Unit(c2) - Unit(c))
  /\ PoppedOK(pages', popped', used')
  /\ used' \in [DOMAIN used' -> Int]
  /\ UNCHANGED <<unused_headers, unused_lists, used_headers, used_lists>>

LEMMA RangeTurns ==
  ASSUME OrgInv, NEW s, NEW a, NEW n, NEW c, NEW c2, RangeTurn(s, a, n, c, c2)
  PROVE  OrgInv'
<1>1. /\ s \in DOMAIN used /\ s \in Segment /\ a \in Slice /\ a # 0 /\ n \in 1 .. N - a /\ n # 0
      /\ c \in {"gone", "ready", "taken"} /\ c2 \in {"gone", "ready", "taken"}
      /\ Ext(pages, popped, s)[a] = n /\ Class(pages, popped, s, a) = c /\ Span(pages, s, a, n, c)
      /\ pages' \in PagesType
      /\ \A q \in PageId : q \notin Region(s, a, a + n) => pages'[q] = pages[q]
      /\ Class(pages', popped', s, a) = c2 /\ Span(pages', s, a, n, c2)
      /\ c2 = "gone" => popped'.count = n
      /\ \A q \in PageId : PopOn(popped, q) <=> q = <<s, a>>
      /\ \A q \in PageId : PopOn(popped', q) <=> q = <<s, a>>
      /\ \A t : Lo(popped, t) = 0 /\ Lo(popped', t) = 0
      /\ PoppedOK(pages', popped', used')
      /\ used' \in [DOMAIN used' -> Int]
      /\ UNCHANGED <<unused_headers, unused_lists, used_headers, used_lists>>
  BY DEF RangeTurn
<1>2. /\ Family(pages', unused_headers', unused_lists', Sbin,
                FreeSpans(pages, popped), FreeKey(pages'))
      /\ Family(pages', used_headers', used_lists', UsedBin,
                ListedPages(pages, popped), PageKey(pages'))
  BY <1>1, FamiliesKept
<1>f. <<s, a>> \in PageId /\ <<s, a>> \in Region(s, a, a + n) /\ a \in Nat /\ n \in Nat /\ N \in Nat
      /\ a + n - 1 \in Slice
  BY <1>1, FirstIn
<1>o. PICK pop : pop = popped
  OBVIOUS
<1>q. PICK pop2 : pop2 = popped'
  OBVIOUS
<1>3. Turn(pages, pages', pop, pop2, used, used', s, a, n, c, c2)
  <2>1. Sound(pages, pop, used)
    BY <1>o, SoundNow
  <2>2. Quiet(pages, pages', pop, pop2, Region(s, a, a + n))
    <3>1. /\ \A q \in PageId : q \notin Region(s, a, a + n) => SameShape(pages[q], pages'[q])
          /\ \A q \in PageId : PopOn(pop, q) => q \in Region(s, a, a + n)
          /\ \A q \in PageId : PopOn(pop2, q) => q \in Region(s, a, a + n)
      BY <1>1, <1>f, <1>o, <1>q, SameIsShape
    <3> QED BY <3>1, QuietIs
  <2>3. \A x \in a + 1 .. a + n - 1 : ~Hole(pop2, s, x)
    <3> SUFFICES ASSUME NEW x \in a + 1 .. a + n - 1 PROVE ~Hole(pop2, s, x)
      OBVIOUS
    <3>1. x \in Slice /\ x # a
      BY <1>f DEF Slice
    <3>y. PICK y : y = <<s, x>>
      OBVIOUS
    <3>2. y \in PageId /\ y[1] = s /\ y[2] = x /\ y # <<s, a>>
      BY <1>1, <3>1, <3>y, PageIdIs DEF Slice
    <3>3. ~PopOn(pop2, y)
      BY <1>1, <1>q, <3>2
    <3> QED BY <3>2, <3>3 DEF PopOn
  <2>4. Recounted(pop, pop2, used, used', s, Unit(c2) - Unit(c))
    BY <1>o, <1>q DEF RangeTurn
  <2>5. \A t : Lo(pop2, t) = Lo(pop, t)
    BY <1>1, <1>o, <1>q
  <2>6. /\ n = Ext(pages, pop, s)[a] /\ c = Class(pages, pop, s, a)
        /\ c2 = Class(pages', pop2, s, a) /\ (c2 = "gone" => pop2.count = n)
    BY <1>1, <1>o, <1>q
  <2> QED BY <1>1, <2>1, <2>2, <2>3, <2>4, <2>5, <2>6 DEF Turn
<1>4. Turned(pages, pages', pop, pop2, used', s, a, c, c2)
  BY <1>3, TurnStep
<1>5. /\ Sound(pages', pop2, used')
      /\ FreeSpans(pages', pop2) = FreeSpans(pages, pop)
      /\ ListedPages(pages', pop2) = ListedPages(pages, pop)
  BY <1>1, <1>4 DEF Turned, If
<1> QED BY <1>1, <1>2, <1>5, <1>o, <1>q, OrgNext

LEMMA AllocateStep == ASSUME OrgInv, allocate_popped PROVE OrgInv'
<1>1. popped.tag = "VeryUnready" /\ ~popped.ec
  BY DEF allocate_popped
<1>s. PICK s : s = popped.seg
  OBVIOUS
<1>a. PICK a : a = popped.start
  OBVIOUS
<1>n. PICK n : n = popped.count
  OBVIOUS
<1>b. PICK b \in BOOLEAN : GoneHere(s, a, n, b)
  BY <1>1, <1>s, <1>a, <1>n, GoneAt
<1>2. /\ popped = VeryUnready(s, a, n, b)
      /\ s \in DOMAIN used /\ s \in Segment /\ a \in Slice /\ a # 0 /\ a \in 1 .. N - 1
      /\ n \in 1 .. N - a /\ n # 0
      /\ Ext(pages, popped, s)[a] = n /\ Class(pages, popped, s, a) = "gone"
      /\ Span(pages, s, a, n, "gone")
  BY <1>b DEF GoneHere
<1>3. ~b
  BY <1>1, <1>2, PopGone
<1>p. PICK p : p = <<s, a>>
  OBVIOUS
<1>4. /\ pages' = RangeWritten(pages, s, a, n)
      /\ used' = [used EXCEPT ![s] = @ + 1]
      /\ popped' = Ready(p, TRUE)
      /\ UNCHANGED <<unused_headers, unused_lists, used_headers, used_lists>>
  BY <1>s, <1>a, <1>n, <1>p DEF allocate_popped
<1>5. /\ pages' \in PagesType
      /\ \A q \in PageId : q \notin Region(s, a, a + n) => pages'[q] = pages[q]
      /\ Span(pages', s, a, n, "ready")
  <2>1. pages \in PagesType
    BY InvIs
  <2> QED BY <1>2, <1>4, <2>1, RangeWrittenIs
<1>f. <<s, a>> \in PageId /\ <<s, a>> \in Region(s, a, a + n) /\ a \in Nat /\ n \in Nat /\ N \in Nat
      /\ 1 <= n
  BY <1>2, FirstIn
<1>t. PICK e \in BOOLEAN : e = TRUE
  OBVIOUS
<1>6. /\ \A q \in PageId : PopOn(popped, q) <=> q = <<s, a>>
      /\ \A t : Lo(popped, t) = 0 /\ Ec(popped, t) = 0
  BY <1>2, <1>3, PopGone
<1>7. /\ \A q \in PageId : PopOn(popped', q) <=> q = <<s, a>>
      /\ \A t : Lo(popped', t) = 0 /\ Ec(popped', t) = IF t = s THEN 1 ELSE 0
      /\ IsReady(popped', <<s, a>>) /\ ~Hole(popped', s, a)
  <2>1. popped' = Ready(p, e) /\ p[1] = s
    BY <1>4, <1>p, <1>t
  <2>2. /\ \A q : PopOn(popped', q) <=> q = p
        /\ \A q : IsReady(popped', q) <=> q = p
        /\ \A t, j : ~Hole(popped', t, j)
        /\ \A t : Lo(popped', t) = 0 /\ Ec(popped', t) = IF t = p[1] /\ e THEN 1 ELSE 0
    BY <2>1, PopReady
  <2> QED BY <1>p, <1>t, <2>1, <2>2
<1>8. Class(pages', popped', s, a) = "ready"
  BY <1>7, ClassIs
<1>9. /\ DOMAIN used' = DOMAIN used /\ used' \in [DOMAIN used' -> Int]
      /\ used'[s] = used[s] + 1 /\ used[s] \in Int
      /\ \A t \in DOMAIN used \ {s} : used'[t] = used[t]
  BY <1>2, <1>4, SoundNow
<1>10. Recounted(popped, popped', used, used', s, Unit("ready") - Unit("gone"))
  <2>1. Unit("ready") - Unit("gone") = 0
    BY DEF Unit
  <2>2. Recounted(popped, popped', used, used', s, 0)
    BY <1>6, <1>7, <1>9 DEF Recounted
  <2> QED BY <2>1, <2>2
<1>11. PoppedOK(pages', popped', used')
  <2>1. Piece(pages'[<<s, a>>], a - a, n, "ready")
    BY <1>5, <1>f, SpanAt
  <2>2. pages'[p].offset = 0 /\ ~pages'[p].is_used
    BY <1>f, <1>p, <2>1 DEF Piece
  <2>3. p[1] \in DOMAIN used' /\ p[2] \in 1 .. N - 1 /\ p \in PageId
    BY <1>2, <1>9, <1>f, <1>p
  <2>4. popped'.tag = "Ready"
    BY <1>4 DEF Ready
  <2>5. popped' = Ready(p, e) /\ ~(popped'.tag = "Used")
    BY <1>4, <1>t, <2>4
  <2> QED BY <1>t, <2>2, <2>3, <2>5 DEF PoppedOK
<1>12. RangeTurn(s, a, n, "gone", "ready")
  BY <1>2, <1>4, <1>5, <1>6, <1>7, <1>8, <1>9, <1>10, <1>11 DEF RangeTurn
<1> QED BY <1>12, RangeTurns

LEMMA SetUsedStep == ASSUME OrgInv, NEW k \in ValidBin, set_range_to_used(k) PROVE OrgInv'
<1>1. popped.tag = "Ready"
  BY DEF set_range_to_used
<1>p. PICK p : p = popped.page
  OBVIOUS
<1>s. PICK s : s = p[1]
  OBVIOUS
<1>a. PICK a : a = p[2]
  OBVIOUS
<1>n. PICK n : n = pages[p].count
  OBVIOUS
<1>b. PICK b \in BOOLEAN : PageHere(p, s, a, n, b, "ready")
  BY <1>1, <1>p, <1>s, <1>a, <1>n, PageAt
<1>2. /\ popped = Ready(p, b) /\ p \in PageId /\ p = <<s, a>>
      /\ s \in DOMAIN used /\ s \in Segment /\ a \in Slice /\ a # 0 /\ a \in 1 .. N - 1
      /\ n \in 1 .. N - a /\ n # 0
      /\ Ext(pages, popped, s)[a] = n /\ Class(pages, popped, s, a) = "ready"
      /\ Span(pages, s, a, n, "ready")
  BY <1>b DEF PageHere
<1>f. <<s, a>> \in PageId /\ <<s, a>> \in Region(s, a, a + n) /\ a \in Nat /\ n \in Nat /\ N \in Nat
      /\ 1 <= n
  BY <1>2, FirstIn
<1>3. /\ pages' = AsPage(pages, s, a, n, k)
      /\ UNCHANGED <<used, unused_headers, unused_lists, used_headers, used_lists>>
  <2>1. PoppedRange = Range2(s, a, a + n)
    BY <1>p, <1>s, <1>a, <1>n DEF PoppedRange
  <2>2. popped.page = <<s, a>>
    BY <1>2, <1>p
  <2> QED BY <2>1, <2>2 DEF set_range_to_used, Overwrite, AsPage
<1>4. popped' = Used(p, b)
  <2>1. popped.ec = b
    BY <1>2 DEF Ready
  <2> QED BY <2>1, <1>p DEF set_range_to_used
<1>5. /\ pages' \in PagesType
      /\ \A q \in PageId : q \notin Region(s, a, a + n) => pages'[q] = pages[q]
      /\ Span(pages', s, a, n, "taken")
  <2>1. pages \in PagesType
    BY InvIs
  <2> QED BY <1>2, <1>3, <2>1, SetUsedIs
<1>6. /\ \A q \in PageId : PopOn(popped, q) <=> q = <<s, a>>
      /\ \A t : Lo(popped, t) = 0 /\ Ec(popped, t) = IF t = s /\ b THEN 1 ELSE 0
  <2>1. /\ \A q : PopOn(popped, q) <=> q = p
        /\ \A t : Lo(popped, t) = 0 /\ Ec(popped, t) = IF t = p[1] /\ b THEN 1 ELSE 0
    BY <1>2, PopReady
  <2> QED BY <1>2, <1>s, <2>1
<1>7. /\ \A q \in PageId : PopOn(popped', q) <=> q = <<s, a>>
      /\ \A t : Lo(popped', t) = 0 /\ Ec(popped', t) = IF t = s /\ ~b THEN -1 ELSE 0
      /\ IsTaken(popped', <<s, a>>)
  <2>1. /\ \A q : PopOn(popped', q) <=> q = p
        /\ \A q : IsTaken(popped', q) <=> q = p
        /\ \A t : Lo(popped', t) = 0 /\ Ec(popped', t) = IF t = p[1] /\ ~b THEN -1 ELSE 0
    BY <1>4, PopUsed
  <2> QED BY <1>2, <1>s, <2>1
<1>8. Class(pages', popped', s, a) = "taken"
  BY <1>7, ClassIs
<1>9. /\ DOMAIN used' = DOMAIN used /\ used' \in [DOMAIN used' -> Int]
      /\ used'[s] = used[s] /\ used[s] \in Int
      /\ \A t \in DOMAIN used \ {s} : used'[t] = used[t]
  BY <1>2, <1>3, SoundNow
<1>10. Recounted(popped, popped', used, used', s, Unit("taken") - Unit("ready"))
  <2>1. Unit("taken") - Unit("ready") = 1
    BY DEF Unit
  <2>2. Ec(popped', s) = Ec(popped, s) - 1 /\ Ec(popped, s) \in Int
    BY <1>6, <1>7
  <2>3. \A t : t # s => Ec(popped', t) = Ec(popped, t)
    BY <1>6, <1>7
  <2>4. used'[s] - Ec(popped', s) = used[s] - Ec(popped, s) + 1
    BY <1>9, <2>2
  <2>5. Recounted(popped, popped', used, used', s, 1)
    BY <1>9, <2>3, <2>4 DEF Recounted
  <2> QED BY <2>1, <2>5
<1>11. PoppedOK(pages', popped', used')
  <2>1. Piece(pages'[<<s, a>>], a - a, n, "taken")
    BY <1>5, <1>f, SpanAt
  <2>2. pages'[p].offset = 0 /\ pages'[p].is_used
    BY <1>2, <1>f, <2>1 DEF Piece
  <2>3. p[1] \in DOMAIN used' /\ p[2] \in 1 .. N - 1
    BY <1>2, <1>9, <1>s, <1>a
  <2>4. popped'.tag = "Used"
    BY <1>4 DEF Used
  <2> QED BY <1>2, <1>4, <2>2, <2>3, <2>4 DEF PoppedOK
<1>12. RangeTurn(s, a, n, "ready", "taken")
  BY <1>2, <1>3, <1>5, <1>6, <1>7, <1>8, <1>9, <1>10, <1>11 DEF RangeTurn
<1> QED BY <1>12, RangeTurns

LEMMA SetNotUsedStep == ASSUME OrgInv, set_range_to_not_used PROVE OrgInv'
<1>1. popped.tag = "Used"
  BY DEF set_range_to_not_used
<1>p. PICK p : p = popped.page
  OBVIOUS
<1>s. PICK s : s = p[1]
  OBVIOUS
<1>a. PICK a : a = p[2]
  OBVIOUS
<1>n. PICK n : n = pages[p].count
  OBVIOUS
<1>b. PICK b \in BOOLEAN : PageHere(p, s, a, n, b, "taken")
  BY <1>1, <1>p, <1>s, <1>a, <1>n, PageAt
<1>2. /\ popped = Used(p, b) /\ p \in PageId /\ p = <<s, a>>
      /\ s \in DOMAIN used /\ s \in Segment /\ a \in Slice /\ a # 0 /\ a \in 1 .. N - 1
      /\ n \in 1 .. N - a /\ n # 0
      /\ Ext(pages, popped, s)[a] = n /\ Class(pages, popped, s, a) = "taken"
      /\ Span(pages, s, a, n, "taken")
  BY <1>b DEF PageHere
<1>f. <<s, a>> \in PageId /\ <<s, a>> \in Region(s, a, a + n) /\ a \in Nat /\ n \in Nat /\ N \in Nat
      /\ 1 <= n /\ n \in 1 .. N
  BY <1>2, FirstIn
<1>3. /\ pages' = Overwrite(pages, Range2(s, a, a + n), LAMBDA q : Cleared(pages[q]))
      /\ UNCHANGED <<used, unused_headers, unused_lists, used_headers, used_lists>>
  <2>1. PoppedRange = Range2(s, a, a + n)
    BY <1>p, <1>s, <1>a, <1>n DEF PoppedRange
  <2> QED BY <2>1 DEF set_range_to_not_used, Overwrite
<1>4. popped' = VeryUnready(s, a, n, b)
  <2>1. popped.ec = b
    BY <1>2 DEF Used
  <2> QED BY <2>1, <1>p, <1>s, <1>a, <1>n DEF set_range_to_not_used
<1>5. /\ pages' \in PagesType
      /\ \A q \in PageId : q \notin Region(s, a, a + n) => pages'[q] = pages[q]
      /\ Span(pages', s, a, n, "gone")
  <2>1. pages \in PagesType
    BY InvIs
  <2> QED BY <1>2, <1>3, <2>1, ClearedIs DEF Overwrite
<1>6. /\ \A q \in PageId : PopOn(popped, q) <=> q = <<s, a>>
      /\ \A t : Lo(popped, t) = 0 /\ Ec(popped, t) = IF t = s /\ ~b THEN -1 ELSE 0
  <2>1. /\ \A q : PopOn(popped, q) <=> q = p
        /\ \A t : Lo(popped, t) = 0 /\ Ec(popped, t) = IF t = p[1] /\ ~b THEN -1 ELSE 0
    BY <1>2, PopUsed
  <2> QED BY <1>2, <1>s, <2>1
<1>7. /\ \A q \in PageId : PopOn(popped', q) <=> q = <<s, a>>
      /\ \A t : Lo(popped', t) = 0 /\ Ec(popped', t) = IF t = s /\ b THEN 1 ELSE 0
      /\ Hole(popped', s, a) /\ popped'.count = n
  <2> QED BY <1>4, PopGone
<1>8. Class(pages', popped', s, a) = "gone"
  BY <1>7, ClassIs
<1>9. /\ DOMAIN used' = DOMAIN used /\ used' \in [DOMAIN used' -> Int]
      /\ used'[s] = used[s] /\ used[s] \in Int
      /\ \A t \in DOMAIN used \ {s} : used'[t] = used[t]
  BY <1>2, <1>3, SoundNow
<1>10. Recounted(popped, popped', used, used', s, Unit("gone") - Unit("taken"))
  <2>1. Unit("gone") - Unit("taken") = -1
    BY DEF Unit
  <2>2. Ec(popped', s) = Ec(popped, s) + 1 /\ Ec(popped, s) \in Int
    BY <1>6, <1>7
  <2>3. \A t : t # s => Ec(popped', t) = Ec(popped, t)
    BY <1>6, <1>7
  <2>4. used'[s] - Ec(popped', s) = used[s] - Ec(popped, s) + (-1)
    BY <1>9, <2>2
  <2>5. Recounted(popped, popped', used, used', s, -1)
    BY <1>9, <2>3, <2>4 DEF Recounted
  <2> QED BY <2>1, <2>5
<1>11. PoppedOK(pages', popped', used')
  BY <1>2, <1>4, <1>9, <1>f DEF PoppedOK
<1>12. RangeTurn(s, a, n, "taken", "gone")
  BY <1>2, <1>3, <1>5, <1>6, <1>7, <1>8, <1>9, <1>10, <1>11 DEF RangeTurn
<1> QED BY <1>12, RangeTurns

\* the popped page is in a list again
LEMMA IntoDone ==
  ASSUME OrgInv, NEW b \in UsedBin, MayEnter(b), NEW p, p = popped.page,
         NEW key2, Keyed(PageKey(pages), key2, ListedPages(pages, popped), p, b),
         PageCame(pages, pages', ListedPages(pages, popped), p, b),
         Family(pages', used_headers', used_lists', UsedBin,
                ListedPages(pages, popped) \cup {p}, key2),
         popped' = No, UNCHANGED <<used, unused_headers, unused_lists>>
  PROVE  OrgInv'
<1>s. PICK s : s = p[1]
  OBVIOUS
<1>a. PICK a : a = p[2]
  OBVIOUS
<1>n. PICK n : n = pages[p].count
  OBVIOUS
<1>c. PICK e \in BOOLEAN : PageHere(p, s, a, n, e, "taken")
  BY <1>s, <1>a, <1>n, PageAt DEF MayEnter
<1>2. /\ popped = Used(p, e) /\ p \in PageId /\ p = <<s, a>>
      /\ s \in DOMAIN used /\ s \in Segment /\ a \in Slice /\ a # 0 /\ a \in 1 .. N - 1
      /\ n \in 1 .. N - a /\ n # 0
      /\ Ext(pages, popped, s)[a] = n /\ Class(pages, popped, s, a) = "taken"
      /\ Span(pages, s, a, n, "taken")
  BY <1>c DEF PageHere
<1>e. e
  BY <1>2, PopUsed DEF MayEnter
<1>f. /\ p \in Region(s, a, a + n) /\ a \in Nat /\ n \in Nat /\ N \in Nat
      /\ 1 <= n
  BY <1>2, FirstIn
<1>3. /\ pages' \in PagesType
      /\ \A q \in PageId : q # p => SameShape(pages[q], pages'[q])
      /\ Entered(pages, pages', p, b)
      /\ \A q \in PageId \ (ListedPages(pages, popped) \cup {p}) : pages'[q].dlist = pages[q].dlist
  BY DEF PageCame
<1>4. Piece(pages[<<s, a>>], a - a, n, "taken")
  BY <1>2, <1>f, SpanAt
<1>5. Piece(pages'[p], 0, n, "page")
  <2>1. Piece(pages[p], 0, n, "taken")
    BY <1>2, <1>4, <1>f
  <2> QED BY <1>3, <2>1 DEF Piece, Entered
<1>6. ASSUME NEW x \in a .. a + n - 1 PROVE Piece(pages'[<<s, x>>], x - a, n, "page")
  <2>1. <<s, x>> \in PageId /\ (<<s, x>> = <<s, a>> <=> x = a) /\ (x - a = 0 <=> x = a)
    BY <1>2, InRegion
  <2>2. CASE x = a
    BY <1>2, <1>5, <2>1, <2>2
  <2>3. CASE x # a
    <3>1. SameShape(pages[<<s, x>>], pages'[<<s, x>>])
      BY <1>2, <1>3, <2>1, <2>3
    <3>2. Piece(pages[<<s, x>>], x - a, n, "taken")
      BY <1>2, <1>f, SpanAt
    <3>3. Piece(pages'[<<s, x>>], x - a, n, "taken")
      BY <3>1, <3>2, PieceSame
    <3> QED BY <2>1, <2>3, <3>3 DEF Piece
  <2> QED BY <2>2, <2>3
<1>7. Span(pages', s, a, n, "page")
  BY <1>6 DEF Span
<1>o. PICK pop : pop = popped
  OBVIOUS
<1>q. PICK pop2 : pop2 = popped'
  OBVIOUS
<1>8. /\ \A q \in PageId : PopOn(pop, q) <=> q = p
      /\ \A t : Lo(pop, t) = 0 /\ Ec(pop, t) = 0
  <2>1. /\ \A q : PopOn(popped, q) <=> q = p
        /\ \A t : Lo(popped, t) = 0 /\ Ec(popped, t) = IF t = p[1] /\ ~e THEN -1 ELSE 0
    BY <1>2, PopUsed
  <2> QED BY <1>e, <1>o, <2>1
<1>9. /\ \A q : ~PopOn(pop2, q)
      /\ \A t : Lo(pop2, t) = 0 /\ Ec(pop2, t) = 0
  BY <1>q, PopNo
<1>10. Turn(pages, pages', pop, pop2, used, used', s, a, n, "taken", "page")
  <2>1. Sound(pages, pop, used)
    BY <1>o, SoundNow
  <2>2. Quiet(pages, pages', pop, pop2, Region(s, a, a + n))
    <3>1. \A q \in PageId : q \notin Region(s, a, a + n) => SameShape(pages[q], pages'[q])
      BY <1>3, <1>f
    <3>2. /\ \A q \in PageId : PopOn(pop, q) => q \in Region(s, a, a + n)
          /\ \A q \in PageId : PopOn(pop2, q) => q \in Region(s, a, a + n)
      BY <1>8, <1>9, <1>f
    <3> QED BY <3>1, <3>2, QuietIs
  <2>h. ASSUME NEW x PROVE ~Hole(pop2, s, x)
    <3>1. ~Hole(pop2, <<s, x>>[1], <<s, x>>[2])
      BY <1>9 DEF PopOn
    <3> QED BY <3>1
  <2>3. Class(pages', pop2, s, a) = "page"
    <3>1. ~IsReady(pop2, <<s, a>>) /\ ~IsTaken(pop2, <<s, a>>)
      BY <1>9 DEF PopOn
    <3>2. pages'[<<s, a>>].is_used
      BY <1>2, <1>5 DEF Piece
    <3> QED BY <1>2, <2>h, <3>1, <3>2, ClassIs
  <2>5. Recounted(pop, pop2, used, used', s, Unit("page") - Unit("taken"))
    <3>1. Unit("page") - Unit("taken") = 0
      BY DEF Unit
    <3>2. used[s] \in Int
      BY <1>2, <2>1 DEF Sound
    <3>3. Recounted(pop, pop2, used, used', s, 0)
      BY <1>8, <1>9, <3>2 DEF Recounted
    <3> QED BY <3>1, <3>3
  <2>6. \A t : Lo(pop2, t) = Lo(pop, t)
    BY <1>8, <1>9
  <2>7. n = Ext(pages, pop, s)[a] /\ "taken" = Class(pages, pop, s, a)
    BY <1>2, <1>o
  <2> QED BY <1>2, <1>3, <1>7, <2>1, <2>2, <2>3, <2>5, <2>6, <2>7, <2>h DEF Turn
<1>11. Turned(pages, pages', pop, pop2, used', s, a, "taken", "page")
  BY <1>10, TurnStep
<1>12. /\ Sound(pages', pop2, used')
       /\ FreeSpans(pages', pop2) = FreeSpans(pages, pop)
       /\ ListedPages(pages', pop2) = ListedPages(pages, pop) \cup {p}
  BY <1>2, <1>11 DEF Turned, If
<1>13. PoppedOK(pages', pop2, used')
  BY <1>q DEF PoppedOK
<1>14. used' \in [DOMAIN used' -> Int]
  BY SoundNow
<1>15. Family(pages', unused_headers', unused_lists', Sbin, FreeSpans(pages, pop), FreeKey(pages'))
  <2>1. ASSUME NEW q \in FreeSpans(pages, pop)
        PROVE  pages'[q].dlist = pages[q].dlist /\ pages'[q].count = pages[q].count
    <3>1. q \in PageId /\ q \notin ListedPages(pages, popped)
      BY <1>o DEF FreeSpans, ListedPages
    <3>2. q # p
      <4>1. pages[p].is_used
        BY <1>2, <1>4 DEF Piece
      <4> QED BY <4>1 DEF FreeSpans
    <3> QED BY <1>3, <3>1, <3>2 DEF SameShape, Alike
  <2>2. Family(pages, unused_headers, unused_lists, Sbin, FreeSpans(pages, pop), FreeKey(pages))
    BY <1>o, SoundNow
  <2>3. Family(pages', unused_headers, unused_lists, Sbin, FreeSpans(pages, pop), FreeKey(pages'))
    BY <2>1, <2>2, FreeSame
  <2> QED BY <2>3
<1>16. Family(pages', used_headers', used_lists', UsedBin,
              ListedPages(pages, pop) \cup {p}, PageKey(pages'))
  <2>1. ASSUME NEW q \in ListedPages(pages, pop) \cup {p} PROVE PageKey(pages')[q] = key2[q]
    <3>1. CASE q = p
      <4>1. key2[p] = b
        BY DEF Keyed
      <4>2. PageKey(pages')[p] = IF pages'[p].full = TRUE THEN BIN_FULL ELSE pages'[p].kind
        BY <1>2 DEF PageKey
      <4>3. pages'[p].full = (b = BIN_FULL) /\ pages'[p].kind = pages[p].kind
        BY <1>3 DEF Entered
      <4>4. b = pages[p].kind \/ b = BIN_FULL
        BY DEF MayEnter
      <4> QED BY <3>1, <4>1, <4>2, <4>3, <4>4
    <3>2. CASE q # p
      <4>1. q \in ListedPages(pages, pop) /\ q \in PageId
        BY <3>2 DEF ListedPages
      <4>2. key2[q] = PageKey(pages)[q]
        BY <1>o, <4>1 DEF Keyed
      <4>3. pages'[q].full = pages[q].full /\ pages'[q].kind = pages[q].kind
        BY <1>3, <3>2, <4>1 DEF SameShape, Alike
      <4> QED BY <4>1, <4>2, <4>3 DEF PageKey
    <3> QED BY <3>1, <3>2
  <2>2. Family(pages', used_headers', used_lists', UsedBin,
               ListedPages(pages, pop) \cup {p}, key2)
    BY <1>o
  <2> QED BY <2>1, <2>2, FamilySame
<1> QED BY <1>12, <1>13, <1>14, <1>15, <1>16, <1>q, OrgNext

LEMMA IntoReady ==
  ASSUME OrgInv, NEW b \in UsedBin, MayEnter(b), NEW p, p = popped.page
  PROVE  /\ p \in PageId /\ p \notin ListedPages(pages, popped)
         /\ \E key2 : Keyed(PageKey(pages), key2, ListedPages(pages, popped), p, b)
<1>1. PICK e \in BOOLEAN :
        PageHere(popped.page, popped.page[1], popped.page[2], pages[popped.page].count, e, "taken")
  BY PageAt DEF MayEnter
<1>2. popped = Used(p, e) /\ p \in PageId
  BY <1>1 DEF PageHere
<1>3. IsTaken(popped, p)
  BY <1>2, PopUsed
<1>4. p \notin ListedPages(pages, popped)
  BY <1>3 DEF ListedPages
<1>k. PICK key2 : key2 = [q \in PageId |-> IF q = p THEN b ELSE PageKey(pages)[q]]
  OBVIOUS
<1>5. Keyed(PageKey(pages), key2, ListedPages(pages, popped), p, b)
  BY <1>2, <1>4, <1>k DEF Keyed, ListedPages
<1> QED BY <1>2, <1>4, <1>5

\* the popped page p has entered list b
Listed(p, b) ==
  /\ PageCame(pages, pages', ListedPages(pages, popped), p, b)
  /\ \E key2 : /\ Keyed(PageKey(pages), key2, ListedPages(pages, popped), p, b)
               /\ Family(pages', used_headers', used_lists', UsedBin,
                         ListedPages(pages, popped) \cup {p}, key2)
  /\ MayEnter(b) /\ popped' = No /\ UNCHANGED <<used, unused_headers, unused_lists>>

LEMMA IntoIs ==
  ASSUME OrgInv, NEW b \in UsedBin, into_used_list(b), NEW p, p = popped.page
  PROVE  Listed(p, b)
<1>S. PICK S : S = ListedPages(pages, popped)
  OBVIOUS
<1>1. MayEnter(b) /\ popped' = No /\ UNCHANGED <<used, unused_headers, unused_lists>>
  BY DEF into_used_list
<1>2. p \in PageId /\ p \notin S
  BY <1>1, <1>S, IntoReady
<1>k. PICK key2 : Keyed(PageKey(pages), key2, S, p, b)
  BY <1>1, <1>S, IntoReady
<1>3. /\ pages' = Placed(LinkedFront(pages, used_headers[b], p), p, b)
      /\ used_headers' = [used_headers EXCEPT ![b] = FrontHeader(@, p)]
      /\ used_lists' = [used_lists EXCEPT ![b] = <<p>> \o @]
  BY DEF into_used_list
<1>4. pages \in PagesType /\ Family(pages, used_headers, used_lists, UsedBin, S, PageKey(pages))
  BY <1>S, SoundNow DEF Sound
<1>5. InFront(pages, used_headers, used_lists, UsedBin, S, PageKey(pages), b, p, pages',
              used_headers', used_lists', key2)
  BY <1>2, <1>3, <1>4, <1>k DEF InFront
<1>6. PageCame(pages, pages', S, p, b)
      /\ Family(pages', used_headers', used_lists', UsedBin, S \cup {p}, key2)
  BY <1>5, PageEnters
<1> QED BY <1>1, <1>6, <1>k, <1>S DEF Listed

LEMMA IntoBackIs ==
  ASSUME OrgInv, NEW b \in UsedBin, into_used_list_back(b), NEW p, p = popped.page
  PROVE  Listed(p, b)
<1>S. PICK S : S = ListedPages(pages, popped)
  OBVIOUS
<1>1. MayEnter(b) /\ popped' = No /\ UNCHANGED <<used, unused_headers, unused_lists>>
  BY DEF into_used_list_back
<1>2. p \in PageId /\ p \notin S
  BY <1>1, <1>S, IntoReady
<1>k. PICK key2 : Keyed(PageKey(pages), key2, S, p, b)
  BY <1>1, <1>S, IntoReady
<1>3. /\ pages' = Placed(LinkedBack(pages, used_headers[b], p), p, b)
      /\ used_headers' = [used_headers EXCEPT ![b] = BackHeader(@, p)]
      /\ used_lists' = [used_lists EXCEPT ![b] = Append(@, p)]
  BY DEF into_used_list_back
<1>4. pages \in PagesType /\ Family(pages, used_headers, used_lists, UsedBin, S, PageKey(pages))
  BY <1>S, SoundNow DEF Sound
<1>5. InBack(pages, used_headers, used_lists, UsedBin, S, PageKey(pages), b, p, pages',
             used_headers', used_lists', key2)
  BY <1>2, <1>3, <1>4, <1>k DEF InBack
<1>6. PageCame(pages, pages', S, p, b)
      /\ Family(pages', used_headers', used_lists', UsedBin, S \cup {p}, key2)
  BY <1>5, PageEntersBack
<1> QED BY <1>1, <1>6, <1>k, <1>S DEF Listed

LEMMA IntoStep ==
  ASSUME OrgInv, NEW b \in UsedBin, into_used_list(b) \/ into_used_list_back(b)
  PROVE  OrgInv'
<1>p. PICK p : p = popped.page
  OBVIOUS
<1>1. Listed(p, b)
  BY <1>p, IntoIs, IntoBackIs
<1> QED BY <1>1, <1>p, IntoDone DEF Listed

\* the page that is listed as j-th one of list b
ListedHere(p, s, a, n) ==
  /\ p \in ListedPages(pages, popped) /\ p \in PageId /\ p = <<s, a>> /\ pages[p].is_used
  /\ s \in DOMAIN used /\ s \in Segment
  /\ a \in Slice /\ a # 0 /\ n # 0 /\ n \in 1 .. N - a
  /\ Ext(pages, popped, s)[a] = n /\ Class(pages, popped, s, a) = "page"
  /\ Span(pages, s, a, n, "page")

LEMMA ListedIs ==
  ASSUME OrgInv, NEW p \in ListedPages(pages, popped),
         NEW s, NEW a, NEW n, Heads(pages, p, s, a, n)
  PROVE  ListedHere(p, s, a, n)
<1>0. p = <<s, a>> /\ n = pages[p].count /\ s = p[1] /\ a = p[2]
  BY DEF Heads
<1>1. p \in ListedPages(pages, popped) /\ p \in PageId
  BY DEF ListedPages
<1>2. pages[p].is_used /\ pages[p].offset = 0 /\ ~IsTaken(popped, p)
  BY <1>1 DEF ListedPages
<1>3. /\ s \in DOMAIN used /\ a \in Slice /\ ~Hole(popped, s, a)
      /\ n = Ext(pages, popped, s)[a] /\ n # 0
  BY <1>0, <1>1, <1>2, InvIs, HeaderAt
<1>4. ~IsReady(popped, p)
  BY <1>1, <1>2, InvIs
<1>5. SegmentOK(pages, popped, s) /\ s \in Segment /\ pages \in PagesType
  BY <1>3, InvIs DEF Laid
<1>6. n \in 1 .. N - a /\ Span(pages, s, a, n, Class(pages, popped, s, a))
  BY <1>3, <1>5, SpanThere
<1>7. Class(pages, popped, s, a) = IF a = 0 THEN "head" ELSE "page"
  BY <1>0, <1>2, <1>3, <1>4, ClassIs
<1>8. a # 0
  <2> SUFFICES ASSUME a = 0 PROVE FALSE
    OBVIOUS
  <2>1. Piece(pages[<<s, a>>], a - a, n, "head")
    BY <1>3, <1>5, <1>6, <1>7, FirstIn, SpanAt
  <2> QED BY <1>0, <1>2, <2>1 DEF Piece
<1> QED BY <1>0, <1>1, <1>2, <1>3, <1>5, <1>6, <1>7, <1>8 DEF ListedHere

LEMMA ListedAt ==
  ASSUME OrgInv, NEW b \in UsedBin, NEW j \in 1 .. Len(used_lists[b]), NEW p, p = used_lists[b][j],
         NEW s, NEW a, NEW n, Heads(pages, p, s, a, n)
  PROVE  ListedHere(p, s, a, n)
<1>1. Family(pages, used_headers, used_lists, UsedBin, ListedPages(pages, popped), PageKey(pages))
  BY SoundNow
<1>2. p \in ListedPages(pages, popped)
  BY <1>1, FamilyMember
<1> QED BY <1>2, ListedIs

LEMMA OutStep ==
  ASSUME OrgInv, NEW b \in UsedBin, NEW j \in 1 .. Len(used_lists[b]),
         NEW p, p = used_lists[b][j], out_of_used_list(p, b, j)
  PROVE  OrgInv'
<1>s. PICK s : s = p[1]
  OBVIOUS
<1>a. PICK a : a = p[2]
  OBVIOUS
<1>n. PICK n : n = pages[p].count
  OBVIOUS
<1>0. p \in PageId
  <2>1. Family(pages, used_headers, used_lists, UsedBin, ListedPages(pages, popped), PageKey(pages))
    BY SoundNow
  <2> QED BY <2>1, FamilyMember
<1>1. Heads(pages, p, s, a, n)
  BY <1>0, <1>s, <1>a, <1>n, PageIdIs, Zenon DEF Heads
<1>2. /\ p \in ListedPages(pages, popped) /\ p = <<s, a>> /\ pages[p].is_used
      /\ s \in DOMAIN used /\ s \in Segment
      /\ a \in Slice /\ a # 0 /\ n # 0 /\ n \in 1 .. N - a
      /\ Ext(pages, popped, s)[a] = n /\ Class(pages, popped, s, a) = "page"
      /\ Span(pages, s, a, n, "page")
  <2>1. ListedHere(p, s, a, n)
    BY <1>1, ListedAt
  <2> QED BY <2>1 DEF ListedHere
<1>f. /\ p \in Region(s, a, a + n) /\ a \in Nat /\ n \in Nat /\ N \in Nat
      /\ 1 <= n
  BY <1>2, FirstIn
<1>3. popped = No /\ popped' = Used(p, TRUE) /\ UNCHANGED <<used, unused_headers, unused_lists>>
  BY DEF out_of_used_list
<1>S. PICK S : S = ListedPages(pages, popped)
  OBVIOUS
<1>k. PICK key : key = PageKey(pages)
  OBVIOUS
<1>4. PageWent(pages, pages', S, p)
      /\ Family(pages', used_headers', used_lists', UsedBin, S \ {p}, key)
  <2>1. pages \in PagesType /\ Family(pages, used_headers, used_lists, UsedBin, S, key)
    BY <1>S, <1>k, SoundNow DEF Sound
  <2>2. PageOut(pages, used_headers, used_lists, UsedBin, S, key, b, j, p, pages',
                used_headers', used_lists')
    BY <2>1 DEF PageOut, out_of_used_list
  <2> QED BY <2>2, PageLeaves
<1>5. /\ pages' \in PagesType
      /\ \A q \in PageId : q # p => SameShape(pages[q], pages'[q])
      /\ pages'[p].full = NONE /\ pages'[p].dlist = NONE
      /\ pages'[p].count = pages[p].count /\ pages'[p].offset = pages[p].offset
      /\ (pages'[p].is_used <=> pages[p].is_used) /\ pages'[p].kind = pages[p].kind
      /\ \A q \in PageId \ S : pages'[q].dlist = pages[q].dlist
  BY <1>4 DEF PageWent
<1>6. Piece(pages'[p], 0, n, "taken")
  <2>1. Piece(pages[<<s, a>>], a - a, n, "page")
    BY <1>2, <1>f, SpanAt
  <2>2. Piece(pages[p], 0, n, "page")
    BY <1>2, <1>f, <2>1
  <2> QED BY <1>5, <2>2 DEF Piece
<1>7. ASSUME NEW x \in a .. a + n - 1 PROVE Piece(pages'[<<s, x>>], x - a, n, "taken")
  <2>1. <<s, x>> \in PageId /\ (<<s, x>> = <<s, a>> <=> x = a) /\ (x - a = 0 <=> x = a)
    BY <1>2, InRegion
  <2>2. CASE x = a
    BY <1>2, <1>6, <2>1, <2>2
  <2>3. CASE x # a
    <3>1. SameShape(pages[<<s, x>>], pages'[<<s, x>>])
      BY <1>2, <1>5, <2>1, <2>3
    <3>2. Piece(pages[<<s, x>>], x - a, n, "page")
      BY <1>2, <1>f, SpanAt
    <3>3. Piece(pages'[<<s, x>>], x - a, n, "page")
      BY <3>1, <3>2, PieceSame
    <3> QED BY <2>1, <2>3, <3>3 DEF Piece
  <2> QED BY <2>2, <2>3
<1>8. Span(pages', s, a, n, "taken")
  BY <1>7 DEF Span
<1>o. PICK pop : pop = popped
  OBVIOUS
<1>q. PICK pop2 : pop2 = popped'
  OBVIOUS
<1>t. PICK e \in BOOLEAN : e = TRUE
  OBVIOUS
<1>9. /\ \A q : ~PopOn(pop, q)
      /\ \A t : Lo(pop, t) = 0 /\ Ec(pop, t) = 0
  BY <1>3, <1>o, PopNo
<1>10. /\ \A q : PopOn(pop2, q) <=> q = p
       /\ \A q : IsTaken(pop2, q) <=> q = p
       /\ \A t, i : ~Hole(pop2, t, i)
       /\ \A t : Lo(pop2, t) = 0 /\ Ec(pop2, t) = 0
       /\ pop2.tag = "Used"
  <2>1. pop2 = Used(p, e)
    BY <1>3, <1>q, <1>t
  <2>2. /\ \A q : PopOn(pop2, q) <=> q = p
        /\ \A q : IsTaken(pop2, q) <=> q = p
        /\ \A t, i : ~Hole(pop2, t, i)
        /\ \A t : Lo(pop2, t) = 0 /\ Ec(pop2, t) = IF t = p[1] /\ ~e THEN -1 ELSE 0
        /\ pop2.tag = "Used"
    BY <2>1, PopUsed
  <2> QED BY <1>t, <2>2
<1>11. Turn(pages, pages', pop, pop2, used, used', s, a, n, "page", "taken")
  <2>1. Sound(pages, pop, used)
    BY <1>o, SoundNow
  <2>2. Quiet(pages, pages', pop, pop2, Region(s, a, a + n))
    <3>1. \A q \in PageId : q \notin Region(s, a, a + n) => SameShape(pages[q], pages'[q])
      BY <1>5, <1>f
    <3>2. /\ \A q \in PageId : PopOn(pop, q) => q \in Region(s, a, a + n)
          /\ \A q \in PageId : PopOn(pop2, q) => q \in Region(s, a, a + n)
      BY <1>9, <1>10, <1>f
    <3> QED BY <3>1, <3>2, QuietIs
  <2>3. Class(pages', pop2, s, a) = "taken"
    BY <1>2, <1>10, ClassIs
  <2>5. Recounted(pop, pop2, used, used', s, Unit("taken") - Unit("page"))
    <3>1. Unit("taken") - Unit("page") = 0
      BY DEF Unit
    <3>2. used[s] \in Int
      BY <1>2, <2>1 DEF Sound
    <3>3. Recounted(pop, pop2, used, used', s, 0)
      BY <1>3, <1>9, <1>10, <3>2 DEF Recounted
    <3> QED BY <3>1, <3>3
  <2>6. \A t : Lo(pop2, t) = Lo(pop, t)
    BY <1>9, <1>10
  <2>7. n = Ext(pages, pop, s)[a] /\ "page" = Class(pages, pop, s, a)
    BY <1>2, <1>o
  <2> QED BY <1>2, <1>5, <1>8, <1>10, <2>1, <2>2, <2>3, <2>5, <2>6, <2>7 DEF Turn
<1>12. Turned(pages, pages', pop, pop2, used', s, a, "page", "taken")
  BY <1>11, TurnStep
<1>13. /\ Sound(pages', pop2, used')
       /\ FreeSpans(pages', pop2) = FreeSpans(pages, pop)
       /\ ListedPages(pages', pop2) = S \ {p}
  BY <1>2, <1>12, <1>o, <1>S DEF Turned, If
<1>14. PoppedOK(pages', pop2, used')
  <2>1. pages'[p].offset = 0 /\ pages'[p].is_used
    BY <1>6 DEF Piece
  <2>2. p[1] \in DOMAIN used' /\ p[2] \in 1 .. N - 1
    BY <1>2, <1>3, <1>f, <1>s, <1>a DEF Slice
  <2>3. pop2 = Used(p, e)
    BY <1>3, <1>q, <1>t
  <2> QED BY <1>0, <1>10, <2>1, <2>2, <2>3 DEF PoppedOK
<1>15. used' \in [DOMAIN used' -> Int]
  BY <1>3, SoundNow
<1>16. Family(pages', unused_headers', unused_lists', Sbin, FreeSpans(pages, pop), FreeKey(pages'))
  <2>1. ASSUME NEW q \in FreeSpans(pages, pop)
        PROVE  pages'[q].dlist = pages[q].dlist /\ pages'[q].count = pages[q].count
    <3>1. q \in PageId /\ q \notin S
      BY <1>S, <1>o DEF FreeSpans, ListedPages
    <3>2. q # p
      BY <1>2 DEF FreeSpans
    <3> QED BY <1>5, <3>1, <3>2 DEF SameShape, Alike
  <2>2. Family(pages, unused_headers, unused_lists, Sbin, FreeSpans(pages, pop), FreeKey(pages))
    BY <1>o, SoundNow
  <2>3. Family(pages', unused_headers, unused_lists, Sbin, FreeSpans(pages, pop), FreeKey(pages'))
    BY <2>1, <2>2, FreeSame
  <2> QED BY <1>3, <2>3
<1>17. Family(pages', used_headers', used_lists', UsedBin, S \ {p}, PageKey(pages'))
  <2>1. ASSUME NEW q \in S \ {p} PROVE PageKey(pages')[q] = key[q]
    <3>1. q \in PageId
      BY <1>S DEF ListedPages
    <3>2. pages'[q].full = pages[q].full /\ pages'[q].kind = pages[q].kind
      BY <1>5, <3>1 DEF SameShape, Alike
    <3> QED BY <1>k, <3>1, <3>2 DEF PageKey
  <2> QED BY <1>4, <2>1, FamilySame
<1> QED BY <1>13, <1>14, <1>15, <1>16, <1>17, <1>q, OrgNext

\* the counter and the popped range change, and no header
LEMMA ClearStep == ASSUME OrgInv, clear_ec PROVE OrgInv'
<1>1. popped.tag = "ExtraCount"
  BY DEF clear_ec
<1>s. PICK s \in DOMAIN used : popped = ExtraCount(s)
  BY <1>1 DEF OrgInv, PoppedOK, No, Ready, Used, SegmentCreating, SegmentFreeing, VeryUnready
<1>2. /\ popped' = No /\ used' = [used EXCEPT ![s] = @ - 1]
      /\ pages' = pages /\ UNCHANGED <<unused_headers, unused_lists, used_headers, used_lists>>
  <2>1. popped.seg = s
    BY <1>s, PopExtra
  <2> QED BY <2>1 DEF clear_ec, Uncounted
<1>o. PICK pop : pop = popped
  OBVIOUS
<1>q. PICK pop2 : pop2 = popped'
  OBVIOUS
<1>3. /\ \A q : ~PopOn(pop, q)
      /\ \A t : Lo(pop, t) = 0 /\ Ec(pop, t) = IF t = s THEN 1 ELSE 0
  BY <1>s, <1>o, PopExtra
<1>4. /\ \A q : ~PopOn(pop2, q)
      /\ \A t : Lo(pop2, t) = 0 /\ Ec(pop2, t) = 0
  BY <1>2, <1>q, PopNo
<1>5. Sound(pages, pop, used) /\ used \in [DOMAIN used -> Int]
  BY <1>o, SoundNow
<1>z. PICK z \in 0 .. N : z = 0
  BY PageIdIs
<1>d. z \in Int
  BY <1>z
<1>R. PICK R : R = Region(s, z, z)
  OBVIOUS
<1>6. Quiet(pages, pages', pop, pop2, R)
  BY <1>2, <1>3, <1>4 DEF Quiet, SameShape, Alike
<1>7. pages' \in PagesType /\ s \in Segment /\ SegmentOK(pages, pop, s)
  BY <1>2, <1>5 DEF Sound, Laid
<1>8. SegmentOK(pages', pop2, s)
  <2>1. \A q \in R : q[1] # s
    BY <1>R, <1>z DEF Region
  <2>2. Lo(pop2, s) = Lo(pop, s)
    BY <1>3, <1>4
  <2> QED BY <1>6, <1>7, <2>1, <2>2, SegmentKept
<1>9. /\ DOMAIN used' = DOMAIN used /\ used' \in [DOMAIN used' -> Int]
      /\ used'[s] = used[s] - 1 /\ used[s] \in Int
      /\ \A t \in DOMAIN used \ {s} : used'[t] = used[t]
  BY <1>2, <1>5
<1>10. Recounted(pop, pop2, used, used', s, z)
  BY <1>3, <1>4, <1>9, <1>z DEF Recounted
<1>11. Sound(pages', pop2, used')
  <2>2. Cardinality(Headed(pages', s)) = Cardinality(Headed(pages, s)) + z
    BY <1>2, <1>z, HeadedIs
  <2>3. \A t : t # s => Lo(pop2, t) = Lo(pop, t)
    BY <1>3, <1>4
  <2>4. Quiet(pages, pages', pop, pop2, Region(s, z, z))
    BY <1>6, <1>R
  <2> QED BY <1>5, <1>7, <1>8, <1>10, <1>d, <2>2, <2>3, <2>4, SoundStep
<1>12. /\ FreeSpans(pages', pop2) = FreeSpans(pages, pop)
       /\ ListedPages(pages', pop2) = ListedPages(pages, pop)
  BY <1>2, <1>3, <1>4 DEF FreeSpans, ListedPages, PopOn
<1>13. PoppedOK(pages', pop2, used')
  BY <1>2, <1>q DEF PoppedOK
<1>14. /\ Family(pages, unused_headers, unused_lists, Sbin, FreeSpans(pages, pop), FreeKey(pages))
       /\ Family(pages, used_headers, used_lists, UsedBin, ListedPages(pages, pop), PageKey(pages))
  BY <1>o, SoundNow
<1> QED BY <1>2, <1>9, <1>11, <1>12, <1>13, <1>14, <1>q, OrgNext

LEMMA Forget2Step == ASSUME OrgInv, forget_about_first_page2 PROVE OrgInv'
<1>1. popped.tag = "VeryUnready" /\ popped.ec
  BY DEF forget_about_first_page2
<1>s. PICK s : s = popped.seg
  OBVIOUS
<1>a. PICK a : a = popped.start
  OBVIOUS
<1>n. PICK n : n = popped.count
  OBVIOUS
<1>b. PICK b \in BOOLEAN : GoneHere(s, a, n, b)
  BY <1>1, <1>s, <1>a, <1>n, GoneAt
<1>2. /\ popped = VeryUnready(s, a, n, b)
      /\ s \in DOMAIN used /\ s \in Segment /\ a \in Slice /\ a # 0 /\ a \in 1 .. N - 1
      /\ n \in 1 .. N - a /\ n # 0
      /\ Ext(pages, popped, s)[a] = n /\ Class(pages, popped, s, a) = "gone"
      /\ Span(pages, s, a, n, "gone")
  BY <1>b DEF GoneHere
<1>f. n \in 1 .. N
  BY <1>2, FirstIn
<1>t. PICK e \in BOOLEAN : e = FALSE
  OBVIOUS
<1>3. b
  BY <1>1, <1>2, PopGone
<1>4. /\ popped' = VeryUnready(s, a, n, e) /\ used' = [used EXCEPT ![s] = @ - 1]
      /\ pages' = pages /\ UNCHANGED <<unused_headers, unused_lists, used_headers, used_lists>>
  <2>1. popped' = [popped EXCEPT !.ec = FALSE]
    BY DEF forget_about_first_page2
  <2>2. popped' = VeryUnready(s, a, n, e)
    BY <1>2, <1>t, <2>1 DEF VeryUnready
  <2> QED BY <1>s, <2>2 DEF forget_about_first_page2, Uncounted
<1>6. /\ \A q \in PageId : PopOn(popped, q) <=> q = <<s, a>>
      /\ \A t : Lo(popped, t) = 0 /\ Ec(popped, t) = IF t = s THEN 1 ELSE 0
  <2>1. /\ \A q \in PageId : PopOn(popped, q) <=> q = <<s, a>>
        /\ \A t : Lo(popped, t) = 0 /\ Ec(popped, t) = IF t = s /\ b THEN 1 ELSE 0
    BY <1>2, PopGone
  <2> QED BY <1>3, <2>1
<1>7. /\ \A q \in PageId : PopOn(popped', q) <=> q = <<s, a>>
      /\ \A t : Lo(popped', t) = 0 /\ Ec(popped', t) = 0
      /\ Hole(popped', s, a) /\ popped'.count = n
  <2>1. /\ \A q \in PageId : PopOn(popped', q) <=> q = <<s, a>>
        /\ \A t : Lo(popped', t) = 0 /\ Ec(popped', t) = IF t = s /\ e THEN 1 ELSE 0
        /\ Hole(popped', s, a) /\ popped'.count = n
    BY <1>4, PopGone
  <2> QED BY <1>t, <2>1
<1>8. Class(pages', popped', s, a) = "gone"
  BY <1>7, ClassIs
<1>9. /\ DOMAIN used' = DOMAIN used /\ used' \in [DOMAIN used' -> Int]
      /\ used'[s] = used[s] - 1 /\ used[s] \in Int
      /\ \A t \in DOMAIN used \ {s} : used'[t] = used[t]
  BY <1>2, <1>4, SoundNow
<1>10. Recounted(popped, popped', used, used', s, Unit("gone") - Unit("gone"))
  <2>1. Unit("gone") - Unit("gone") = 0
    BY DEF Unit
  <2>2. Recounted(popped, popped', used, used', s, 0)
    BY <1>6, <1>7, <1>9 DEF Recounted
  <2> QED BY <2>1, <2>2
<1>11. PoppedOK(pages', popped', used')
  BY <1>2, <1>4, <1>9, <1>f DEF PoppedOK
<1>p. pages' \in PagesType
  BY <1>4, InvIs
<1>12. RangeTurn(s, a, n, "gone", "gone")
  BY <1>2, <1>4, <1>p, <1>6, <1>7, <1>8, <1>9, <1>10, <1>11 DEF RangeTurn
<1> QED BY <1>12, RangeTurns

-----------------------------------------------------------------------------
(* A segment is divided in another way                                      *)

LEMMA ExtFunction ==
  ASSUME NEW pg, NEW pop, NEW s, NEW f, f = Ext(pg, pop, s),
         \A x \in Slice : f[x] \in 0 .. N
  PROVE  f \in [Slice -> 0 .. N]
<1>1. f = [x \in Slice |-> f[x]]
  BY DEF Ext
<1> QED BY <1>1

LEMMA EmptyAt ==
  ASSUME NEW pg, NEW pop, NEW q, Empty(pg[q])
  PROVE  ~pg[q].is_used /\ q \notin FreeSpans(pg, pop)
  BY NoneAssumption DEF Empty, FreeSpans

\* a slice of a segment that exists
LEMMA SliceOf ==
  ASSUME NEW s \in Segment, NEW x \in Slice
  PROVE  <<s, x>> \in PageId /\ <<s, x>>[1] = s /\ <<s, x>>[2] = x
         /\ \A a, b \in Int : <<s, x>> \in Region(s, a, b) <=> a <= x /\ x < b
<1>1. <<s, x>> \in PageId /\ x \in Int
  BY PageIdIs DEF Slice
<1> QED BY <1>1 DEF Region

\* the next slices of a segment that is given up are forgotten, among them the
\* free spans P
Drop(s, a, n, P) ==
  /\ s \in DOMAIN used /\ s \in Segment /\ a \in Slice /\ n \in 1 .. N - a
  /\ Ext(pages, popped, s)[a] = n /\ Lo(popped, s) = a
  /\ \A q : ~PopOn(popped, q)
  /\ \A t : Ec(popped, t) = 0 /\ (t # s => Lo(popped, t) = 0)
  /\ popped' = SegmentFreeing(s, a + n) /\ used' = used /\ used[s] = 0
  /\ pages' \in PagesType
  /\ \A q \in PageId : q \notin Region(s, a, a + n) => SameShape(pages[q], pages'[q])
  /\ \A q \in Region(s, a, a + n) :
       Empty(pages'[q]) /\ ~pages[q].is_used /\ (q \in FreeSpans(pages, popped) <=> q \in P)
  /\ P \subseteq Region(s, a, a + n)
  /\ Family(pages', unused_headers', unused_lists', Sbin,
            FreeSpans(pages, popped) \ P, FreeKey(pages'))
  /\ Family(pages', used_headers', used_lists', UsedBin,
            ListedPages(pages, popped), PageKey(pages'))

LEMMA Drops == ASSUME OrgInv, NEW s, NEW a, NEW n, NEW P, Drop(s, a, n, P) PROVE OrgInv'
<1>1. /\ s \in DOMAIN used /\ s \in Segment /\ a \in Slice /\ n \in 1 .. N - a
      /\ Ext(pages, popped, s)[a] = n /\ Lo(popped, s) = a
      /\ \A q : ~PopOn(popped, q)
      /\ \A t : Ec(popped, t) = 0 /\ (t # s => Lo(popped, t) = 0)
      /\ popped' = SegmentFreeing(s, a + n) /\ used' = used /\ used[s] = 0
      /\ pages' \in PagesType
      /\ \A q \in PageId : q \notin Region(s, a, a + n) => SameShape(pages[q], pages'[q])
      /\ \A q \in Region(s, a, a + n) :
           Empty(pages'[q]) /\ ~pages[q].is_used /\ (q \in FreeSpans(pages, popped) <=> q \in P)
      /\ P \subseteq Region(s, a, a + n)
  BY DEF Drop
<1>o. PICK pop : pop = popped
  OBVIOUS
<1>q. PICK pop2 : pop2 = popped'
  OBVIOUS
<1>b. PICK b : b = a + n
  OBVIOUS
<1>f. /\ a \in Nat /\ n \in Nat /\ N \in Nat /\ 1 <= n /\ n \in 1 .. N
      /\ b \in 1 .. N /\ b \in 0 .. N /\ a \in 0 .. N /\ a < b /\ a < N
  <2>1. s \in Segment /\ a \in Slice /\ n \in 1 .. N - a
    BY <1>1
  <2>2. a \in Nat /\ n \in Nat /\ N \in Nat /\ 1 <= n /\ n \in 1 .. N /\ a + n \in 0 .. N
    BY <2>1, FirstIn
  <2> QED BY <1>b, <2>2
<1>2. /\ \A q : ~PopOn(pop2, q)
      /\ \A t : Lo(pop2, t) = (IF t = s THEN b ELSE 0) /\ Ec(pop2, t) = 0
  BY <1>1, <1>b, <1>q, PopFreeing
<1>3. Sound(pages, pop, used) /\ used \in [DOMAIN used -> Int]
  BY <1>o, SoundNow
<1>4. pages \in PagesType /\ SegmentOK(pages, pop, s) /\ Ext(pages, pop, s)[a] = n
  BY <1>1, <1>3, <1>o DEF Sound, Laid
<1>5. Quiet(pages, pages', pop, pop2, Region(s, a, b))
  <2>1. /\ \A q \in PageId : PopOn(pop, q) => q \in Region(s, a, b)
        /\ \A q \in PageId : PopOn(pop2, q) => q \in Region(s, a, b)
        /\ \A q \in PageId : q \notin Region(s, a, b) => SameShape(pages[q], pages'[q])
    BY <1>1, <1>2, <1>o, <1>b
  <2> QED BY <2>1, QuietIs
<1>e. PICK e : e = Ext(pages, pop, s)
  OBVIOUS
<1>g. PICK g : g = Ext(pages', pop2, s)
  OBVIOUS
<1>6. Cut(e, a) /\ e[a] = n /\ \A x \in a + 1 .. a + n - 1 : x \in Slice /\ e[x] = 0
  BY <1>1, <1>4, <1>e, <1>f, SpanThere
<1>7. Tiling(e, a) /\ e \in [Slice -> 0 .. N]
  BY <1>1, <1>4, <1>e, <1>o DEF SegmentOK, Tiling
<1>8. ASSUME NEW x \in Slice PROVE g[x] = IF x = a THEN 0 ELSE e[x]
  <2>1. x \in Nat /\ <<s, x>> \in PageId /\ (<<s, x>> \in Region(s, a, b) <=> a <= x /\ x < b)
    BY <1>1, <1>f, SliceOf DEF Slice
  <2>2. CASE a <= x /\ x < b
    <3>1. Empty(pages'[<<s, x>>])
      BY <1>1, <1>b, <2>1, <2>2
    <3>2. ~Hole(pop2, s, x)
      <4>1. ~Hole(pop2, <<s, x>>[1], <<s, x>>[2])
        BY <1>2 DEF PopOn
      <4> QED BY <4>1
    <3>3. g[x] = 0
      BY <1>1, <1>g, <3>1, <3>2, EmptyExt
    <3>4. x # a => x \in a + 1 .. a + n - 1
      BY <1>f, <1>b, <2>1, <2>2
    <3> QED BY <1>6, <3>3, <3>4
  <2>3. CASE ~(a <= x /\ x < b)
    <3>1. <<s, x>> \notin Region(s, a, b)
      BY <2>1, <2>3
    <3>2. g[x] = e[x]
      BY <1>1, <1>5, <1>e, <1>g, <3>1, OutsideSame
    <3>3. x # a
      BY <1>f, <2>1, <2>3
    <3> QED BY <3>2, <3>3
  <2> QED BY <2>2, <2>3
<1>9. g \in [Slice -> 0 .. N]
  <2>1. \A x \in Slice : g[x] \in 0 .. N
    BY <1>7, <1>8, <1>f
  <2> QED BY <1>g, <2>1, ExtFunction
<1>10. Tiling(g, b)
  <2>1. Tiling(g, a + e[a])
    BY <1>f, <1>7, <1>8, <1>9, TileDrop
  <2> QED BY <1>6, <1>b, <2>1
<1>11. \A x \in a .. b - 1 : g[x] = 0
  <2> SUFFICES ASSUME NEW x \in a .. b - 1 PROVE g[x] = 0
    OBVIOUS
  <2>1. x \in Slice /\ (x # a => x \in a + 1 .. a + n - 1)
    BY <1>f, <1>b DEF Slice
  <2> QED BY <1>6, <1>8, <2>1
<1>12. \A i \in 0 .. b - 1 : Empty(pages'[<<s, i>>])
  <2> SUFFICES ASSUME NEW i \in 0 .. b - 1 PROVE Empty(pages'[<<s, i>>])
    OBVIOUS
  <2>1. i \in Nat /\ i \in Slice
    BY <1>f DEF Slice
  <2>2. <<s, i>> \in PageId /\ (<<s, i>> \in Region(s, a, b) <=> a <= i /\ i < b)
    BY <1>1, <1>f, <2>1, SliceOf
  <2>3. CASE a <= i
    BY <1>1, <1>b, <1>f, <2>1, <2>2, <2>3
  <2>4. CASE i < a
    <3>1. Empty(pages[<<s, i>>])
      BY <1>1, <1>4, <1>o, <1>f, <2>1, <2>4 DEF SegmentOK
    <3>2. SameShape(pages[<<s, i>>], pages'[<<s, i>>])
      BY <1>1, <1>b, <1>f, <2>1, <2>2, <2>4
    <3> QED BY <3>1, <3>2, EmptySame
  <2> QED BY <1>f, <2>1, <2>3, <2>4
<1>13. Shift(pages, pages', pop, pop2, used, used', s, a, b, P, {})
  <2>1. \A q \in Region(s, a, b) :
          /\ ~pages[q].is_used /\ ~pages'[q].is_used
          /\ q \in FreeSpans(pages, pop) <=> q \in P
          /\ q \in FreeSpans(pages', pop2) <=> q \in {}
    BY <1>1, <1>b, <1>o, EmptyAt
  <2>2. Recounted(pop, pop2, used, used', s, 0)
    <3>1. used[s] \in Int
      BY <1>1, <1>3
    <3> QED BY <1>1, <1>2, <1>o, <3>1 DEF Recounted
  <2>3. \A t : t # s => Lo(pop2, t) = Lo(pop, t)
    BY <1>1, <1>2, <1>o
  <2>4. Lo(pop2, s) = b
    BY <1>2
  <2> QED BY <1>1, <1>3, <1>5, <1>6, <1>10, <1>11, <1>12, <1>e, <1>g, <1>b, <1>f, <2>1, <2>2,
             <2>3, <2>4 DEF Shift
<1>14. Shifted(pages, pages', pop, pop2, used', P, {})
  BY <1>13, ShiftStep
<1>15. /\ Sound(pages', pop2, used')
       /\ FreeSpans(pages', pop2) = FreeSpans(pages, popped) \ P
       /\ ListedPages(pages', pop2) = ListedPages(pages, popped)
  BY <1>14, <1>o DEF Shifted
<1>16. PoppedOK(pages', pop2, used')
  BY <1>1, <1>b, <1>f, <1>q DEF PoppedOK
<1>17. used' \in [DOMAIN used' -> Int]
  BY <1>1, <1>3
<1>18. /\ Family(pages', unused_headers', unused_lists', Sbin,
                 FreeSpans(pages, popped) \ P, FreeKey(pages'))
       /\ Family(pages', used_headers', used_lists', UsedBin,
                 ListedPages(pages, popped), PageKey(pages'))
  BY DEF Drop
<1> QED BY <1>15, <1>16, <1>17, <1>18, <1>q, OrgNext

LEMMA RegionSlice ==
  ASSUME NEW s \in Segment, NEW a \in Slice, NEW n \in 1 .. N - a, NEW q \in Region(s, a, a + n)
  PROVE  q \in PageId /\ q[2] \in a .. a + n - 1 /\ q = <<s, q[2]>> /\ q[2] \in Slice
<1>1. q \in PageId /\ q[1] = s /\ q[2] \in a .. (a + n) - 1
  BY DEF Region
<1>2. q = <<q[1], q[2]>>
  BY <1>1, PageIdIs, Zenon
<1>3. a \in Nat /\ n \in Nat /\ N \in Nat /\ a + n \in 0 .. N
  BY FirstIn
<1> QED BY <1>1, <1>2, <1>3 DEF Slice

\* where a span is that is not one of a page, nothing is used
LEMMA SpanRegion ==
  ASSUME NEW pg \in PagesType, NEW pop, NEW s \in Segment, NEW a \in Slice, NEW n \in 1 .. N - a,
         NEW c, c = Class(pg, pop, s, a), c \in {"gone", "free", "head"}, Span(pg, s, a, n, c),
         NEW q \in Region(s, a, a + n)
  PROVE  ~pg[q].is_used /\ (q \in FreeSpans(pg, pop) <=> q = <<s, a>> /\ c = "free")
<1>1. q \in PageId /\ q = <<s, q[2]>>
  BY RegionSlice
<1>x. PICK x \in a .. a + n - 1 : x = q[2]
  BY RegionSlice
<1>2. a \in Int /\ n \in Int
  BY PageIdIs DEF Slice
<1>3. Piece(pg[<<s, x>>], x - a, n, c)
  BY <1>2, SpanAt
<1>4. <<s, x>> \in FreeSpans(pg, pop) <=> x = a /\ c = "free"
  BY SpanMembers
<1>5. <<s, x>> = <<s, a>> <=> x = a
  BY InRegion
<1>6. q = <<s, x>>
  BY <1>1, <1>x
<1> QED BY <1>3, <1>4, <1>5, <1>6 DEF Piece

LEMMA FreeRegion ==
  ASSUME OrgInv, NEW p \in FreeSpans(pages, popped), NEW s, NEW a, NEW n,
         Heads(pages, p, s, a, n), NEW q \in Region(s, a, a + n)
  PROVE  ~pages[q].is_used /\ (q \in FreeSpans(pages, popped) <=> q = p)
<1>c. PICK c : c = "free"
  OBVIOUS
<1>1. /\ p = <<s, a>> /\ s \in Segment /\ a \in Slice /\ n \in 1 .. N - a
      /\ c = Class(pages, popped, s, a) /\ Span(pages, s, a, n, c)
  BY <1>c, FreeAt
<1>2. pages \in PagesType /\ c \in {"gone", "free", "head"}
  BY <1>c, InvIs
<1>3. ~pages[q].is_used /\ (q \in FreeSpans(pages, popped) <=> q = <<s, a>> /\ c = "free")
  BY <1>1, <1>2, SpanRegion
<1> QED BY <1>c, <1>1, <1>3

\* the segment that is being set up, or given up
LEMMA CreatingAt ==
  ASSUME OrgInv, popped.tag = "SegmentCreating"
  PROVE  \E s \in DOMAIN used : popped = SegmentCreating(s) /\ used[s] = 0
  BY DEF OrgInv, PoppedOK, No, Ready, Used, VeryUnready, SegmentFreeing, ExtraCount

LEMMA FreeingAt ==
  ASSUME OrgInv, popped.tag = "SegmentFreeing"
  PROVE  \E s \in DOMAIN used, i \in 1 .. N : popped = SegmentFreeing(s, i) /\ used[s] = 0
  BY DEF OrgInv, PoppedOK, No, Ready, Used, VeryUnready, SegmentCreating, ExtraCount

LEMMA TakeFreed ==
  ASSUME OrgInv, NEW b \in Sbin, NEW j \in 1 .. Len(unused_lists[b]),
         NEW p, p = unused_lists[b][j], LeavesUnused(p, b, j),
         popped = SegmentFreeing(p[1], p[2]),
         popped' = SegmentFreeing(p[1], p[2] + pages[p].count),
         UNCHANGED <<used, used_headers, used_lists>>
  PROVE  OrgInv'
<1>s. PICK s : s = p[1]
  OBVIOUS
<1>a. PICK a : a = p[2]
  OBVIOUS
<1>n. PICK n : n = pages[p].count
  OBVIOUS
<1>0. p \in PageId
  BY FamilyMember DEF OrgInv
<1>1. Heads(pages, p, s, a, n)
  BY <1>0, <1>s, <1>a, <1>n, PageIdIs, Zenon DEF Heads
<1>2. /\ p \in FreeSpans(pages, popped)
      /\ pages' \in PagesType
      /\ \A q \in PageId : q \notin Region(s, a, a + n) => SameShape(pages[q], pages'[q])
      /\ Span(pages', s, a, n, "gone")
      /\ Family(pages', unused_headers', unused_lists', Sbin,
                FreeSpans(pages, popped) \ {p}, FreeKey(pages'))
      /\ Family(pages', used_headers', used_lists', UsedBin,
                ListedPages(pages, popped), PageKey(pages'))
  BY <1>1, Leaving
<1>3. /\ p = <<s, a>> /\ s \in DOMAIN used /\ s \in Segment
      /\ a \in Slice /\ n \in 1 .. N - a
      /\ Ext(pages, popped, s)[a] = n /\ Class(pages, popped, s, a) = "free"
      /\ Span(pages, s, a, n, "free")
  BY <1>1, <1>2, FreeAt
<1>f. p \in Region(s, a, a + n) /\ a \in Int /\ n \in Int
  BY <1>3, FirstIn
<1>4. popped = SegmentFreeing(s, a) /\ popped' = SegmentFreeing(s, a + n)
  BY <1>s, <1>a, <1>n
<1>5. used[s] = 0
  <2>1. popped.tag = "SegmentFreeing" /\ popped.seg = s
    BY <1>4, PopFreeing
  <2>2. PICK t \in DOMAIN used, i \in 1 .. N : popped = SegmentFreeing(t, i) /\ used[t] = 0
    BY <2>1, FreeingAt
  <2>3. t = s
    BY <2>1, <2>2, PopFreeing
  <2> QED BY <2>2, <2>3
<1>6. /\ \A q : ~PopOn(popped, q)
      /\ \A t : Ec(popped, t) = 0 /\ Lo(popped, t) = IF t = s THEN a ELSE 0
  BY <1>4, PopFreeing
<1>7. ASSUME NEW q \in Region(s, a, a + n)
      PROVE  Empty(pages'[q]) /\ ~pages[q].is_used /\ (q \in FreeSpans(pages, popped) <=> q \in {p})
  <2>1. q[2] \in a .. a + n - 1 /\ q = <<s, q[2]>>
    BY <1>3, RegionSlice
  <2>2. Empty(pages'[<<s, q[2]>>])
    <3>1. Span(pages', s, a, n, "gone") /\ a \in Int /\ n \in Int
      BY <1>2, <1>f
    <3> QED BY <3>1, <2>1, GoneIs
  <2>3. ~pages[q].is_used /\ (q \in FreeSpans(pages, popped) <=> q = p)
    BY <1>1, <1>2, FreeRegion
  <2> QED BY <1>3, <2>1, <2>2, <2>3
<1>8. Drop(s, a, n, {p})
  <2>1. {p} \subseteq Region(s, a, a + n)
    BY <1>f
  <2> QED BY <1>2, <1>3, <1>4, <1>5, <1>6, <1>7, <2>1 DEF Drop
<1> QED BY <1>8, Drops

LEMMA TakeStep ==
  ASSUME OrgInv, NEW b \in Sbin, NEW j \in DOMAIN unused_lists[b],
         take_page_from_unused_queue(unused_lists[b][j], b, j)
  PROVE  OrgInv'
<1>p. PICK p : p = unused_lists[b][j]
  OBVIOUS
<1>1. unused_lists[b] \in Seq(PageId)
  BY DEF OrgInv, TypeOK
<1>2. j \in 1 .. Len(unused_lists[b])
  BY <1>1
<1>3. /\ \/ popped = No /\ popped' = VeryUnready(p[1], p[2], pages[p].count, FALSE)
         \/ /\ popped = SegmentFreeing(p[1], p[2])
            /\ popped' = SegmentFreeing(p[1], p[2] + pages[p].count)
      /\ LeavesUnused(p, b, j)
      /\ UNCHANGED <<used, used_headers, used_lists>>
  BY <1>p DEF take_page_from_unused_queue
<1> QED BY <1>p, <1>2, <1>3, TakeSpan, TakeFreed

LEMMA FreeingStartStep ==
  ASSUME OrgInv, NEW s \in Segment, segment_freeing_start(s)
  PROVE  OrgInv'
<1>n. PICK n : n = pages[<<s, 0>>].count
  OBVIOUS
<1>z. PICK a \in Slice : a = 0
  BY PageIdIs DEF Slice
<1>1. /\ popped = No /\ s \in DOMAIN used /\ used[s] = 0
      /\ pages' = Overwrite(pages, Range2(s, 0, n), LAMBDA p : Blank)
      /\ popped' = SegmentFreeing(s, n)
      /\ UNCHANGED <<used, unused_headers, unused_lists, used_headers, used_lists>>
  BY <1>n DEF segment_freeing_start
<1>2. pages \in PagesType /\ SegmentOK(pages, popped, s)
  BY <1>1, InvIs DEF Laid
<1>3. /\ \A q : ~PopOn(popped, q)
      /\ \A t : Ec(popped, t) = 0 /\ Lo(popped, t) = 0
  BY <1>1, PopNo
<1>h. ~Hole(popped, s, a) /\ ~IsReady(popped, <<s, a>>) /\ ~IsTaken(popped, <<s, a>>)
  <2>1. /\ ~Hole(popped, <<s, a>>[1], <<s, a>>[2])
        /\ ~IsReady(popped, <<s, a>>) /\ ~IsTaken(popped, <<s, a>>)
    BY <1>3 DEF PopOn
  <2> QED BY <2>1
<1>4. Ext(pages, popped, s)[a] # 0
  <2>1. Tiling(Ext(pages, popped, s), a)
    BY <1>2, <1>3, <1>z DEF SegmentOK
  <2>2. a < N
    BY <1>z, PageIdIs
  <2> QED BY <2>1, <2>2 DEF Tiling
<1>5. Ext(pages, popped, s)[a] = n
  BY <1>2, <1>h, <1>4, <1>n, <1>z, ExtIs
<1>6. Class(pages, popped, s, a) = "head"
  BY <1>h, <1>z, ClassIs
<1>7. n \in 1 .. N - a /\ Span(pages, s, a, n, "head")
  BY <1>2, <1>4, <1>5, <1>6, SpanThere
<1>m. PICK m \in Int : m = n
  BY <1>7, FirstIn
<1>i. PICK i \in Int : i = 0
  OBVIOUS
<1>8. /\ pages' \in PagesType
      /\ \A q \in PageId : q \in Region(s, i, m) => Empty(pages'[q])
      /\ \A q \in PageId : q \notin Region(s, i, m) => pages'[q] = pages[q]
  <2>1. pages' = Overwrite(pages, Range2(s, i, m), LAMBDA p : Blank)
    BY <1>1, <1>i, <1>m DEF Overwrite
  <2> QED BY <1>2, <2>1, BlankOver DEF Overwrite
<1>9. Region(s, i, m) = Region(s, a, a + n)
  BY <1>7, <1>z, <1>i, <1>m, FirstIn
<1>10. \A q \in PageId : q \notin Region(s, a, a + n) => SameShape(pages[q], pages'[q])
  BY <1>8, <1>9 DEF SameShape, Alike
<1>11. ASSUME NEW q \in Region(s, a, a + n)
       PROVE  Empty(pages'[q]) /\ ~pages[q].is_used /\ (q \in FreeSpans(pages, popped) <=> q \in {})
  <2>1. q \in PageId
    BY DEF Region
  <2>2. ~pages[q].is_used /\ q \notin FreeSpans(pages, popped)
    BY <1>2, <1>6, <1>7, SpanRegion
  <2> QED BY <1>8, <1>9, <2>1, <2>2
<1>12. ASSUME NEW q \in FreeSpans(pages, popped) \cup ListedPages(pages, popped)
       PROVE  pages'[q] = pages[q]
  <2>1. q \in PageId
    BY DEF FreeSpans, ListedPages
  <2>2. q \notin Region(s, a, a + n)
    BY <1>11 DEF ListedPages
  <2> QED BY <1>8, <1>9, <2>1, <2>2
<1>13. /\ Family(pages, unused_headers, unused_lists, Sbin, FreeSpans(pages, popped), FreeKey(pages))
       /\ Family(pages, used_headers, used_lists, UsedBin, ListedPages(pages, popped), PageKey(pages))
  BY SoundNow
<1>14. Family(pages', unused_headers, unused_lists, Sbin, FreeSpans(pages, popped), FreeKey(pages'))
  BY <1>12, <1>13, FreeSame
<1>15. Family(pages', used_headers, used_lists, UsedBin, ListedPages(pages, popped), PageKey(pages'))
  BY <1>12, <1>13, ListedSame
<1>16. Drop(s, a, n, {})
  <2>1. a + n = n
    BY <1>7, <1>z, FirstIn
  <2>2. FreeSpans(pages, popped) \ {} = FreeSpans(pages, popped)
    OBVIOUS
  <2>3. Lo(popped, s) = a
    BY <1>3, <1>z
  <2>4. popped' = SegmentFreeing(s, a + n) /\ used' = used /\ used[s] = 0
    BY <1>1, <2>1
  <2>5. Family(pages', unused_headers', unused_lists', Sbin,
               FreeSpans(pages, popped) \ {}, FreeKey(pages'))
        /\ Family(pages', used_headers', used_lists', UsedBin,
                  ListedPages(pages, popped), PageKey(pages'))
    BY <1>1, <1>14, <1>15, <2>2
  <2> QED BY <1>1, <1>3, <1>5, <1>7, <1>8, <1>10, <1>11, <2>3, <2>4, <2>5 DEF Drop
<1> QED BY <1>16, Drops

\* a segment is blank before it is made and after it is given up
LEMMA BlankStays ==
  ASSUME NEW pg \in PagesType, NEW s \in Segment, \A i \in 0 .. N : Empty(pg[<<s, i>>]),
         NEW pg2, pg2 = Overwrite(pg, Range2(s, 0, SLICES_PER_SEGMENT + 1), LAMBDA p : Blank)
  PROVE  pg2 = pg
<1>1. pg2 = [q \in PageId |-> IF q \in Range2(s, 0, SLICES_PER_SEGMENT + 1) THEN Blank ELSE pg[q]]
  BY DEF Overwrite
<1>2. ASSUME NEW q \in PageId, q \in Range2(s, 0, SLICES_PER_SEGMENT + 1) PROVE pg[q] = Blank
  <2>1. q[1] = s /\ q[2] \in 0 .. N /\ q = <<q[1], q[2]>>
    <3>1. q[1] = s
      BY <1>2 DEF Range2
    <3> QED BY <3>1, PageIdIs, Zenon
  <2>2. Empty(pg[<<s, q[2]>>])
    BY <2>1
  <2>3. Empty(pg[q])
    <3>1. q = <<s, q[2]>>
      BY <2>1
    <3> QED BY <2>2, <3>1
  <2>4. pg[q] \in PageData
    BY DEF PagesType
  <2> QED BY <2>3, <2>4, BlankIs
<1>3. \A q \in PageId : pg2[q] = pg[q]
  BY <1>1, <1>2
<1>4. pg = [q \in PageId |-> pg[q]]
  BY DEF PagesType
<1> QED BY <1>1, <1>3, <1>4

\* segment s comes or goes, and no header changes
Exists(pg, pop, pop2, D, D2, s) ==
  /\ D \subseteq Segment /\ D2 \subseteq Segment /\ Laid(pg, pop, D)
  /\ \A q : ~PopOn(pop, q) /\ ~PopOn(pop2, q)
  /\ D \ {s} = D2 \ {s}
  /\ \A t : t # s => Lo(pop2, t) = Lo(pop, t)
  /\ s \in D2 => SegmentOK(pg, pop2, s)
  /\ \A i \in 0 .. N : Empty(pg[<<s, i>>])

LEMMA LaidWith ==
  ASSUME NEW pg, NEW pop, NEW pop2, NEW D, NEW D2, NEW s, Exists(pg, pop, pop2, D, D2, s)
  PROVE  Laid(pg, pop2, D2)
<1>1. /\ D \subseteq Segment /\ D2 \subseteq Segment /\ Laid(pg, pop, D)
      /\ \A q : ~PopOn(pop, q) /\ ~PopOn(pop2, q)
      /\ D \ {s} = D2 \ {s}
      /\ \A t : t # s => Lo(pop2, t) = Lo(pop, t)
      /\ s \in D2 => SegmentOK(pg, pop2, s)
      /\ \A i \in 0 .. N : Empty(pg[<<s, i>>])
  BY DEF Exists
<1>R. PICK R : R = {}
  OBVIOUS
<1>2. Quiet(pg, pg, pop, pop2, R)
  BY <1>1 DEF Quiet, SameShape, Alike
<1>3. ASSUME NEW t \in D2 PROVE SegmentOK(pg, pop2, t)
  <2>1. CASE t = s
    BY <1>1, <2>1
  <2>2. CASE t # s
    <3>1. t \in Segment /\ t \in D /\ Lo(pop2, t) = Lo(pop, t)
      BY <1>1, <2>2
    <3>2. SegmentOK(pg, pop, t)
      BY <1>1, <3>1 DEF Laid
    <3>3. \A q \in R : q[1] # t
      BY <1>R
    <3> QED BY <1>2, <3>1, <3>2, <3>3, SegmentKept
  <2> QED BY <2>1, <2>2
<1>4. ASSUME NEW q \in PageId, q[2] = N \/ q[1] \notin D2 PROVE Empty(pg[q])
  <2>1. CASE q[1] = s
    <3>1. q = <<q[1], q[2]>> /\ q[2] \in 0 .. N
      BY PageIdIs, Zenon
    <3>2. Empty(pg[<<s, q[2]>>])
      BY <1>1, <3>1
    <3> QED BY <2>1, <3>1, <3>2
  <2>2. CASE q[1] # s
    <3>1. q[2] = N \/ q[1] \notin D
      BY <1>1, <1>4, <2>2
    <3> QED BY <1>1, <3>1 DEF Laid, OutsideOK
  <2> QED BY <2>1, <2>2
<1> QED BY <1>3, <1>4 DEF Laid, OutsideOK

LEMMA CreateStep ==
  ASSUME OrgInv, NEW s \in Segment, create_segment(s)
  PROVE  OrgInv'
<1>1. /\ popped = No /\ s \notin DOMAIN used
      /\ used' = [t \in DOMAIN used \cup {s} |-> IF t = s THEN 0 ELSE used[t]]
      /\ pages' = Overwrite(pages, Range2(s, 0, SLICES_PER_SEGMENT + 1), LAMBDA p : Blank)
      /\ popped' = SegmentCreating(s)
      /\ UNCHANGED <<unused_headers, unused_lists, used_headers, used_lists>>
  BY DEF create_segment
<1>2. /\ pages \in PagesType /\ DOMAIN used \subseteq Segment
      /\ Laid(pages, popped, DOMAIN used) /\ Counted(pages, popped, used)
      /\ used \in [DOMAIN used -> Int]
  BY SoundNow DEF Sound
<1>3. ASSUME NEW i \in 0 .. N PROVE Empty(pages[<<s, i>>])
  <2>1. <<s, i>> \in PageId /\ <<s, i>>[1] \notin DOMAIN used
    BY <1>1, PageIdIs
  <2> QED BY <1>2, <2>1 DEF Laid, OutsideOK
<1>4. pages' = pages
  BY <1>1, <1>2, <1>3, BlankStays DEF Overwrite
<1>o. PICK pop : pop = popped
  OBVIOUS
<1>q. PICK pop2 : pop2 = popped'
  OBVIOUS
<1>5. /\ \A q : ~PopOn(pop, q)
      /\ \A t : Lo(pop, t) = 0 /\ Ec(pop, t) = 0
  BY <1>1, <1>o, PopNo
<1>6. /\ \A q : ~PopOn(pop2, q)
      /\ \A t : Lo(pop2, t) = (IF t = s THEN N ELSE 0) /\ Ec(pop2, t) = 0
  BY <1>1, <1>q, PopCreating
<1>e. PICK e : e = Ext(pages, pop2, s)
  OBVIOUS
<1>7. \A x \in Slice : e[x] = 0
  <2> SUFFICES ASSUME NEW x \in Slice PROVE e[x] = 0
    OBVIOUS
  <2>1. Empty(pages[<<s, x>>])
    BY <1>3, PageIdIs DEF Slice
  <2>2. ~Hole(pop2, <<s, x>>[1], <<s, x>>[2])
    BY <1>6 DEF PopOn
  <2>3. ~Hole(pop2, s, x)
    BY <2>2
  <2> QED BY <1>2, <1>e, <2>1, <2>3, EmptyExt
<1>8. SegmentOK(pages, pop2, s)
  <2>1. \A x \in Slice : e[x] \in 0 .. N
    BY <1>7, PageIdIs
  <2>2. e \in [Slice -> 0 .. N]
    BY <1>e, <2>1, ExtFunction
  <2>3. Tiling(e, N)
    BY <1>7, <2>2, TileNone
  <2>4. \A i \in 0 .. N - 1 : Empty(pages[<<s, i>>])
    BY <1>3, PageIdIs
  <2>5. Lo(pop2, s) = N
    BY <1>6
  <2> QED BY <1>7, <1>e, <2>3, <2>4, <2>5 DEF SegmentOK
<1>D. PICK D : D = DOMAIN used
  OBVIOUS
<1>E. PICK D2 : D2 = DOMAIN used'
  OBVIOUS
<1>9. D2 = D \cup {s} /\ s \notin D
  BY <1>1, <1>D, <1>E
<1>10. Laid(pages, pop2, D2)
  <2>1. Exists(pages, pop, pop2, D, D2, s)
    BY <1>2, <1>3, <1>5, <1>6, <1>8, <1>9, <1>D, <1>o DEF Exists
  <2> QED BY <2>1, LaidWith
<1>11. /\ \A t \in D2 : used'[t] = IF t = s THEN 0 ELSE used[t]
       /\ \A t \in D2 : used'[t] \in Int
       /\ used' \in [D2 -> Int]
  BY <1>1, <1>2, <1>9, <1>D
<1>12. Counted(pages, pop2, used')
  <2>1. Headed(pages, s) = {}
    <3>1. \A x \in Slice : Empty(pages[<<s, x>>])
      BY <1>3, PageIdIs DEF Slice
    <3> QED BY <3>1 DEF Headed, Empty
  <2>2. Cardinality(Headed(pages, s)) = 0
    BY <2>1, FS_EmptySet
  <2>3. ASSUME NEW t \in D2 PROVE used'[t] = Cardinality(Headed(pages, t)) + Ec(pop2, t)
    <3>1. CASE t = s
      BY <1>6, <1>11, <2>2, <3>1
    <3>2. CASE t # s
      <4>1. used[t] = Cardinality(Headed(pages, t)) + Ec(pop, t)
        BY <1>2, <1>9, <1>D, <1>o, <3>2 DEF Counted
      <4> QED BY <1>5, <1>6, <1>11, <3>2, <4>1
    <3> QED BY <3>1, <3>2
  <2> QED BY <1>E, <2>3 DEF Counted
<1>13. Sound(pages', pop2, used')
  BY <1>2, <1>4, <1>9, <1>10, <1>11, <1>12, <1>D, <1>E DEF Sound
<1>14. /\ FreeSpans(pages', pop2) = FreeSpans(pages, pop)
       /\ ListedPages(pages', pop2) = ListedPages(pages, pop)
  BY <1>4, <1>5, <1>6 DEF FreeSpans, ListedPages, PopOn
<1>15. PoppedOK(pages', pop2, used')
  <2>1. s \in DOMAIN used' /\ used'[s] = 0
    BY <1>9, <1>11, <1>E
  <2> QED BY <1>1, <1>q, <2>1 DEF PoppedOK
<1>16. /\ Family(pages, unused_headers, unused_lists, Sbin, FreeSpans(pages, pop), FreeKey(pages))
       /\ Family(pages, used_headers, used_lists, UsedBin, ListedPages(pages, pop), PageKey(pages))
  BY <1>o, SoundNow
<1> QED BY <1>1, <1>4, <1>11, <1>13, <1>14, <1>15, <1>16, <1>E, <1>q, OrgNext

LEMMA FreeingFinishStep == ASSUME OrgInv, segment_freeing_finish PROVE OrgInv'
<1>1. popped.tag = "SegmentFreeing" /\ popped.idx = SLICES_PER_SEGMENT
  BY DEF segment_freeing_finish
<1>s. PICK s \in DOMAIN used, i \in 1 .. N : popped = SegmentFreeing(s, i) /\ used[s] = 0
  BY <1>1, FreeingAt
<1>i. popped.seg = s /\ popped = SegmentFreeing(s, N)
  BY <1>1, <1>s, PopFreeing DEF N
<1>2. /\ used' = [t \in DOMAIN used \ {s} |-> used[t]]
      /\ pages' = Overwrite(pages, Range2(s, 0, SLICES_PER_SEGMENT + 1), LAMBDA p : Blank)
      /\ popped' = No
      /\ UNCHANGED <<unused_headers, unused_lists, used_headers, used_lists>>
  BY <1>i DEF segment_freeing_finish, Overwrite
<1>3. /\ pages \in PagesType /\ DOMAIN used \subseteq Segment
      /\ Laid(pages, popped, DOMAIN used) /\ Counted(pages, popped, used)
      /\ used \in [DOMAIN used -> Int]
  BY SoundNow DEF Sound
<1>o. PICK pop : pop = popped
  OBVIOUS
<1>q. PICK pop2 : pop2 = popped'
  OBVIOUS
<1>5. /\ \A q : ~PopOn(pop, q)
      /\ \A t : Lo(pop, t) = (IF t = s THEN N ELSE 0) /\ Ec(pop, t) = 0
  BY <1>i, <1>o, PopFreeing
<1>6. /\ \A q : ~PopOn(pop2, q)
      /\ \A t : Lo(pop2, t) = 0 /\ Ec(pop2, t) = 0
  BY <1>2, <1>q, PopNo
<1>7. s \in Segment /\ \A j \in 0 .. N - 1 : Empty(pages[<<s, j>>])
  <2>1. s \in Segment /\ SegmentOK(pages, pop, s)
    BY <1>3, <1>o DEF Laid
  <2>2. Lo(pop, s) = N
    BY <1>5
  <2> QED BY <2>1, <2>2 DEF SegmentOK
<1>8. ASSUME NEW j \in 0 .. N PROVE Empty(pages[<<s, j>>])
  <2>1. CASE j = N
    <3>1. <<s, j>> \in PageId /\ <<s, j>>[2] = N
      BY <1>7, <2>1, PageIdIs
    <3> QED BY <1>3, <3>1 DEF Laid, OutsideOK
  <2>2. CASE j # N
    BY <1>7, <2>2, PageIdIs
  <2> QED BY <2>1, <2>2
<1>4. pages' = pages
  BY <1>2, <1>3, <1>7, <1>8, BlankStays DEF Overwrite
<1>D. PICK D : D = DOMAIN used
  OBVIOUS
<1>E. PICK D2 : D2 = DOMAIN used'
  OBVIOUS
<1>9. D2 = D \ {s}
  BY <1>2, <1>D, <1>E
<1>10. Laid(pages, pop2, D2)
  <2>1. Exists(pages, pop, pop2, D, D2, s)
    BY <1>3, <1>5, <1>6, <1>8, <1>9, <1>D, <1>o DEF Exists
  <2> QED BY <2>1, LaidWith
<1>11. /\ \A t \in D2 : used'[t] = used[t]
       /\ \A t \in D2 : used'[t] \in Int
       /\ used' \in [D2 -> Int]
  BY <1>2, <1>3, <1>9, <1>D
<1>12. Counted(pages, pop2, used')
  <2>3. ASSUME NEW t \in D2 PROVE used'[t] = Cardinality(Headed(pages, t)) + Ec(pop2, t)
    <3>1. used[t] = Cardinality(Headed(pages, t)) + Ec(pop, t)
      BY <1>3, <1>9, <1>D, <1>o DEF Counted
    <3> QED BY <1>5, <1>6, <1>11, <3>1
  <2> QED BY <1>E, <2>3 DEF Counted
<1>13. Sound(pages', pop2, used')
  BY <1>3, <1>4, <1>9, <1>10, <1>11, <1>12, <1>D, <1>E DEF Sound
<1>14. /\ FreeSpans(pages', pop2) = FreeSpans(pages, pop)
       /\ ListedPages(pages', pop2) = ListedPages(pages, pop)
  BY <1>4, <1>5, <1>6 DEF FreeSpans, ListedPages, PopOn
<1>15. PoppedOK(pages', pop2, used')
  BY <1>2, <1>q DEF PoppedOK
<1>16. /\ Family(pages, unused_headers, unused_lists, Sbin, FreeSpans(pages, pop), FreeKey(pages))
       /\ Family(pages, used_headers, used_lists, UsedBin, ListedPages(pages, pop), PageKey(pages))
  BY <1>o, SoundNow
<1> QED BY <1>2, <1>4, <1>11, <1>13, <1>14, <1>15, <1>16, <1>E, <1>q, OrgNext

\* the slices from a of segment s, among them the range that is popped then, are
\* divided in another way; the free spans of P are gone, those of P2 are new
Divide(s, a, n, P, P2, x0, m, b) ==
  /\ s \in DOMAIN used /\ s \in Segment /\ a \in Slice /\ n \in 1 .. N - a
  /\ popped' = VeryUnready(s, x0, m, b) /\ b \in BOOLEAN
  /\ x0 \in 1 .. N - 1 /\ m \in 1 .. N /\ <<s, x0>> \in Region(s, a, a + n)
  /\ \A q \in PageId : PopOn(popped, q) => q \in Region(s, a, a + n)
  /\ \A t : t # s => Lo(popped, t) = 0
  /\ Cut(Ext(pages, popped, s), a)
  /\ pages' \in PagesType
  /\ \A q \in PageId : q \notin Region(s, a, a + n) => SameShape(pages[q], pages'[q])
  /\ Tiling(Ext(pages', popped', s), 0)
  /\ \A x \in a .. a + n - 1 : Ext(pages', popped', s)[x] # 0 =>
       Span(pages', s, x, Ext(pages', popped', s)[x], Class(pages', popped', s, x))
  /\ \A q \in Region(s, a, a + n) :
       /\ ~pages[q].is_used /\ ~pages'[q].is_used
       /\ q \in FreeSpans(pages, popped) <=> q \in P
       /\ q \in FreeSpans(pages', popped') <=> q \in P2
  /\ P \subseteq Region(s, a, a + n) /\ P2 \subseteq Region(s, a, a + n)
  /\ Recounted(popped, popped', used, used', s, 0)
  /\ used' \in [DOMAIN used' -> Int]
  /\ Family(pages', unused_headers', unused_lists', Sbin,
            (FreeSpans(pages, popped) \ P) \cup P2, FreeKey(pages'))
  /\ Family(pages', used_headers', used_lists', UsedBin,
            ListedPages(pages, popped), PageKey(pages'))

LEMMA Divides ==
  ASSUME OrgInv, NEW s, NEW a, NEW n, NEW P, NEW P2, NEW x0, NEW m, NEW b,
         Divide(s, a, n, P, P2, x0, m, b)
  PROVE  OrgInv'
<1>1. /\ s \in DOMAIN used /\ s \in Segment /\ a \in Slice /\ n \in 1 .. N - a
      /\ popped' = VeryUnready(s, x0, m, b) /\ b \in BOOLEAN
      /\ x0 \in 1 .. N - 1 /\ m \in 1 .. N /\ <<s, x0>> \in Region(s, a, a + n)
      /\ \A q \in PageId : PopOn(popped, q) => q \in Region(s, a, a + n)
      /\ \A t : t # s => Lo(popped, t) = 0
      /\ Cut(Ext(pages, popped, s), a)
      /\ pages' \in PagesType
      /\ \A q \in PageId : q \notin Region(s, a, a + n) => SameShape(pages[q], pages'[q])
      /\ Tiling(Ext(pages', popped', s), 0)
      /\ used' \in [DOMAIN used' -> Int]
  BY DEF Divide
<1>o. PICK pop : pop = popped
  OBVIOUS
<1>q. PICK pop2 : pop2 = popped'
  OBVIOUS
<1>e. PICK e : e = a + n
  OBVIOUS
<1>f. a \in 0 .. N /\ e \in 0 .. N /\ a \in Nat
  BY <1>1, <1>e, FirstIn
<1>2. /\ \A q \in PageId : PopOn(pop2, q) <=> q = <<s, x0>>
      /\ \A t : Lo(pop2, t) = 0
  BY <1>1, <1>q, PopGone
<1>3. Sound(pages, pop, used)
  BY <1>o, SoundNow
<1>4. Quiet(pages, pages', pop, pop2, Region(s, a, e))
  <2>1. /\ \A q \in PageId : PopOn(pop, q) => q \in Region(s, a, e)
        /\ \A q \in PageId : PopOn(pop2, q) => q \in Region(s, a, e)
        /\ \A q \in PageId : q \notin Region(s, a, e) => SameShape(pages[q], pages'[q])
    BY <1>1, <1>2, <1>o, <1>e
  <2> QED BY <2>1, QuietIs
<1>5. /\ Cut(Ext(pages, pop, s), a)
      /\ Tiling(Ext(pages', pop2, s), Lo(pop2, s))
      /\ \A i \in 0 .. Lo(pop2, s) - 1 : Empty(pages'[<<s, i>>])
  <2>1. Lo(pop2, s) = 0
    BY <1>2
  <2>2. 0 .. Lo(pop2, s) - 1 = {}
    BY <2>1
  <2> QED BY <1>1, <2>1, <2>2, <1>o, <1>q
<1>6. /\ \A x \in a .. e - 1 : Ext(pages', pop2, s)[x] # 0 =>
           Span(pages', s, x, Ext(pages', pop2, s)[x], Class(pages', pop2, s, x))
      /\ \A q \in Region(s, a, e) :
           /\ ~pages[q].is_used /\ ~pages'[q].is_used
           /\ q \in FreeSpans(pages, pop) <=> q \in P
           /\ q \in FreeSpans(pages', pop2) <=> q \in P2
      /\ P \subseteq Region(s, a, e) /\ P2 \subseteq Region(s, a, e)
      /\ Recounted(pop, pop2, used, used', s, 0)
  <2>1. /\ \A x \in a .. a + n - 1 : Ext(pages', popped', s)[x] # 0 =>
             Span(pages', s, x, Ext(pages', popped', s)[x], Class(pages', popped', s, x))
        /\ Recounted(popped, popped', used, used', s, 0)
    BY DEF Divide
  <2>2. /\ \A q \in Region(s, a, a + n) :
             /\ ~pages[q].is_used /\ ~pages'[q].is_used
             /\ q \in FreeSpans(pages, popped) <=> q \in P
             /\ q \in FreeSpans(pages', popped') <=> q \in P2
        /\ P \subseteq Region(s, a, a + n) /\ P2 \subseteq Region(s, a, a + n)
    BY DEF Divide
  <2>3. \A x \in a .. e - 1 : Ext(pages', pop2, s)[x] # 0 =>
          Span(pages', s, x, Ext(pages', pop2, s)[x], Class(pages', pop2, s, x))
    <3> SUFFICES ASSUME NEW x \in a .. e - 1, Ext(pages', pop2, s)[x] # 0
                 PROVE  Span(pages', s, x, Ext(pages', pop2, s)[x], Class(pages', pop2, s, x))
      OBVIOUS
    <3>0. a \in Nat /\ n \in Nat
      BY <1>1, FirstIn
    <3>1. x \in a .. a + n - 1
      BY <1>e, <3>0
    <3> QED BY <2>1, <3>1, <1>q
  <2>4. /\ \A q \in Region(s, a, e) : ~pages[q].is_used /\ ~pages'[q].is_used
        /\ P \subseteq Region(s, a, e) /\ P2 \subseteq Region(s, a, e)
    BY <2>2, <1>e
  <2>5. \A q \in Region(s, a, e) : q \in FreeSpans(pages, pop) <=> q \in P
    BY <2>2, <1>e, <1>o
  <2>6. \A q \in Region(s, a, e) : q \in FreeSpans(pages', pop2) <=> q \in P2
    BY <2>2, <1>e, <1>q
  <2>7. Recounted(pop, pop2, used, used', s, 0)
    BY <2>1, <1>o, <1>q
  <2> QED BY <2>3, <2>4, <2>5, <2>6, <2>7
<1>7. \A t : t # s => Lo(pop2, t) = Lo(pop, t)
  BY <1>1, <1>2, <1>o
<1>8. Shift(pages, pages', pop, pop2, used, used', s, a, e, P, P2)
  BY <1>1, <1>3, <1>4, <1>5, <1>6, <1>7, <1>f DEF Shift
<1>9. Shifted(pages, pages', pop, pop2, used', P, P2)
  BY <1>8, ShiftStep
<1>10. /\ Sound(pages', pop2, used')
       /\ FreeSpans(pages', pop2) = (FreeSpans(pages, pop) \ P) \cup P2
       /\ ListedPages(pages', pop2) = ListedPages(pages, pop)
  BY <1>9 DEF Shifted
<1>11. PoppedOK(pages', pop2, used')
  <2>1. s \in DOMAIN used'
    BY <1>1 DEF Divide, Recounted
  <2> QED BY <1>1, <1>q, <2>1 DEF PoppedOK
<1>12. /\ Family(pages', unused_headers', unused_lists', Sbin,
                 (FreeSpans(pages, pop) \ P) \cup P2, FreeKey(pages'))
       /\ Family(pages', used_headers', used_lists', UsedBin,
                 ListedPages(pages, pop), PageKey(pages'))
  BY <1>o DEF Divide
<1> QED BY <1>1, <1>10, <1>11, <1>12, <1>q, OrgNext

\* the popped range, blank from slice a on, is one span and nothing else
LEMMA HoleSpan ==
  ASSUME NEW pg \in PagesType, NEW pop, NEW s \in Segment, NEW a \in Slice, NEW n \in 1 .. N - a,
         NEW b \in BOOLEAN, pop = VeryUnready(s, a, n, b), Span(pg, s, a, n, "gone")
  PROVE  /\ Ext(pg, pop, s)[a] = n /\ Class(pg, pop, s, a) = "gone"
         /\ \A x \in a + 1 .. a + n - 1 : Ext(pg, pop, s)[x] = 0
         /\ \A q \in Region(s, a, a + n) : ~pg[q].is_used /\ q \notin FreeSpans(pg, pop)
<1>1. Hole(pop, s, a) /\ pop.count = n /\ \A x : x # a => ~Hole(pop, s, x)
  BY PopGone
<1>2. Class(pg, pop, s, a) = "gone"
  BY <1>1, ClassIs
<1>3. a \in Nat /\ n \in Nat
  BY FirstIn
<1>4. \A x \in a + 1 .. a + n - 1 : ~Hole(pop, s, x)
  BY <1>1, <1>3
<1>5. /\ Ext(pg, pop, s)[a] = n
      /\ \A x \in a + 1 .. a + n - 1 : Ext(pg, pop, s)[x] = 0
  BY <1>1, <1>2, <1>4, ExtOfSpan
<1>6. ASSUME NEW q \in Region(s, a, a + n)
      PROVE  ~pg[q].is_used /\ q \notin FreeSpans(pg, pop)
  <2>c. PICK c : c = "gone"
    OBVIOUS
  <2>1. c = Class(pg, pop, s, a) /\ c \in {"gone", "free", "head"} /\ Span(pg, s, a, n, c)
    BY <1>2, <2>c
  <2>2. ~pg[q].is_used /\ (q \in FreeSpans(pg, pop) <=> q = <<s, a>> /\ c = "free")
    BY <2>1, SpanRegion
  <2> QED BY <2>2, <2>c
<1> QED BY <1>2, <1>5, <1>6

\* so is a span of another kind beside the popped range
LEMMA BesideHole ==
  ASSUME NEW pg \in PagesType, NEW pop, NEW s \in Segment, NEW a, NEW n, NEW b \in BOOLEAN,
         pop = VeryUnready(s, a, n, b),
         NEW x \in Slice, NEW m \in 1 .. N - x, \A y \in x .. x + m - 1 : y # a,
         NEW c, c = (IF x = 0 THEN "head" ELSE "free"), Span(pg, s, x, m, c)
  PROVE  /\ Ext(pg, pop, s)[x] = m /\ Class(pg, pop, s, x) = c
         /\ \A y \in x + 1 .. x + m - 1 : Ext(pg, pop, s)[y] = 0
         /\ \A q \in Region(s, x, x + m) :
              ~pg[q].is_used /\ (q \in FreeSpans(pg, pop) <=> q = <<s, x>> /\ c = "free")
<1>0. x \in Nat /\ m \in Nat /\ 1 <= m
  BY FirstIn
<1>1. x \in Nat /\ m \in Nat /\ 1 <= m /\ x \in x .. x + m - 1
  BY <1>0
<1>2. /\ \A y : y # a => ~Hole(pop, s, y)
      /\ ~IsReady(pop, <<s, x>>) /\ ~IsTaken(pop, <<s, x>>)
  BY PopGone
<1>3. \A y \in x .. x + m - 1 : ~Hole(pop, s, y)
  BY <1>2
<1>4. ~pg[<<s, x>>].is_used
  <2>1. Piece(pg[<<s, x>>], x - x, m, c)
    BY <1>1 DEF Span
  <2> QED BY <2>1 DEF Piece
<1>5. Class(pg, pop, s, x) = c
  BY <1>1, <1>2, <1>3, <1>4, ClassIs
<1>6. c # "gone" /\ c \in {"gone", "free", "head"}
  OBVIOUS
<1>7. \A y \in x + 1 .. x + m - 1 : ~Hole(pop, s, y)
  BY <1>1, <1>3
<1>8. /\ Ext(pg, pop, s)[x] = m
      /\ \A y \in x + 1 .. x + m - 1 : Ext(pg, pop, s)[y] = 0
  BY <1>5, <1>6, <1>7, ExtOfSpan
<1> QED BY <1>5, <1>6, <1>8, SpanRegion

LEMMA ForgetStep ==
  ASSUME OrgInv, NEW n \in FirstCount, forget_about_first_page(n)
  PROVE  OrgInv'
<1>1. popped.tag = "SegmentCreating"
  BY DEF forget_about_first_page
<1>s. PICK s \in DOMAIN used : popped = SegmentCreating(s) /\ used[s] = 0
  BY <1>1, CreatingAt
<1>m. PICK m : m = N - n
  OBVIOUS
<1>z. PICK a \in Slice : a = 0
  BY PageIdIs DEF Slice
<1>i. popped.seg = s
  BY <1>s, PopCreating
<1>2. /\ pages' = RangeWritten(pages, s, a, n)
      /\ used' = [used EXCEPT ![s] = @ + 1]
      /\ popped' = VeryUnready(s, n, m, TRUE)
      /\ UNCHANGED <<unused_headers, unused_lists, used_headers, used_lists>>
  BY <1>i, <1>m, <1>z DEF forget_about_first_page, N
<1>3. /\ pages \in PagesType /\ DOMAIN used \subseteq Segment /\ s \in Segment
      /\ SegmentOK(pages, popped, s) /\ used \in [DOMAIN used -> Int]
  BY SoundNow DEF Sound, Laid
<1>4. n \in 1 .. N - 1
  BY FirstAssumption DEF N
<1>5. /\ N \in Nat /\ n \in Nat /\ m \in Nat /\ a = 0 /\ n \in Slice /\ n # a /\ 1 <= n
      /\ n \in 1 .. N - a /\ m \in 1 .. N - n /\ m \in 1 .. N /\ N \in 1 .. N - a
      /\ a + n = n /\ n + m = N /\ a + N = N
  BY <1>4, <1>m, <1>z, PageIdIs DEF Slice
<1>6. /\ \A q : ~PopOn(popped, q)
      /\ \A t : Lo(popped, t) = (IF t = s THEN N ELSE 0) /\ Ec(popped, t) = 0
  BY <1>s, PopCreating
<1>7. ASSUME NEW x \in Slice PROVE Empty(pages[<<s, x>>])
  <2>1. \A i \in 0 .. N - 1 : Empty(pages[<<s, i>>])
    BY <1>3, <1>6 DEF SegmentOK
  <2> QED BY <2>1 DEF Slice
<1>8. Span(pages, s, a, n, "gone")
  <2>1. ASSUME NEW x \in a .. a + n - 1 PROVE Piece(pages[<<s, x>>], x - a, n, "gone")
    <3>1. x \in Slice
      BY <1>4, <1>5 DEF Slice
    <3> QED BY <1>7, <3>1, GoneIsEmpty
  <2> QED BY <2>1 DEF Span
<1>9. /\ pages' \in PagesType
      /\ \A q \in PageId : q \notin Region(s, a, a + n) => pages'[q] = pages[q]
      /\ Span(pages', s, a, n, "head")
  BY <1>2, <1>3, <1>5, <1>8, RangeWrittenIs
<1>10. Span(pages', s, n, m, "gone")
  <2>1. ASSUME NEW x \in n .. n + m - 1 PROVE Piece(pages'[<<s, x>>], x - n, m, "gone")
    <3>1. x \in Slice /\ n <= x
      BY <1>5 DEF Slice
    <3>2. <<s, x>> \in PageId /\ <<s, x>> \notin Region(s, a, a + n)
      BY <1>3, <1>5, <3>1, SliceOf
    <3>3. Empty(pages'[<<s, x>>])
      BY <1>7, <1>9, <3>1, <3>2
    <3> QED BY <3>3, GoneIsEmpty
  <2> QED BY <2>1 DEF Span
<1>b. PICK b \in BOOLEAN : b = TRUE
  OBVIOUS
<1>q. PICK pop2 : pop2 = VeryUnready(s, n, m, b)
  OBVIOUS
<1>11. popped' = pop2
  BY <1>2, <1>b, <1>q
<1>g. PICK g : g = Ext(pages', pop2, s)
  OBVIOUS
<1>12. /\ g[n] = m /\ Class(pages', pop2, s, n) = "gone"
       /\ \A x \in n + 1 .. n + m - 1 : g[x] = 0
       /\ \A q \in Region(s, n, n + m) : ~pages'[q].is_used /\ q \notin FreeSpans(pages', pop2)
  BY <1>3, <1>5, <1>9, <1>10, <1>g, <1>q, HoleSpan
<1>13. /\ g[a] = n /\ Class(pages', pop2, s, a) = "head"
       /\ \A x \in a + 1 .. a + n - 1 : g[x] = 0
       /\ \A q \in Region(s, a, a + n) : ~pages'[q].is_used /\ q \notin FreeSpans(pages', pop2)
  <2>c. PICK c : c = "head"
    OBVIOUS
  <2>1. c = (IF a = 0 THEN "head" ELSE "free") /\ Span(pages', s, a, n, c)
    BY <1>5, <1>9, <2>c
  <2>2. \A y \in a .. a + n - 1 : y # n
    BY <1>5
  <2>3. /\ g[a] = n /\ Class(pages', pop2, s, a) = c
        /\ \A y \in a + 1 .. a + n - 1 : g[y] = 0
        /\ \A q \in Region(s, a, a + n) :
             ~pages'[q].is_used /\ (q \in FreeSpans(pages', pop2) <=> q = <<s, a>> /\ c = "free")
    BY <1>3, <1>5, <1>9, <1>g, <1>q, <2>1, <2>2, BesideHole
  <2> QED BY <2>3, <2>c
<1>14. \A x \in Slice : g[x] = IF x = 0 THEN n ELSE IF x = n THEN m ELSE 0
  <2> SUFFICES ASSUME NEW x \in Slice
               PROVE  g[x] = IF x = 0 THEN n ELSE IF x = n THEN m ELSE 0
    OBVIOUS
  <2>1. x = 0 \/ x = n \/ x \in a + 1 .. a + n - 1 \/ x \in n + 1 .. n + m - 1
    BY <1>5 DEF Slice
  <2>2. x \in a + 1 .. a + n - 1 => x # 0 /\ x # n
    BY <1>5
  <2>3. x \in n + 1 .. n + m - 1 => x # 0 /\ x # n
    BY <1>5
  <2>4. n # 0 /\ g[0] = n
    BY <1>5, <1>13
  <2> QED BY <1>12, <1>13, <2>1, <2>2, <2>3, <2>4
<1>15. Tiling(g, 0)
  <2>1. \A x \in Slice : g[x] \in 0 .. N
    BY <1>5, <1>14
  <2>2. g \in [Slice -> 0 .. N]
    BY <1>g, <2>1, ExtFunction
  <2>3. \A x \in Slice : g[x] = IF x = 0 THEN n ELSE IF x = n THEN N - n ELSE 0
    BY <1>m, <1>14
  <2> QED BY <1>4, <2>2, <2>3, TileFirst
<1>16. ASSUME NEW x \in a .. a + N - 1, g[x] # 0
       PROVE  Span(pages', s, x, g[x], Class(pages', pop2, s, x))
  <2>1. x \in Slice
    BY <1>5 DEF Slice
  <2>2. x = a \/ x = n
    BY <1>5, <1>14, <1>16, <2>1
  <2> QED BY <1>9, <1>10, <1>12, <1>13, <2>2
<1>17. ASSUME NEW q \in Region(s, a, a + N)
       PROVE  /\ q \in PageId /\ Empty(pages[q]) /\ ~pages[q].is_used /\ ~pages'[q].is_used
              /\ q \notin FreeSpans(pages, popped) /\ q \notin FreeSpans(pages', pop2)
  <2>1. q \in PageId /\ q = <<s, q[2]>> /\ q[2] \in Slice
    BY <1>3, <1>5, RegionSlice
  <2>x. PICK x \in Slice : x = q[2]
    BY <2>1
  <2>2. q = <<s, x>> /\ x \in Nat /\ x < N
    BY <1>5, <2>1, <2>x DEF Slice
  <2>3. q \in Region(s, a, a + n) \/ q \in Region(s, n, n + m)
    BY <1>3, <1>5, <2>2, SliceOf
  <2>4. Empty(pages[q])
    BY <1>7, <2>2
  <2> QED BY <1>12, <1>13, <2>1, <2>3, <2>4, EmptyAt
<1>18. ASSUME NEW q \in FreeSpans(pages, popped) \cup ListedPages(pages, popped)
       PROVE  pages'[q] = pages[q]
  <2>1. q \in PageId
    BY DEF FreeSpans, ListedPages
  <2>2. q \notin Region(s, a, a + N)
    BY <1>17 DEF ListedPages
  <2>3. Region(s, a, a + n) \subseteq Region(s, a, a + N)
    <3>1. ASSUME NEW r \in Region(s, a, a + n) PROVE r \in Region(s, a, a + N)
      <4>1. r \in PageId /\ r = <<s, r[2]>> /\ r[2] \in Slice
        BY <1>3, <1>5, RegionSlice
      <4>x. PICK x \in Slice : x = r[2]
        BY <4>1
      <4>2. x \in Nat /\ x < N
        BY <1>5 DEF Slice
      <4> QED BY <1>3, <1>5, <4>1, <4>x, <4>2, SliceOf
    <3> QED BY <3>1
  <2> QED BY <1>9, <2>1, <2>2, <2>3
<1>19. /\ Family(pages, unused_headers, unused_lists, Sbin, FreeSpans(pages, popped), FreeKey(pages))
       /\ Family(pages, used_headers, used_lists, UsedBin, ListedPages(pages, popped), PageKey(pages))
  BY SoundNow
<1>20. Family(pages', unused_headers, unused_lists, Sbin, FreeSpans(pages, popped), FreeKey(pages'))
  BY <1>18, <1>19, FreeSame
<1>21. Family(pages', used_headers, used_lists, UsedBin, ListedPages(pages, popped), PageKey(pages'))
  BY <1>18, <1>19, ListedSame
<1>22. Recounted(popped, pop2, used, used', s, 0) /\ used' \in [DOMAIN used' -> Int]
  <2>1. \A t : Ec(pop2, t) = IF t = s THEN 1 ELSE 0
    <3>1. \A t : Ec(pop2, t) = IF t = s /\ b THEN 1 ELSE 0
      BY <1>q, PopGone
    <3> QED BY <1>b, <3>1
  <2>2. /\ DOMAIN used' = DOMAIN used /\ used'[s] = used[s] + 1
        /\ \A t \in DOMAIN used \ {s} : used'[t] = used[t]
        /\ used' \in [DOMAIN used' -> Int]
    BY <1>2, <1>3
  <2>3. used[s] \in Int
    BY <1>3
  <2> QED BY <1>6, <2>1, <2>2, <2>3 DEF Recounted
<1>23. <<s, n>> \in Region(s, a, a + N)
  BY <1>3, <1>4, <1>5, SliceOf
<1>24. Cut(Ext(pages, popped, s), a)
  BY <1>5, PageIdIs DEF Cut, Slice
<1>25. \A q \in PageId : q \notin Region(s, a, a + N) => SameShape(pages[q], pages'[q])
  <2>1. \A q \in PageId : q \notin Region(s, a, a + N) => pages'[q] = pages[q]
    <3> SUFFICES ASSUME NEW q \in PageId, q \notin Region(s, a, a + N) PROVE pages'[q] = pages[q]
      OBVIOUS
    <3>1. CASE q \in Region(s, a, a + n)
      <4>1. q = <<s, q[2]>> /\ q[2] \in Slice
        BY <1>3, <1>5, <3>1, RegionSlice
      <4>x. PICK x \in Slice : x = q[2]
        BY <4>1
      <4>2. x \in Nat /\ x < N
        BY <1>5 DEF Slice
      <4> QED BY <1>3, <1>5, <4>1, <4>x, <4>2, SliceOf
    <3> QED BY <1>9, <3>1
  <2> QED BY <2>1, SameIsShape
<1>P. PICK P : P = {}
  OBVIOUS
<1>26. Divide(s, a, N, P, P, n, m, b)
  <2>1. /\ s \in DOMAIN used /\ s \in Segment /\ a \in Slice /\ N \in 1 .. N - a
        /\ popped' = VeryUnready(s, n, m, b) /\ b \in BOOLEAN
        /\ n \in 1 .. N - 1 /\ m \in 1 .. N /\ <<s, n>> \in Region(s, a, a + N)
    BY <1>s, <1>3, <1>4, <1>5, <1>11, <1>q, <1>23
  <2>2. /\ \A q \in PageId : PopOn(popped, q) => q \in Region(s, a, a + N)
        /\ \A t : t # s => Lo(popped, t) = 0
    BY <1>6
  <2>3. /\ Tiling(Ext(pages', popped', s), 0)
        /\ \A x \in a .. a + N - 1 : Ext(pages', popped', s)[x] # 0 =>
             Span(pages', s, x, Ext(pages', popped', s)[x], Class(pages', popped', s, x))
    BY <1>11, <1>15, <1>16, <1>g
  <2>4. /\ \A q \in Region(s, a, a + N) :
             /\ ~pages[q].is_used /\ ~pages'[q].is_used
             /\ q \in FreeSpans(pages, popped) <=> q \in P
             /\ q \in FreeSpans(pages', popped') <=> q \in P
        /\ P \subseteq Region(s, a, a + N)
    BY <1>11, <1>17, <1>P
  <2>5. Recounted(popped, popped', used, used', s, 0) /\ used' \in [DOMAIN used' -> Int]
    BY <1>11, <1>22
  <2>6. (FreeSpans(pages, popped) \ P) \cup P = FreeSpans(pages, popped)
    BY <1>P
  <2>7. /\ Family(pages', unused_headers', unused_lists', Sbin,
                  (FreeSpans(pages, popped) \ P) \cup P, FreeKey(pages'))
        /\ Family(pages', used_headers', used_lists', UsedBin,
                  ListedPages(pages, popped), PageKey(pages'))
    BY <1>2, <1>20, <1>21, <2>6
  <2> QED BY <1>9, <1>24, <1>25, <2>1, <2>2, <2>3, <2>4, <2>5, <2>7 DEF Divide
<1> QED BY <1>26, Divides

LEMMA SplitStep == ASSUME OrgInv, NEW m \in 1 .. N, split_page(m) PROVE OrgInv'
<1>1. popped.tag = "VeryUnready"
  BY DEF split_page
<1>s. PICK s : s = popped.seg
  OBVIOUS
<1>a. PICK a : a = popped.start
  OBVIOUS
<1>n. PICK n : n = popped.count
  OBVIOUS
<1>b. PICK b \in BOOLEAN : GoneHere(s, a, n, b)
  BY <1>1, <1>s, <1>a, <1>n, GoneAt
<1>2. /\ popped = VeryUnready(s, a, n, b)
      /\ s \in DOMAIN used /\ s \in Segment /\ a \in Slice /\ a # 0 /\ a \in 1 .. N - 1
      /\ n \in 1 .. N - a /\ n # 0
      /\ Ext(pages, popped, s)[a] = n /\ Class(pages, popped, s, a) = "gone"
      /\ Span(pages, s, a, n, "gone") /\ SegmentOK(pages, popped, s)
  BY <1>b DEF GoneHere
<1>c. PICK c : c = a + m
  OBVIOUS
<1>k. PICK k : k = n - m
  OBVIOUS
<1>3. /\ ~b /\ m < n
      /\ EntersUnused(s, c, k)
      /\ popped' = VeryUnready(s, a, m, b)
      /\ UNCHANGED <<used, used_headers, used_lists>>
  <2>1. (popped.ec <=> b) /\ popped.seg = s /\ popped.start = a /\ popped.count = n
    BY <1>2, PopGone
  <2>2. ~popped.ec /\ m < n /\ EntersUnused(s, c, k)
        /\ UNCHANGED <<used, used_headers, used_lists>>
    BY <2>1, <1>c, <1>k DEF split_page
  <2>3. popped' = [popped EXCEPT !.count = m]
    BY DEF split_page
  <2>4. popped' = VeryUnready(s, a, m, b)
    BY <1>2, <2>3 DEF VeryUnready
  <2> QED BY <2>1, <2>2, <2>4
<1>f. /\ a \in Nat /\ n \in Nat /\ N \in Nat /\ a + n \in 0 .. N
  BY <1>2, FirstIn
<1>4. /\ m \in Nat /\ 1 <= m /\ c \in Slice /\ c \in Nat /\ c # 0 /\ a < c /\ k \in Nat /\ 1 <= k
      /\ k \in 1 .. N - c /\ m \in 1 .. N - a /\ c + k = a + n /\ a + m = c
  BY <1>2, <1>3, <1>c, <1>k, <1>f DEF Slice
<1>5. Span(pages, s, c, k, "gone")
  <2>1. ASSUME NEW x \in c .. c + k - 1 PROVE Piece(pages[<<s, x>>], x - c, k, "gone")
    <3>1. x \in a .. a + n - 1
      BY <1>4, <1>f
    <3>2. Empty(pages[<<s, x>>])
      <4>1. Span(pages, s, a, n, "gone") /\ a \in Int /\ n \in Int
        BY <1>2, <1>f
      <4> QED BY <4>1, <3>1, GoneIs
    <3> QED BY <3>2, GoneIsEmpty
  <2> QED BY <2>1 DEF Span
<1>6. /\ pages' \in PagesType
      /\ \A q \in PageId : q \notin Region(s, c, c + k) => SameShape(pages[q], pages'[q])
      /\ Span(pages', s, c, k, "free")
      /\ Family(pages', unused_headers', unused_lists', Sbin,
                FreeSpans(pages, popped) \cup {<<s, c>>}, FreeKey(pages'))
      /\ Family(pages', used_headers', used_lists', UsedBin,
                ListedPages(pages, popped), PageKey(pages'))
  BY <1>2, <1>3, <1>4, <1>5, Entering
<1>7. Span(pages', s, a, m, "gone")
  <2>1. ASSUME NEW x \in a .. a + m - 1 PROVE Piece(pages'[<<s, x>>], x - a, m, "gone")
    <3>1. x \in a .. a + n - 1 /\ x \in Slice /\ x < c
      BY <1>4, <1>f DEF Slice
    <3>2. Empty(pages[<<s, x>>])
      <4>1. Span(pages, s, a, n, "gone") /\ a \in Int /\ n \in Int
        BY <1>2, <1>f
      <4> QED BY <4>1, <3>1, GoneIs
    <3>3. <<s, x>> \in PageId /\ <<s, x>> \notin Region(s, c, c + k)
      BY <1>2, <1>4, <3>1, SliceOf
    <3>4. Empty(pages'[<<s, x>>])
      BY <1>6, <3>2, <3>3, EmptySame
    <3> QED BY <3>4, GoneIsEmpty
  <2> QED BY <2>1 DEF Span
<1>q. PICK pop2 : pop2 = VeryUnready(s, a, m, b)
  OBVIOUS
<1>8. popped' = pop2
  BY <1>3, <1>q
<1>g. PICK g : g = Ext(pages', pop2, s)
  OBVIOUS
<1>e. PICK e : e = Ext(pages, popped, s)
  OBVIOUS
<1>9. /\ g[a] = m /\ Class(pages', pop2, s, a) = "gone"
      /\ \A x \in a + 1 .. a + m - 1 : g[x] = 0
      /\ \A q \in Region(s, a, a + m) : ~pages'[q].is_used /\ q \notin FreeSpans(pages', pop2)
  BY <1>2, <1>4, <1>6, <1>7, <1>g, <1>q, HoleSpan
<1>10. /\ g[c] = k /\ Class(pages', pop2, s, c) = "free"
       /\ \A x \in c + 1 .. c + k - 1 : g[x] = 0
       /\ \A q \in Region(s, c, c + k) :
            ~pages'[q].is_used /\ (q \in FreeSpans(pages', pop2) <=> q = <<s, c>>)
  <2>c. PICK d : d = "free"
    OBVIOUS
  <2>1. d = (IF c = 0 THEN "head" ELSE "free") /\ Span(pages', s, c, k, d)
    BY <1>4, <1>6, <2>c
  <2>2. \A y \in c .. c + k - 1 : y # a
    BY <1>4
  <2>3. /\ g[c] = k /\ Class(pages', pop2, s, c) = d
        /\ \A y \in c + 1 .. c + k - 1 : g[y] = 0
        /\ \A q \in Region(s, c, c + k) :
             ~pages'[q].is_used /\ (q \in FreeSpans(pages', pop2) <=> q = <<s, c>> /\ d = "free")
    BY <1>2, <1>4, <1>6, <1>g, <1>q, <2>1, <2>2, BesideHole
  <2> QED BY <2>3, <2>c
<1>11. /\ \A q \in PageId : PopOn(popped, q) <=> q = <<s, a>>
       /\ \A q \in PageId : PopOn(pop2, q) <=> q = <<s, a>>
       /\ \A t : Lo(popped, t) = 0 /\ Lo(pop2, t) = 0
       /\ \A t : Ec(pop2, t) = Ec(popped, t)
  BY <1>2, <1>q, PopGone
<1>12. /\ <<s, a>> \in PageId /\ <<s, c>> \in PageId
       /\ <<s, a>> \in Region(s, a, a + n) /\ <<s, c>> \in Region(s, a, a + n)
  BY <1>2, <1>4, <1>f, SliceOf
<1>13. ASSUME NEW q \in PageId, q \notin Region(s, a, a + n) PROVE SameShape(pages[q], pages'[q])
  <2>1. CASE q \in Region(s, c, c + k)
    <3>1. q = <<s, q[2]>> /\ q[2] \in Slice /\ q[2] \in c .. c + k - 1
      BY <1>2, <1>4, <2>1, RegionSlice
    <3>x. PICK x \in Slice : x = q[2]
      BY <3>1
    <3>2. x \in Nat /\ a <= x /\ x < a + n
      BY <1>4, <1>f, <3>1, <3>x
    <3> QED BY <1>2, <1>4, <1>13, <1>f, <3>1, <3>x, <3>2, SliceOf
  <2> QED BY <1>6, <2>1
<1>14. Quiet(pages, pages', popped, pop2, Region(s, a, a + n))
  BY <1>11, <1>12, <1>13, QuietIs
<1>15. Tiling(e, 0) /\ e[a] = n /\ \A x \in a + 1 .. a + n - 1 : x \in Slice /\ e[x] = 0
  <2>1. Tiling(e, 0)
    BY <1>2, <1>11, <1>e DEF SegmentOK
  <2>2. pages \in PagesType
    BY InvIs
  <2> QED BY <1>2, <1>e, <2>1, <2>2, SpanThere
<1>16. \A x \in Slice : g[x] = IF x = a THEN m ELSE IF x = c THEN k ELSE e[x]
  <2> SUFFICES ASSUME NEW x \in Slice
               PROVE  g[x] = IF x = a THEN m ELSE IF x = c THEN k ELSE e[x]
    OBVIOUS
  <2>1. CASE x \in a .. a + n - 1
    <3>1. \/ x = a
          \/ x = c /\ x # a
          \/ x \in a + 1 .. a + m - 1 /\ x # a /\ x # c
          \/ x \in c + 1 .. c + k - 1 /\ x # a /\ x # c
      BY <1>4, <1>f, <2>1
    <3>2. x # a => e[x] = 0
      BY <1>15, <1>f, <2>1
    <3> QED BY <1>9, <1>10, <3>1, <3>2
  <2>2. CASE x \notin a .. a + n - 1
    <3>1. x # a /\ x # c
      BY <1>4, <1>f, <2>2
    <3>2. <<s, x>> \notin Region(s, a, a + n)
      <4>1. x \in Nat /\ ~(a <= x /\ x < a + n)
        BY <1>f, <2>2 DEF Slice
      <4> QED BY <1>2, <1>f, <4>1, SliceOf
    <3>3. g[x] = e[x]
      BY <1>2, <1>14, <1>e, <1>g, <3>2, OutsideSame
    <3> QED BY <3>1, <3>3
  <2> QED BY <2>1, <2>2
<1>17. Tiling(g, 0)
  <2>1. ASSUME NEW x \in Slice PROVE g[x] \in 0 .. N
    <3>1. e[x] \in 0 .. N /\ m \in 0 .. N /\ k \in 0 .. N
      BY <1>4, <1>f, <1>15 DEF Tiling
    <3> QED BY <1>16, <3>1
  <2>2. g \in [Slice -> 0 .. N]
    BY <1>g, <2>1, ExtFunction
  <2>z. PICK z : z = 0
    OBVIOUS
  <2>3. Tiling(e, z)
    BY <1>15, <2>z
  <2>4. \A x \in Slice : g[x] = IF x = a THEN m ELSE IF x = a + m THEN n - m ELSE e[x]
    BY <1>16, <1>c, <1>k
  <2>5. n = e[a] /\ m < n
    BY <1>3, <1>15
  <2> QED BY <1>2, <2>2, <2>3, <2>4, <2>5, <2>z, TileSplit
<1>18. ASSUME NEW x \in a .. a + n - 1, g[x] # 0
       PROVE  Span(pages', s, x, g[x], Class(pages', pop2, s, x))
  <2>1. x \in Slice /\ (x # a => e[x] = 0)
    BY <1>15, <1>f, <1>2
  <2>2. x = a \/ x = c
    BY <1>16, <1>18, <2>1
  <2> QED BY <1>6, <1>7, <1>9, <1>10, <2>2
<1>19. ASSUME NEW q \in Region(s, a, a + n)
       PROVE  /\ ~pages[q].is_used /\ q \notin FreeSpans(pages, popped)
              /\ ~pages'[q].is_used /\ (q \in FreeSpans(pages', pop2) <=> q = <<s, c>>)
  <2>1. q \in PageId /\ q = <<s, q[2]>> /\ q[2] \in Slice /\ q[2] \in a .. a + n - 1
    BY <1>2, RegionSlice
  <2>x. PICK x \in Slice : x = q[2]
    BY <2>1
  <2>2. q = <<s, x>> /\ x \in Nat /\ a <= x /\ x < a + n
    BY <1>f, <2>1, <2>x DEF Slice
  <2>3. q \in Region(s, a, a + m) \/ q \in Region(s, c, c + k)
    BY <1>2, <1>4, <1>f, <2>2, SliceOf
  <2>4. q \in Region(s, a, a + m) => q # <<s, c>>
    BY <1>2, <1>4, <1>f, SliceOf
  <2>5. Empty(pages[q])
    <3>1. Span(pages, s, a, n, "gone") /\ a \in Int /\ n \in Int
      BY <1>2, <1>f
    <3> QED BY <3>1, <2>1, GoneIs
  <2> QED BY <1>9, <1>10, <2>3, <2>4, <2>5, EmptyAt
<1>20. Recounted(popped, popped', used, used', s, 0) /\ used' \in [DOMAIN used' -> Int]
  <2>1. used[s] \in Int /\ used \in [DOMAIN used -> Int]
    BY <1>2, InvIs, SoundNow
  <2>2. Ec(popped, s) \in Int
    BY EcIs
  <2> QED BY <1>3, <1>8, <1>11, <2>1, <2>2 DEF Recounted
<1>P. PICK P : P = {}
  OBVIOUS
<1>Q. PICK Q : Q = {<<s, c>>}
  OBVIOUS
<1>21. Divide(s, a, n, P, Q, a, m, b)
  <2>1. /\ s \in DOMAIN used /\ s \in Segment /\ a \in Slice /\ n \in 1 .. N - a
        /\ popped' = VeryUnready(s, a, m, b) /\ b \in BOOLEAN
        /\ a \in 1 .. N - 1 /\ m \in 1 .. N /\ <<s, a>> \in Region(s, a, a + n)
    BY <1>2, <1>3, <1>12
  <2>2. /\ \A q \in PageId : PopOn(popped, q) => q \in Region(s, a, a + n)
        /\ \A t : t # s => Lo(popped, t) = 0
    BY <1>11, <1>12
  <2>3. /\ Tiling(Ext(pages', popped', s), 0)
        /\ \A x \in a .. a + n - 1 : Ext(pages', popped', s)[x] # 0 =>
             Span(pages', s, x, Ext(pages', popped', s)[x], Class(pages', popped', s, x))
    BY <1>8, <1>17, <1>18, <1>g
  <2>4. /\ \A q \in Region(s, a, a + n) :
             /\ ~pages[q].is_used /\ ~pages'[q].is_used
             /\ q \in FreeSpans(pages, popped) <=> q \in P
             /\ q \in FreeSpans(pages', popped') <=> q \in Q
        /\ P \subseteq Region(s, a, a + n) /\ Q \subseteq Region(s, a, a + n)
    BY <1>8, <1>12, <1>19, <1>P, <1>Q
  <2>5. Cut(Ext(pages, popped, s), a)
    <3>1. pages \in PagesType
      BY InvIs
    <3> QED BY <1>2, <3>1, SpanThere
  <2>6. (FreeSpans(pages, popped) \ P) \cup Q = FreeSpans(pages, popped) \cup {<<s, c>>}
    BY <1>P, <1>Q
  <2>7. /\ Family(pages', unused_headers', unused_lists', Sbin,
                  (FreeSpans(pages, popped) \ P) \cup Q, FreeKey(pages'))
        /\ Family(pages', used_headers', used_lists', UsedBin,
                  ListedPages(pages, popped), PageKey(pages'))
    BY <1>6, <2>6
  <2> QED BY <1>6, <1>13, <1>20, <2>1, <2>2, <2>3, <2>4, <2>5, <2>7 DEF Divide
<1> QED BY <1>21, Divides

-----------------------------------------------------------------------------
(* Coalescing: a free span beside the popped range is added to it           *)

\* the place of a free span in its list is found
LEMMA ListIdxIs ==
  ASSUME OrgInv, NEW p \in FreeSpans(pages, popped), NEW b, b = SmallestSbin[pages[p].count]
  PROVE  /\ b \in Sbin
         /\ ListIdx(p, b) \in 1 .. Len(unused_lists[b])
         /\ unused_lists[b][ListIdx(p, b)] = p
<1>1. Family(pages, unused_headers, unused_lists, Sbin, FreeSpans(pages, popped), FreeKey(pages))
  BY SoundNow
<1>2. FreeKey(pages)[p] = b
  BY DEF FreeKey, FreeSpans
<1>3. b \in Sbin /\ \E j \in 1 .. Len(unused_lists[b]) : unused_lists[b][j] = p
  BY <1>1, <1>2 DEF Family
<1>4. unused_lists[b] \in Seq(PageId)
  BY <1>1, <1>3 DEF Family
<1>5. DOMAIN unused_lists[b] = 1 .. Len(unused_lists[b])
  BY <1>4
<1>6. \E j \in DOMAIN unused_lists[b] : unused_lists[b][j] = p
  BY <1>3, <1>5
<1>7. ListIdx(p, b) \in DOMAIN unused_lists[b] /\ unused_lists[b][ListIdx(p, b)] = p
  BY <1>6 DEF ListIdx
<1> QED BY <1>3, <1>5, <1>7

\* the popped range has n slices from a, the free span p has m slices from f; one
\* ends where the other begins, and together they are the t slices from l
Merge(s, a, n, b, p, f, m, l, t) ==
  /\ GoneHere(s, a, n, b) /\ p \in FreeSpans(pages, popped) /\ Heads(pages, p, s, f, m)
  /\ \/ l = a /\ a + n = f
     \/ l = f /\ f + m = a
  /\ t = n + m
  /\ LET k == SmallestSbin[pages[p].count] IN LeavesUnused(p, k, ListIdx(p, k))
  /\ popped' = VeryUnready(s, l, t, b)
  /\ UNCHANGED <<used, used_headers, used_lists>>

LEMMA Merges ==
  ASSUME OrgInv, NEW s, NEW a, NEW n, NEW b, NEW p, NEW f, NEW m, NEW l, NEW t,
         Merge(s, a, n, b, p, f, m, l, t)
  PROVE  OrgInv'
<1>1. /\ GoneHere(s, a, n, b) /\ p \in FreeSpans(pages, popped) /\ Heads(pages, p, s, f, m)
      /\ \/ l = a /\ a + n = f
         \/ l = f /\ f + m = a
      /\ t = n + m
      /\ popped' = VeryUnready(s, l, t, b)
      /\ UNCHANGED <<used, used_headers, used_lists>>
  BY DEF Merge
<1>2. /\ popped = VeryUnready(s, a, n, b) /\ b \in BOOLEAN
      /\ s \in DOMAIN used /\ s \in Segment /\ a \in Slice /\ a # 0 /\ a \in 1 .. N - 1
      /\ n \in 1 .. N - a /\ n # 0
      /\ Ext(pages, popped, s)[a] = n
      /\ Span(pages, s, a, n, "gone") /\ SegmentOK(pages, popped, s)
  BY <1>1 DEF GoneHere
<1>3. /\ p \in PageId /\ p = <<s, f>> /\ f \in Slice /\ f # 0 /\ m # 0 /\ m \in 1 .. N - f
      /\ Ext(pages, popped, s)[f] = m
  BY <1>1, FreeAt
<1>k. PICK k : k = SmallestSbin[pages[p].count]
  OBVIOUS
<1>j. PICK j : j = ListIdx(p, k)
  OBVIOUS
<1>4. /\ k \in Sbin /\ j \in 1 .. Len(unused_lists[k]) /\ p = unused_lists[k][j]
      /\ LeavesUnused(p, k, j)
  <2>1. LeavesUnused(p, k, j)
    BY <1>k, <1>j DEF Merge
  <2> QED BY <1>1, <1>k, <1>j, <2>1, ListIdxIs
<1>5. /\ pages' \in PagesType
      /\ \A q \in PageId : q \notin Region(s, f, f + m) => SameShape(pages[q], pages'[q])
      /\ Span(pages', s, f, m, "gone")
      /\ Family(pages', unused_headers', unused_lists', Sbin,
                FreeSpans(pages, popped) \ {p}, FreeKey(pages'))
      /\ Family(pages', used_headers', used_lists', UsedBin,
                ListedPages(pages, popped), PageKey(pages'))
  BY <1>1, <1>4, Leaving
<1>f. /\ a \in Nat /\ n \in Nat /\ N \in Nat /\ f \in Nat /\ m \in Nat
      /\ a + n \in 0 .. N /\ f + m \in 0 .. N /\ 1 <= n /\ 1 <= m
  BY <1>2, <1>3, FirstIn
<1>6. /\ l \in Nat /\ t \in Nat /\ l \in Slice /\ l \in 1 .. N - 1 /\ t \in 1 .. N - l /\ t \in 1 .. N
      /\ l <= a /\ l <= f /\ a + n <= l + t /\ f + m <= l + t
      /\ \A x \in Int : l <= x /\ x < l + t => (a <= x /\ x < a + n) \/ (f <= x /\ x < f + m)
      /\ \A x \in Int : a <= x /\ x < a + n => ~(f <= x /\ x < f + m)
  BY <1>1, <1>2, <1>3, <1>f DEF Slice
<1>7. Span(pages', s, l, t, "gone")
  <2>1. ASSUME NEW x \in l .. l + t - 1 PROVE Piece(pages'[<<s, x>>], x - l, t, "gone")
    <3>0. x \in Slice /\ x \in Int /\ l <= x /\ x < l + t
      BY <1>6, <1>f DEF Slice
    <3>1. CASE f <= x /\ x < f + m
      <4>1. x \in f .. f + m - 1
        BY <1>f, <3>0, <3>1
      <4>2. Empty(pages'[<<s, x>>])
        <5>1. Span(pages', s, f, m, "gone") /\ f \in Int /\ m \in Int
          BY <1>5, <1>f
        <5> QED BY <5>1, <4>1, GoneIs
      <4> QED BY <4>2, GoneIsEmpty
    <3>2. CASE a <= x /\ x < a + n
      <4>1. x \in a .. a + n - 1 /\ ~(f <= x /\ x < f + m)
        BY <1>6, <1>f, <3>0, <3>2
      <4>2. Empty(pages[<<s, x>>])
        <5>1. Span(pages, s, a, n, "gone") /\ a \in Int /\ n \in Int
          BY <1>2, <1>f
        <5> QED BY <5>1, <4>1, GoneIs
      <4>3. <<s, x>> \in PageId /\ <<s, x>> \notin Region(s, f, f + m)
        BY <1>2, <1>f, <3>0, <4>1, SliceOf
      <4>4. Empty(pages'[<<s, x>>])
        BY <1>5, <4>2, <4>3, EmptySame
      <4> QED BY <4>4, GoneIsEmpty
    <3> QED BY <1>6, <3>0, <3>1, <3>2
  <2> QED BY <2>1 DEF Span
<1>q. PICK pop2 : pop2 = VeryUnready(s, l, t, b)
  OBVIOUS
<1>8. popped' = pop2
  BY <1>1, <1>q
<1>g. PICK g : g = Ext(pages', pop2, s)
  OBVIOUS
<1>e. PICK e : e = Ext(pages, popped, s)
  OBVIOUS
<1>9. /\ g[l] = t /\ Class(pages', pop2, s, l) = "gone"
      /\ \A x \in l + 1 .. l + t - 1 : g[x] = 0
      /\ \A q \in Region(s, l, l + t) : ~pages'[q].is_used /\ q \notin FreeSpans(pages', pop2)
  BY <1>2, <1>5, <1>6, <1>7, <1>g, <1>q, HoleSpan
<1>10. /\ \A q \in PageId : PopOn(popped, q) <=> q = <<s, a>>
       /\ \A q \in PageId : PopOn(pop2, q) <=> q = <<s, l>>
       /\ \A x : Lo(popped, x) = 0 /\ Lo(pop2, x) = 0
       /\ \A x : Ec(pop2, x) = Ec(popped, x)
  BY <1>2, <1>q, PopGone
<1>11. /\ <<s, a>> \in PageId /\ <<s, l>> \in PageId
       /\ <<s, a>> \in Region(s, l, l + t) /\ <<s, l>> \in Region(s, l, l + t)
       /\ <<s, f>> \in Region(s, l, l + t)
  <2>1. l <= a /\ a < l + t /\ l <= l /\ l < l + t /\ l <= f /\ f < l + t
    BY <1>6, <1>f
  <2> QED BY <1>2, <1>3, <1>6, <1>f, <2>1, SliceOf
<1>12. ASSUME NEW q \in PageId, q \notin Region(s, l, l + t) PROVE SameShape(pages[q], pages'[q])
  <2>1. CASE q \in Region(s, f, f + m)
    <3>1. q = <<s, q[2]>> /\ q[2] \in Slice /\ q[2] \in f .. f + m - 1
      BY <1>2, <1>3, <2>1, RegionSlice
    <3>x. PICK x \in Slice : x = q[2]
      BY <3>1
    <3>2. x \in Nat /\ l <= x /\ x < l + t
      BY <1>6, <1>f, <3>1, <3>x
    <3> QED BY <1>2, <1>6, <1>12, <1>f, <3>1, <3>x, <3>2, SliceOf
  <2> QED BY <1>5, <2>1
<1>13. Quiet(pages, pages', popped, pop2, Region(s, l, l + t))
  BY <1>10, <1>11, <1>12, QuietIs
<1>14. /\ Tiling(e, 0) /\ e[a] = n /\ e[f] = m
       /\ \A x \in a + 1 .. a + n - 1 : e[x] = 0
       /\ \A x \in f + 1 .. f + m - 1 : e[x] = 0
       /\ Cut(e, a) /\ Cut(e, f)
  <2>1. Tiling(e, 0)
    BY <1>2, <1>10, <1>e DEF SegmentOK
  <2>2. pages \in PagesType
    BY InvIs
  <2>3. \A x \in a + 1 .. a + n - 1 : e[x] = 0
    BY <1>2, <1>e, <2>2, SpanThere
  <2>4. \A x \in f + 1 .. f + m - 1 : e[x] = 0
    BY <1>2, <1>3, <1>e, <2>2, SpanThere
  <2>5. Cut(e, a) /\ Cut(e, f)
    BY <1>2, <1>3, <1>e, <2>2, SpanThere
  <2> QED BY <1>2, <1>3, <1>e, <2>1, <2>3, <2>4, <2>5
<1>15. ASSUME NEW x \in Slice, x # a, x # f, x # l
       PROVE  g[x] = e[x]
  <2>0. x \in Int
    BY <1>f DEF Slice
  <2>1. CASE l <= x /\ x < l + t
    <3>1. x \in l + 1 .. l + t - 1
      BY <1>6, <1>15, <2>0, <2>1
    <3>2. x \in a + 1 .. a + n - 1 \/ x \in f + 1 .. f + m - 1
      BY <1>6, <1>15, <1>f, <2>0, <2>1
    <3> QED BY <1>9, <1>14, <3>1, <3>2
  <2>2. CASE ~(l <= x /\ x < l + t)
    <3>1. <<s, x>> \notin Region(s, l, l + t)
      BY <1>2, <1>6, <2>2, SliceOf
    <3> QED BY <1>2, <1>13, <1>e, <1>g, <3>1, OutsideSame
  <2> QED BY <2>1, <2>2
<1>16. Tiling(g, 0) /\ Cut(e, l) /\ \A x \in l .. l + t - 1 : g[x] # 0 => x = l
  <2>0. \A x \in l .. l + t - 1 : g[x] # 0 => x = l
    <3>1. \A x \in l .. l + t - 1 : x = l \/ x \in l + 1 .. l + t - 1
      BY <1>6
    <3> QED BY <1>9, <3>1
  <2>1. e \in [Slice -> 0 .. N]
    BY <1>14 DEF Tiling
  <2>2. CASE l = a /\ a + n = f
    <3>1. f \in l + 1 .. l + t - 1
      BY <1>1, <1>f, <2>2
    <3>2. \A x \in Slice : g[x] = IF x = a THEN n + m ELSE IF x = f THEN 0 ELSE e[x]
      BY <1>1, <1>9, <1>15, <2>2, <3>1
    <3>3. n + m \in 0 .. N
      BY <1>1, <1>6
    <3>4. g \in [Slice -> 0 .. N]
      <4>1. 0 \in 0 .. N
        BY <1>f
      <4>2. \A x \in Slice : g[x] \in 0 .. N
        BY <2>1, <3>2, <3>3, <4>1
      <4> QED BY <1>g, <4>2, ExtFunction
    <3>z. PICK z : z = 0
      OBVIOUS
    <3>5. Tiling(e, z) /\ n = e[a] /\ m = e[f] /\ f = a + n
      BY <1>14, <2>2, <3>z
    <3>6. Tiling(g, z)
      BY <1>2, <1>3, <3>2, <3>4, <3>5, TileMerge
    <3> QED BY <1>14, <2>0, <2>2, <3>6, <3>z
  <2>3. CASE l = f /\ f + m = a
    <3>1. a \in l + 1 .. l + t - 1
      BY <1>1, <1>f, <2>3
    <3>2. \A x \in Slice : g[x] = IF x = f THEN m + n ELSE IF x = a THEN 0 ELSE e[x]
      <4>1. n + m = m + n
        BY <1>f
      <4> QED BY <1>1, <1>9, <1>15, <2>3, <3>1, <4>1
    <3>3. m + n \in 0 .. N
      BY <1>1, <1>6, <1>f
    <3>4. g \in [Slice -> 0 .. N]
      <4>1. 0 \in 0 .. N
        BY <1>f
      <4>2. \A x \in Slice : g[x] \in 0 .. N
        BY <2>1, <3>2, <3>3, <4>1
      <4> QED BY <1>g, <4>2, ExtFunction
    <3>z. PICK z : z = 0
      OBVIOUS
    <3>5. Tiling(e, z) /\ n = e[a] /\ m = e[f] /\ a = f + m
      BY <1>14, <2>3, <3>z
    <3>6. Tiling(g, z)
      BY <1>2, <1>3, <3>2, <3>4, <3>5, TileMerge
    <3> QED BY <1>14, <2>0, <2>3, <3>6, <3>z
  <2> QED BY <1>1, <2>2, <2>3
<1>17. ASSUME NEW q \in Region(s, l, l + t)
       PROVE  ~pages[q].is_used /\ (q \in FreeSpans(pages, popped) <=> q = p)
  <2>1. q \in PageId /\ q = <<s, q[2]>> /\ q[2] \in Slice /\ q[2] \in l .. l + t - 1
    BY <1>2, <1>6, RegionSlice
  <2>x. PICK x \in Slice : x = q[2]
    BY <2>1
  <2>2. q = <<s, x>> /\ x \in Int /\ l <= x /\ x < l + t
    BY <1>6, <1>f, <2>1, <2>x DEF Slice
  <2>3. CASE f <= x /\ x < f + m
    <3>1. q \in Region(s, f, f + m)
      BY <1>2, <1>f, <2>2, <2>3, SliceOf
    <3> QED BY <1>1, <3>1, FreeRegion
  <2>4. CASE a <= x /\ x < a + n
    <3>1. x \in a .. a + n - 1 /\ x # f
      BY <1>6, <1>f, <2>2, <2>4
    <3>2. Empty(pages[q])
      <4>1. Span(pages, s, a, n, "gone") /\ a \in Int /\ n \in Int
        BY <1>2, <1>f
      <4> QED BY <4>1, <2>2, <3>1, GoneIs
    <3>3. q # p
      BY <1>3, <2>2, <3>1, PageIdIs
    <3> QED BY <3>2, <3>3, EmptyAt
  <2> QED BY <1>6, <2>2, <2>3, <2>4
<1>18. Recounted(popped, popped', used, used', s, 0) /\ used' \in [DOMAIN used' -> Int]
  <2>1. used[s] \in Int /\ used \in [DOMAIN used -> Int]
    BY <1>2, InvIs, SoundNow
  <2>2. Ec(popped, s) \in Int
    BY EcIs
  <2> QED BY <1>1, <1>8, <1>10, <2>1, <2>2 DEF Recounted
<1>P. PICK P : P = {p}
  OBVIOUS
<1>Q. PICK Q : Q = {}
  OBVIOUS
<1>19. Divide(s, l, t, P, Q, l, t, b)
  <2>1. /\ s \in DOMAIN used /\ s \in Segment /\ l \in Slice /\ t \in 1 .. N - l
        /\ popped' = VeryUnready(s, l, t, b) /\ b \in BOOLEAN
        /\ l \in 1 .. N - 1 /\ t \in 1 .. N /\ <<s, l>> \in Region(s, l, l + t)
    BY <1>1, <1>2, <1>6, <1>11
  <2>2. /\ \A q \in PageId : PopOn(popped, q) => q \in Region(s, l, l + t)
        /\ \A x : x # s => Lo(popped, x) = 0
    BY <1>10, <1>11
  <2>3. /\ Tiling(Ext(pages', popped', s), 0)
        /\ \A x \in l .. l + t - 1 : Ext(pages', popped', s)[x] # 0 =>
             Span(pages', s, x, Ext(pages', popped', s)[x], Class(pages', popped', s, x))
    BY <1>7, <1>8, <1>9, <1>16, <1>g
  <2>4. /\ \A q \in Region(s, l, l + t) :
             /\ ~pages[q].is_used /\ ~pages'[q].is_used
             /\ q \in FreeSpans(pages, popped) <=> q \in P
             /\ q \in FreeSpans(pages', popped') <=> q \in Q
        /\ P \subseteq Region(s, l, l + t) /\ Q \subseteq Region(s, l, l + t)
    BY <1>3, <1>8, <1>9, <1>11, <1>17, <1>P, <1>Q
  <2>5. Cut(Ext(pages, popped, s), l)
    BY <1>16, <1>e
  <2>6. (FreeSpans(pages, popped) \ P) \cup Q = FreeSpans(pages, popped) \ {p}
    BY <1>P, <1>Q
  <2>7. /\ Family(pages', unused_headers', unused_lists', Sbin,
                  (FreeSpans(pages, popped) \ P) \cup Q, FreeKey(pages'))
        /\ Family(pages', used_headers', used_lists', UsedBin,
                  ListedPages(pages, popped), PageKey(pages'))
    BY <1>5, <2>6
  <2> QED BY <1>5, <1>12, <1>18, <2>1, <2>2, <2>3, <2>4, <2>5, <2>7 DEF Divide
<1> QED BY <1>19, Divides

\* where a span begins beside the popped range, its header leads to itself
LEMMA BesideGone ==
  ASSUME OrgInv, NEW s, NEW a, NEW n, NEW b, GoneHere(s, a, n, b),
         NEW x \in Slice, x # a, Ext(pages, popped, s)[x] # 0
  PROVE  /\ <<s, x>> \in PageId /\ pages[<<s, x>>].offset = 0
         /\ pages[<<s, x>>].count = Ext(pages, popped, s)[x]
         /\ x # 0 /\ ~pages[<<s, x>>].is_used => <<s, x>> \in FreeSpans(pages, popped)
<1>1. popped = VeryUnready(s, a, n, b) /\ b \in BOOLEAN /\ s \in Segment
  BY DEF GoneHere
<1>2. /\ ~Hole(popped, s, x)
      /\ \A q : ~IsReady(popped, q)
  BY <1>1, PopGone
<1>3. pages \in PagesType
  BY InvIs
<1>4. <<s, x>> \in PageId /\ pages[<<s, x>>].offset = 0
  BY <1>1, <1>2, <1>3, ExtIs
<1>5. pages[<<s, x>>].count = Ext(pages, popped, s)[x]
  BY <1>1, <1>2, <1>3, <1>4, ExtIs
<1>6. ASSUME x # 0, ~pages[<<s, x>>].is_used PROVE <<s, x>> \in FreeSpans(pages, popped)
  <2>1. <<s, x>>[2] # 0
    BY <1>6
  <2> QED BY <1>2, <1>4, <1>6, <2>1 DEF FreeSpans
<1> QED BY <1>4, <1>5, <1>6

LEMMA MergeAfterIs ==
  ASSUME OrgInv, merge_with_after
  PROVE  \E s, a, n, b, p, f, m, l, t : Merge(s, a, n, b, p, f, m, l, t)
<1>1. popped.tag = "VeryUnready"
  BY DEF merge_with_after
<1>s. PICK s : s = popped.seg
  OBVIOUS
<1>a. PICK a : a = popped.start
  OBVIOUS
<1>n. PICK n : n = popped.count
  OBVIOUS
<1>b. PICK b \in BOOLEAN : GoneHere(s, a, n, b)
  BY <1>1, <1>s, <1>a, <1>n, GoneAt
<1>2. /\ popped = VeryUnready(s, a, n, b)
      /\ s \in Segment /\ a \in Slice /\ n \in 1 .. N - a /\ n # 0
      /\ Ext(pages, popped, s)[a] = n /\ SegmentOK(pages, popped, s)
  BY <1>b DEF GoneHere
<1>f. PICK f : f = a + n
  OBVIOUS
<1>p. PICK p : p = <<s, f>>
  OBVIOUS
<1>m. PICK m : m = pages[p].count
  OBVIOUS
<1>3. /\ f < SLICES_PER_SEGMENT /\ ~pages[p].is_used
      /\ LET k == SmallestSbin[pages[p].count] IN LeavesUnused(p, k, ListIdx(p, k))
      /\ popped' = [popped EXCEPT !.count = @ + m]
      /\ UNCHANGED <<used, used_headers, used_lists>>
  BY <1>s, <1>a, <1>n, <1>f, <1>p, <1>m DEF merge_with_after
<1>4. a \in Nat /\ n \in Nat /\ 1 <= n
  BY <1>2, FirstIn
<1>5. f \in Slice /\ Ext(pages, popped, s)[f] # 0 /\ f # a /\ f # 0
  <2>1. f < N
    BY <1>3 DEF N
  <2>2. pages \in PagesType
    BY InvIs
  <2>3. a + n < N
    BY <1>f, <2>1
  <2>4. a + n \in Slice /\ Ext(pages, popped, s)[a + n] # 0
    BY <1>2, <2>2, <2>3, SpanThere
  <2>5. f # a /\ f # 0
    BY <1>4, <1>f
  <2> QED BY <1>f, <2>4, <2>5
<1>6. p \in FreeSpans(pages, popped)
  BY <1>b, <1>3, <1>5, <1>p, BesideGone
<1>7. popped' = VeryUnready(s, a, n + m, b)
  BY <1>2, <1>3 DEF VeryUnready
<1>8. Heads(pages, p, s, f, m)
  BY <1>p, <1>m DEF Heads
<1>t. PICK t : t = n + m
  OBVIOUS
<1>9. Merge(s, a, n, b, p, f, m, a, t)
  BY <1>b, <1>f, <1>t, <1>3, <1>6, <1>7, <1>8 DEF Merge
<1> QED BY <1>9

LEMMA MergeAfterStep == ASSUME OrgInv, merge_with_after PROVE OrgInv'
  BY MergeAfterIs, Merges

\* the last slice of a span leads to its first one: f is where the span begins
\* that ends before slice a
Before(s, a, f) ==
  /\ f \in Slice /\ f # a /\ Ext(pages, popped, s)[f] # 0 /\ f + Ext(pages, popped, s)[f] = a
  /\ <<s, a - 1>> \in PageId
  /\ pages[<<s, a - 1>>].offset = Ext(pages, popped, s)[f] - 1
  /\ BeforeStart(s, a) = f
  /\ pages[<<s, a - 1>>].is_used <=> pages[<<s, f>>].is_used

LEMMA SpanBefore ==
  ASSUME OrgInv, NEW s, NEW a, NEW n, NEW b, GoneHere(s, a, n, b)
  PROVE  \E f \in Slice : Before(s, a, f)
<1>1. /\ popped = VeryUnready(s, a, n, b) /\ b \in BOOLEAN
      /\ s \in Segment /\ a \in Slice /\ a # 0 /\ n # 0
      /\ Ext(pages, popped, s)[a] = n /\ SegmentOK(pages, popped, s)
  BY DEF GoneHere
<1>e. PICK e : e = Ext(pages, popped, s)
  OBVIOUS
<1>2. pages \in PagesType
  BY InvIs
<1>3. Lo(popped, s) = 0 /\ \A x : x # a => ~Hole(popped, s, x)
  BY <1>1, PopGone
<1>4. PICK f \in Slice : e[f] # 0 /\ f + e[f] = a
  BY <1>1, <1>2, <1>3, <1>e, SpanThere
<1>m. PICK m : m = e[f]
  OBVIOUS
<1>c. PICK c : c = Class(pages, popped, s, f)
  OBVIOUS
<1>5. m \in 1 .. N - f /\ Span(pages, s, f, m, c)
  BY <1>1, <1>2, <1>4, <1>e, <1>m, <1>c, SpanThere
<1>6. f \in Nat /\ m \in Nat /\ 1 <= m /\ f + m = a /\ f # a /\ a \in Nat
      /\ a - 1 \in f .. f + m - 1 /\ f \in f .. f + m - 1 /\ a - 1 - f = m - 1 /\ a - 1 \in Slice
  <2>1. f \in Nat /\ m \in Nat /\ 1 <= m
    BY <1>1, <1>5, FirstIn
  <2>2. f + m = a
    BY <1>4, <1>m
  <2>3. a \in Nat /\ a < N /\ N \in Nat
    BY <1>1, PageIdIs DEF Slice
  <2>4. f # a /\ a - 1 \in f .. f + m - 1 /\ f \in f .. f + m - 1
    BY <2>1, <2>2, <2>3
  <2>5. a - 1 - f = m - 1
    BY <2>1, <2>2, <2>3
  <2>6. a - 1 \in Slice
    BY <2>1, <2>2, <2>3 DEF Slice
  <2> QED BY <2>1, <2>2, <2>3, <2>4, <2>5, <2>6
<1>7. c # "gone"
  BY <1>3, <1>6, <1>c DEF Class, Hole, IsReady, IsTaken
<1>8. /\ Piece(pages[<<s, a - 1>>], a - 1 - f, m, c)
      /\ Piece(pages[<<s, f>>], f - f, m, c)
  BY <1>5, <1>6 DEF Span
<1>9. /\ pages[<<s, a - 1>>].offset = m - 1
      /\ pages[<<s, a - 1>>].is_used <=> pages[<<s, f>>].is_used
  BY <1>6, <1>7, <1>8 DEF Piece
<1>10. BeforeStart(s, a) = f
  <2>1. (a - 1) - (m - 1) = f
    BY <1>6
  <2> QED BY <1>9, <2>1 DEF BeforeStart
<1>11. <<s, a - 1>> \in PageId
  BY <1>1, <1>6, SliceOf
<1>12. Before(s, a, f)
  BY <1>4, <1>6, <1>9, <1>10, <1>11, <1>e, <1>m DEF Before
<1> QED BY <1>12

LEMMA MergeBeforeIs ==
  ASSUME OrgInv, merge_with_before
  PROVE  \E s, a, n, b, p, f, m, l, t : Merge(s, a, n, b, p, f, m, l, t)
<1>1. popped.tag = "VeryUnready"
  BY DEF merge_with_before
<1>s. PICK s : s = popped.seg
  OBVIOUS
<1>a. PICK a : a = popped.start
  OBVIOUS
<1>n. PICK n : n = popped.count
  OBVIOUS
<1>b. PICK b \in BOOLEAN : GoneHere(s, a, n, b)
  BY <1>1, <1>s, <1>a, <1>n, GoneAt
<1>2. /\ popped = VeryUnready(s, a, n, b)
      /\ s \in Segment /\ a \in Slice /\ n \in 1 .. N - a /\ n # 0
  BY <1>b DEF GoneHere
<1>q. PICK f \in Slice : Before(s, a, f)
  BY <1>b, SpanBefore
<1>f. /\ f # a /\ Ext(pages, popped, s)[f] # 0 /\ f + Ext(pages, popped, s)[f] = a
      /\ BeforeStart(s, a) = f
  BY <1>q DEF Before
<1>p. PICK p : p = <<s, f>>
  OBVIOUS
<1>m. PICK m : m = pages[p].count
  OBVIOUS
<1>3. /\ f > 0 /\ ~pages[p].is_used
      /\ LET k == SmallestSbin[pages[p].count] IN LeavesUnused(p, k, ListIdx(p, k))
      /\ popped' = [popped EXCEPT !.start = f, !.count = @ + m]
      /\ UNCHANGED <<used, used_headers, used_lists>>
  BY <1>s, <1>a, <1>f, <1>p, <1>m DEF merge_with_before
<1>4. f # 0
  BY <1>3
<1>5. p \in FreeSpans(pages, popped) /\ m = Ext(pages, popped, s)[f]
  BY <1>b, <1>f, <1>3, <1>4, <1>p, <1>m, BesideGone
<1>6. popped' = VeryUnready(s, f, n + m, b)
  BY <1>2, <1>3 DEF VeryUnready
<1>7. Heads(pages, p, s, f, m) /\ f + m = a
  BY <1>f, <1>p, <1>m, <1>5 DEF Heads
<1>t. PICK t : t = n + m
  OBVIOUS
<1>8. Merge(s, a, n, b, p, f, m, f, t)
  BY <1>b, <1>t, <1>3, <1>5, <1>6, <1>7 DEF Merge
<1> QED BY <1>8

LEMMA MergeBeforeStep == ASSUME OrgInv, merge_with_before PROVE OrgInv'
  BY MergeBeforeIs, Merges

-----------------------------------------------------------------------------
(* The invariant holds                                                      *)

LEMMA OrgInit == ASSUME Init PROVE OrgInv
<1>1. /\ pages = [p \in PageId |-> Blank] /\ used = [s \in {} |-> 0] /\ popped = No
      /\ unused_headers = [b \in Sbin |-> [first |-> NONE, last |-> NONE]]
      /\ unused_lists = [b \in Sbin |-> <<>>]
      /\ used_headers = [b \in UsedBin |-> [first |-> NONE, last |-> NONE]]
      /\ used_lists = [b \in UsedBin |-> <<>>]
  BY DEF Init
<1>2. \A p \in PageId : pages[p] = Blank /\ Empty(pages[p])
  BY <1>1, BlankIs
<1>3. DOMAIN used = {} /\ used \in [DOMAIN used -> Int]
  BY <1>1
<1>4. pages \in PagesType
  BY <1>1, BlankIs DEF PagesType
<1>5. TypeOK
  <2>1. [first |-> NONE, last |-> NONE] \in Ends
    BY DEF Ends, Link
  <2>2. <<>> \in Seq(PageId)
    OBVIOUS
  <2> QED BY <1>1, <1>3, <1>4, <2>1, <2>2 DEF TypeOK
<1>6. FreeSpans(pages, popped) = {} /\ ListedPages(pages, popped) = {}
  <2>1. \A p \in PageId : pages[p].offset # 0 /\ ~pages[p].is_used
    BY <1>2, NoneAssumption DEF Empty
  <2> QED BY <2>1 DEF FreeSpans, ListedPages
<1>7. \A pg : Links(pg, [first |-> NONE, last |-> NONE], <<>>)
  BY DEF Links, At
<1>8. ASSUME NEW H, NEW L, NEW B, NEW key,
             H = [b \in B |-> [first |-> NONE, last |-> NONE]], L = [b \in B |-> <<>>]
      PROVE  Family(pages, H, L, B, {}, key)
  <2>1. H \in [B -> Ends] /\ L \in [B -> Seq(PageId)]
    BY <1>8 DEF Ends, Link
  <2>2. \A b \in B : H[b] = [first |-> NONE, last |-> NONE] /\ L[b] = <<>> /\ Len(L[b]) = 0
    BY <1>8
  <2>3. \A b \in B : Links(pages, H[b], L[b])
    BY <1>7, <2>2
  <2>4. \A b \in B : \A j \in 1 .. Len(L[b]) : FALSE
    BY <2>2
  <2> QED BY <2>1, <2>3, <2>4 DEF Family
<1>9. /\ Family(pages, unused_headers, unused_lists, Sbin, FreeSpans(pages, popped), FreeKey(pages))
      /\ Family(pages, used_headers, used_lists, UsedBin, ListedPages(pages, popped), PageKey(pages))
  BY <1>1, <1>6, <1>8
<1>10. Laid(pages, popped, DOMAIN used) /\ Counted(pages, popped, used)
  BY <1>2, <1>3 DEF Laid, OutsideOK, Counted
<1>11. PoppedOK(pages, popped, used)
  BY <1>1 DEF PoppedOK
<1> QED BY <1>5, <1>9, <1>10, <1>11 DEF OrgInv

LEMMA OrgStep == ASSUME OrgInv, [Next]_vars PROVE OrgInv'
<1>1. ASSUME NEW b \in Sbin, NEW j \in DOMAIN unused_lists[b],
             take_page_from_unused_queue(unused_lists[b][j], b, j)
      PROVE  OrgInv'
  BY <1>1, TakeStep
<1>2. ASSUME NEW n \in 1 .. SLICES_PER_SEGMENT, split_page(n) PROVE OrgInv'
  BY <1>2, SplitStep DEF N
<1>3. CASE free_to_unused_queue
  BY <1>3, FreeSpanStep
<1>4. CASE clear_ec
  BY <1>4, ClearStep
<1>5. CASE merge_with_after
  BY <1>5, MergeAfterStep
<1>6. CASE merge_with_before
  BY <1>6, MergeBeforeStep
<1>7. ASSUME NEW s \in Segment, create_segment(s) PROVE OrgInv'
  BY <1>7, CreateStep
<1>8. ASSUME NEW s \in Segment, segment_freeing_start(s) PROVE OrgInv'
  BY <1>8, FreeingStartStep
<1>9. ASSUME NEW n \in FirstCount, forget_about_first_page(n) PROVE OrgInv'
  BY <1>9, ForgetStep
<1>10. CASE forget_about_first_page2
  BY <1>10, Forget2Step
<1>11. CASE segment_freeing_finish
  BY <1>11, FreeingFinishStep
<1>12. CASE allocate_popped
  BY <1>12, AllocateStep
<1>13. ASSUME NEW k \in ValidBin, set_range_to_used(k) PROVE OrgInv'
  BY <1>13, SetUsedStep
<1>14. CASE set_range_to_not_used
  BY <1>14, SetNotUsedStep
<1>15. ASSUME NEW b \in UsedBin, into_used_list(b) \/ into_used_list_back(b) PROVE OrgInv'
  BY <1>15, IntoStep
<1>16. ASSUME NEW b \in UsedBin, NEW j \in DOMAIN used_lists[b],
              out_of_used_list(used_lists[b][j], b, j)
       PROVE  OrgInv'
  <2>1. used_lists[b] \in Seq(PageId)
    BY DEF OrgInv, TypeOK
  <2>2. j \in 1 .. Len(used_lists[b])
    BY <2>1
  <2>p. PICK p : p = used_lists[b][j]
    OBVIOUS
  <2>3. out_of_used_list(p, b, j)
    BY <1>16, <2>p
  <2> QED BY <2>2, <2>3, <2>p, OutStep
<1>17. CASE UNCHANGED vars
  BY <1>17 DEF vars, OrgInv, TypeOK, PagesType
<1> QED
  BY <1>1, <1>2, <1>3, <1>4, <1>5, <1>6, <1>7, <1>8, <1>9, <1>10, <1>11, <1>12, <1>13, <1>14,
     <1>15, <1>16, <1>17, Zenon DEF Next

\* PageOrg keeps every span between its neighbours, in the list of its size or
\* bin, and counted, through every transition of page_organization.rs.
THEOREM OrgInvariant == Spec => []OrgInv
<1>1. Init => OrgInv
  BY OrgInit
<1>2. OrgInv /\ [Next]_vars => OrgInv'
  BY OrgStep
<1> QED BY <1>1, <1>2, PTL DEF Spec

-----------------------------------------------------------------------------
(* What the invariants of the source say of a state                         *)

\* a segment that is neither set up nor given up begins with the span of its header
LEMMA HeadThere ==
  ASSUME OrgInv, NEW s \in DOMAIN used, Lo(popped, s) = 0
  PROVE  /\ 0 \in Slice /\ s \in Segment /\ SegmentOK(pages, popped, s)
         /\ Ext(pages, popped, s)[0] # 0 /\ ~Hole(popped, s, 0)
         /\ Class(pages, popped, s, 0) = "head"
         /\ pages[<<s, 0>>].offset = 0
         /\ pages[<<s, 0>>].count = Ext(pages, popped, s)[0]
<1>1. pages \in PagesType /\ s \in Segment /\ SegmentOK(pages, popped, s)
  BY InvIs DEF Laid
<1>z. PICK z : z = 0
  OBVIOUS
<1>2. z \in Slice
  BY <1>z, PageIdIs DEF Slice
<1>3. Ext(pages, popped, s)[z] # 0
  BY <1>1, <1>z, PageIdIs DEF SegmentOK, Tiling
<1>4. /\ ~Hole(popped, s, z) /\ ~IsReady(popped, <<s, z>>) /\ ~IsTaken(popped, <<s, z>>)
  <2>1. z \notin 1 .. N - 1 /\ <<s, z>>[2] = z
    BY <1>z
  <2>2. PoppedOK(pages, popped, used)
    BY DEF OrgInv
  <2> QED BY <2>1, <2>2 DEF PoppedOK, Hole, IsReady, IsTaken, No, Ready, Used, VeryUnready,
        SegmentCreating, SegmentFreeing, ExtraCount
<1>5. Class(pages, popped, s, z) = "head"
  BY <1>4, <1>z, ClassIs
<1>6. pages[<<s, z>>].offset = 0
  BY <1>1, <1>2, <1>3, <1>4, ExtIs
<1>7. pages[<<s, z>>].count = Ext(pages, popped, s)[z]
  BY <1>1, <1>2, <1>3, <1>4, <1>6, ExtIs
<1> QED BY <1>1, <1>2, <1>3, <1>4, <1>5, <1>6, <1>7, <1>z

LEMMA CountNow == ASSUME OrgInv PROVE CountIsRight
<1> SUFFICES ASSUME NEW s \in DOMAIN used
             PROVE  used[s] = ucount(s) + popped_ec(s) /\ end_is_unused(s)
  BY DEF CountIsRight
<1>1. used[s] = ucount(s) + popped_ec(s)
  <2>1. used[s] = Cardinality(Headed(pages, s)) + Ec(popped, s)
    BY DEF OrgInv, Counted
  <2>2. Headed(pages, s) = {i \in 0 .. SLICES_PER_SEGMENT - 1 :
          i # 0 /\ pages[<<s, i>>].is_used /\ pages[<<s, i>>].offset = 0}
    BY DEF Headed, Slice, N
  <2>3. popped_ec(s) = Ec(popped, s)
    BY DEF popped_ec, Ec
  <2> QED BY <2>1, <2>2, <2>3 DEF ucount
<1>2. ASSUME ~(popped.tag \in {"SegmentCreating", "SegmentFreeing"} /\ popped.seg = s)
      PROVE  pages[<<s, 0>>].offset = 0 /\ ~pages[<<s, 0>>].is_used /\ pages[<<s, 0>>].count # NONE
  <2>1. Lo(popped, s) = 0
    BY <1>2 DEF Lo
  <2>2. PICK z : z = 0
    OBVIOUS
  <2>3. /\ z \in Slice /\ s \in Segment /\ SegmentOK(pages, popped, s)
        /\ Ext(pages, popped, s)[z] # 0 /\ Class(pages, popped, s, z) = "head"
        /\ pages[<<s, z>>].offset = 0
        /\ pages[<<s, z>>].count = Ext(pages, popped, s)[z]
    BY <2>1, <2>2, HeadThere
  <2>4. PICK n : n = Ext(pages, popped, s)[z]
    OBVIOUS
  <2>5. n \in 1 .. N - z /\ Span(pages, s, z, n, "head")
    BY <2>3, <2>4, InvIs, SpanThere
  <2>6. Piece(pages[<<s, z>>], z - z, n, "head")
    BY <2>2, <2>5, PageIdIs DEF Span
  <2>7. ~pages[<<s, z>>].is_used
    BY <2>6 DEF Piece
  <2>8. n # NONE
    BY <2>5, NoneAssumption
  <2> QED BY <2>2, <2>3, <2>4, <2>7, <2>8
<1> QED BY <1>1, <1>2 DEF end_is_unused

\* the header of a listed page is filled in, and names the list
LEMMA PageFields ==
  ASSUME OrgInv, NEW p \in ListedPages(pages, popped), NEW s, NEW a, NEW n, Heads(pages, p, s, a, n)
  PROVE  /\ pages[p].dlist # NONE /\ pages[p].full \in BOOLEAN /\ pages[p].kind \in ValidBin
         /\ pages[p].count \in 1 .. N - a /\ pages[p].count # NONE /\ pages[p].offset = 0
<1>0. /\ p = <<s, a>> /\ n = pages[p].count /\ p \in PageId
      /\ a \in Slice /\ n \in 1 .. N - a /\ Span(pages, s, a, n, "page")
  BY ListedIs DEF ListedHere, Heads
<1>1. Piece(pages[<<s, a>>], 0, n, "page")
  <2>1. a \in a .. a + n - 1 /\ a - a = 0
    BY <1>0 DEF Slice
  <2> QED BY <1>0, <2>1 DEF Span
<1>2. pages[p].dlist # NONE /\ pages[p].full # NONE /\ pages[p].kind # NONE /\ pages[p].offset = 0
  BY <1>0, <1>1 DEF Piece
<1>3. pages[p] \in PageData
  BY <1>0, InvIs DEF PagesType
<1>4. pages[p].full \in BOOLEAN /\ pages[p].kind \in ValidBin
  BY <1>2, <1>3 DEF PageData
<1>5. n # NONE
  BY <1>0, NoneAssumption
<1> QED BY <1>0, <1>2, <1>4, <1>5

LEMMA SettledListed ==
  ASSUME OrgInv
  PROVE  SettledPages \subseteq ListedPages(pages, popped)
<1> SUFFICES ASSUME NEW p \in SettledPages PROVE p \in ListedPages(pages, popped)
  OBVIOUS
<1>1. p \in PageId /\ Settled(p) /\ pages[p].is_used /\ pages[p].offset = 0
  BY DEF SettledPages
<1>2. ~IsTaken(popped, p)
  BY <1>1 DEF Settled, IsTaken
<1> QED BY <1>1, <1>2 DEF ListedPages

\* links and ends as the source states them
LEMMA LinksValid ==
  ASSUME NEW h, NEW ll \in Seq(PageId), Links(pages, h, ll)
  PROVE  valid_ll(h, ll)
<1>1. DOMAIN ll = 1 .. Len(ll)
  OBVIOUS
<1>2. \A j : (IF j \in DOMAIN ll THEN ll[j] ELSE NONE) = At(ll, j)
  BY <1>1 DEF At
<1>3. /\ h = [first |-> At(ll, 1), last |-> At(ll, Len(ll))]
      /\ \A j \in DOMAIN ll : pages[ll[j]].dlist = [prev |-> At(ll, j - 1), next |-> At(ll, j + 1)]
  BY <1>1 DEF Links
<1> QED BY <1>2, <1>3 DEF valid_ll

\* a span has its place in the list of its size, and a page in the one of its bin
LEMMA FreePlaced ==
  ASSUME OrgInv, NEW b \in Sbin, NEW j \in 1 .. Len(unused_lists[b]), NEW p, p = unused_lists[b][j]
  PROVE  /\ p \in FreeSpans(pages, popped) /\ valid_unused_page(p, b, j)
         /\ pages[p].offset = 0 /\ b = SmallestSbin[pages[p].count]
<1>1. Family(pages, unused_headers, unused_lists, Sbin, FreeSpans(pages, popped), FreeKey(pages))
  BY SoundNow
<1>2. /\ p \in FreeSpans(pages, popped) /\ p \in PageId /\ FreeKey(pages)[p] = b
      /\ pages[p].dlist # NONE
  BY <1>1, FamilyMember
<1>3. p[2] # 0 /\ pages[p].offset = 0 /\ ~pages[p].is_used
  BY <1>2 DEF FreeSpans
<1>4. b = SmallestSbin[pages[p].count]
  BY <1>2 DEF FreeKey
<1>5. pages[p].count \in 1 .. SLICES_PER_SEGMENT
  <2>1. p[2] \in Slice /\ pages[p].count \in 1 .. N - p[2]
    BY <1>2, HeadsOf, FreeAt
  <2> QED BY <2>1, PageIdIs DEF Slice, N
<1>6. j \in DOMAIN unused_lists[b]
  BY <1>1 DEF Family
<1> QED BY <1>2, <1>3, <1>4, <1>5, <1>6 DEF valid_unused_page

LEMMA PagePlaced ==
  ASSUME OrgInv, NEW b \in UsedBin, NEW j \in 1 .. Len(used_lists[b]), NEW p, p = used_lists[b][j]
  PROVE  /\ p \in ListedPages(pages, popped) /\ valid_used_page(p, b, j)
         /\ pages[p].count # NONE /\ pages[p].full = (b = BIN_FULL)
<1>1. Family(pages, used_headers, used_lists, UsedBin, ListedPages(pages, popped), PageKey(pages))
  BY SoundNow
<1>2. /\ p \in ListedPages(pages, popped) /\ p \in PageId /\ PageKey(pages)[p] = b
  BY <1>1, FamilyMember
<1>3. /\ pages[p].dlist # NONE /\ pages[p].full \in BOOLEAN /\ pages[p].kind \in ValidBin
      /\ pages[p].count # NONE /\ pages[p].offset = 0
  BY <1>2, HeadsOf, PageFields
<1>4. p[2] # 0 /\ pages[p].is_used
  <2>1. Heads(pages, p, p[1], p[2], pages[p].count)
    BY <1>2, HeadsOf
  <2>2. ListedHere(p, p[1], p[2], pages[p].count)
    BY <1>2, <2>1, ListedIs
  <2> QED BY <2>2 DEF ListedHere
<1>5. b = IF pages[p].full = TRUE THEN BIN_FULL ELSE pages[p].kind
  BY <1>2 DEF PageKey
<1>6. b # BIN_FULL => b = pages[p].kind
  BY <1>5
<1>7. pages[p].full = (b = BIN_FULL)
  <2>1. CASE pages[p].full = TRUE
    BY <1>5, <2>1
  <2>2. CASE pages[p].full = FALSE
    BY <1>3, <1>5, <2>2, FullAssumption
  <2> QED BY <1>3, <2>1, <2>2
<1>8. j \in DOMAIN used_lists[b]
  BY <1>1 DEF Family
<1> QED BY <1>2, <1>3, <1>4, <1>6, <1>7, <1>8 DEF valid_used_page

LEMMA ListsNow == ASSUME OrgInv PROVE ListsExact
<1>1. /\ Family(pages, unused_headers, unused_lists, Sbin, FreeSpans(pages, popped), FreeKey(pages))
      /\ Family(pages, used_headers, used_lists, UsedBin, ListedPages(pages, popped), PageKey(pages))
  BY SoundNow
<1>2. ll_inv_valid_unused
  <2> SUFFICES ASSUME NEW b \in Sbin
               PROVE  /\ valid_ll(unused_headers[b], unused_lists[b])
                      /\ \A j \in DOMAIN unused_lists[b] :
                           LET p == unused_lists[b][j]
                           IN  valid_unused_page(p, b, j) /\ pages[p].offset = 0 /\ b = SmallestSbin[pages[p].count]
    BY DEF ll_inv_valid_unused
  <2>1. unused_lists[b] \in Seq(PageId) /\ Links(pages, unused_headers[b], unused_lists[b])
    BY <1>1 DEF Family
  <2>2. DOMAIN unused_lists[b] = 1 .. Len(unused_lists[b])
    BY <2>1
  <2> QED BY <2>1, <2>2, LinksValid, FreePlaced
<1>3. ll_inv_exists_in_some_list
  <2> SUFFICES ASSUME NEW p \in PageId,
                      ~in_popped_range(p), pages[p].offset = 0, ~pages[p].is_used, p[2] # 0
               PROVE  pages[p].count # NONE /\ \E b \in Sbin : p \in ToSet(unused_lists[b])
    BY DEF ll_inv_exists_in_some_list
  <2>1. ~IsReady(popped, p)
    <3> SUFFICES ASSUME IsReady(popped, p) PROVE FALSE
      OBVIOUS
    <3>1. popped.tag = "Ready" /\ popped.page = p
      BY DEF IsReady
    <3>2. PICK s, a, n : /\ p = <<s, a>> /\ n = pages[p].count /\ a \in Slice /\ n \in 1 .. N - a
                         /\ s \in Segment
      BY <3>1, PageAt DEF PageHere
    <3>3. p \in Region(s, a, a + n)
      BY <3>2, FirstIn
    <3>4. p[1] = s /\ p[2] = a /\ a \in Int /\ a + n \in Int
      BY <3>2, FirstIn
    <3>5. p \in Range2(s, a, a + n)
      BY <3>3, <3>4, RangeIs
    <3>6. PoppedRange = Range2(s, a, a + n)
      BY <3>1, <3>2, <3>4 DEF PoppedRange
    <3> QED BY <3>1, <3>5, <3>6 DEF in_popped_range
  <2>2. p \in FreeSpans(pages, popped)
    BY <2>1 DEF FreeSpans
  <2>3. pages[p].count \in 1 .. N - p[2]
    BY <2>2, HeadsOf, FreeAt
  <2>4. pages[p].count # NONE
    BY <2>3, NoneAssumption
  <2>5. PICK b : b = SmallestSbin[pages[p].count]
    OBVIOUS
  <2>6. b \in Sbin /\ \E j \in 1 .. Len(unused_lists[b]) : unused_lists[b][j] = p
    BY <2>2, <2>5, ListIdxIs
  <2>7. unused_lists[b] \in Seq(PageId)
    BY <1>1, <2>6 DEF Family
  <2>8. p \in ToSet(unused_lists[b])
    BY <2>6, <2>7 DEF ToSet
  <2> QED BY <2>4, <2>6, <2>8
<1>4. ll_inv_valid_used
  <2> SUFFICES ASSUME NEW b \in UsedBin
               PROVE  /\ valid_ll(used_headers[b], used_lists[b])
                      /\ \A j \in DOMAIN used_lists[b] :
                           LET p == used_lists[b][j]
                           IN  /\ valid_used_page(p, b, j)
                               /\ pages[p].count # NONE
                               /\ pages[p].full = (b = BIN_FULL)
                               /\ popped.tag = "Ready" => p # popped.page
    BY DEF ll_inv_valid_used
  <2>1. used_lists[b] \in Seq(PageId) /\ Links(pages, used_headers[b], used_lists[b])
    BY <1>1 DEF Family
  <2>2. DOMAIN used_lists[b] = 1 .. Len(used_lists[b])
    BY <2>1
  <2>3. ASSUME NEW p \in ListedPages(pages, popped), popped.tag = "Ready" PROVE p # popped.page
    BY <2>3, InvIs DEF ListedPages, IsReady
  <2> QED BY <2>1, <2>2, <2>3, LinksValid, PagePlaced
<1>5. ASSUME NEW p \in SettledPages
      PROVE  /\ p \in ListedPages(pages, popped)
             /\ pages[p].dlist # NONE /\ pages[p].full \in BOOLEAN /\ pages[p].kind \in ValidBin
             /\ p \in ToSet(used_lists[IF pages[p].full = TRUE THEN BIN_FULL ELSE pages[p].kind])
  <2>1. p \in ListedPages(pages, popped) /\ p \in PageId
    BY SettledListed DEF SettledPages
  <2>2. pages[p].dlist # NONE /\ pages[p].full \in BOOLEAN /\ pages[p].kind \in ValidBin
    BY <2>1, HeadsOf, PageFields
  <2>3. PICK b : b = IF pages[p].full = TRUE THEN BIN_FULL ELSE pages[p].kind
    OBVIOUS
  <2>4. PageKey(pages)[p] = b
    BY <2>1, <2>3 DEF PageKey
  <2>5. b \in UsedBin /\ used_lists[b] \in Seq(PageId)
        /\ \E j \in 1 .. Len(used_lists[b]) : used_lists[b][j] = p
    BY <1>1, <2>1, <2>4 DEF Family
  <2>6. p \in ToSet(used_lists[b])
    BY <2>5 DEF ToSet
  <2> QED BY <2>1, <2>2, <2>3, <2>6
<1>6. data_for_used_header
  BY <1>5, NoneAssumption DEF data_for_used_header
<1>7. ll_inv_valid_used2
  <2> SUFFICES ASSUME NEW p \in SettledPages
               PROVE  /\ pages[p].full # FALSE => p \in ToSet(used_lists[BIN_FULL])
                      /\ pages[p].full # TRUE => p \in ToSet(used_lists[pages[p].kind])
    BY DEF ll_inv_valid_used2
  <2>1. CASE pages[p].full = TRUE
    BY <1>5, <2>1
  <2>2. CASE pages[p].full = FALSE
    BY <1>5, <2>2
  <2> QED BY <1>5, <2>1, <2>2
<1> QED BY <1>2, <1>3, <1>4, <1>6, <1>7 DEF ListsExact

-----------------------------------------------------------------------------
(* The headers of a span as the source states them                          *)

SpanHere(p, s, a, n, c) ==
  /\ s \in Segment /\ a \in Slice /\ n \in 1 .. N - a /\ p = <<s, a>>
  /\ Span(pages, s, a, n, c)

LEMMA RecordIs ==
  ASSUME NEW r \in PageData, ~r.is_used, r.full = NONE, r.kind = NONE,
         NEW d, NEW m, NEW o, d = r.dlist, m = r.count, o = r.offset
  PROVE  r = [Blank EXCEPT !.count = m, !.offset = o, !.dlist = d]
<1>1. r.is_used = FALSE
  BY DEF PageData
<1>2. r = [dlist |-> d, count |-> m, offset |-> o, is_used |-> FALSE, full |-> NONE, kind |-> NONE]
  BY <1>1 DEF PageData
<1>3. PICK q : q = [Blank EXCEPT !.count = m, !.offset = o, !.dlist = d]
  OBVIOUS
<1>4. q = [dlist |-> d, count |-> m, offset |-> o, is_used |-> FALSE, full |-> NONE, kind |-> NONE]
  BY <1>3 DEF Blank
<1> QED BY <1>2, <1>3, <1>4

\* header q is the one of slice k of the span that begins at p
Member(p, q, n, k, c) ==
  /\ q \in PageId /\ p \in PageId /\ pages[q] \in PageData /\ Piece(pages[q], k, n, c)
  /\ k \in 0 .. n - 1 /\ n \in Nat /\ n # NONE /\ k # NONE
  /\ q[2] - p[2] = k /\ (q = p <=> k = 0)
  /\ q[2] \in {p[2], p[2] + n - 1} <=> k \in {0, n - 1}

LEMMA MemberIs ==
  ASSUME pages \in PagesType, NEW p, NEW s, NEW a, NEW n, NEW c, SpanHere(p, s, a, n, c),
         NEW q \in Range2(p[1], p[2], p[2] + n)
  PROVE  \E k \in 0 .. n - 1 : q = <<s, a + k>> /\ Member(p, q, n, k, c)
<1>1. /\ s \in Segment /\ a \in Slice /\ n \in 1 .. N - a /\ p = <<s, a>> /\ p[1] = s /\ p[2] = a
      /\ Span(pages, s, a, n, c)
  BY DEF SpanHere
<1>2. a \in Nat /\ n \in Nat /\ 1 <= n /\ p \in PageId
  BY <1>1, FirstIn
<1>e. PICK e : e = a + n
  OBVIOUS
<1>3. q \in {s} \X (a .. e - 1)
  BY <1>1, <1>e DEF Range2
<1>4. PICK x \in a .. e - 1 : q = <<s, x>>
  BY <1>3
<1>5. PICK k : k = x - a
  OBVIOUS
<1>6. k \in 0 .. n - 1 /\ x = a + k /\ x \in Nat
  BY <1>2, <1>4, <1>5, <1>e
<1>7. q \in PageId /\ q[2] = x
  BY <1>1, <1>2, <1>4, <1>e, InRegion
<1>8. pages[q] \in PageData
  BY <1>7 DEF PagesType
<1>9. Piece(pages[q], k, n, c)
  BY <1>1, <1>2, <1>4, <1>5, <1>e DEF Span
<1>10. q = p <=> k = 0
  BY <1>1, <1>2, <1>4, <1>6
<1>11. q[2] - p[2] = k /\ (q[2] \in {p[2], p[2] + n - 1} <=> k \in {0, n - 1})
  BY <1>1, <1>2, <1>6, <1>7
<1>12. n # NONE /\ k # NONE
  BY <1>2, <1>6, NoneAssumption
<1>13. Member(p, q, n, k, c)
  BY <1>2, <1>6, <1>7, <1>8, <1>9, <1>10, <1>11, <1>12 DEF Member
<1> QED BY <1>4, <1>6, <1>13

\* a span that is not taken out begins with a header that says so
LEMMA FirstIs ==
  ASSUME pages \in PagesType, NEW p, NEW s, NEW a, NEW n, NEW c, SpanHere(p, s, a, n, c), c # "gone"
  PROVE  /\ pages[p].offset = 0 /\ pages[p].count = n /\ p \in PageId /\ p[1] = s /\ p[2] = a
         /\ n \in 1 .. SLICES_PER_SEGMENT - p[2]
<1>1. /\ s \in Segment /\ a \in Slice /\ n \in 1 .. N - a /\ p = <<s, a>> /\ p[1] = s /\ p[2] = a
      /\ Span(pages, s, a, n, c)
  BY DEF SpanHere
<1>2. a \in Nat /\ n \in Nat /\ 1 <= n /\ p \in PageId
  BY <1>1, FirstIn
<1>3. Piece(pages[<<s, a>>], 0, n, c)
  <2>1. a \in a .. a + n - 1 /\ a - a = 0
    BY <1>2
  <2> QED BY <1>1, <2>1 DEF Span
<1>4. pages[p].offset = 0 /\ pages[p].count = n
  BY <1>1, <1>3 DEF Piece
<1> QED BY <1>1, <1>2, <1>4 DEF N

LEMMA UsedShape ==
  ASSUME pages \in PagesType, NEW p, NEW s, NEW a, NEW n, NEW c, SpanHere(p, s, a, n, c),
         c \in {"page", "taken"}
  PROVE  good_range_used(p)
<1>1. pages[p].offset = 0 /\ pages[p].count = n /\ n \in 1 .. SLICES_PER_SEGMENT - p[2]
  BY FirstIs
<1>2. ASSUME NEW q \in Range2(p[1], p[2], p[2] + n)
      PROVE  /\ pages[q].is_used
             /\ pages[q].offset = q[2] - p[2]
             /\ pages[q].kind # NONE <=> q = p
             /\ q # p => pages[q].dlist = NONE /\ pages[q].full = NONE
  <2>1. PICK k \in 0 .. n - 1 : Member(p, q, n, k, c)
    BY MemberIs
  <2> QED BY <2>1 DEF Member, Piece
<1> QED BY <1>1, <1>2 DEF good_range_used, SpanShape

LEMMA FreeShape ==
  ASSUME pages \in PagesType, NEW p, NEW s, NEW a, NEW n, SpanHere(p, s, a, n, "free")
  PROVE  good_range_unused(p)
<1>1. pages[p].offset = 0 /\ pages[p].count = n /\ n \in 1 .. SLICES_PER_SEGMENT - p[2]
  BY FirstIs
<1>2. ASSUME NEW q \in Range2(p[1], p[2], p[2] + n)
      PROVE  /\ pages[q] = [Blank EXCEPT !.count = pages[q].count, !.offset = pages[q].offset,
                                         !.dlist = pages[q].dlist]
             /\ pages[q].count # NONE <=> q = p
             /\ pages[q].dlist # NONE <=> q = p
             /\ pages[q].offset = IF q[2] \in {p[2], p[2] + n - 1} THEN q[2] - p[2] ELSE NONE
  <2>1. PICK k \in 0 .. n - 1 : Member(p, q, n, k, "free")
    BY MemberIs
  <2>2. PICK r : r = pages[q]
    OBVIOUS
  <2>3. r \in PageData /\ Piece(r, k, n, "free")
    BY <2>1, <2>2 DEF Member
  <2>4. ~r.is_used /\ r.full = NONE /\ r.kind = NONE
    BY <2>3 DEF Piece
  <2>5. r = [Blank EXCEPT !.count = r.count, !.offset = r.offset, !.dlist = r.dlist]
    BY <2>3, <2>4, RecordIs
  <2>6. /\ r.count # NONE <=> q = p
        /\ r.dlist # NONE <=> q = p
    BY <2>1, <2>3 DEF Member, Piece
  <2>7. r.offset = IF q[2] \in {p[2], p[2] + n - 1} THEN q[2] - p[2] ELSE NONE
    <3>1. r.offset = IF k \in {0, n - 1} THEN k ELSE NONE
      BY <2>3 DEF Piece
    <3> QED BY <2>1, <3>1 DEF Member
  <2> QED BY <2>2, <2>5, <2>6, <2>7
<1> QED BY <1>1, <1>2 DEF good_range_unused, SpanShape

LEMMA ReadyShape ==
  ASSUME pages \in PagesType, NEW p, NEW s, NEW a, NEW n, NEW c, SpanHere(p, s, a, n, c),
         c \in {"ready", "head"}
  PROVE  good_range_ready(p)
<1>1. pages[p].offset = 0 /\ pages[p].count = n /\ n \in 1 .. SLICES_PER_SEGMENT - p[2]
  BY FirstIs
<1>2. ASSUME NEW q \in Range2(p[1], p[2], p[2] + n)
      PROVE  /\ pages[q] = [Blank EXCEPT !.count = pages[q].count, !.offset = q[2] - p[2]]
             /\ pages[q].count # NONE <=> q = p
  <2>1. PICK k \in 0 .. n - 1 : Member(p, q, n, k, c)
    BY MemberIs
  <2>2. PICK r : r = pages[q]
    OBVIOUS
  <2>3. r \in PageData /\ Piece(r, k, n, c)
    BY <2>1, <2>2 DEF Member
  <2>4. ~r.is_used /\ r.full = NONE /\ r.kind = NONE /\ r.dlist = NONE /\ r.offset = k
    BY <2>3 DEF Piece
  <2>m. PICK m : m = r.count
    OBVIOUS
  <2>5. r = [Blank EXCEPT !.count = r.count, !.offset = k]
    <3>1. r = [Blank EXCEPT !.count = m, !.offset = k, !.dlist = NONE]
      BY <2>3, <2>4, <2>m, RecordIs
    <3>2. PICK z : z = [Blank EXCEPT !.count = m, !.offset = k, !.dlist = NONE]
      OBVIOUS
    <3>3. PICK y : y = [Blank EXCEPT !.count = m, !.offset = k]
      OBVIOUS
    <3>4. z = [dlist |-> NONE, count |-> m, offset |-> k, is_used |-> FALSE, full |-> NONE, kind |-> NONE]
      BY <3>2 DEF Blank
    <3>5. y = [dlist |-> NONE, count |-> m, offset |-> k, is_used |-> FALSE, full |-> NONE, kind |-> NONE]
      BY <3>3 DEF Blank
    <3>6. r = y
      BY <3>1, <3>2, <3>4, <3>5
    <3> QED BY <3>3, <3>6, <2>m
  <2>6. r.count # NONE <=> q = p
    BY <2>1, <2>3 DEF Member, Piece
  <2>7. q[2] - p[2] = k
    BY <2>1 DEF Member
  <2> QED BY <2>2, <2>5, <2>6, <2>7
<1> QED BY <1>1, <1>2 DEF good_range_ready, SpanShape

\* the header of a segment has this shape too
LEMMA HeadShape ==
  ASSUME NEW s, good_range_ready(<<s, 0>>)
  PROVE  good_range0(s)
<1>1. PICK p : p = <<s, 0>>
  OBVIOUS
<1>2. p[1] = s /\ p[2] = 0
  BY <1>1
<1>3. /\ pages[p].offset = 0 /\ pages[p].count \in 1 .. SLICES_PER_SEGMENT - 0
      /\ \A q \in Range2(s, 0, 0 + pages[p].count) :
           /\ pages[q] = [Blank EXCEPT !.count = pages[q].count, !.offset = q[2] - 0]
           /\ pages[q].count # NONE <=> q = p
  BY <1>1, <1>2 DEF good_range_ready, SpanShape
<1>4. \A q \in Range2(s, 0, 0 + pages[p].count) : q[2] \in Int /\ q[2] - 0 = q[2] /\ (q = p <=> q[2] = 0)
  BY <1>1 DEF Range2
<1> QED BY <1>1, <1>2, <1>3, <1>4 DEF good_range0, SpanShape

-----------------------------------------------------------------------------
(* What the code finds when it follows a link or steps to a neighbour       *)

\* the links of a list lead to its places
LEMMA LinkAt ==
  ASSUME NEW h, NEW ll \in Seq(PageId), Links(pages, h, ll)
  PROVE  /\ h.first # NONE => 1 \in 1 .. Len(ll) /\ ll[1] = h.first
         /\ \A j \in 1 .. Len(ll) :
              /\ pages[ll[j]].dlist.next # NONE => j + 1 \in 1 .. Len(ll) /\ ll[j + 1] = pages[ll[j]].dlist.next
              /\ pages[ll[j]].dlist.prev = NONE => j = 1 /\ h.first = ll[j]
<1>1. h.first = At(ll, 1)
  BY DEF Links
<1>2. h.first # NONE => 1 \in 1 .. Len(ll) /\ ll[1] = h.first
  BY <1>1 DEF At
<1>3. ASSUME NEW j \in 1 .. Len(ll)
      PROVE  /\ pages[ll[j]].dlist.next # NONE =>
                  j + 1 \in 1 .. Len(ll) /\ ll[j + 1] = pages[ll[j]].dlist.next
             /\ pages[ll[j]].dlist.prev = NONE => j = 1 /\ h.first = ll[j]
  <2>1. pages[ll[j]].dlist = [prev |-> At(ll, j - 1), next |-> At(ll, j + 1)]
    BY DEF Links
  <2>2. pages[ll[j]].dlist.prev = At(ll, j - 1) /\ pages[ll[j]].dlist.next = At(ll, j + 1)
    BY <2>1
  <2>3. pages[ll[j]].dlist.next # NONE =>
          j + 1 \in 1 .. Len(ll) /\ ll[j + 1] = pages[ll[j]].dlist.next
    BY <2>2 DEF At
  <2>4. Len(ll) \in Nat /\ j \in 1 .. Len(ll)
    OBVIOUS
  <2>5. ASSUME j # 1 PROVE pages[ll[j]].dlist.prev # NONE
    <3>1. j - 1 \in 1 .. Len(ll)
      BY <2>4, <2>5
    <3>2. ll[j - 1] \in PageId
      BY <3>1
    <3>3. At(ll, j - 1) = ll[j - 1]
      BY <3>1 DEF At
    <3> QED BY <2>2, <3>2, <3>3, NotNone
  <2>6. j = 1 => h.first = ll[j]
    BY <1>1, <2>4 DEF At
  <2> QED BY <2>3, <2>5, <2>6
<1> QED BY <1>2, <1>3

LEMMA FreeListIs ==
  ASSUME OrgInv, NEW b \in Sbin
  PROVE  /\ unused_lists[b] \in Seq(PageId) /\ DOMAIN unused_lists[b] = 1 .. Len(unused_lists[b])
         /\ Links(pages, unused_headers[b], unused_lists[b])
<1>1. Family(pages, unused_headers, unused_lists, Sbin, FreeSpans(pages, popped), FreeKey(pages))
  BY SoundNow
<1>2. unused_lists[b] \in Seq(PageId) /\ Links(pages, unused_headers[b], unused_lists[b])
  BY <1>1 DEF Family
<1> QED BY <1>2

LEMMA PageListIs ==
  ASSUME OrgInv, NEW b \in UsedBin
  PROVE  /\ used_lists[b] \in Seq(PageId) /\ DOMAIN used_lists[b] = 1 .. Len(used_lists[b])
         /\ Links(pages, used_headers[b], used_lists[b])
<1>1. Family(pages, used_headers, used_lists, UsedBin, ListedPages(pages, popped), PageKey(pages))
  BY SoundNow
<1>2. used_lists[b] \in Seq(PageId) /\ Links(pages, used_headers[b], used_lists[b])
  BY <1>1 DEF Family
<1> QED BY <1>2

LEMMA FreeWalk ==
  ASSUME OrgInv, NEW b \in Sbin
  PROVE  first_is_in(b) /\ \A j \in DOMAIN unused_lists[b] : next_is_in(b, j)
<1>1. /\ unused_lists[b] \in Seq(PageId) /\ DOMAIN unused_lists[b] = 1 .. Len(unused_lists[b])
      /\ Links(pages, unused_headers[b], unused_lists[b])
  BY FreeListIs
<1>2. first_is_in(b)
  BY <1>1, LinkAt, FreePlaced DEF first_is_in
<1>3. ASSUME NEW j \in DOMAIN unused_lists[b] PROVE next_is_in(b, j)
  <2>1. PICK p : p = pages[unused_lists[b][j]].dlist.next
    OBVIOUS
  <2>2. p # NONE => valid_unused_page(p, b, j + 1)
    BY <1>1, <2>1, LinkAt, FreePlaced
  <2> QED BY <2>1, <2>2 DEF next_is_in
<1> QED BY <1>2, <1>3

LEMMA PageWalk ==
  ASSUME OrgInv, NEW b \in UsedBin
  PROVE  /\ used_first_is_in(b)
         /\ \A j \in DOMAIN used_lists[b] : used_next_is_in(b, j) /\ used_page_dlist_facts(b, j)
<1>1. /\ used_lists[b] \in Seq(PageId) /\ DOMAIN used_lists[b] = 1 .. Len(used_lists[b])
      /\ Links(pages, used_headers[b], used_lists[b])
  BY PageListIs
<1>2. used_first_is_in(b)
  BY <1>1, LinkAt, PagePlaced DEF used_first_is_in
<1>3. ASSUME NEW j \in DOMAIN used_lists[b] PROVE used_next_is_in(b, j)
  <2>1. PICK p : p = pages[used_lists[b][j]].dlist.next
    OBVIOUS
  <2>2. p # NONE => valid_used_page(p, b, j + 1)
    BY <1>1, <2>1, LinkAt, PagePlaced
  <2> QED BY <2>1, <2>2 DEF used_next_is_in
<1>4. ASSUME NEW j \in DOMAIN used_lists[b] PROVE used_page_dlist_facts(b, j)
  <2>1. PICK p : p = used_lists[b][j]
    OBVIOUS
  <2>2. pages[p].dlist.prev = NONE => j = 1 /\ used_headers[b].first = p
    BY <1>1, <2>1, LinkAt
  <2>3. Family(pages, used_headers, used_lists, UsedBin, ListedPages(pages, popped), PageKey(pages))
    BY SoundNow
  <2>4. pages[p].dlist.next # NONE =>
          /\ pages[p].dlist.next \in ListedPages(pages, popped)
          /\ pages[p].dlist.next # p
          /\ pages[pages[p].dlist.next].dlist # NONE
    BY <1>1, <2>1, <2>3, FamilyMember
  <2>5. pages[p].dlist.next # NONE => pages[pages[p].dlist.next].is_used
    BY <2>4 DEF ListedPages
  <2> QED BY <2>1, <2>2, <2>4, <2>5 DEF used_page_dlist_facts
<1> QED BY <1>2, <1>3, <1>4

\* a free span has its shape, and free spans around it in its list
LEMMA FreeFacts ==
  ASSUME OrgInv, NEW p \in FreeSpans(pages, popped)
  PROVE  /\ good_range_unused(p) /\ take_page_from_unused_queue_page_facts(p)
         /\ take_page_from_unused_queue_dlist_facts(p)
         /\ \A q \in {pages[p].dlist.prev, pages[p].dlist.next} :
              q # NONE => q # p /\ q \in FreeSpans(pages, popped)
         /\ LET b == SmallestSbin[pages[p].count] IN valid_unused_page(p, b, ListIdx(p, b))
<1>0. pages \in PagesType
  BY InvIs
<1>s. PICK s : s = p[1]
  OBVIOUS
<1>a. PICK a : a = p[2]
  OBVIOUS
<1>n. PICK n : n = pages[p].count
  OBVIOUS
<1>1. Heads(pages, p, s, a, n)
  BY <1>s, <1>a, <1>n, HeadsOf DEF FreeSpans
<1>2. SpanHere(p, s, a, n, "free") /\ s \in Segment /\ a \in Slice /\ n \in 1 .. N - a
  BY <1>1, FreeAt DEF SpanHere
<1>3. good_range_unused(p)
  BY <1>0, <1>2, FreeShape
<1>4. PICK l : l = <<p[1], p[2] + n - 1>>
  OBVIOUS
<1>5. ~pages[l].is_used /\ pages[l].kind = NONE /\ (l # p => pages[l].dlist = NONE)
  <2>1. a \in Nat /\ n \in Nat /\ 1 <= n
    BY <1>2, FirstIn
  <2>2. l \in Range2(p[1], p[2], p[2] + n)
    <3>1. a + n - 1 \in a .. (a + n) - 1
      BY <2>1
    <3> QED BY <1>4, <1>a, <3>1 DEF Range2
  <2>3. PICK k \in 0 .. n - 1 : Member(p, l, n, k, "free")
    BY <1>0, <1>2, <2>2, MemberIs
  <2> QED BY <2>3 DEF Member, Piece
<1>6. take_page_from_unused_queue_page_facts(p)
  BY <1>3, <1>4, <1>5, <1>n DEF take_page_from_unused_queue_page_facts
<1>7. PICK b : b = SmallestSbin[pages[p].count]
  OBVIOUS
<1>8. /\ b \in Sbin /\ ListIdx(p, b) \in 1 .. Len(unused_lists[b])
      /\ unused_lists[b][ListIdx(p, b)] = p
  BY <1>7, ListIdxIs
<1>9. valid_unused_page(p, b, ListIdx(p, b))
  BY <1>8, FreePlaced
<1>10. Family(pages, unused_headers, unused_lists, Sbin, FreeSpans(pages, popped), FreeKey(pages))
  BY SoundNow
<1>11. /\ pages[p].dlist.prev # NONE => /\ pages[p].dlist.prev \in FreeSpans(pages, popped)
                                        /\ pages[p].dlist.prev # p
                                        /\ pages[p].dlist.prev # pages[p].dlist.next
                                        /\ pages[pages[p].dlist.prev].dlist # NONE
       /\ pages[p].dlist.next # NONE => /\ pages[p].dlist.next \in FreeSpans(pages, popped)
                                        /\ pages[p].dlist.next # p
                                        /\ pages[pages[p].dlist.next].dlist # NONE
  BY <1>8, <1>10, FamilyMember
<1>12. \A q \in FreeSpans(pages, popped) : ~pages[q].is_used
  BY DEF FreeSpans
<1>13. take_page_from_unused_queue_dlist_facts(p)
  BY <1>11, <1>12 DEF take_page_from_unused_queue_dlist_facts
<1> QED BY <1>3, <1>6, <1>7, <1>9, <1>11, <1>13

LEMMA FreeInSbin ==
  ASSUME OrgInv, NEW p \in Headers
  PROVE  unused_is_in_sbin(p)
<1> SUFFICES ASSUME popped.tag \in {"VeryUnready", "SegmentFreeing"}, ~pages[p].is_used, p[2] # 0
             PROVE  LET b == SmallestSbin[pages[p].count] IN valid_unused_page(p, b, ListIdx(p, b))
  BY DEF unused_is_in_sbin
<1>1. ~IsReady(popped, p)
  BY DEF IsReady
<1>2. p \in FreeSpans(pages, popped)
  BY <1>1 DEF FreeSpans, Headers
<1> QED BY <1>2, FreeFacts

\* between two calls the flag of a page names the list it is in
LEMMA MarkedIsIn ==
  ASSUME OrgInv, popped = No, NEW p \in PageHeaders
  PROVE  marked_full_is_in(p) /\ marked_unfull_is_in(p)
<1>1. p \in ListedPages(pages, popped) /\ p \in PageId
  BY PopNo DEF PageHeaders, Headers, ListedPages, PopOn
<1>2. pages[p].full \in BOOLEAN /\ pages[p].kind \in ValidBin
  BY <1>1, HeadsOf, PageFields
<1>3. Family(pages, used_headers, used_lists, UsedBin, ListedPages(pages, popped), PageKey(pages))
  BY SoundNow
<1>4. PICK b : b = PageKey(pages)[p]
  OBVIOUS
<1>5. b \in UsedBin /\ \E j \in 1 .. Len(used_lists[b]) : used_lists[b][j] = p
  BY <1>1, <1>3, <1>4 DEF Family
<1>6. DOMAIN used_lists[b] = 1 .. Len(used_lists[b])
  BY <1>5, PageListIs
<1>7. \E j \in DOMAIN used_lists[b] : valid_used_page(p, b, j)
  BY <1>5, <1>6, PagePlaced
<1>8. b = IF pages[p].full = TRUE THEN BIN_FULL ELSE pages[p].kind
  BY <1>1, <1>4 DEF PageKey
<1>9. CASE pages[p].full = TRUE
  <2>1. b = BIN_FULL
    BY <1>8, <1>9
  <2> QED BY <1>2, <1>7, <1>9, <2>1 DEF marked_full_is_in, marked_unfull_is_in
<1>10. CASE pages[p].full = FALSE
  <2>1. b = pages[p].kind
    BY <1>8, <1>10
  <2> QED BY <1>2, <1>7, <1>10, <2>1 DEF marked_full_is_in, marked_unfull_is_in
<1> QED BY <1>2, <1>9, <1>10

\* in a segment that is given up the next slice begins a free span
LEMMA FreeingIsIn == ASSUME OrgInv PROVE segment_freeing_is_in
<1> SUFFICES ASSUME popped.tag = "SegmentFreeing", popped.idx < SLICES_PER_SEGMENT,
                    NEW p, p = <<popped.seg, popped.idx>>
             PROVE  pages[p].offset = 0 /\ pages[p].count # NONE /\ unused_is_in_sbin(p) /\ ~pages[p].is_used
  BY DEF segment_freeing_is_in
<1>1. PICK s \in DOMAIN used, i \in 1 .. N : popped = SegmentFreeing(s, i) /\ used[s] = 0
  BY FreeingAt
<1>2. p = <<s, i>> /\ i < N
  BY <1>1, PopFreeing DEF N
<1>3. pages \in PagesType /\ s \in Segment /\ SegmentOK(pages, popped, s)
  BY InvIs DEF Laid
<1>4. Lo(popped, s) = i /\ Ec(popped, s) = 0 /\ \A q : ~PopOn(popped, q)
  BY <1>1, PopFreeing
<1>5. i \in Slice /\ i # 0 /\ ~Hole(popped, s, i)
  BY <1>1, <1>2, PageIdIs DEF Slice, Hole, SegmentFreeing
<1>6. Ext(pages, popped, s)[i] # 0
  BY <1>2, <1>3, <1>4 DEF SegmentOK, Tiling
<1>7. p \in PageId /\ pages[p].offset = 0 /\ p[2] # 0
  BY <1>2, <1>3, <1>5, <1>6, ExtIs
<1>8. pages[p].count = Ext(pages, popped, s)[i]
  BY <1>2, <1>3, <1>5, <1>6, <1>7, ExtIs
<1>9. pages[p].count # NONE
  <2>1. pages[p].count \in 1 .. N
    BY <1>3, <1>5, <1>6, <1>8, SpanThere
  <2> QED BY <2>1, NoneAssumption
<1>10. ~pages[p].is_used
  <2> SUFFICES ASSUME pages[p].is_used PROVE FALSE
    OBVIOUS
  <2>1. i \in Headed(pages, s)
    BY <1>2, <1>5, <1>7 DEF Headed
  <2>2. used[s] = Cardinality(Headed(pages, s)) + Ec(popped, s)
    BY DEF OrgInv, Counted
  <2>3. IsFiniteSet(Headed(pages, s)) /\ Cardinality(Headed(pages, s)) \in Nat
    BY HeadedIs
  <2>4. Cardinality(Headed(pages, s)) = 0
    BY <1>1, <1>4, <2>2, <2>3
  <2>5. Headed(pages, s) = {}
    BY <2>3, <2>4, FS_EmptySet
  <2> QED BY <2>1, <2>5
<1>11. unused_is_in_sbin(p)
  BY <1>7, FreeInSbin DEF Headers
<1> QED BY <1>7, <1>9, <1>10, <1>11

\* the span after a range that is taken out
LEMMA AfterFacts == ASSUME OrgInv PROVE valid_page_after /\ merge_with_after_page_facts
<1> SUFFICES ASSUME popped.tag = "VeryUnready", popped.start + popped.count < SLICES_PER_SEGMENT,
                    NEW p, p = <<popped.seg, popped.start + popped.count>>
             PROVE  /\ pages[p].offset = 0
                    /\ ~pages[p].is_used => /\ popped.count + pages[p].count <= SLICES_PER_SEGMENT
                                            /\ good_range_unused(p) /\ unused_is_in_sbin(p)
  <2>1. <<popped.seg, popped.start + popped.count>>[2] = popped.start + popped.count
    OBVIOUS
  <2> QED BY <2>1 DEF valid_page_after, merge_with_after_page_facts
<1>s. PICK s : s = popped.seg
  OBVIOUS
<1>a. PICK a : a = popped.start
  OBVIOUS
<1>n. PICK n : n = popped.count
  OBVIOUS
<1>1. PICK b \in BOOLEAN : GoneHere(s, a, n, b)
  BY <1>s, <1>a, <1>n, GoneAt
<1>2. /\ s \in Segment /\ a \in Slice /\ n \in 1 .. N - a /\ n # 0
      /\ Ext(pages, popped, s)[a] = n /\ SegmentOK(pages, popped, s)
  BY <1>1 DEF GoneHere
<1>3. a \in Nat /\ n \in Nat /\ 1 <= n /\ N \in Nat
  BY <1>2, FirstIn
<1>f. PICK f : f = a + n
  OBVIOUS
<1>4. f < N /\ f \in Nat /\ f # a /\ f # 0
  BY <1>3, <1>f, <1>a, <1>n DEF N
<1>5. f \in Slice /\ Ext(pages, popped, s)[f] # 0
  <2>1. a + n < N
    BY <1>4, <1>f
  <2>2. a + n \in Slice /\ Ext(pages, popped, s)[a + n] # 0
    BY <1>2, <2>1, InvIs, SpanThere
  <2> QED BY <1>f, <2>2
<1>6. p = <<s, f>>
  BY <1>s, <1>a, <1>n, <1>f
<1>7. p \in PageId /\ pages[p].offset = 0
  BY <1>1, <1>4, <1>5, <1>6, BesideGone
<1>8. ASSUME ~pages[p].is_used
      PROVE  /\ n + pages[p].count <= N
             /\ good_range_unused(p) /\ unused_is_in_sbin(p)
  <2>1. p \in FreeSpans(pages, popped)
    BY <1>1, <1>4, <1>5, <1>6, <1>8, BesideGone
  <2>2. pages[p].count \in 1 .. N - f
    BY <1>6, <2>1, FreeAt DEF Heads
  <2>3. n + pages[p].count <= N
    BY <1>3, <1>4, <1>f, <2>2
  <2> QED BY <1>7, <2>1, <2>3, FreeFacts, FreeInSbin DEF Headers
<1> QED BY <1>7, <1>8, <1>n DEF N

\* the span before it, and the last slice of that span, from which it is found
LEMMA BeforeFacts ==
  ASSUME OrgInv
  PROVE  valid_page_before /\ merge_with_before_page_facts /\ merge_with_before_dlist_facts
<1> SUFFICES ASSUME popped.tag = "VeryUnready",
                    NEW l, l = <<popped.seg, popped.start - 1>>,
                    NEW f, f = BeforeStart(popped.seg, popped.start),
                    NEW p, p = <<popped.seg, f>>
             PROVE  /\ pages[l].offset \in 0 .. l[2]
                    /\ pages[<<popped.seg, l[2] - pages[l].offset>>].offset = 0
                    /\ pages[<<popped.seg, l[2] - pages[l].offset>>].count = pages[l].offset + 1
                    /\ p[2] > 0 /\ ~pages[p].is_used =>
                         /\ ~pages[l].is_used /\ p[2] + pages[p].count = popped.start
                         /\ good_range_unused(p) /\ unused_is_in_sbin(p)
                         /\ take_page_from_unused_queue_dlist_facts(p)
                         /\ l \notin {pages[p].dlist.prev, pages[p].dlist.next}
  BY DEF valid_page_before, merge_with_before_page_facts, merge_with_before_dlist_facts
<1>s. PICK s : s = popped.seg
  OBVIOUS
<1>a. PICK a : a = popped.start
  OBVIOUS
<1>n. PICK n : n = popped.count
  OBVIOUS
<1>1. PICK b \in BOOLEAN : GoneHere(s, a, n, b)
  BY <1>s, <1>a, <1>n, GoneAt
<1>2. PICK x \in Slice : Before(s, a, x)
  BY <1>1, SpanBefore
<1>3. x = f
  BY <1>2, <1>s, <1>a DEF Before
<1>m. PICK m : m = Ext(pages, popped, s)[f]
  OBVIOUS
<1>4. /\ f \in Slice /\ f # a /\ m # 0 /\ f + m = a
      /\ l = <<s, a - 1>> /\ l \in PageId /\ l[2] = a - 1
      /\ pages[l].offset = m - 1
      /\ p = <<s, f>> /\ p[2] = f
      /\ pages[l].is_used <=> pages[p].is_used
  BY <1>2, <1>3, <1>m, <1>s, <1>a DEF Before
<1>5. s \in Segment /\ a \in Slice /\ SegmentOK(pages, popped, s)
  BY <1>1 DEF GoneHere
<1>6. m \in 1 .. N - f /\ f \in Nat
  BY <1>4, <1>5, <1>m, InvIs, SpanThere, FirstIn
<1>7. a \in Nat /\ m \in Nat /\ 1 <= m /\ a - 1 - (m - 1) = f /\ m - 1 \in 0 .. a - 1 /\ m - 1 + 1 = m
  BY <1>4, <1>5, <1>6, PageIdIs DEF Slice
<1>8. p \in PageId /\ pages[p].offset = 0 /\ pages[p].count = m
  BY <1>1, <1>4, <1>m, BesideGone
<1>9. <<s, l[2] - pages[l].offset>> = p
  BY <1>4, <1>7
<1>10. ASSUME p[2] > 0, ~pages[p].is_used
       PROVE  /\ ~pages[l].is_used /\ p[2] + pages[p].count = a
              /\ good_range_unused(p) /\ unused_is_in_sbin(p)
              /\ take_page_from_unused_queue_dlist_facts(p)
              /\ l \notin {pages[p].dlist.prev, pages[p].dlist.next}
  <2>1. f # 0
    BY <1>4, <1>10
  <2>2. p \in FreeSpans(pages, popped)
    BY <1>1, <1>4, <1>m, <1>10, <2>1, BesideGone
  <2>3. /\ good_range_unused(p) /\ take_page_from_unused_queue_dlist_facts(p)
        /\ \A q \in {pages[p].dlist.prev, pages[p].dlist.next} :
             q # NONE => q # p /\ q \in FreeSpans(pages, popped)
    BY <2>2, FreeFacts
  <2>4. ASSUME l \in {pages[p].dlist.prev, pages[p].dlist.next} PROVE FALSE
    <3>1. l # p /\ l \in FreeSpans(pages, popped)
      BY <1>4, <2>3, <2>4, NotNone
    <3>2. m - 1 = 0
      BY <1>4, <3>1 DEF FreeSpans
    <3>3. a - 1 = f
      BY <1>7, <3>2
    <3> QED BY <1>4, <3>1, <3>3
  <2>5. unused_is_in_sbin(p)
    BY <1>8, FreeInSbin DEF Headers
  <2> QED BY <1>4, <1>8, <1>10, <2>3, <2>4, <2>5
<1> QED BY <1>4, <1>7, <1>8, <1>9, <1>10, <1>s, <1>a

\* a header of a page begins a span, and no two spans share a slice
LEMMA PageSpan ==
  ASSUME OrgInv, NEW p \in PageHeaders, NEW s, NEW a, NEW n, s = p[1], a = p[2], n = pages[p].count
  PROVE  /\ \E c \in {"page", "taken"} : SpanHere(p, s, a, n, c)
         /\ a \in Slice /\ Ext(pages, popped, s)[a] = n /\ n # 0
         /\ SegmentOK(pages, popped, s) /\ ~Hole(popped, s, a)
<1>1. p \in PageId /\ pages[p].offset = 0 /\ pages[p].is_used
  BY DEF PageHeaders, Headers
<1>2. /\ s \in DOMAIN used /\ a \in Slice /\ p = <<s, a>> /\ ~Hole(popped, s, a)
      /\ n = Ext(pages, popped, s)[a] /\ n # 0
  BY <1>1, InvIs, HeaderAt
<1>3. s \in Segment /\ SegmentOK(pages, popped, s) /\ pages \in PagesType
  BY <1>2, InvIs DEF Laid
<1>4. PICK c : c = Class(pages, popped, s, a)
  OBVIOUS
<1>5. n \in 1 .. N - a /\ Span(pages, s, a, n, c)
  BY <1>2, <1>3, <1>4, SpanThere
<1>6. SpanHere(p, s, a, n, c)
  BY <1>2, <1>3, <1>5 DEF SpanHere
<1>7. Piece(pages[p], 0, n, c)
  <2>1. a \in a .. a + n - 1 /\ a - a = 0
    BY <1>2, <1>3, <1>5, FirstIn
  <2> QED BY <1>2, <1>5, <2>1 DEF Span
<1>8. c \in {"page", "taken"}
  BY <1>1, <1>7 DEF Piece
<1> QED BY <1>2, <1>3, <1>6, <1>8

LEMMA PagesApart ==
  ASSUME OrgInv, NEW p \in PageHeaders
  PROVE  /\ good_range_used(p) /\ get_offset_for_something_in_used_range(p)
         /\ lemma_range_disjoint_very_unready(p)
         /\ \A q \in PageHeaders : lemma_range_disjoint_used2(p, q)
<1>s. PICK s : s = p[1]
  OBVIOUS
<1>a. PICK a : a = p[2]
  OBVIOUS
<1>n. PICK n : n = pages[p].count
  OBVIOUS
<1>e. PICK e : e = Ext(pages, popped, s)
  OBVIOUS
<1>1. PICK c \in {"page", "taken"} : SpanHere(p, s, a, n, c)
  BY <1>s, <1>a, <1>n, PageSpan
<1>2. /\ a \in Slice /\ e[a] = n /\ n # 0
      /\ SegmentOK(pages, popped, s) /\ ~Hole(popped, s, a)
  BY <1>s, <1>a, <1>n, <1>e, PageSpan
<1>3. Tiling(e, Lo(popped, s))
  BY <1>2, <1>e DEF SegmentOK
<1>4. good_range_used(p)
  BY <1>1, InvIs, UsedShape
<1>5. get_offset_for_something_in_used_range(p)
  BY <1>4 DEF good_range_used, SpanShape, get_offset_for_something_in_used_range
<1>6. ASSUME NEW x \in Slice, e[x] # 0, x # a PROVE Apart(p, x, e[x])
  <2>1. x \in Nat /\ a \in Nat
    BY <1>2, PageIdIs DEF Slice
  <2>2. CASE x < a
    BY <1>2, <1>3, <1>6, <2>2, <1>a, SpansApart DEF Apart
  <2>3. CASE a < x
    <3>1. a + e[a] <= x
      BY <1>2, <1>3, <1>6, <2>3, SpansApart
    <3> QED BY <1>2, <3>1, <1>a, <1>n DEF Apart
  <2> QED BY <1>6, <2>1, <2>2, <2>3
<1>7. lemma_range_disjoint_very_unready(p)
  <2> SUFFICES ASSUME popped.tag = "VeryUnready", s = popped.seg
               PROVE  Apart(p, popped.start, popped.count)
    BY <1>s DEF lemma_range_disjoint_very_unready
  <2>1. PICK b \in BOOLEAN : GoneHere(popped.seg, popped.start, popped.count, b)
    BY GoneAt
  <2>2. popped.start \in Slice /\ e[popped.start] = popped.count /\ popped.count # 0
    BY <2>1, <1>e DEF GoneHere
  <2>3. popped.start # a
    BY <1>2 DEF Hole
  <2> QED BY <1>6, <2>2, <2>3
<1>8. ASSUME NEW q \in PageHeaders PROVE lemma_range_disjoint_used2(p, q)
  <2> SUFFICES ASSUME p # q, p[1] = q[1] PROVE Apart(p, q[2], pages[q].count)
    BY DEF lemma_range_disjoint_used2
  <2>1. q[2] \in Slice /\ e[q[2]] = pages[q].count /\ pages[q].count # 0
    BY <1>s, <1>e, PageSpan
  <2>2. q[2] # a
    <3>1. p \in PageId /\ q \in PageId
      BY DEF PageHeaders, Headers
    <3>2. p = <<p[1], p[2]>> /\ q = <<q[1], q[2]>>
      BY <3>1, PageIdIs, Zenon
    <3> QED BY <3>2, <1>a, Zenon
  <2> QED BY <1>6, <2>1, <2>2
<1> QED BY <1>4, <1>5, <1>7, <1>8

LEMMA WayNow == ASSUME OrgInv PROVE CodeFindsItsWay
<1>1. ASSUME NEW b \in Sbin, NEW j \in DOMAIN unused_lists[b]
      PROVE  /\ take_page_from_unused_queue_page_facts(unused_lists[b][j])
             /\ take_page_from_unused_queue_dlist_facts(unused_lists[b][j])
  <2>1. unused_lists[b][j] \in FreeSpans(pages, popped)
    BY <1>1, FreeListIs, FreePlaced
  <2> QED BY <2>1, FreeFacts
<1>2. ValidBin \subseteq UsedBin
  BY DEF UsedBin
<1>3. \A b \in Sbin : first_is_in(b) /\ \A j \in DOMAIN unused_lists[b] :
        /\ next_is_in(b, j)
        /\ take_page_from_unused_queue_page_facts(unused_lists[b][j])
        /\ take_page_from_unused_queue_dlist_facts(unused_lists[b][j])
  BY <1>1, FreeWalk
<1>4. \A b \in UsedBin : \A j \in DOMAIN used_lists[b] :
        used_next_is_in(b, j) /\ used_page_dlist_facts(b, j)
  BY PageWalk
<1>5. \A b \in ValidBin : used_first_is_in(b)
  BY <1>2, PageWalk
<1>6. popped = No => \A p \in PageHeaders : marked_full_is_in(p) /\ marked_unfull_is_in(p)
  BY MarkedIsIn
<1>7. \A p \in Headers : unused_is_in_sbin(p)
  BY FreeInSbin
<1>8. \A p \in PageHeaders :
        /\ good_range_used(p) /\ get_offset_for_something_in_used_range(p)
        /\ lemma_range_disjoint_very_unready(p)
        /\ \A q \in PageHeaders : lemma_range_disjoint_used2(p, q)
  BY PagesApart
<1> QED
  BY <1>3, <1>4, <1>5, <1>6, <1>7, <1>8, FreeingIsIn, AfterFacts, BeforeFacts DEF CodeFindsItsWay

-----------------------------------------------------------------------------
(* From the end of a segment to its beginning                               *)

Less == OpToRel(<, Nat)

LEMMA LessIs == \A i, j \in Nat : <<i, j>> \in Less <=> i < j
  BY DEF Less, OpToRel

LEMMA LeastOf == ASSUME NEW S, S \subseteq Nat, S # {} PROVE \E m \in S : \A k \in S : ~(k < m)
<1>1. IsWellFoundedOn(Less, Nat)
  BY NatLessThanWellFounded DEF Less
<1>2. PICK m \in S : \A k \in S : ~(<<k, m>> \in Less)
  BY <1>1, WFMin
<1>3. \A k \in S : ~(k < m)
  BY <1>2, LessIs
<1> QED BY <1>3

\* what holds of a slice when it holds of all after it holds of every slice
LEMMA FromTheEnd ==
  ASSUME NEW S, \A i \in 0 .. N : (\A j \in i + 1 .. N : j \in S) => i \in S
  PROVE  0 .. N \subseteq S
<1> DEFINE T == {k \in 0 .. N : N - k \notin S}
<1>0. N \in Nat
  BY PageIdIs
<1>1. ASSUME T # {} PROVE FALSE
  <2>1. T \subseteq Nat
    BY <1>0
  <2> HIDE DEF T
  <2>2. PICK m \in T : \A k \in T : ~(k < m)
    BY <1>1, <2>1, LeastOf
  <2> USE DEF T
  <2>3. m \in 0 .. N /\ N - m \in 0 .. N /\ N - m \notin S
    BY <1>0
  <2>4. ASSUME NEW j \in N - m + 1 .. N PROVE j \in S
    <3>1. N - j \in 0 .. N /\ N - j < m /\ N - (N - j) = j
      BY <1>0, <2>3
    <3> QED BY <2>2, <3>1
  <2> QED BY <2>3, <2>4
<1>2. ASSUME NEW i \in 0 .. N PROVE i \in S
  <2>1. N - i \in 0 .. N /\ N - (N - i) = i
    BY <1>0
  <2> QED BY <1>1, <2>1
<1> QED BY <1>2

\* from the beginning: every slice follows one before it, or is the first
LEMMA FromTheStart ==
  ASSUME NEW S, \A i \in Slice : (\A j \in 0 .. i - 1 : j \in S) => i \in S
  PROVE  Slice \subseteq S
<1> DEFINE T == {k \in Slice : k \notin S}
<1>1. ASSUME T # {} PROVE FALSE
  <2>1. T \subseteq Nat
    BY DEF Slice
  <2> HIDE DEF T
  <2>2. PICK m \in T : \A k \in T : ~(k < m)
    BY <1>1, <2>1, LeastOf
  <2> USE DEF T
  <2>3. m \in Slice /\ m \notin S
    OBVIOUS
  <2>4. ASSUME NEW j \in 0 .. m - 1 PROVE j \in S
    <3>1. j \in Slice /\ j < m
      BY <2>3, PageIdIs DEF Slice
    <3> QED BY <2>2, <3>1
  <2> QED BY <2>3, <2>4
<1> QED BY <1>1

\* every slice from the first span on is in a span
LEMMA Covered ==
  ASSUME NEW e, NEW lo, Tiling(e, lo), NEW x \in Slice, lo <= x
  PROVE  \E a \in Slice : e[a] # 0 /\ a <= x /\ x < a + e[a]
<1> DEFINE S == {y \in Slice : lo <= y => \E a \in Slice : e[a] # 0 /\ a <= y /\ y < a + e[a]}
<1>0. lo \in 0 .. N /\ N \in Nat /\ N >= 2
  BY PageIdIs DEF Tiling
<1>1. ASSUME NEW i \in Slice, \A j \in 0 .. i - 1 : j \in S PROVE i \in S
  <2> SUFFICES ASSUME lo <= i PROVE \E a \in Slice : e[a] # 0 /\ a <= i /\ i < a + e[a]
    OBVIOUS
  <2>0. i \in Nat /\ i < N
    BY <1>0 DEF Slice
  <2>1. CASE i = lo
    <3>1. e[i] # 0
      BY <1>0, <2>0, <2>1 DEF Tiling
    <3>2. e[i] \in 1 .. N
      BY <3>1, TileAt
    <3>3. i <= i /\ i < i + e[i]
      BY <1>0, <2>0, <3>2
    <3> QED BY <3>1, <3>3
  <2>2. CASE i # lo
    <3>1. i - 1 \in 0 .. i - 1 /\ lo <= i - 1
      BY <1>0, <2>0, <2>2
    <3>2. PICK a \in Slice : e[a] # 0 /\ a <= i - 1 /\ i - 1 < a + e[a]
      BY <1>1, <3>1
    <3>3. a \in Nat /\ e[a] \in 1 .. N /\ (a + e[a] < N => e[a + e[a]] # 0)
      BY <3>2, TileAt DEF Slice
    <3>4. CASE i < a + e[a]
      <4>1. a <= i
        BY <2>0, <3>2, <3>3
      <4> QED BY <3>2, <3>4, <4>1
    <3>5. CASE ~(i < a + e[a])
      <4>1. PICK m : m = e[a]
        OBVIOUS
      <4>2. i = a + m
        BY <1>0, <2>0, <3>2, <3>3, <3>5, <4>1
      <4>3. e[i] # 0
        BY <2>0, <3>3, <4>1, <4>2
      <4>4. e[i] \in 1 .. N
        BY <4>3, TileAt
      <4>5. i <= i /\ i < i + e[i]
        BY <1>0, <2>0, <4>4
      <4> QED BY <4>3, <4>5
    <3> QED BY <3>4, <3>5
  <2> QED BY <2>1, <2>2
<1>2. Slice \subseteq S
  <2> HIDE DEF S
  <2> QED BY <1>1, FromTheStart
<1> QED BY <1>2

-----------------------------------------------------------------------------
(* attached_rec: one step of it, and that it is defined at every slice      *)

RecStep(s, f, i, sp) ==
  CASE i = SLICES_PER_SEGMENT -> ~sp
    [] is_the_popped(s, i) ->
         sp /\ popped_len >= 1 /\ i + popped_len \in Idx /\ f[i + popped_len][FALSE]
    [] OTHER ->
         /\ IF pages[<<s, i>>].is_used THEN good_range_used(<<s, i>>)
                                       ELSE good_range_unused(<<s, i>>)
         /\ f[i + pages[<<s, i>>].count][sp]

Walk(s) == CHOOSE f : f = [i \in Idx |-> [sp \in BOOLEAN |-> RecStep(s, f, i, sp)]]

LEMMA AttachedIs ==
  ASSUME NEW s, NEW i, NEW sp
  PROVE  attached_rec(s, i, sp) = Walk(s)[i][sp]
  BY DEF attached_rec, Walk, RecStep

LEMMA StepEnd ==
  ASSUME NEW s, NEW f, NEW i, i = SLICES_PER_SEGMENT, ~is_the_popped(s, i), NEW t \in BOOLEAN
  PROVE  RecStep(s, f, i, t) <=> ~t
  BY DEF RecStep

LEMMA StepPopped ==
  ASSUME NEW s, NEW f, NEW i, i # SLICES_PER_SEGMENT, is_the_popped(s, i), NEW t \in BOOLEAN
  PROVE  RecStep(s, f, i, t) <=>
           t /\ popped_len >= 1 /\ i + popped_len \in Idx /\ f[i + popped_len][FALSE]
  BY DEF RecStep

LEMMA StepSpan ==
  ASSUME NEW s, NEW f, NEW i, i # SLICES_PER_SEGMENT, ~is_the_popped(s, i), NEW t \in BOOLEAN
  PROVE  RecStep(s, f, i, t) <=>
           /\ IF pages[<<s, i>>].is_used THEN good_range_used(<<s, i>>)
                                         ELSE good_range_unused(<<s, i>>)
           /\ f[i + pages[<<s, i>>].count][t]
  BY DEF RecStep

LEMMA StepBool == ASSUME NEW s, NEW f, NEW i, NEW t \in BOOLEAN PROVE RecStep(s, f, i, t) \in BOOLEAN
<1>1. CASE i = SLICES_PER_SEGMENT
  <2>1. CASE is_the_popped(s, i)
    BY <1>1, <2>1 DEF RecStep
  <2>2. CASE ~is_the_popped(s, i)
    BY <1>1, <2>2 DEF RecStep
  <2> QED BY <2>1, <2>2
<1>2. CASE i # SLICES_PER_SEGMENT /\ is_the_popped(s, i)
  BY <1>2 DEF RecStep
<1>3. CASE i # SLICES_PER_SEGMENT /\ ~is_the_popped(s, i)
  BY <1>3 DEF RecStep
<1> QED BY <1>1, <1>2, <1>3

\* the popped range is inside its segment
LEMMA PoppedPlace ==
  ASSUME OrgInv, NEW s, NEW i, is_the_popped(s, i)
  PROVE  /\ i \in 1 .. N - 1 /\ i \in Slice /\ s \in DOMAIN used
         /\ popped_len \in 1 .. N - i /\ popped_len \in 1 .. N
         /\ Ext(pages, popped, s)[i] = popped_len
         /\ popped_for_seg(s)
         /\ \A j : is_the_popped(s, j) => j = i
<1>1. CASE popped.tag = "VeryUnready"
  <2>1. popped.seg = s /\ popped.start = i /\ popped_len = popped.count
    BY <1>1 DEF is_the_popped, popped_len
  <2>2. PICK b : GoneHere(s, i, popped.count, b)
    BY <1>1, <2>1, GoneAt
  <2>3. popped.count \in 1 .. N
    BY <1>1, InvIs
  <2> QED BY <1>1, <2>1, <2>2, <2>3 DEF GoneHere, is_the_popped, popped_for_seg
<1>2. CASE popped.tag \in {"Ready", "Used"}
  <2>1. PICK c : \/ popped.tag = "Ready" /\ c = "ready"
                 \/ popped.tag = "Used" /\ c = "taken"
    BY <1>2
  <2>2. popped.page = <<s, i>> /\ popped_len = pages[popped.page].count
    BY <1>2 DEF is_the_popped, popped_len
  <2>3. popped.page[1] = s /\ popped.page[2] = i
    BY <2>2
  <2>4. PICK b : PageHere(popped.page, s, i, popped_len, b, c)
    BY <2>1, <2>2, <2>3, PageAt
  <2>5. popped_len \in 1 .. N
    BY <2>4, PageIdIs DEF Slice, PageHere
  <2>6. popped_for_seg(s)
    BY <1>2, <2>3 DEF popped_for_seg
  <2>7. \A j : is_the_popped(s, j) => j = i
    BY <1>2, <2>2 DEF is_the_popped
  <2> QED BY <2>4, <2>5, <2>6, <2>7 DEF PageHere
<1> QED BY <1>1, <1>2 DEF is_the_popped

\* only values at later slices matter
LEMMA StepSame ==
  ASSUME OrgInv, NEW s, NEW f, NEW g, NEW i \in 0 .. N, NEW t \in BOOLEAN,
         \A j \in i + 1 .. N : \A u \in BOOLEAN : f[j][u] = g[j][u]
  PROVE  RecStep(s, f, i, t) <=> RecStep(s, g, i, t)
<1>0. N \in Nat
  BY PageIdIs
<1>1. CASE i = N
  <2>1. ~is_the_popped(s, i)
    BY <1>0, <1>1, PoppedPlace
  <2> QED BY <1>1, <2>1, StepEnd DEF N
<1>2. CASE i # N /\ is_the_popped(s, i)
  <2>1. PICK m : m = popped_len
    OBVIOUS
  <2>2. m \in 1 .. N
    BY <1>2, <2>1, PoppedPlace
  <2>3. i + m \in Idx => f[i + m][FALSE] = g[i + m][FALSE]
    <3>1. i + m \in Idx => i + m \in i + 1 .. N
      BY <1>0, <2>2 DEF Idx, N
    <3>2. FALSE \in BOOLEAN
      OBVIOUS
    <3> QED BY <3>1, <3>2
  <2>4. /\ RecStep(s, f, i, t) <=> t /\ m >= 1 /\ i + m \in Idx /\ f[i + m][FALSE]
        /\ RecStep(s, g, i, t) <=> t /\ m >= 1 /\ i + m \in Idx /\ g[i + m][FALSE]
    BY <1>2, <2>1, StepPopped DEF N
  <2>5. CASE i + m \in Idx
    BY <2>3, <2>4, <2>5
  <2>6. CASE i + m \notin Idx
    BY <2>4, <2>6
  <2> QED BY <2>5, <2>6
<1>3. CASE i # N /\ ~is_the_popped(s, i)
  <2>1. PICK m : m = pages[<<s, i>>].count
    OBVIOUS
  <2>2. PICK z \in BOOLEAN : z <=> IF pages[<<s, i>>].is_used THEN good_range_used(<<s, i>>)
                                                              ELSE good_range_unused(<<s, i>>)
    OBVIOUS
  <2>3. z => m \in 1 .. N - i
    <3>1. <<s, i>>[2] = i
      OBVIOUS
    <3> QED BY <2>1, <2>2, <3>1 DEF good_range_used, good_range_unused, SpanShape, N
  <2>4. z => f[i + m][t] = g[i + m][t]
    <3>1. m \in 1 .. N - i => i + m \in i + 1 .. N
      BY <1>0
    <3> QED BY <2>3, <3>1
  <2>5. (RecStep(s, f, i, t) <=> z /\ f[i + m][t]) /\ (RecStep(s, g, i, t) <=> z /\ g[i + m][t])
    <3>1. ASSUME NEW h
          PROVE  RecStep(s, h, i, t) <=>
                   /\ IF pages[<<s, i>>].is_used THEN good_range_used(<<s, i>>)
                                                 ELSE good_range_unused(<<s, i>>)
                   /\ h[i + m][t]
      BY <1>3, <2>1, StepSpan DEF N
    <3>2. ASSUME NEW h PROVE RecStep(s, h, i, t) <=> z /\ h[i + m][t]
      BY <2>2, <3>1
    <3> QED BY <3>2
  <2>6. CASE z
    BY <2>4, <2>5, <2>6
  <2>7. CASE ~z
    BY <2>5, <2>7
  <2> QED BY <2>6, <2>7
<1> QED BY <1>1, <1>2, <1>3

\* f is defined from slice k on
Known(s, f, k) ==
  /\ f \in [Idx -> [BOOLEAN -> BOOLEAN]]
  /\ \A i \in k .. N : \A t \in BOOLEAN : f[i][t] <=> RecStep(s, f, i, t)

LEMMA WalkKnown == ASSUME OrgInv, NEW s PROVE \E f : Known(s, f, 0)
<1> DEFINE S == {k \in 0 .. N : \E f : Known(s, f, k)}
<1>0. N \in Nat /\ Idx = 0 .. N
  BY PageIdIs DEF Idx, N
<1>1. ASSUME NEW k \in 0 .. N, \A j \in k + 1 .. N : j \in S PROVE k \in S
  <2>1. PICK f : f \in [Idx -> [BOOLEAN -> BOOLEAN]]
                 /\ \A i \in k + 1 .. N : \A t \in BOOLEAN : f[i][t] <=> RecStep(s, f, i, t)
    <3>1. CASE k = N
      <4>1. k + 1 .. N = {}
        BY <1>0, <3>1
      <4>2. [x \in Idx |-> [t \in BOOLEAN |-> TRUE]] \in [Idx -> [BOOLEAN -> BOOLEAN]]
        OBVIOUS
      <4> QED BY <4>1, <4>2
    <3>2. CASE k # N
      <4>1. k + 1 \in k + 1 .. N
        BY <1>0, <3>2
      <4>2. k + 1 \in S
        BY <1>1, <4>1
      <4> QED BY <4>2 DEF Known
    <3> QED BY <3>1, <3>2
  <2>b. PICK b : b = [t \in BOOLEAN |-> RecStep(s, f, k, t)]
    OBVIOUS
  <2>2. PICK g : g = [f EXCEPT ![k] = b]
    OBVIOUS
  <2>c. b \in [BOOLEAN -> BOOLEAN] /\ \A t \in BOOLEAN : b[t] = RecStep(s, f, k, t)
    BY <2>b, StepBool
  <2>4. g \in [Idx -> [BOOLEAN -> BOOLEAN]] /\ \A i \in Idx : g[i] = IF i = k THEN b ELSE f[i]
    BY <1>0, <2>1, <2>2, <2>c
  <2>5. \A j \in k + 1 .. N : \A u \in BOOLEAN : f[j][u] = g[j][u]
    <3>1. \A j \in k + 1 .. N : j \in Idx /\ j # k
      BY <1>0
    <3> QED BY <2>4, <3>1
  <2>6. ASSUME NEW i \in k .. N, NEW t \in BOOLEAN PROVE g[i][t] <=> RecStep(s, g, i, t)
    <3>1. i \in 0 .. N /\ i \in Idx /\ \A j \in i + 1 .. N : j \in k + 1 .. N
      BY <1>0
    <3>2. RecStep(s, f, i, t) <=> RecStep(s, g, i, t)
      BY <2>5, <3>1, StepSame
    <3>3. g[i][t] <=> RecStep(s, f, i, t)
      <4>1. CASE i = k
        BY <2>4, <2>c, <3>1, <4>1
      <4>2. CASE i # k
        <5>1. i \in k + 1 .. N
          BY <1>0, <4>2
        <5>2. f[i][t] <=> RecStep(s, f, i, t)
          BY <2>1, <5>1
        <5>3. g[i] = f[i]
          BY <2>4, <3>1, <4>2
        <5> QED BY <5>2, <5>3
      <4> QED BY <4>1, <4>2
    <3> QED BY <3>2, <3>3
  <2> QED BY <2>4, <2>6 DEF Known
<1>2. 0 .. N \subseteq S
  <2> HIDE DEF S
  <2> QED BY <1>1, FromTheEnd
<1>3. 0 \in S
  BY <1>0, <1>2
<1> QED BY <1>3

LEMMA WalkIs ==
  ASSUME OrgInv, NEW s
  PROVE  \A i \in 0 .. N : \A t \in BOOLEAN : Walk(s)[i][t] <=> RecStep(s, Walk(s), i, t)
<1>0. N \in Nat /\ Idx = 0 .. N
  BY PageIdIs DEF Idx, N
<1>1. PICK f : Known(s, f, 0)
  BY WalkKnown
<1>2. f = [i \in Idx |-> [t \in BOOLEAN |-> RecStep(s, f, i, t)]]
  <2>1. f = [i \in Idx |-> f[i]] /\ \A i \in Idx : f[i] = [t \in BOOLEAN |-> f[i][t]]
    BY <1>1 DEF Known
  <2>2. \A i \in Idx : \A t \in BOOLEAN : f[i][t] = RecStep(s, f, i, t)
    <3> SUFFICES ASSUME NEW i \in Idx, NEW t \in BOOLEAN PROVE f[i][t] = RecStep(s, f, i, t)
      OBVIOUS
    <3>2. f[i][t] \in BOOLEAN /\ RecStep(s, f, i, t) \in BOOLEAN /\ (f[i][t] <=> RecStep(s, f, i, t))
      BY <1>0, <1>1, StepBool DEF Known
    <3> QED BY <3>2
  <2>3. \A i \in Idx : f[i] = [t \in BOOLEAN |-> RecStep(s, f, i, t)]
    BY <2>1, <2>2
  <2> QED BY <2>1, <2>3
<1>3. Walk(s) = [i \in Idx |-> [t \in BOOLEAN |-> RecStep(s, Walk(s), i, t)]]
  BY <1>2 DEF Walk
<1>4. PICK w : w = Walk(s)
  OBVIOUS
<1>5. w = [i \in Idx |-> [t \in BOOLEAN |-> RecStep(s, w, i, t)]]
  BY <1>3, <1>4
<1>6. \A i \in Idx : \A t \in BOOLEAN : w[i][t] = RecStep(s, w, i, t)
  BY <1>5
<1> QED BY <1>0, <1>4, <1>6

\* the popped range is still to come, from slice i on
Ahead(s, i) == \E j \in Slice : i <= j /\ is_the_popped(s, j)

\* the walk arrives at the end from every slice where a span begins
LEMMA WalkArrives ==
  ASSUME OrgInv, NEW s \in DOMAIN used
  PROVE  \A i \in 1 .. N : (i < N => Ext(pages, popped, s)[i] # 0) =>
           \A t \in BOOLEAN : (t <=> Ahead(s, i)) => Walk(s)[i][t]
<1> DEFINE e == Ext(pages, popped, s)
           S == {i \in 0 .. N : (i = 0) \/ ((i < N => e[i] # 0) =>
                   \A t \in BOOLEAN : (t <=> Ahead(s, i)) => Walk(s)[i][t])}
<1> HIDE DEF e
<1>0. N \in Nat /\ N >= 2 /\ Slice = 0 .. N - 1
  BY PageIdIs DEF Slice
<1>1. pages \in PagesType /\ s \in Segment /\ SegmentOK(pages, popped, s)
  BY InvIs DEF Laid
<1>2. ASSUME NEW i \in 0 .. N, \A j \in i + 1 .. N : j \in S PROVE i \in S
  <2> SUFFICES ASSUME i # 0, i < N => e[i] # 0, NEW t \in BOOLEAN, t <=> Ahead(s, i)
               PROVE  Walk(s)[i][t]
    OBVIOUS
  <2>1. Walk(s)[i][t] <=> RecStep(s, Walk(s), i, t)
    BY WalkIs
  <2>2. CASE i = N
    <3>1. ~is_the_popped(s, i) /\ ~Ahead(s, i)
      BY <1>0, <2>2, PoppedPlace DEF Ahead
    <3> QED BY <2>1, <2>2, <3>1, StepEnd DEF N
  <2>3. CASE i # N
    <3>0. i \in Slice /\ i < N /\ e[i] # 0 /\ i \in Nat
      BY <1>0, <2>3
    <3>n. PICK n : n = e[i]
      OBVIOUS
    <3>1. /\ n \in 1 .. N - i /\ n \in 1 .. N /\ n # 0
          /\ Span(pages, s, i, n, Class(pages, popped, s, i))
          /\ i + n < N => e[i + n] # 0
          /\ \A x \in i + 1 .. i + n - 1 : e[x] = 0
      BY <1>1, <3>0, <3>n, SpanThere DEF e
    <3>2. i + n \in i + 1 .. N /\ i + n # 0 /\ i + n \in 1 .. N /\ i + n \in Idx
      BY <3>0, <3>1, <1>0 DEF Idx, N
    <3>3. \A u \in BOOLEAN : (u <=> Ahead(s, i + n)) => Walk(s)[i + n][u]
      BY <1>2, <3>1, <3>2
    <3>4. \A j \in Slice : is_the_popped(s, j) /\ i < j => i + n <= j
      <4> SUFFICES ASSUME NEW j \in Slice, is_the_popped(s, j), i < j, ~(i + n <= j) PROVE FALSE
        OBVIOUS
      <4>1. e[j] = popped_len /\ popped_len \in 1 .. N
        BY PoppedPlace DEF e
      <4>2. j \in i + 1 .. i + n - 1
        BY <1>0, <3>0, <3>1
      <4> QED BY <3>1, <4>1, <4>2
    <3>5. CASE is_the_popped(s, i)
      <4>1. popped_len = n
        BY <3>5, <3>n, PoppedPlace DEF e
      <4>2. t
        BY <2>2, <3>0, <3>5 DEF Ahead
      <4>3. ~Ahead(s, i + n)
        <5>1. ASSUME NEW j \in Slice, i + n <= j, is_the_popped(s, j) PROVE FALSE
          <6>1. j = i
            BY <3>5, <5>1, PoppedPlace
          <6> QED BY <3>0, <3>1, <5>1, <6>1
        <5> QED BY <5>1 DEF Ahead
      <4>4. Walk(s)[i + n][FALSE]
        BY <3>3, <4>3
      <4>5. n >= 1
        BY <3>1
      <4> QED BY <2>1, <2>3, <3>2, <3>5, <4>1, <4>2, <4>4, <4>5, StepPopped DEF N
    <3>6. CASE ~is_the_popped(s, i)
      <4>1. t <=> Ahead(s, i + n)
        <5>1. Ahead(s, i) => Ahead(s, i + n)
          <6> SUFFICES ASSUME NEW j \in Slice, i <= j, is_the_popped(s, j) PROVE Ahead(s, i + n)
            BY DEF Ahead
          <6>1. i < j
            BY <1>0, <3>0, <3>6
          <6> QED BY <3>4, <6>1 DEF Ahead
        <5>2. Ahead(s, i + n) => Ahead(s, i)
          BY <1>0, <3>0, <3>1 DEF Ahead
        <5> QED BY <5>1, <5>2
      <4>2. Walk(s)[i + n][t]
        BY <3>3, <4>1
      <4>p. PICK p : p = <<s, i>>
        OBVIOUS
      <4>c. PICK c : c = Class(pages, popped, s, i)
        OBVIOUS
      <4>3. ~Hole(popped, s, i) /\ ~IsReady(popped, p) /\ ~IsTaken(popped, p)
        BY <3>6, <4>p DEF is_the_popped, Hole, IsReady, IsTaken
      <4>4. c = IF pages[p].is_used THEN "page" ELSE "free"
        BY <2>2, <4>3, <4>p, <4>c, ClassIs
      <4>5. SpanHere(p, s, i, n, c)
        BY <1>1, <3>0, <3>1, <4>p, <4>c DEF SpanHere
      <4>6. pages[p].count = n
        BY <1>1, <4>4, <4>5, FirstIs
      <4>7. IF pages[p].is_used THEN good_range_used(p) ELSE good_range_unused(p)
        <5>1. CASE pages[p].is_used
          BY <1>1, <4>4, <4>5, <5>1, UsedShape
        <5>2. CASE ~pages[p].is_used
          BY <1>1, <4>4, <4>5, <5>2, FreeShape
        <5> QED BY <5>1, <5>2
      <4> QED BY <2>1, <2>3, <3>6, <4>2, <4>6, <4>7, <4>p, StepSpan DEF N
    <3> QED BY <3>5, <3>6
  <2> QED BY <2>2, <2>3
<1>3. 0 .. N \subseteq S
  <2> HIDE DEF S
  <2> QED BY <1>2, FromTheEnd
<1>4. ASSUME NEW i \in 1 .. N, i < N => e[i] # 0, NEW t \in BOOLEAN, t <=> Ahead(s, i)
      PROVE  Walk(s)[i][t]
  <2>1. i \in S /\ i # 0
    BY <1>0, <1>3
  <2> QED BY <1>4, <2>1
<1> QED BY <1>4 DEF e

LEMMA SegmentAttached == ASSUME OrgInv, NEW s \in DOMAIN used PROVE attached_ranges_segment(s)
<1>0. N \in Nat /\ N >= 2 /\ Slice = 0 .. N - 1
  BY PageIdIs DEF Slice
<1>1. pages \in PagesType /\ s \in Segment /\ SegmentOK(pages, popped, s)
  BY InvIs DEF Laid
<1>2. CASE popped.tag = "SegmentFreeing" /\ popped.seg = s
  <2>1. PICK i \in 1 .. N : popped = SegmentFreeing(s, i)
    BY <1>2, FreeingAt, PopFreeing
  <2>2. popped.idx = i /\ Lo(popped, s) = i
    BY <2>1, PopFreeing
  <2>3. i < N => Ext(pages, popped, s)[i] # 0
    BY <1>1, <2>2 DEF SegmentOK, Tiling
  <2>4. ~Ahead(s, i)
    BY <1>2 DEF Ahead, is_the_popped
  <2>f. PICK f \in BOOLEAN : f = FALSE
    OBVIOUS
  <2>5. Walk(s)[i][f]
    BY <2>3, <2>4, <2>f, WalkArrives
  <2>6. attached_rec(s, i, FALSE)
    BY <2>5, <2>f, AttachedIs
  <2>7. popped # SegmentCreating(s)
    BY <2>1 DEF SegmentCreating, SegmentFreeing
  <2> QED BY <1>2, <2>2, <2>6, <2>7 DEF attached_ranges_segment
<1>3. CASE popped = SegmentCreating(s)
  BY <1>3 DEF attached_ranges_segment
<1>4. CASE ~(popped.tag = "SegmentFreeing" /\ popped.seg = s) /\ popped # SegmentCreating(s)
  <2>1. Lo(popped, s) = 0
    BY <1>4, CreatingAt, PopCreating DEF Lo
  <2>z. PICK z : z = 0
    OBVIOUS
  <2>p. PICK p : p = <<s, z>>
    OBVIOUS
  <2>n. PICK n : n = pages[p].count
    OBVIOUS
  <2>2. /\ z \in Slice /\ ~Hole(popped, s, z) /\ n = Ext(pages, popped, s)[z] /\ n # 0
        /\ Class(pages, popped, s, z) = "head"
    BY <2>1, <2>z, <2>p, <2>n, HeadThere
  <2>3. /\ n \in 1 .. N - z /\ n \in 1 .. N /\ Span(pages, s, z, n, "head")
        /\ z + n < N => Ext(pages, popped, s)[z + n] # 0
        /\ \A x \in z + 1 .. z + n - 1 : Ext(pages, popped, s)[x] = 0
    BY <1>1, <2>2, SpanThere
  <2>4. SpanHere(p, s, z, n, "head")
    BY <1>1, <2>2, <2>3, <2>p DEF SpanHere
  <2>5. good_range0(s)
    BY <1>1, <2>4, <2>p, <2>z, ReadyShape, HeadShape
  <2>6. z + n = n
    BY <2>3, <2>z
  <2>7. popped_for_seg(s) <=> Ahead(s, n)
    <3>1. Ahead(s, n) => popped_for_seg(s)
      BY PoppedPlace DEF Ahead
    <3>2. ASSUME popped_for_seg(s) PROVE Ahead(s, n)
      <4>1. PICK j : is_the_popped(s, j)
        <5>1. CASE popped.tag = "VeryUnready" /\ popped.seg = s
          BY <5>1 DEF is_the_popped
        <5>2. CASE popped.tag \in {"Ready", "Used"} /\ popped.page[1] = s
          <6>1. PICK c : \/ popped.tag = "Ready" /\ c = "ready"
                         \/ popped.tag = "Used" /\ c = "taken"
            BY <5>2
          <6>2. popped.page = <<popped.page[1], popped.page[2]>>
            BY <6>1, PageAt DEF PageHere
          <6> QED BY <5>2, <6>2 DEF is_the_popped
        <5> QED BY <3>2, <5>1, <5>2 DEF popped_for_seg
      <4>2. /\ j \in 1 .. N - 1 /\ j \in Slice /\ popped_len \in 1 .. N
            /\ Ext(pages, popped, s)[j] = popped_len
        BY <4>1, PoppedPlace
      <4>3. n <= j
        <5> SUFFICES ASSUME ~(n <= j) PROVE FALSE
          OBVIOUS
        <5>1. j \in z + 1 .. z + n - 1
          BY <1>0, <2>3, <2>z, <4>2
        <5> QED BY <2>3, <4>2, <5>1
      <4> QED BY <4>1, <4>2, <4>3 DEF Ahead
    <3> QED BY <3>1, <3>2
  <2>t. PICK t \in BOOLEAN : t <=> popped_for_seg(s)
    OBVIOUS
  <2>8. Walk(s)[n][t]
    BY <2>3, <2>6, <2>7, <2>t, WalkArrives
  <2>9. attached_rec(s, n, t)
    BY <2>8, AttachedIs
  <2>10. attached_rec(s, n, popped_for_seg(s))
    <3>1. popped_for_seg(s) = t
      BY <2>t DEF popped_for_seg
    <3> QED BY <2>9, <3>1
  <2> QED BY <1>4, <2>5, <2>10, <2>n, <2>p, <2>z DEF attached_ranges_segment
<1> QED BY <1>2, <1>3, <1>4

\* only the first header of a span has a count
LEMMA CountNowIn == ASSUME OrgInv PROVE count_off0
<1> SUFFICES ASSUME NEW p \in PageId, pages[p].count # NONE
             PROVE  pages[p].count \in 1 .. SLICES_PER_SEGMENT - p[2]
  BY DEF count_off0
<1>0. N \in Nat /\ N >= 2 /\ Slice = 0 .. N - 1
  BY PageIdIs DEF Slice
<1>s. PICK s : s = p[1]
  OBVIOUS
<1>x. PICK x : x = p[2]
  OBVIOUS
<1>1. p = <<s, x>> /\ s \in Segment /\ x \in 0 .. N
  <2>1. p = <<p[1], p[2]>>
    BY PageIdIs, Zenon
  <2>2. p[1] \in Segment /\ p[2] \in 0 .. N
    BY PageIdIs
  <2> QED BY <2>1, <2>2, <1>s, <1>x
<1>2. ~Empty(pages[p])
  BY DEF Empty
<1>3. x # N /\ s \in DOMAIN used
  BY <1>2, <1>s, <1>x, InvIs DEF Laid, OutsideOK
<1>4. x \in Slice
  BY <1>0, <1>1, <1>3
<1>5. SegmentOK(pages, popped, s) /\ pages \in PagesType
  BY <1>3, InvIs DEF Laid
<1>6. Lo(popped, s) <= x
  <2> SUFFICES ASSUME ~(Lo(popped, s) <= x) PROVE FALSE
    OBVIOUS
  <2>1. Lo(popped, s) \in 0 .. N
    BY <1>5 DEF SegmentOK, Tiling
  <2>2. x \in 0 .. Lo(popped, s) - 1
    BY <1>0, <1>4, <2>1
  <2> QED BY <1>1, <1>2, <1>5, <2>2 DEF SegmentOK
<1>e. PICK e : e = Ext(pages, popped, s)
  OBVIOUS
<1>7. PICK a \in Slice : e[a] # 0 /\ a <= x /\ x < a + e[a]
  BY <1>4, <1>5, <1>6, <1>e, Covered DEF SegmentOK
<1>n. PICK n : n = e[a]
  OBVIOUS
<1>8. n \in 1 .. N - a /\ Span(pages, s, a, n, Class(pages, popped, s, a))
  BY <1>1, <1>5, <1>7, <1>e, <1>n, SpanThere
<1>9. x \in a .. a + n - 1
  BY <1>0, <1>4, <1>7, <1>8, <1>n
<1>10. PICK c : Piece(pages[p], x - a, n, c)
  BY <1>1, <1>8, <1>9 DEF Span
<1>11. x - a = 0 /\ pages[p].count = n
  BY <1>10 DEF Piece
<1>12. x = a
  BY <1>0, <1>4, <1>11
<1> QED BY <1>8, <1>11, <1>12, <1>x DEF N

LEMMA BasicsNow == ASSUME OrgInv PROVE popped_basics
<1>1. CASE popped = No
  BY <1>1 DEF popped_basics, No
<1>2. CASE popped.tag \in {"Ready", "Used"}
  <2>1. PICK c : \/ popped.tag = "Ready" /\ c = "ready"
                 \/ popped.tag = "Used" /\ c = "taken"
    BY <1>2
  <2>p. PICK p : p = popped.page
    OBVIOUS
  <2>2. PICK s, a, n : /\ s = p[1] /\ a = p[2] /\ n = pages[p].count
                       /\ s \in DOMAIN used /\ a # 0 /\ n \in 1 .. N - a
                       /\ SpanHere(p, s, a, n, c) /\ c # "gone"
    BY <2>1, <2>p, PageAt DEF PageHere, SpanHere
  <2>3. pages[p].offset = 0
    BY <2>2, InvIs, FirstIs
  <2>4. /\ p[1] \in DOMAIN used /\ p[2] # 0 /\ pages[p].offset = 0
        /\ pages[p].count \in 1 .. SLICES_PER_SEGMENT - p[2]
    BY <2>2, <2>3 DEF N
  <2>5. popped.tag # "No"
    BY <1>2
  <2> QED BY <1>2, <2>4, <2>5, <2>p DEF popped_basics
<1>3. CASE popped.tag \in {"VeryUnready", "SegmentCreating", "SegmentFreeing", "ExtraCount"}
  <2>1. popped.seg \in DOMAIN used
    <3>1. CASE popped.tag = "VeryUnready"
      BY <3>1, GoneAt DEF GoneHere
    <3>2. CASE popped.tag = "SegmentCreating"
      BY <3>2, CreatingAt, PopCreating
    <3>3. CASE popped.tag = "SegmentFreeing"
      BY <3>3, FreeingAt, PopFreeing
    <3>4. CASE popped.tag = "ExtraCount"
      BY <3>4 DEF OrgInv, PoppedOK, No, Ready, Used, VeryUnready, SegmentCreating,
                  SegmentFreeing, ExtraCount
    <3> QED BY <1>3, <3>1, <3>2, <3>3, <3>4
  <2> QED BY <1>3, <2>1 DEF popped_basics
<1>4. \/ popped = No \/ popped.tag \in {"Ready", "Used"}
      \/ popped.tag \in {"VeryUnready", "SegmentCreating", "SegmentFreeing", "ExtraCount"}
  <2>1. PoppedOK(pages, popped, used)
    BY DEF OrgInv
  <2> QED BY <2>1 DEF PoppedOK, Ready, Used, VeryUnready, SegmentCreating, SegmentFreeing, ExtraCount
<1> QED BY <1>1, <1>2, <1>3, <1>4

\* the popped range in each of its forms
LEMMA FormsNow ==
  ASSUME OrgInv
  PROVE  inv_ready /\ inv_used /\ inv_very_unready
<1>0. pages \in PagesType
  BY InvIs
<1>1. inv_ready
  <2> SUFFICES ASSUME popped.tag = "Ready", NEW p, p = popped.page PROVE good_range_ready(p)
    BY DEF inv_ready
  <2>1. PICK s, a, n : SpanHere(p, s, a, n, "ready")
    BY PageAt DEF PageHere, SpanHere
  <2> QED BY <1>0, <2>1, ReadyShape
<1>2. inv_used
  <2> SUFFICES ASSUME popped.tag = "Used", NEW p, p = popped.page
               PROVE  good_range_used(p) /\ pages[p].dlist = NONE /\ pages[p].full = NONE
    BY DEF inv_used
  <2>1. PICK s, a, n : SpanHere(p, s, a, n, "taken")
    BY PageAt DEF PageHere, SpanHere
  <2>2. good_range_used(p)
    BY <1>0, <2>1, UsedShape
  <2>3. s \in Segment /\ a \in Slice /\ n \in 1 .. N - a /\ p = <<s, a>> /\ Span(pages, s, a, n, "taken")
    BY <2>1 DEF SpanHere
  <2>4. Piece(pages[<<s, a>>], 0, n, "taken")
    <3>1. a \in a .. a + n - 1 /\ a - a = 0
      BY <2>3, FirstIn
    <3> QED BY <2>3, <3>1 DEF Span
  <2>5. pages[p].dlist = NONE /\ pages[p].full = NONE
    BY <2>3, <2>4 DEF Piece
  <2> QED BY <2>2, <2>5
<1>3. inv_very_unready
  <2> SUFFICES ASSUME popped.tag = "VeryUnready",
                      NEW s, NEW a, NEW n, s = popped.seg, a = popped.start, n = popped.count
               PROVE  a > 0 /\ n > 0 /\ good_range_very_unready(<<s, a>>, n)
    BY DEF inv_very_unready
  <2>1. PICK b : GoneHere(s, a, n, b)
    BY GoneAt
  <2>2. s \in Segment /\ a \in Slice /\ a # 0 /\ n \in 1 .. N - a /\ Span(pages, s, a, n, "gone")
    BY <2>1 DEF GoneHere
  <2>3. a \in Nat /\ n \in Nat /\ 1 <= n /\ N \in Nat
    BY <2>2, FirstIn
  <2>4. a > 0 /\ n > 0 /\ a + n <= SLICES_PER_SEGMENT
    BY <2>2, <2>3 DEF N
  <2>p. PICK p : p = <<s, a>>
    OBVIOUS
  <2>5. p[1] = s /\ p[2] = a
    BY <2>p
  <2>6. ASSUME NEW q \in Range2(p[1], p[2], p[2] + n) PROVE pages[q] = Blank
    <3>1. SpanHere(p, s, a, n, "gone")
      BY <2>2, <2>p DEF SpanHere
    <3>2. PICK k \in 0 .. n - 1 : Member(p, q, n, k, "gone")
      BY <1>0, <3>1, MemberIs
    <3>3. pages[q] \in PageData /\ Piece(pages[q], k, n, "gone")
      BY <3>2 DEF Member
    <3> QED BY <3>3, GoneIsEmpty, BlankIs
  <2> QED BY <2>4, <2>5, <2>6, <2>p DEF good_range_very_unready
<1> QED BY <1>1, <1>2, <1>3

\* a segment while it is set up and while it is given up
LEMMA SegmentsNow == ASSUME OrgInv PROVE inv_segment_creating /\ inv_segment_freeing
<1>0. /\ pages \in PagesType /\ N \in Nat /\ N >= 2 /\ Slice = 0 .. N - 1 /\ Idx = 0 .. N
      /\ OutsideOK(pages, DOMAIN used)
  BY InvIs, PageIdIs DEF Slice, Idx, N, Laid
<1>1. ASSUME NEW s \in DOMAIN used, NEW i \in 0 .. N, i < Lo(popped, s) \/ i = N
      PROVE  pages[<<s, i>>] = Blank
  <2>1. s \in Segment /\ SegmentOK(pages, popped, s)
    BY InvIs DEF Laid
  <2>2. <<s, i>> \in PageId /\ <<s, i>>[2] = i
    BY <2>1, PageIdIs
  <2>3. Lo(popped, s) \in 0 .. N
    BY <2>1 DEF SegmentOK, Tiling
  <2>4. Empty(pages[<<s, i>>])
    <3>1. CASE i = N
      BY <1>0, <2>2, <3>1 DEF OutsideOK
    <3>2. CASE i < Lo(popped, s)
      <4>1. i \in 0 .. Lo(popped, s) - 1
        BY <1>0, <2>3, <3>2
      <4> QED BY <2>1, <4>1 DEF SegmentOK
    <3> QED BY <1>1, <3>1, <3>2
  <2>5. pages[<<s, i>>] \in PageData
    BY <1>0, <2>2 DEF PagesType
  <2> QED BY <2>4, <2>5, BlankIs
<1>2. inv_segment_creating
  <2> SUFFICES ASSUME popped.tag = "SegmentCreating"
               PROVE  used[popped.seg] = 0 /\ \A i \in Idx : pages[<<popped.seg, i>>] = Blank
    BY DEF inv_segment_creating
  <2>1. PICK s \in DOMAIN used : popped = SegmentCreating(s) /\ used[s] = 0
    BY CreatingAt
  <2>2. popped.seg = s /\ Lo(popped, s) = N
    BY <2>1, PopCreating
  <2>3. ASSUME NEW i \in Idx PROVE pages[<<s, i>>] = Blank
    <3>1. i \in 0 .. N /\ (i < N \/ i = N)
      BY <1>0
    <3> QED BY <1>1, <2>2, <3>1
  <2> QED BY <2>1, <2>2, <2>3
<1>3. inv_segment_freeing
  <2> SUFFICES ASSUME popped.tag = "SegmentFreeing"
               PROVE  /\ used[popped.seg] = 0
                      /\ popped.idx \in 1 .. SLICES_PER_SEGMENT
                      /\ seg_free_prefix(popped.seg, popped.idx)
                      /\ attached_rec(popped.seg, popped.idx, FALSE)
    BY DEF inv_segment_freeing
  <2>1. PICK s \in DOMAIN used, i \in 1 .. N : popped = SegmentFreeing(s, i) /\ used[s] = 0
    BY FreeingAt
  <2>2. popped.seg = s /\ popped.idx = i /\ Lo(popped, s) = i
    BY <2>1, PopFreeing
  <2>3. \A j \in 0 .. i - 1 : pages[<<s, j>>] = Blank
    <3>1. \A j \in 0 .. i - 1 : j \in 0 .. N /\ j < i
      BY <1>0
    <3> QED BY <1>1, <2>2, <3>1
  <2>4. seg_free_prefix(s, i)
    BY <2>3 DEF seg_free_prefix
  <2>5. attached_rec(s, i, FALSE)
    <3>1. attached_ranges_segment(s)
      BY SegmentAttached
    <3>2. popped # SegmentCreating(s)
      BY PopCreating
    <3> QED BY <2>2, <3>1, <3>2 DEF attached_ranges_segment
  <2> QED BY <2>1, <2>2, <2>4, <2>5 DEF N
<1> QED BY <1>2, <1>3

LEMMA AttachedNow == ASSUME OrgInv PROVE AttachedRanges
  BY SegmentAttached, CountNowIn, BasicsNow, FormsNow, SegmentsNow DEF AttachedRanges

\* The counter on which segment_page_free decides to give a segment up is the
\* number of its pages in every state between two transitions, and a segment
\* whose counter is zero begins with its header.
THEOREM CounterOfPages == Spec => []CountIsRight
<1>1. OrgInv => CountIsRight
  BY CountNow
<1> QED BY <1>1, OrgInvariant, PTL

\* attached_ranges, the popped range in each of its forms and ll_basics: the
\* spans of every segment lie side by side, and the lists of spans and pages are
\* what the links in the headers say.
THEOREM OrganisationSound == Spec => []OrgSound
<1>1. OrgInv => OrgSound
  BY AttachedNow, ListsNow DEF OrgSound
<1> QED BY <1>1, OrgInvariant, PTL

\* What segment.rs, queues.rs and page.rs read in a header before they follow a
\* link or step to a neighbour leads where they expect.
THEOREM HeadersLeadRight == Spec => []CodeFindsItsWay
<1>1. OrgInv => CodeFindsItsWay
  BY WayNow
<1> QED BY <1>1, OrgInvariant, PTL

-----------------------------------------------------------------------------
(* Slices change their role only through the popped range                   *)

\* the spans of S that contain slice q, and what q is by the pages of U and the free spans of F
Over(pg, S, q) == {p \in S : q \in Range2(p[1], p[2], p[2] + pg[p].count)}
RoleOf(pg, U, F, q) ==
  IF Over(pg, U, q) # {} THEN <<"page", Over(pg, U, q)>>
  ELSE IF Over(pg, F, q) # {} THEN <<"free", Over(pg, F, q)>>
  ELSE <<"out", {}>>

\* what ThroughPopped says of a slice that had the role r and has the role r2
Changes(r, r2) == r2 # r => r[1] = "out" \/ r2[1] = "out"
Through == \A q \in PageId : Changes(Role(q), Role(q)')

Names(L) == UNION {ToSet(L[b]) : b \in DOMAIN L}

\* no two spans of S share a slice
Distinct(pg, S) == \A q \in PageId : \A x, y \in Over(pg, S, q) : x = y

LEMMA RoleIs ==
  ASSUME NEW q
  PROVE  /\ Role(q) = RoleOf(pages, Names(used_lists), Names(unused_lists), q)
         /\ Role(q)' = RoleOf(pages', Names(used_lists'), Names(unused_lists'), q)
  BY DEF Role, RoleOf, Over, Names

LEMMA FamilyNames ==
  ASSUME NEW pg, NEW H, NEW L, NEW B, NEW S, NEW key, Family(pg, H, L, B, S, key)
  PROVE  Names(L) = S
<1>1. L \in [B -> Seq(PageId)] /\ DOMAIN L = B
  BY DEF Family
<1>2. \A b \in B : ToSet(L[b]) = {L[b][j] : j \in 1 .. Len(L[b])}
  <2> SUFFICES ASSUME NEW b \in B PROVE ToSet(L[b]) = {L[b][j] : j \in 1 .. Len(L[b])}
    OBVIOUS
  <2>1. L[b] \in Seq(PageId)
    BY <1>1
  <2>2. DOMAIN L[b] = 1 .. Len(L[b])
    BY <2>1
  <2> QED BY <2>2 DEF ToSet
<1>3. \A b \in B : \A j \in 1 .. Len(L[b]) : L[b][j] \in S
  BY DEF Family
<1>4. \A p \in S : key[p] \in B /\ \E j \in 1 .. Len(L[key[p]]) : L[key[p]][j] = p
  BY DEF Family
<1> QED BY <1>1, <1>2, <1>3, <1>4 DEF Names

LEMMA NamesNow ==
  ASSUME OrgInv
  PROVE  /\ Names(used_lists) = ListedPages(pages, popped)
         /\ Names(unused_lists) = FreeSpans(pages, popped)
<1>1. /\ Family(pages, unused_headers, unused_lists, Sbin, FreeSpans(pages, popped), FreeKey(pages))
      /\ Family(pages, used_headers, used_lists, UsedBin, ListedPages(pages, popped), PageKey(pages))
  BY SoundNow
<1> QED BY <1>1, FamilyNames

LEMMA NamesThen ==
  ASSUME OrgInv'
  PROVE  /\ Names(used_lists') = ListedPages(pages', popped')
         /\ Names(unused_lists') = FreeSpans(pages', popped')
<1>1. /\ Family(pages', unused_headers', unused_lists', Sbin, FreeSpans(pages', popped'), FreeKey(pages'))
      /\ Family(pages', used_headers', used_lists', UsedBin, ListedPages(pages', popped'), PageKey(pages'))
  BY DEF OrgInv
<1> QED BY <1>1, FamilyNames

LEMMA RoleKept ==
  ASSUME NEW pg, NEW pg2, NEW U, NEW F, NEW q, \A x \in U \cup F : pg2[x].count = pg[x].count
  PROVE  RoleOf(pg2, U, F, q) = RoleOf(pg, U, F, q)
<1>1. ASSUME NEW S, S \subseteq U \cup F PROVE Over(pg2, S, q) = Over(pg, S, q)
  BY <1>1 DEF Over
<1>2. Over(pg2, U, q) = Over(pg, U, q) /\ Over(pg2, F, q) = Over(pg, F, q)
  BY <1>1
<1> QED BY <1>2 DEF RoleOf

\* a span p is given up, seen from both sides
LEMMA RoleLost ==
  ASSUME NEW pg, NEW pg2, NEW U, NEW F, NEW q \in PageId, NEW p, Distinct(pg, U \cup F),
         \A x \in (U \cup F) \ {p} : pg2[x].count = pg[x].count
  PROVE  /\ Changes(RoleOf(pg, U, F, q), RoleOf(pg2, U \ {p}, F \ {p}, q))
         /\ Changes(RoleOf(pg2, U \ {p}, F \ {p}, q), RoleOf(pg, U, F, q))
<1>1. ASSUME NEW S, S \subseteq U \cup F PROVE Over(pg2, S \ {p}, q) = Over(pg, S, q) \ {p}
  BY <1>1 DEF Over
<1>2. /\ Over(pg2, U \ {p}, q) = Over(pg, U, q) \ {p}
      /\ Over(pg2, F \ {p}, q) = Over(pg, F, q) \ {p}
  BY <1>1
<1>3. CASE p \in Over(pg, U \cup F, q)
  <2>1. \A x \in Over(pg, U \cup F, q) : x = p
    BY <1>3 DEF Distinct
  <2>2. Over(pg, U, q) \subseteq Over(pg, U \cup F, q) /\ Over(pg, F, q) \subseteq Over(pg, U \cup F, q)
    BY DEF Over
  <2>3. Over(pg2, U \ {p}, q) = {} /\ Over(pg2, F \ {p}, q) = {}
    BY <1>2, <2>1, <2>2
  <2>4. RoleOf(pg2, U \ {p}, F \ {p}, q)[1] = "out"
    BY <2>3 DEF RoleOf
  <2> QED BY <2>4 DEF Changes
<1>4. CASE p \notin Over(pg, U \cup F, q)
  <2>1. p \notin Over(pg, U, q) /\ p \notin Over(pg, F, q)
    BY <1>4 DEF Over
  <2>2. Over(pg2, U \ {p}, q) = Over(pg, U, q) /\ Over(pg2, F \ {p}, q) = Over(pg, F, q)
    BY <1>2, <2>1
  <2>3. RoleOf(pg2, U \ {p}, F \ {p}, q) = RoleOf(pg, U, F, q)
    BY <2>2 DEF RoleOf
  <2> QED BY <2>3 DEF Changes
<1> QED BY <1>3, <1>4

\* the lists stay, and the lengths of what is in them
LEMMA ListsStay ==
  ASSUME OrgInv, OrgInv', UNCHANGED <<unused_lists, used_lists>>,
         \A x \in PageId : /\ x \in ListedPages(pages, popped) \cup FreeSpans(pages, popped)
                           /\ x \in ListedPages(pages', popped') \cup FreeSpans(pages', popped')
                           => pages'[x].count = pages[x].count
  PROVE  Through
<1>U. PICK U : U = Names(used_lists)
  OBVIOUS
<1>F. PICK F : F = Names(unused_lists)
  OBVIOUS
<1>1. U = Names(used_lists') /\ F = Names(unused_lists')
  BY <1>U, <1>F
<1>2. U = ListedPages(pages, popped) /\ F = FreeSpans(pages, popped)
  BY <1>U, <1>F, NamesNow
<1>3. U = ListedPages(pages', popped') /\ F = FreeSpans(pages', popped')
  BY <1>1, NamesThen
<1>4. U \cup F \subseteq PageId
  BY <1>2 DEF ListedPages, FreeSpans
<1>5. \A x \in U \cup F : pages'[x].count = pages[x].count
  BY <1>2, <1>3, <1>4
<1>6. ASSUME NEW q \in PageId PROVE Changes(Role(q), Role(q)')
  <2>1. RoleOf(pages', U, F, q) = RoleOf(pages, U, F, q)
    BY <1>5, RoleKept
  <2>2. Role(q) = RoleOf(pages, U, F, q) /\ Role(q)' = RoleOf(pages', U, F, q)
    BY <1>U, <1>F, <1>1, RoleIs
  <2> QED BY <2>1, <2>2 DEF Changes
<1> QED BY <1>6 DEF Through

\* a span or page p leaves its list
LEMMA OneLeaves ==
  ASSUME NEW U, NEW F, NEW p, Distinct(pages, U \cup F),
         U = Names(used_lists), F = Names(unused_lists),
         Names(used_lists') = U \ {p}, Names(unused_lists') = F \ {p},
         \A x \in (U \cup F) \ {p} : pages'[x].count = pages[x].count
  PROVE  Through
<1>1. ASSUME NEW q \in PageId PROVE Changes(Role(q), Role(q)')
  <2>1. Changes(RoleOf(pages, U, F, q), RoleOf(pages', U \ {p}, F \ {p}, q))
    BY RoleLost
  <2>2. Role(q) = RoleOf(pages, U, F, q) /\ Role(q)' = RoleOf(pages', U \ {p}, F \ {p}, q)
    BY RoleIs
  <2> QED BY <2>1, <2>2
<1> QED BY <1>1 DEF Through

\* it enters one
LEMMA OneEnters ==
  ASSUME NEW U, NEW F, NEW p, Distinct(pages', U \cup F),
         U = Names(used_lists'), F = Names(unused_lists'),
         Names(used_lists) = U \ {p}, Names(unused_lists) = F \ {p},
         \A x \in (U \cup F) \ {p} : pages'[x].count = pages[x].count
  PROVE  Through
<1>1. ASSUME NEW q \in PageId PROVE Changes(Role(q), Role(q)')
  <2>1. \A x \in (U \cup F) \ {p} : pages[x].count = pages'[x].count
    OBVIOUS
  <2>2. Changes(RoleOf(pages, U \ {p}, F \ {p}, q), RoleOf(pages', U, F, q))
    BY <2>1, RoleLost
  <2>3. Role(q) = RoleOf(pages, U \ {p}, F \ {p}, q) /\ Role(q)' = RoleOf(pages', U, F, q)
    BY RoleIs
  <2> QED BY <2>2, <2>3
<1> QED BY <1>1 DEF Through

\* a listed page or free span, as a span of its segment
LEMMA SpanOfOne ==
  ASSUME OrgInv, NEW p \in ListedPages(pages, popped) \cup FreeSpans(pages, popped)
  PROVE  /\ p \in PageId /\ p[1] \in DOMAIN used /\ p[2] \in Slice
         /\ Ext(pages, popped, p[1])[p[2]] = pages[p].count /\ pages[p].count \in 1 .. N - p[2]
         /\ Tiling(Ext(pages, popped, p[1]), Lo(popped, p[1]))
<1>0. p \in PageId
  BY DEF ListedPages, FreeSpans
<1>s. PICK s : s = p[1]
  OBVIOUS
<1>a. PICK a : a = p[2]
  OBVIOUS
<1>n. PICK n : n = pages[p].count
  OBVIOUS
<1>1. Heads(pages, p, s, a, n)
  BY <1>0, <1>s, <1>a, <1>n, PageIdIs, Zenon DEF Heads
<1>2. s \in DOMAIN used /\ a \in Slice /\ Ext(pages, popped, s)[a] = n /\ n \in 1 .. N - a
  <2>1. CASE p \in ListedPages(pages, popped)
    <3>1. ListedHere(p, s, a, n)
      BY <1>1, <2>1, ListedIs
    <3> QED BY <3>1 DEF ListedHere
  <2>2. CASE p \in FreeSpans(pages, popped)
    BY <1>1, <2>2, FreeAt
  <2> QED BY <2>1, <2>2
<1>3. SegmentOK(pages, popped, s)
  BY <1>2, InvIs DEF Laid
<1> QED BY <1>0, <1>2, <1>3, <1>s, <1>a, <1>n DEF SegmentOK

DistinctSpans == Distinct(pages, ListedPages(pages, popped) \cup FreeSpans(pages, popped))

LEMMA DistinctNow == OrgInv => DistinctSpans
<1> SUFFICES ASSUME OrgInv, NEW q \in PageId,
                    NEW x \in Over(pages, ListedPages(pages, popped) \cup FreeSpans(pages, popped), q),
                    NEW y \in Over(pages, ListedPages(pages, popped) \cup FreeSpans(pages, popped), q)
             PROVE  x = y
  BY DEF DistinctSpans, Distinct
<1>s. PICK s : s = q[1]
  OBVIOUS
<1>i. PICK i : i = q[2]
  OBVIOUS
<1>e. PICK e : e = Ext(pages, popped, s)
  OBVIOUS
<1>1. ASSUME NEW p \in Over(pages, ListedPages(pages, popped) \cup FreeSpans(pages, popped), q)
      PROVE  /\ p \in PageId /\ p[1] = s /\ p[2] \in Slice /\ p[2] \in Nat /\ i \in Nat
             /\ e[p[2]] # 0 /\ e[p[2]] \in Nat /\ p[2] <= i /\ i < p[2] + e[p[2]]
             /\ Tiling(e, Lo(popped, s))
  <2>1. p \in ListedPages(pages, popped) \cup FreeSpans(pages, popped)
        /\ q \in Range2(p[1], p[2], p[2] + pages[p].count)
    BY DEF Over
  <2>2. /\ p \in PageId /\ p[1] \in DOMAIN used /\ p[2] \in Slice
        /\ Ext(pages, popped, p[1])[p[2]] = pages[p].count /\ pages[p].count \in 1 .. N - p[2]
        /\ Tiling(Ext(pages, popped, p[1]), Lo(popped, p[1]))
    BY <2>1, SpanOfOne
  <2>3. q[1] = p[1] /\ q[2] \in p[2] .. (p[2] + pages[p].count) - 1
    BY <2>1 DEF Range2
  <2>4. p[1] = s /\ e[p[2]] = pages[p].count /\ Tiling(e, Lo(popped, s))
    BY <1>s, <1>e, <2>2, <2>3
  <2>b. PICK b : b = p[2]
    OBVIOUS
  <2>n. PICK n : n = pages[p].count
    OBVIOUS
  <2>5. b \in Slice /\ n \in 1 .. N - b /\ i \in b .. (b + n) - 1 /\ N \in Nat
    BY <1>i, <2>b, <2>n, <2>2, <2>3, PageIdIs
  <2>6. b \in Nat /\ n \in Nat /\ n # 0 /\ i \in Nat /\ b <= i /\ i < b + n
    BY <2>5 DEF Slice
  <2> QED BY <2>2, <2>4, <2>5, <2>6, <2>b, <2>n
<1>2. x[2] = y[2]
  <2>1. ~(x[2] < y[2])
    <3> SUFFICES ASSUME x[2] < y[2] PROVE FALSE
      OBVIOUS
    <3>1. x[2] + e[x[2]] <= y[2]
      BY <1>1, SpansApart
    <3> QED BY <1>1, <3>1
  <2>2. ~(y[2] < x[2])
    <3> SUFFICES ASSUME y[2] < x[2] PROVE FALSE
      OBVIOUS
    <3>1. y[2] + e[y[2]] <= x[2]
      BY <1>1, SpansApart
    <3> QED BY <1>1, <3>1
  <2> QED BY <1>1, <2>1, <2>2
<1>3. x[1] = y[1] /\ x \in PageId /\ y \in PageId
  BY <1>1
<1> QED BY <1>2, <1>3, PageIdIs

LEMMA DistinctThen == OrgInv' => DistinctSpans'
  BY DistinctNow, PTL

\* the lists stay, and whatever is in them
LEMMA HeadersStay ==
  ASSUME OrgInv, OrgInv', UNCHANGED <<unused_lists, used_lists>>,
         \A x \in PageId : \/ pages'[x].count = pages[x].count
                           \/ pages[x].offset = NONE \/ pages'[x].offset = NONE
  PROVE  Through
<1>1. ASSUME NEW pg, NEW pop, NEW x \in ListedPages(pg, pop) \cup FreeSpans(pg, pop)
      PROVE  pg[x].offset # NONE
  BY NoneAssumption DEF ListedPages, FreeSpans
<1>2. \A x \in PageId : /\ x \in ListedPages(pages, popped) \cup FreeSpans(pages, popped)
                        /\ x \in ListedPages(pages', popped') \cup FreeSpans(pages', popped')
                        => pages'[x].count = pages[x].count
  BY <1>1
<1> QED BY <1>2, ListsStay

\* a free span leaves its list
LEMMA LeavesThrough ==
  ASSUME OrgInv, OrgInv', NEW b \in Sbin, NEW j \in 1 .. Len(unused_lists[b]),
         NEW p, p = unused_lists[b][j], LeavesUnused(p, b, j),
         UNCHANGED <<used_headers, used_lists>>
  PROVE  Through
<1>U. PICK U : U = ListedPages(pages, popped)
  OBVIOUS
<1>F. PICK F : F = FreeSpans(pages, popped)
  OBVIOUS
<1>s. PICK s : s = p[1]
  OBVIOUS
<1>a. PICK a : a = p[2]
  OBVIOUS
<1>n. PICK n : n = pages[p].count
  OBVIOUS
<1>0. p \in PageId
  BY FamilyMember DEF OrgInv
<1>1. Heads(pages, p, s, a, n)
  BY <1>0, <1>s, <1>a, <1>n, PageIdIs, Zenon DEF Heads
<1>2. /\ p \in F
      /\ \A q \in PageId : q \notin Region(s, a, a + n) => SameShape(pages[q], pages'[q])
      /\ Family(pages', unused_headers', unused_lists', Sbin, F \ {p}, FreeKey(pages'))
  BY <1>1, <1>F, Leaving
<1>3. ASSUME NEW q \in Region(s, a, a + n) PROVE q \notin U /\ (q \in F <=> q = p)
  <2>1. ~pages[q].is_used /\ (q \in F <=> q = p)
    BY <1>1, <1>2, <1>F, FreeRegion
  <2> QED BY <2>1, <1>U DEF ListedPages
<1>4. p \notin U /\ U \cup F \subseteq PageId
  BY <1>2, <1>U, <1>F DEF ListedPages, FreeSpans
<1>5. \A x \in (U \cup F) \ {p} : pages'[x].count = pages[x].count
  <2>1. \A x \in (U \cup F) \ {p} : x \in PageId /\ x \notin Region(s, a, a + n)
    BY <1>3, <1>4
  <2> QED BY <1>2, <2>1 DEF SameShape, Alike
<1>6. U = Names(used_lists) /\ F = Names(unused_lists)
  BY <1>U, <1>F, NamesNow
<1>7. Names(used_lists') = U \ {p} /\ Names(unused_lists') = F \ {p}
  <2>1. Names(unused_lists') = F \ {p}
    BY <1>2, FamilyNames
  <2> QED BY <1>4, <1>6, <2>1
<1>8. Distinct(pages, U \cup F)
  BY <1>U, <1>F, DistinctNow DEF DistinctSpans
<1>9. Through
  BY <1>5, <1>6, <1>7, <1>8, OneLeaves
<1> QED BY <1>9

\* a range that was taken out enters the list of its length
LEMMA EntersThrough ==
  ASSUME OrgInv, OrgInv', NEW s \in Segment, NEW a \in Slice, NEW n \in 1 .. N - a,
         EntersUnused(s, a, n), UNCHANGED <<used_headers, used_lists>>,
         Span(pages, s, a, n, "gone")
  PROVE  Through
<1>U. PICK U : U = ListedPages(pages, popped)
  OBVIOUS
<1>F. PICK F : F = FreeSpans(pages, popped)
  OBVIOUS
<1>p. PICK p : p = <<s, a>>
  OBVIOUS
<1>G. PICK G : G = F \cup {p}
  OBVIOUS
<1>1. /\ \A q \in PageId : q \notin Region(s, a, a + n) => SameShape(pages[q], pages'[q])
      /\ Family(pages', unused_headers', unused_lists', Sbin, G, FreeKey(pages'))
  BY <1>F, <1>G, <1>p, Entering
<1>f. a \in Int /\ n \in Int /\ p \in Region(s, a, a + n)
  BY <1>p, FirstIn
<1>2. ASSUME NEW q \in Region(s, a, a + n) PROVE q \notin U \cup F
  <2>1. q[2] \in a .. a + n - 1 /\ q = <<s, q[2]>>
    BY RegionSlice
  <2>2. Empty(pages[<<s, q[2]>>])
    BY <1>f, <2>1, GoneIs
  <2>3. pages[q].offset = NONE
    BY <2>1, <2>2 DEF Empty
  <2> QED BY <1>U, <1>F, <2>3, NoneAssumption DEF ListedPages, FreeSpans
<1>3. U \cup F \subseteq PageId
  BY <1>U, <1>F DEF ListedPages, FreeSpans
<1>4. p \notin U /\ p \notin F
  BY <1>2, <1>f
<1>5. \A x \in (U \cup G) \ {p} : pages'[x].count = pages[x].count
  <2>1. \A x \in (U \cup G) \ {p} : x \in PageId /\ x \notin Region(s, a, a + n)
    BY <1>G, <1>2, <1>3
  <2> QED BY <1>1, <2>1 DEF SameShape, Alike
<1>6. Names(used_lists) = U \ {p} /\ Names(unused_lists) = G \ {p}
  <2>1. Names(used_lists) = U /\ Names(unused_lists) = F
    BY <1>U, <1>F, NamesNow
  <2> QED BY <1>4, <1>G, <2>1
<1>7. U = Names(used_lists') /\ G = Names(unused_lists')
  <2>1. Names(unused_lists') = G
    BY <1>1, FamilyNames
  <2> QED BY <1>4, <1>6, <2>1
<1>8. Distinct(pages', U \cup G)
  <2>1. U = ListedPages(pages', popped') /\ G = FreeSpans(pages', popped')
    BY <1>7, NamesThen
  <2> QED BY <2>1, DistinctThen DEF DistinctSpans
<1>9. Through
  BY <1>5, <1>6, <1>7, <1>8, OneEnters
<1> QED BY <1>9

\* a page enters its list
LEMMA IntoThrough ==
  ASSUME OrgInv, OrgInv', NEW b \in UsedBin, NEW p, p = popped.page, Listed(p, b)
  PROVE  Through
<1>U. PICK U : U = ListedPages(pages, popped)
  OBVIOUS
<1>F. PICK F : F = FreeSpans(pages, popped)
  OBVIOUS
<1>V. PICK V : V = U \cup {p}
  OBVIOUS
<1>1. MayEnter(b) /\ popped' = No /\ UNCHANGED <<used, unused_headers, unused_lists>>
  BY DEF Listed
<1>2. \A q \in PageId : q # p => SameShape(pages[q], pages'[q])
  BY DEF Listed, PageCame
<1>3. PICK key2 : Family(pages', used_headers', used_lists', UsedBin, V, key2)
  BY <1>U, <1>V DEF Listed
<1>4. p \notin U
  BY <1>1, <1>U, IntoReady
<1>5. p \notin F
  <2>1. PICK e \in BOOLEAN :
          PageHere(popped.page, popped.page[1], popped.page[2], pages[popped.page].count, e, "taken")
    BY <1>1, PageAt DEF MayEnter
  <2>2. popped = Used(p, e) /\ p \in PageId
    BY <2>1 DEF PageHere
  <2>3. pages[p].is_used
    BY <2>2, PopUsed, InvIs
  <2> QED BY <1>F, <2>3 DEF FreeSpans
<1>6. \A x \in (V \cup F) \ {p} : pages'[x].count = pages[x].count
  <2>1. U \cup F \subseteq PageId
    BY <1>U, <1>F DEF ListedPages, FreeSpans
  <2> QED BY <1>2, <1>V, <2>1 DEF SameShape, Alike
<1>7. U = Names(used_lists) /\ F = Names(unused_lists)
  BY <1>U, <1>F, NamesNow
<1>8. V = Names(used_lists') /\ F = Names(unused_lists')
  <2>1. Names(used_lists') = V
    BY <1>3, FamilyNames
  <2> QED BY <1>1, <1>7, <2>1
<1>9. Names(used_lists) = V \ {p} /\ Names(unused_lists) = F \ {p}
  BY <1>4, <1>5, <1>7, <1>V
<1>10. Distinct(pages', V \cup F)
  <2>1. V = ListedPages(pages', popped') /\ F = FreeSpans(pages', popped')
    BY <1>8, NamesThen
  <2> QED BY <2>1, DistinctThen DEF DistinctSpans
<1> QED BY <1>6, <1>8, <1>9, <1>10, OneEnters

\* a page leaves its list
LEMMA OutThrough ==
  ASSUME OrgInv, OrgInv', NEW b \in UsedBin, NEW j \in 1 .. Len(used_lists[b]),
         NEW p, p = used_lists[b][j], out_of_used_list(p, b, j)
  PROVE  Through
<1>U. PICK U : U = ListedPages(pages, popped)
  OBVIOUS
<1>F. PICK F : F = FreeSpans(pages, popped)
  OBVIOUS
<1>k. PICK key : key = PageKey(pages)
  OBVIOUS
<1>1. pages \in PagesType /\ Family(pages, used_headers, used_lists, UsedBin, U, key)
  BY <1>U, <1>k, SoundNow DEF Sound
<1>2. PageWent(pages, pages', U, p)
      /\ Family(pages', used_headers', used_lists', UsedBin, U \ {p}, key)
  <2>1. PageOut(pages, used_headers, used_lists, UsedBin, U, key, b, j, p, pages',
                used_headers', used_lists')
    BY <1>1 DEF PageOut, out_of_used_list
  <2> QED BY <2>1, PageLeaves
<1>3. p \in U
  BY <1>1, FamilyMember
<1>4. p \notin F
  BY <1>3, <1>U, <1>F DEF ListedPages, FreeSpans
<1>5. \A x \in (U \cup F) \ {p} : pages'[x].count = pages[x].count
  <2>1. U \cup F \subseteq PageId
    BY <1>U, <1>F DEF ListedPages, FreeSpans
  <2> QED BY <1>2, <2>1 DEF PageWent, SameShape, Alike
<1>6. U = Names(used_lists) /\ F = Names(unused_lists)
  BY <1>U, <1>F, NamesNow
<1>7. Names(used_lists') = U \ {p} /\ Names(unused_lists') = F \ {p}
  <2>1. Names(used_lists') = U \ {p}
    BY <1>2, FamilyNames
  <2>2. unused_lists' = unused_lists
    BY DEF out_of_used_list
  <2> QED BY <1>4, <1>6, <2>1, <2>2
<1>8. Distinct(pages, U \cup F)
  BY <1>U, <1>F, DistinctNow DEF DistinctSpans
<1> QED BY <1>5, <1>6, <1>7, <1>8, OneLeaves

\* a span that is merged leaves its list
LEMMA MergeThrough ==
  ASSUME OrgInv, OrgInv', NEW s, NEW a, NEW n, NEW b, NEW p, NEW f, NEW m, NEW l, NEW t,
         Merge(s, a, n, b, p, f, m, l, t)
  PROVE  Through
<1>1. p \in FreeSpans(pages, popped) /\ UNCHANGED <<used_headers, used_lists>>
  BY DEF Merge
<1>k. PICK k : k = SmallestSbin[pages[p].count]
  OBVIOUS
<1>j. PICK j : j = ListIdx(p, k)
  OBVIOUS
<1>2. LeavesUnused(p, k, j)
  BY <1>k, <1>j DEF Merge
<1>3. k \in Sbin /\ j \in 1 .. Len(unused_lists[k]) /\ p = unused_lists[k][j]
  BY <1>1, <1>k, <1>j, ListIdxIs
<1> QED BY <1>1, <1>2, <1>3, LeavesThrough

\* headers that are written over with blank ones
LEMMA BlankThrough ==
  ASSUME OrgInv, OrgInv', UNCHANGED <<unused_lists, used_lists>>,
         NEW R, pages' = Overwrite(pages, R, LAMBDA p : Blank)
  PROVE  Through
<1>1. Blank.offset = NONE
  BY DEF Blank
<1>2. \A x \in PageId : pages'[x] = IF x \in R THEN Blank ELSE pages[x]
  BY DEF Overwrite
<1> QED BY <1>1, <1>2, HeadersStay

LEMMA AllocateThrough == ASSUME OrgInv, OrgInv', allocate_popped PROVE Through
<1>s. PICK s : s = popped.seg
  OBVIOUS
<1>a. PICK a : a = popped.start
  OBVIOUS
<1>n. PICK n : n = popped.count
  OBVIOUS
<1>1. /\ popped.tag = "VeryUnready" /\ pages' = RangeWritten(pages, s, a, n)
      /\ UNCHANGED <<unused_lists, used_lists>>
  BY <1>s, <1>a, <1>n DEF allocate_popped
<1>b. PICK b \in BOOLEAN : GoneHere(s, a, n, b)
  BY <1>1, <1>s, <1>a, <1>n, GoneAt
<1>2. /\ s \in Segment /\ a \in Slice /\ n \in 1 .. N - a /\ Span(pages, s, a, n, "gone")
  BY <1>b DEF GoneHere
<1>f. a \in Int /\ n \in Int /\ a + n \in Int
  <2>1. a \in Nat /\ n \in Nat
    BY <1>2, FirstIn
  <2> QED BY <2>1
<1>3. ASSUME NEW x \in PageId
      PROVE  pages'[x].count = pages[x].count \/ pages[x].offset = NONE
  <2>1. CASE x \in Range2(s, a, a + n)
    <3>1. x \in Region(s, a, a + n)
      BY <1>f, <2>1, RangeIs
    <3>2. x[2] \in a .. a + n - 1 /\ x = <<s, x[2]>>
      BY <1>2, <3>1, RegionSlice
    <3>3. Empty(pages[<<s, x[2]>>])
      BY <1>2, <1>f, <3>2, GoneIs
    <3> QED BY <3>2, <3>3 DEF Empty
  <2>2. CASE x \notin Range2(s, a, a + n)
    BY <1>1, <2>2 DEF RangeWritten, Overwrite
  <2> QED BY <2>1, <2>2
<1> QED BY <1>1, <1>3, HeadersStay

LEMMA ForgetThrough ==
  ASSUME OrgInv, OrgInv', NEW n \in FirstCount, forget_about_first_page(n)
  PROVE  Through
<1>s. PICK s : s = popped.seg
  OBVIOUS
<1>z. PICK z : z = 0
  OBVIOUS
<1>1. /\ popped.tag = "SegmentCreating" /\ pages' = RangeWritten(pages, s, z, n)
      /\ UNCHANGED <<unused_lists, used_lists>>
  BY <1>s, <1>z DEF forget_about_first_page
<1>2. s \in DOMAIN used /\ Lo(popped, s) = N
  <2>1. PICK t \in DOMAIN used : popped = SegmentCreating(t) /\ used[t] = 0
    BY <1>1, CreatingAt
  <2>2. popped.tag = "SegmentCreating" /\ popped.seg = t
    BY <2>1 DEF SegmentCreating
  <2> QED BY <1>s, <2>2 DEF Lo
<1>3. \A i \in 0 .. N - 1 : Empty(pages[<<s, i>>])
  BY <1>2, InvIs DEF Laid, SegmentOK
<1>4. ASSUME NEW x \in PageId
      PROVE  pages'[x].count = pages[x].count \/ pages[x].offset = NONE
  <2>1. CASE x \in Range2(s, z, z + n)
    <3>1. n \in 1 .. N - 1 /\ N \in Nat
      BY FirstAssumption, PageIdIs DEF N
    <3>2. x[1] = s /\ x[2] \in z .. (z + n) - 1
      BY <2>1 DEF Range2
    <3>3. x[2] \in 0 .. N - 1 /\ x = <<s, x[2]>>
      BY <1>z, <3>1, <3>2, PageIdIs
    <3>4. Empty(pages[<<s, x[2]>>])
      BY <1>3, <3>3
    <3> QED BY <3>3, <3>4 DEF Empty
  <2>2. CASE x \notin Range2(s, z, z + n)
    BY <1>1, <2>2 DEF RangeWritten, Overwrite
  <2> QED BY <2>1, <2>2
<1> QED BY <1>1, <1>4, HeadersStay

LEMMA SetUsedThrough ==
  ASSUME OrgInv, OrgInv', NEW k \in ValidBin, set_range_to_used(k)
  PROVE  Through
<1>1. UNCHANGED <<unused_lists, used_lists>> /\ pages \in PagesType
  BY InvIs DEF set_range_to_used
<1>2. ASSUME NEW x \in PageId PROVE pages'[x].count = pages[x].count
  <2>p. PICK y : y = popped.page
    OBVIOUS
  <2>1. pages'[x] = IF x \in PoppedRange
                    THEN [pages[x] EXCEPT !.is_used = TRUE, !.kind = IF x = y THEN k ELSE NONE]
                    ELSE pages[x]
    BY <2>p DEF set_range_to_used, Overwrite
  <2>2. pages[x] \in PageData
    BY <1>1 DEF PagesType
  <2> QED BY <2>1, <2>2 DEF PageData
<1> QED BY <1>1, <1>2, HeadersStay

LEMMA SetNotUsedThrough == ASSUME OrgInv, OrgInv', set_range_to_not_used PROVE Through
<1>1. UNCHANGED <<unused_lists, used_lists>> /\ pages \in PagesType
  BY InvIs DEF set_range_to_not_used
<1>2. ASSUME NEW x \in PageId
      PROVE  pages'[x].count = pages[x].count \/ pages'[x].offset = NONE
  <2>1. pages'[x] = IF x \in PoppedRange THEN Cleared(pages[x]) ELSE pages[x]
    BY DEF set_range_to_not_used, Overwrite
  <2>2. pages[x] \in PageData
    BY <1>1 DEF PagesType
  <2>3. Cleared(pages[x]).offset = NONE
    BY <2>2 DEF Cleared, PageData
  <2> QED BY <2>1, <2>3
<1> QED BY <1>1, <1>2, HeadersStay

LEMMA SplitThrough == ASSUME OrgInv, OrgInv', NEW m \in 1 .. N, split_page(m) PROVE Through
<1>s. PICK s : s = popped.seg
  OBVIOUS
<1>a. PICK a : a = popped.start
  OBVIOUS
<1>n. PICK n : n = popped.count
  OBVIOUS
<1>c. PICK c : c = a + m
  OBVIOUS
<1>k. PICK k : k = n - m
  OBVIOUS
<1>1. /\ popped.tag = "VeryUnready" /\ m < n /\ EntersUnused(s, c, k)
      /\ UNCHANGED <<used, used_headers, used_lists>>
  BY <1>s, <1>a, <1>n, <1>c, <1>k DEF split_page
<1>b. PICK b \in BOOLEAN : GoneHere(s, a, n, b)
  BY <1>1, <1>s, <1>a, <1>n, GoneAt
<1>2. s \in Segment /\ a \in Slice /\ n \in 1 .. N - a /\ Span(pages, s, a, n, "gone")
  BY <1>b DEF GoneHere
<1>f. a \in Nat /\ n \in Nat /\ N \in Nat /\ a + n \in 0 .. N
  BY <1>2, FirstIn
<1>3. /\ c \in Slice /\ k \in 1 .. N - c
      /\ \A x \in c .. c + k - 1 : x \in a .. a + n - 1
  BY <1>1, <1>c, <1>k, <1>f DEF Slice
<1>4. Span(pages, s, c, k, "gone")
  <2>1. ASSUME NEW x \in c .. c + k - 1 PROVE Piece(pages[<<s, x>>], x - c, k, "gone")
    <3>1. x \in a .. a + n - 1
      BY <1>3
    <3>2. Empty(pages[<<s, x>>])
      <4>1. Span(pages, s, a, n, "gone") /\ a \in Int /\ n \in Int
        BY <1>2, <1>f
      <4> QED BY <3>1, <4>1, GoneIs
    <3> QED BY <3>2, GoneIsEmpty
  <2> QED BY <2>1 DEF Span
<1> QED BY <1>1, <1>2, <1>3, <1>4, EntersThrough

LEMMA FreeSpanThrough == ASSUME OrgInv, OrgInv', free_to_unused_queue PROVE Through
<1>s. PICK s : s = popped.seg
  OBVIOUS
<1>a. PICK a : a = popped.start
  OBVIOUS
<1>n. PICK n : n = popped.count
  OBVIOUS
<1>1. /\ popped.tag = "VeryUnready" /\ EntersUnused(s, a, n)
      /\ UNCHANGED <<used, used_headers, used_lists>>
  BY <1>s, <1>a, <1>n DEF free_to_unused_queue
<1>b. PICK b \in BOOLEAN : GoneHere(s, a, n, b)
  BY <1>1, <1>s, <1>a, <1>n, GoneAt
<1>2. s \in Segment /\ a \in Slice /\ n \in 1 .. N - a /\ Span(pages, s, a, n, "gone")
  BY <1>b DEF GoneHere
<1> QED BY <1>1, <1>2, EntersThrough

LEMMA ThroughStep == ASSUME OrgInv, OrgInv', [Next]_vars PROVE Through
<1>1. ASSUME NEW b \in Sbin, NEW j \in DOMAIN unused_lists[b],
             take_page_from_unused_queue(unused_lists[b][j], b, j)
      PROVE  Through
  <2>p. PICK p : p = unused_lists[b][j]
    OBVIOUS
  <2>1. unused_lists[b] \in Seq(PageId)
    BY DEF OrgInv, TypeOK
  <2>2. j \in 1 .. Len(unused_lists[b])
    BY <2>1
  <2>3. LeavesUnused(p, b, j) /\ UNCHANGED <<used_headers, used_lists>>
    BY <1>1, <2>p DEF take_page_from_unused_queue
  <2> QED BY <2>2, <2>3, <2>p, LeavesThrough
<1>2. ASSUME NEW n \in 1 .. SLICES_PER_SEGMENT, split_page(n) PROVE Through
  BY <1>2, SplitThrough DEF N
<1>3. CASE free_to_unused_queue
  BY <1>3, FreeSpanThrough
<1>4. CASE clear_ec
  <2>1. UNCHANGED <<pages, unused_lists, used_lists>>
    BY <1>4 DEF clear_ec
  <2> QED BY <2>1, HeadersStay
<1>5. CASE merge_with_after
  <2>1. PICK s, a, n, b, p, f, m, l, t : Merge(s, a, n, b, p, f, m, l, t)
    BY <1>5, MergeAfterIs
  <2> QED BY <2>1, MergeThrough
<1>6. CASE merge_with_before
  <2>1. PICK s, a, n, b, p, f, m, l, t : Merge(s, a, n, b, p, f, m, l, t)
    BY <1>6, MergeBeforeIs
  <2> QED BY <2>1, MergeThrough
<1>7. ASSUME NEW s \in Segment, create_segment(s) PROVE Through
  BY <1>7, BlankThrough DEF create_segment
<1>8. ASSUME NEW s \in Segment, segment_freeing_start(s) PROVE Through
  BY <1>8, BlankThrough DEF segment_freeing_start
<1>9. ASSUME NEW n \in FirstCount, forget_about_first_page(n) PROVE Through
  BY <1>9, ForgetThrough
<1>10. CASE forget_about_first_page2
  <2>1. UNCHANGED <<pages, unused_lists, used_lists>>
    BY <1>10 DEF forget_about_first_page2
  <2> QED BY <2>1, HeadersStay
<1>11. CASE segment_freeing_finish
  BY <1>11, BlankThrough DEF segment_freeing_finish
<1>12. CASE allocate_popped
  BY <1>12, AllocateThrough
<1>13. ASSUME NEW k \in ValidBin, set_range_to_used(k) PROVE Through
  BY <1>13, SetUsedThrough
<1>14. CASE set_range_to_not_used
  BY <1>14, SetNotUsedThrough
<1>15. ASSUME NEW b \in UsedBin, into_used_list(b) \/ into_used_list_back(b) PROVE Through
  <2>p. PICK p : p = popped.page
    OBVIOUS
  <2>1. Listed(p, b)
    BY <1>15, <2>p, IntoIs, IntoBackIs
  <2> QED BY <2>1, <2>p, IntoThrough
<1>16. ASSUME NEW b \in UsedBin, NEW j \in DOMAIN used_lists[b],
              out_of_used_list(used_lists[b][j], b, j)
       PROVE  Through
  <2>1. used_lists[b] \in Seq(PageId)
    BY DEF OrgInv, TypeOK
  <2>2. j \in 1 .. Len(used_lists[b])
    BY <2>1
  <2>p. PICK p : p = used_lists[b][j]
    OBVIOUS
  <2>3. out_of_used_list(p, b, j)
    BY <1>16, <2>p
  <2> QED BY <2>2, <2>3, <2>p, OutThrough
<1>17. CASE UNCHANGED vars
  <2>1. UNCHANGED <<pages, unused_lists, used_lists>>
    BY <1>17 DEF vars
  <2> QED BY <2>1, HeadersStay
<1> QED
  BY <1>1, <1>2, <1>3, <1>4, <1>5, <1>6, <1>7, <1>8, <1>9, <1>10, <1>11, <1>12, <1>13, <1>14,
     <1>15, <1>16, <1>17, Zenon DEF Next

\* ThroughPopped: the slices of a listed page or free span change their role
\* only when it is taken out of its list or put into one.
THEOREM RolesChangeHands == Spec => ThroughPopped
<1>1. OrgInv /\ OrgInv' /\ [Next]_vars
        => [\A q \in PageId : Role(q)' # Role(q) =>
              \/ Role(q)[1] = "out"
              \/ Role(q)'[1] = "out"]_vars
  BY ThroughStep DEF Through, Changes
<1> QED BY <1>1, OrgInvariant, PTL DEF Spec, ThroughPopped
=============================================================================
