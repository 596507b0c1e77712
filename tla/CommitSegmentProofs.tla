------------------------ MODULE CommitSegmentProofs ------------------------
(***************************************************************************)
(* The theorems about CommitSegment.  CInv is inductive.                   *)
(***************************************************************************)
EXTENDS CommitSegment, TLAPS

\* pages share no slice
Disjoint == \A p, q \in pages : p # q => Run(p) \cap Run(q) = {}

\* what segment_delayed_decommit has not looked at lies ahead
Ahead == pc = "decommit" => \A j \in decommit_mask : j >= idx

\* the deadline has passed, and nothing waits that could move it
Late ==
  /\ pc = "decommit" \/ drained => armed /\ left + Extend <= 0
  /\ DelayIsOnce

CInv ==
  /\ TypeOK
  /\ Disjoint
  /\ InUseAccessible
  /\ MaskExact
  /\ NothingForgotten
  /\ Ahead
  /\ Late

LEMMA InitCInv == Init => CInv
<1> SUFFICES ASSUME Init PROVE CInv
  OBVIOUS
<1>1. /\ 0 \in Slice /\ 0 \in -Extend .. MaxLeft
  BY SliceCountAssumption, DelayAssumption DEF Slice
<1>2. InUse = {0}
  BY DEF Init, InUse
<1>3. {0} \subseteq commit_mask /\ commit_mask \subseteq Slice /\ (~eager => commit_mask = {0})
  BY <1>1 DEF Init
<1>4. TypeOK
  BY <1>1, <1>3 DEF Init, TypeOK
<1>5. InUseAccessible /\ MaskExact /\ NothingForgotten
  BY <1>2, <1>3 DEF Init, InUseAccessible, MaskExact, NothingForgotten
<1>6. Disjoint /\ Ahead /\ Late
  BY DEF Init, Disjoint, Ahead, Late, DelayIsOnce
<1> QED BY <1>4, <1>5, <1>6 DEF CInv

\* the slices of a page that can be cut off a free span
LEMMA FreeRun ==
  ASSUME NEW i \in Slice, NEW n \in Request, Available(i, n), TypeOK
  PROVE  /\ i \in 1 .. SliceCount - 1
         /\ Run(<<i, n>>) = SegmentCommitMask(i, n)
         /\ Run(<<i, n>>) \subseteq Slice
         /\ Run(<<i, n>>) \cap InUse = {}
<1>1. n \in 1 .. SliceCount - 1 /\ i \in Int /\ 0 <= i /\ i + n <= SliceCount
  BY RequestAssumption, SliceCountAssumption DEF Available, Slice
<1>2. Run(<<i, n>>) = i .. i + n - 1
  BY DEF Run
<1>3. i # 0
  <2>1. 0 \in InUse
    BY DEF InUse
  <2>2. i \in i .. i + n - 1
    BY <1>1
  <2> QED BY <2>1, <2>2 DEF Available
<1>4. SegmentCommitMask(i, n) = i .. i + n - 1
  BY <1>1, SliceCountAssumption DEF SegmentCommitMask, Slice
<1> QED BY <1>1, <1>2, <1>3, <1>4, SliceCountAssumption DEF Available, Slice

\* PageAlloc: the memory of the page is committed and does not wait any more.
LEMMA AllocInv ==
  ASSUME CInv, NEW i \in Slice, NEW n \in Request, PageAlloc(i, n)
  PROVE  CInv'
<1> DEFINE mask == SegmentCommitMask(i, n)
<1>1. /\ i \in 1 .. SliceCount - 1 /\ mask = Run(<<i, n>>) /\ mask \subseteq Slice
      /\ mask \cap InUse = {}
  BY FreeRun DEF PageAlloc, CInv
<1>2. InUse' = InUse \cup mask
  BY <1>1 DEF PageAlloc, InUse, Run
<1>3. /\ pages' = pages \cup {<<i, n>>} /\ pc = "idle" /\ pc' = "idle"
      /\ idx' = idx /\ eager' = eager /\ drained' = drained
  BY DEF PageAlloc
<1>4. /\ mask \subseteq commit_mask' /\ commit_mask' = mem'
      /\ commit_mask' = commit_mask \cup mask
      /\ decommit_mask' = decommit_mask \ mask
  <2>1. CASE NothingToCommit
    BY <1>1, <2>1 DEF PageAlloc, EnsureCommitted, NothingToCommit, CInv, MaskExact
  <2>2. CASE ~NothingToCommit
    BY <2>2 DEF PageAlloc, EnsureCommitted, CommitX, CInv, MaskExact
  <2> QED BY <2>1, <2>2
<1>5. armed' \in BOOLEAN /\ left' \in -Extend .. MaxLeft
  <2>1. armed \in BOOLEAN /\ left \in -Extend .. MaxLeft /\ Delay \in -Extend .. MaxLeft
    BY DelayAssumption DEF CInv, TypeOK
  <2>2. \/ armed' = armed /\ left' = left
        \/ /\ armed' = (armed \/ decommit_mask \cap mask # {})
           /\ left' = IF decommit_mask \cap mask # {} THEN Delay ELSE left
    BY DEF PageAlloc, EnsureCommitted, CommitX
  <2>3. left' = left \/ left' = Delay
    BY <2>2
  <2>4. armed' \in BOOLEAN
    BY <2>1, <2>2
  <2> QED BY <2>1, <2>3, <2>4
<1>6. TypeOK'
  <2>1. \A p \in pages' : Run(p)' \subseteq Slice
    BY <1>1, <1>3 DEF CInv, TypeOK, Run
  <2>2. pages' \subseteq (1 .. SliceCount - 1) \X Request
    BY <1>1, <1>3 DEF CInv, TypeOK
  <2>3. commit_mask' \subseteq Slice /\ decommit_mask' \subseteq Slice /\ mem' \subseteq Slice
    BY <1>1, <1>4 DEF CInv, TypeOK
  <2> QED BY <1>3, <1>5, <2>1, <2>2, <2>3 DEF CInv, TypeOK
<1>7. Disjoint'
  <2>1. \A p \in pages : Run(p) \subseteq InUse
    BY DEF InUse
  <2>2. \A p \in pages : Run(p) \cap mask = {}
    BY <1>1, <2>1
  <2>3. ASSUME NEW p \in pages', NEW q \in pages', p # q PROVE Run(p) \cap Run(q) = {}
    BY <1>1, <1>3, <2>2, <2>3 DEF CInv, Disjoint
  <2> QED BY <2>3 DEF Disjoint, Run
<1>8. InUseAccessible'
  BY <1>2, <1>4 DEF CInv, InUseAccessible, MaskExact
<1>9. MaskExact'
  BY <1>4 DEF CInv, MaskExact
<1>10. NothingForgotten'
  BY <1>2, <1>3, <1>4 DEF CInv, NothingForgotten
<1>11. Ahead'
  BY <1>3 DEF Ahead
<1>12. Late'
  <2>1. drained => decommit_mask = {}
    BY <1>3 DEF CInv, Late, DelayIsOnce
  <2>2. drained => armed' = armed /\ left' = left
    BY <2>1 DEF PageAlloc, EnsureCommitted, CommitX, CInv, TypeOK
  <2> QED BY <1>3, <1>4, <2>1, <2>2 DEF CInv, Late, DelayIsOnce
<1> QED BY <1>6, <1>7, <1>8, <1>9, <1>10, <1>11, <1>12 DEF CInv

\* PageFree: the merged span holds the page and no other slice in use.
LEMMA FreeInv ==
  ASSUME CInv, NEW p \in pages, PageFree(p)
  PROVE  CInv'
<1> DEFINE mask == Merged(p)
<1>1. /\ p[1] \in Int /\ p[2] \in Int /\ p[1] >= 1
      /\ Run(p) = p[1] .. p[1] + p[2] - 1 /\ Run(p) \subseteq Slice
  <2>1. p \in (1 .. SliceCount - 1) \X Request /\ Run(p) \subseteq Slice
    BY DEF CInv, TypeOK
  <2>2. p[1] \in 1 .. SliceCount - 1 /\ p[2] \in Request
    BY <2>1
  <2>3. p[2] \in 1 .. SliceCount - 1
    BY <2>2, RequestAssumption
  <2> QED BY <2>1, <2>2, <2>3, SliceCountAssumption DEF Run
<1>2. /\ pages' = pages \ {p} /\ pc = "idle" /\ idx' = 0 /\ eager' = eager
      /\ drained' = drained /\ commit_mask' = commit_mask /\ mem' = mem
      /\ decommit_mask' = decommit_mask \cup (commit_mask \cap mask)
  BY DEF PageFree, Pending
<1>3. \A q \in pages' : Run(q) \cap Run(p) = {}
  BY <1>2 DEF CInv, Disjoint
<1>4. InUse' = {0} \cup UNION {Run(q) : q \in pages'}
  BY DEF InUse, Run
<1>5. InUse' \subseteq InUse /\ InUse' \cap Run(p) = {} /\ InUse \subseteq InUse' \cup Run(p)
  <2>1. 0 \notin Run(p)
    BY <1>1
  <2>2. ASSUME NEW j \in InUse', j # 0 PROVE j \in InUse /\ j \notin Run(p)
    BY <1>2, <1>3, <1>4, <2>2 DEF InUse
  <2>3. ASSUME NEW j \in InUse PROVE j \in InUse' \/ j \in Run(p)
    BY <1>2, <1>4 DEF InUse
  <2> QED BY <1>4, <2>1, <2>2, <2>3 DEF InUse
<1>6. mask \cap InUse' = {}
  <2>1. ASSUME NEW j \in mask PROVE j \in (Slice \ InUse) \cup Run(p)
    <3>1. j \in Slice /\ (j .. p[1]) \cup (p[1] .. j) \subseteq (Slice \ InUse) \cup Run(p)
      BY DEF Merged
    <3>2. j \in (j .. p[1]) \cup (p[1] .. j)
      BY <1>1, <3>1 DEF Slice
    <3> QED BY <3>1, <3>2
  <2> QED BY <1>5, <2>1
<1>7. Run(p) \subseteq mask
  <2>1. ASSUME NEW j \in Run(p) PROVE (j .. p[1]) \cup (p[1] .. j) \subseteq Run(p)
    BY <1>1
  <2> QED BY <1>1, <2>1 DEF Merged
<1>8. /\ armed' = TRUE /\ left' \in -Extend .. MaxLeft
      /\ pc' \in {"idle", "decommit", "abort"}
  <2>1. left \in -Extend .. MaxLeft
    BY DEF CInv, TypeOK
  <2>2. \/ left' = Delay
        \/ left > 0 /\ left + Extend <= MaxLeft /\ left' = left + Extend
        \/ left <= 0 /\ left + Extend > 0 /\ left' = Extend
        \/ left' = left
    BY DEF PageFree
  <2>3. left' \in -Extend .. MaxLeft
    BY <2>1, <2>2, DelayAssumption
  <2>4. armed' = TRUE
    BY DEF PageFree
  <2>5. pc' = Return(pages') \/ pc' = "decommit"
    BY DEF PageFree
  <2>6. Return(pages') \in {"idle", "abort"}
    BY DEF Return
  <2> QED BY <2>3, <2>4, <2>5, <2>6
<1>9. TypeOK'
  <2>1. mask \subseteq Slice
    BY DEF Merged
  <2>2. 0 \in Slice
    BY SliceCountAssumption DEF Slice
  <2>3. \A q \in pages' : Run(q)' \subseteq Slice
    BY <1>2 DEF CInv, TypeOK, Run
  <2> QED BY <1>2, <1>8, <2>1, <2>2, <2>3 DEF CInv, TypeOK
<1>10. Disjoint'
  BY <1>2 DEF CInv, Disjoint, Run
<1>11. InUseAccessible'
  BY <1>2, <1>5, <1>6 DEF CInv, InUseAccessible
<1>12. MaskExact'
  BY <1>2 DEF CInv, MaskExact
<1>13. NothingForgotten'
  BY <1>2, <1>5, <1>7 DEF CInv, NothingForgotten
<1>14. Ahead'
  BY <1>2, <1>9, SliceCountAssumption DEF Ahead, TypeOK, Slice
<1>15. Late'
  <2>1. ASSUME drained PROVE armed /\ left + Extend <= 0
    BY <2>1 DEF CInv, Late
  <2>2. left \in Int /\ Extend \in Int /\ Extend >= 1
    BY DelayAssumption DEF CInv, TypeOK
  <2>3. drained => ~(left > 0) /\ ~(left + Extend > 0) /\ armed
    BY <2>1, <2>2
  <2>4. \/ ~armed /\ pc' = Return(pages')
        \/ left > 0 /\ pc' = Return(pages')
        \/ left + Extend > 0 /\ pc' = Return(pages')
        \/ /\ left + Extend <= 0 /\ left' = left
           /\ pc' = IF decommit_mask' = {} THEN Return(pages') ELSE "decommit"
    BY DEF PageFree
  <2>5. Return(pages') # "decommit"
    BY DEF Return
  <2>6. pc' = "decommit" \/ drained => left' + Extend <= 0
    BY <2>3, <2>4, <2>5
  <2>7. drained /\ pc' = "idle" => decommit_mask' = {}
    BY <2>3, <2>4
  <2> QED BY <1>2, <1>8, <2>6, <2>7 DEF Late, DelayIsOnce
<1> QED BY <1>9, <1>10, <1>11, <1>12, <1>13, <1>14, <1>15 DEF CInv

\* DecommitRun: a run of decommit_mask loses its memory; no page is in it.
LEMMA DecommitInv ==
  ASSUME CInv, NEW first \in Slice, DecommitRun(first)
  PROVE  CInv'
<1> DEFINE run == RunFrom(decommit_mask, first)
<1>1. /\ pc = "decommit" /\ pc' = pc /\ pages' = pages /\ eager' = eager /\ armed' = armed
      /\ left' = left /\ idx' = first /\ drained' = TRUE
      /\ commit_mask' = commit_mask \ run /\ decommit_mask' = decommit_mask \ run
      /\ mem' = IF commit_mask \cap run # {} THEN mem \ run ELSE mem
  BY DEF DecommitRun, DecommitX
<1>2. run \subseteq decommit_mask
  BY DEF RunFrom
<1>3. mem' = mem \ run
  BY <1>1, <1>2 DEF CInv, MaskExact
<1>4. InUse' = InUse
  BY <1>1 DEF InUse, Run
<1>5. TypeOK'
  BY <1>1, <1>3 DEF CInv, TypeOK, Run
<1>6. Disjoint'
  BY <1>1 DEF CInv, Disjoint, Run
<1>7. InUseAccessible'
  BY <1>1, <1>2, <1>3, <1>4 DEF CInv, InUseAccessible
<1>8. MaskExact' /\ NothingForgotten'
  BY <1>1, <1>3, <1>4 DEF CInv, MaskExact, NothingForgotten
<1>9. Ahead'
  BY <1>1 DEF CInv, Ahead, DecommitRun, NextRunAt
<1>10. Late'
  BY <1>1 DEF CInv, Late, DelayIsOnce
<1> QED BY <1>5, <1>6, <1>7, <1>8, <1>9, <1>10 DEF CInv

\* DecommitDone: nothing waits any more.
LEMMA DoneInv ==
  ASSUME CInv, DecommitDone
  PROVE  CInv'
<1>1. /\ UNCHANGED <<commit_mask, decommit_mask, armed, left, mem, eager, pages, idx, drained>>
      /\ pc = "decommit" /\ pc' \in {"idle", "abort"}
  BY DEF DecommitDone, Return
<1>2. decommit_mask = {}
  BY DEF DecommitDone, MoreRuns, CInv, Ahead
<1>3. InUse' = InUse
  BY <1>1 DEF InUse, Run
<1> QED BY <1>1, <1>2, <1>3
    DEF CInv, TypeOK, Disjoint, Run, InUseAccessible, MaskExact, NothingForgotten, Ahead, Late,
        DelayIsOnce

\* a deadline that has passed stays so while time goes on
LEMMA LaterIsLower ==
  ASSUME NEW a \in Int, NEW b \in Int, NEW c \in Int, b <= a, a + c <= 0
  PROVE  b + c <= 0
OBVIOUS

\* Steps that leave the masks and the pages alone.
LEMMA OtherInv ==
  ASSUME CInv, UNCHANGED <<commit_mask, decommit_mask, armed, mem, eager, pages, idx, drained>>,
         pc' \in {pc, "abort"}, left' \in -Extend .. MaxLeft, left' <= left
  PROVE  CInv'
<1>1. InUse' = InUse
  BY DEF InUse, Run
<1>2. left \in Int /\ left' \in Int /\ Extend \in Int /\ left' <= left
  BY DelayAssumption DEF CInv, TypeOK
<1>3. TypeOK' /\ Disjoint'
  BY DEF CInv, TypeOK, Disjoint, Run
<1>4. InUseAccessible' /\ MaskExact' /\ NothingForgotten' /\ Ahead'
  BY <1>1 DEF CInv, InUseAccessible, MaskExact, NothingForgotten, Ahead
<1>5. Late'
  <2>1. left + Extend <= 0 => left' + Extend <= 0
    BY <1>2, LaterIsLower
  <2>2. pc' = "decommit" => pc = "decommit"
    OBVIOUS
  <2>3. pc' = "idle" => pc = "idle"
    OBVIOUS
  <2> QED BY <2>1, <2>2, <2>3 DEF CInv, Late, DelayIsOnce
<1> QED BY <1>3, <1>4, <1>5 DEF CInv

LEMMA NextCInv == CInv /\ [Next]_vars => CInv'
<1> SUFFICES ASSUME CInv, [Next]_vars PROVE CInv'
  OBVIOUS
<1>1. left \in -Extend .. MaxLeft /\ left <= left
  BY DelayAssumption DEF CInv, TypeOK
<1>2. ASSUME NEW i \in Slice, NEW n \in Request, PageAlloc(i, n) PROVE CInv'
  BY <1>2, AllocInv
<1>3. ASSUME NEW i \in Slice, NEW n \in Request, CommitPanics(i, n) PROVE CInv'
  BY <1>1, <1>3, OtherInv DEF CommitPanics
<1>4. ASSUME NEW p \in pages, PageFree(p) PROVE CInv'
  BY <1>4, FreeInv
<1>5. ASSUME NEW first \in Slice, DecommitRun(first) PROVE CInv'
  BY <1>5, DecommitInv
<1>6. CASE DecommitDone
  BY <1>6, DoneInv
<1>7. CASE DecommitPanics
  BY <1>1, <1>7, OtherInv DEF DecommitPanics
<1>8. CASE Tick
  <2>1. left' \in -Extend .. MaxLeft /\ left' <= left
    BY <1>1, <1>8, DelayAssumption DEF Tick
  <2> QED BY <1>8, <2>1, OtherInv DEF Tick
<1>9. CASE UNCHANGED vars
  BY <1>1, <1>9, OtherInv DEF vars
<1> QED BY <1>2, <1>3, <1>4, <1>5, <1>6, <1>7, <1>8, <1>9 DEF Next, Aborted

LEMMA SpecCInv == Spec => []CInv
BY InitCInv, NextCInv, PTL DEF Spec

\* The fields of the header and the pages keep their types, for every number of
\* slices (commit_segment.rs).
THEOREM CommitTypes == Spec => []TypeOK
<1>1. CInv => TypeOK
  BY DEF CInv
<1> QED BY <1>1, SpecCInv, PTL

\* No page, and not the slice of the headers, loses its memory or waits for that:
\* segment_ensure_committed takes the slices out of decommit_mask before
\* segment_delayed_decommit can come to them.
THEOREM InUseStaysAccessible == Spec => []InUseAccessible
<1>1. CInv => InUseAccessible
  BY DEF CInv
<1> QED BY <1>1, SpecCInv, PTL

\* commit_mask is what the system was told (segment_commitx).
THEOREM MasksAreExact == Spec => []MaskExact
<1>1. CInv => MaskExact
  BY DEF CInv
<1> QED BY <1>1, SpecCInv, PTL

\* segment_perhaps_decommit forgets no committed slice, and its delay works
\* once, whatever the options say.
THEOREM MemoryGivenBack == Spec => []GivenBack
<1>1. CInv => GivenBack
  BY DEF CInv, Late, GivenBack
<1> QED BY <1>1, SpecCInv, PTL
=============================================================================
