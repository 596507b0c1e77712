--------------------------- MODULE CommitSegment ---------------------------
(***************************************************************************)
(* The memory of one segment (commit_segment.rs): which slices the system  *)
(* lets the process use, what the segment header says about them, and when *)
(* the memory of free slices is given back.                                *)
(*                                                                         *)
(* The masks are sets of slices (CommitMask has the words they are made    *)
(* of): a commit unit is a slice, and every address that is committed or   *)
(* decommitted is the start of a span.  The spans are those SegmentSpans   *)
(* allows: a page is cut off the beginning of a maximal free run, and a    *)
(* page that is freed is merged with the free slices on both sides.        *)
(*                                                                         *)
(* Only the owner of the segment runs this code.  Time is what is left     *)
(* until decommit_expire, in the units of the two options; the code never  *)
(* uses the clock in another way.                                          *)
(***************************************************************************)
EXTENDS Integers, FiniteSets

CONSTANTS
  SliceCount,    \* SLICES_PER_SEGMENT = COMMIT_MASK_BITS
  Request,       \* slices of the page kinds
  Delay,         \* option_decommit_delay
  Extend,        \* option_decommit_extend_delay
  MaxLeft        \* bound: how far frees may move the deadline

Slice == 0 .. SliceCount - 1

ASSUME SliceCountAssumption == SliceCount \in Nat /\ SliceCount >= 2
ASSUME RequestAssumption == Request \subseteq 1 .. SliceCount - 1
ASSUME DelayAssumption ==
  /\ Delay \in Nat \ {0} /\ Extend \in Nat \ {0}
  /\ MaxLeft \in Nat /\ Delay <= MaxLeft /\ Extend <= MaxLeft

VARIABLES
  commit_mask, decommit_mask,   \* fields of SegmentHeaderMain
  armed,     \* decommit_expire is not 0
  left,      \* decommit_expire - now, not below -Extend
  mem,       \* the slices the process may read and write
  eager,     \* the segment was committed when it was allocated
  pages,     \* pages in use: <<first slice, number of slices>>
  pc,        \* "idle", "decommit" (in segment_delayed_decommit), "abort"
  idx,       \* local variable of segment_delayed_decommit
  drained    \* (history) segment_delayed_decommit has given memory back

vars == <<commit_mask, decommit_mask, armed, left, mem, eager, pages, pc, idx, drained>>

\* segment_alloc, segment_os_alloc: all is committed, or, if there are other
\* threads, only the slice of the headers.
Init ==
  /\ eager \in BOOLEAN
  /\ commit_mask = IF eager THEN Slice ELSE {0}
  /\ mem = commit_mask
  /\ decommit_mask = {}
  /\ armed = FALSE /\ left = 0
  /\ pages = {}
  /\ pc = "idle" /\ idx = 0
  /\ drained = FALSE

Run(p) == p[1] .. p[1] + p[2] - 1

\* slice 0 holds the headers
InUse == {0} \cup UNION {Run(p) : p \in pages}

\* (mutant) the slice after the last one is included
SegmentCommitMask_Wide(i, n) == {j \in Slice : i <= j /\ j <= i + n}

\* segment_commit_mask, for the slices i .. i+n-1
SegmentCommitMask(i, n) == {j \in Slice : i <= j /\ j < i + n}

-----------------------------------------------------------------------------
(* Allocation of a page                                                     *)

\* i .. i+n-1 is the beginning of a free span of at least n slices
Available(i, n) ==
  /\ i - 1 \in InUse
  /\ i + n <= SliceCount
  /\ (i .. i + n - 1) \cap InUse = {}

\* (mutant) what waits to be decommitted goes on waiting
CommitX_KeepsPending(mask) ==
  /\ mem' = IF mask \subseteq commit_mask THEN mem ELSE mem \cup mask
  /\ commit_mask' = commit_mask \cup mask
  /\ armed' = (armed \/ decommit_mask \cap mask # {})
  /\ left' = IF decommit_mask \cap mask # {} THEN Delay ELSE left
  /\ decommit_mask' = decommit_mask

\* segment_commitx(commit = true)
CommitX(mask) ==
  /\ mem' = IF mask \subseteq commit_mask THEN mem ELSE mem \cup mask
  /\ commit_mask' = commit_mask \cup mask
  /\ armed' = (armed \/ decommit_mask \cap mask # {})
  /\ left' = IF decommit_mask \cap mask # {} THEN Delay ELSE left
  /\ decommit_mask' = decommit_mask \ mask

NothingToCommit == commit_mask = Slice /\ decommit_mask = {}

\* segment_ensure_committed
EnsureCommitted(i, n) ==
  \/ /\ NothingToCommit
     /\ UNCHANGED <<commit_mask, decommit_mask, armed, left, mem>>
  \/ /\ ~NothingToCommit
     /\ CommitX(SegmentCommitMask(i, n))

\* segment_span_allocate
PageAlloc(i, n) ==
  /\ pc = "idle"
  /\ Available(i, n)
  /\ EnsureCommitted(i, n)
  /\ pages' = pages \cup {<<i, n>>}
  /\ UNCHANGED <<eager, pc, idx, drained>>

\* mprotect fails while the memory is committed: panic
CommitPanics(i, n) ==
  /\ pc = "idle"
  /\ Available(i, n)
  /\ ~(SegmentCommitMask(i, n) \subseteq commit_mask)
  /\ pc' = "abort"
  /\ UNCHANGED <<commit_mask, decommit_mask, armed, left, mem, eager, pages, idx, drained>>

-----------------------------------------------------------------------------
(* Freeing a page                                                           *)

\* segment_page_free afterwards: segment_free, todo(), if no page is left
Return(ps) == IF ps = {} THEN "abort" ELSE "idle"

\* the span after segment_span_free_coalesce
Merged(p) ==
  LET free == (Slice \ InUse) \cup Run(p)
  IN  {j \in Slice : (j .. p[1]) \cup (p[1] .. j) \subseteq free}

\* segment_perhaps_decommit: what is committed waits to be decommitted
Pending(mask) == decommit_mask \cup (commit_mask \cap mask)

\* segment_perhaps_decommit: the first free sets the deadline, later ones move
\* it; a free long enough after it calls segment_delayed_decommit.
PageFree(p) ==
  /\ pc = "idle"
  /\ p \in pages
  /\ pages' = pages \ {p}
  /\ decommit_mask' = Pending(Merged(p))
  /\ idx' = 0
  /\ armed' = TRUE
  /\ \/ /\ ~armed
        /\ left' = Delay
        /\ pc' = Return(pages')
     \/ /\ armed /\ left > 0
        /\ left + Extend <= MaxLeft
        /\ left' = left + Extend
        /\ pc' = Return(pages')
     \/ /\ armed /\ left <= 0 /\ left + Extend > 0
        /\ left' = Extend
        /\ pc' = Return(pages')
     \/ /\ armed /\ left + Extend <= 0
        /\ left' = left
        /\ pc' = IF decommit_mask' = {} THEN Return(pages') ELSE "decommit"
  /\ UNCHANGED <<commit_mask, mem, eager, drained>>

\* next_run: the first run of slices of mask from i on begins at first
NextRunAt(mask, i, first) ==
  /\ first \in mask /\ first >= i
  /\ \A j \in mask : j >= i => j >= first
RunFrom(mask, first) == {j \in mask : j >= first /\ first .. j \subseteq mask}

\* (mutant) the bits of decommit_mask stay
DecommitX_KeepsPending(mask) ==
  /\ mem' = mem \ mask
  /\ commit_mask' = commit_mask \ mask
  /\ decommit_mask' = decommit_mask

\* (mutant) the header still says that the memory is there
DecommitX_KeepsCommitted(mask) ==
  /\ mem' = mem \ mask
  /\ commit_mask' = commit_mask
  /\ decommit_mask' = decommit_mask \ mask

\* segment_commitx(commit = false)
DecommitX(mask) ==
  /\ mem' = IF commit_mask \cap mask # {} THEN mem \ mask ELSE mem
  /\ commit_mask' = commit_mask \ mask
  /\ decommit_mask' = decommit_mask \ mask

MoreRuns == \E j \in decommit_mask : j >= idx

\* a round of the loop of segment_delayed_decommit
DecommitRun(first) ==
  /\ pc = "decommit"
  /\ MoreRuns
  /\ NextRunAt(decommit_mask, idx, first)
  /\ DecommitX(RunFrom(decommit_mask, first))
  /\ idx' = first
  /\ drained' = TRUE
  /\ UNCHANGED <<armed, left, eager, pages, pc>>

DecommitDone ==
  /\ pc = "decommit"
  /\ ~MoreRuns
  /\ pc' = Return(pages)
  /\ UNCHANGED <<commit_mask, decommit_mask, armed, left, mem, eager, pages, idx, drained>>

\* mprotect fails: panic
DecommitPanics ==
  /\ pc = "decommit"
  /\ MoreRuns
  /\ pc' = "abort"
  /\ UNCHANGED <<commit_mask, decommit_mask, armed, left, mem, eager, pages, idx, drained>>

-----------------------------------------------------------------------------
\* clock_now: a monotonic clock
Tick ==
  /\ pc # "abort"
  /\ armed /\ left > -Extend
  /\ left' = left - 1
  /\ UNCHANGED <<commit_mask, decommit_mask, armed, mem, eager, pages, pc, idx, drained>>

Aborted == pc = "abort" /\ UNCHANGED vars

Next ==
  \/ \E i \in Slice, n \in Request : PageAlloc(i, n)
  \/ \E i \in Slice, n \in Request : CommitPanics(i, n)
  \/ \E p \in pages : PageFree(p)
  \/ \E first \in Slice : DecommitRun(first)
  \/ DecommitDone
  \/ DecommitPanics
  \/ Tick
  \/ Aborted

Spec == Init /\ [][Next]_vars

\* A thread inside the loop goes on.
Fairness == WF_vars(\E first \in Slice : DecommitRun(first)) /\ WF_vars(DecommitDone)

FairSpec == Spec /\ Fairness

-----------------------------------------------------------------------------
(* Properties                                                               *)

\* The values of the fields; a slice of a page is in the segment.
TypeOK ==
  /\ commit_mask \subseteq Slice
  /\ decommit_mask \subseteq Slice
  /\ armed \in BOOLEAN
  /\ left \in -Extend .. MaxLeft
  /\ mem \subseteq Slice
  /\ eager \in BOOLEAN
  /\ pages \subseteq (1 .. SliceCount - 1) \X Request
  /\ \A p \in pages : Run(p) \subseteq Slice
  /\ pc \in {"idle", "decommit", "abort"}
  /\ idx \in Slice
  /\ drained \in BOOLEAN

\* The memory of a page, and of the headers, can be accessed, and it is not
\* waiting to be taken away: segment_delayed_decommit looks at nothing but
\* decommit_mask.
InUseAccessible ==
  /\ InUse \subseteq mem
  /\ InUse \cap decommit_mask = {}

\* commit_mask tells what the system was told, and only committed memory waits
\* to be decommitted.
MaskExact ==
  /\ commit_mask = mem
  /\ decommit_mask \subseteq commit_mask

\* In a segment that commits on demand, memory that no page uses is on its way
\* back to the system: splitting and merging forget no committed slice.
NothingForgotten == ~eager => commit_mask \subseteq InUse \cup decommit_mask

\* decommit_expire is never reset, so the delay works once: after the first
\* segment_delayed_decommit every free gives its memory back before it returns.
DelayIsOnce == drained /\ pc = "idle" => decommit_mask = {}

\* Memory that no page uses goes back to the system: in a segment that commits
\* on demand it waits for it, and after the first round it never waits longer
\* than the call that freed it.
GivenBack == NothingForgotten /\ DelayIsOnce

\* The loop of segment_delayed_decommit ends.
DecommitEnds == pc = "decommit" ~> pc # "decommit"
=============================================================================
