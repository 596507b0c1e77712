---------------------------- MODULE OsMemProofs ----------------------------
(***************************************************************************)
(* The theorems about OsMem.  MInv is inductive: MemoryExact alone says     *)
(* nothing of a segment that mmap has returned and that is not yet set up,  *)
(* and what a thread at the label "reset" has read of ALIGNED_BASE decides  *)
(* whether its compare_exchange may set the base back.                      *)
(***************************************************************************)
EXTENDS OsMem, TLAPS

Labels == {"start", "data", "empty", "idle", "hint", "reset", "again", "map",
           "map_anywhere", "mapped"}

Slot == 0 .. SEGMENT_SIZE - 1

Segment == [start : Address, commit_mask : SUBSET Slot]

TypeOK ==
  /\ aligned_base \in Nat /\ thread_count \in Nat
  /\ prot \in [Address -> {"unmapped", "none", "rw"}]
  /\ pc \in [Thread -> Labels]
  /\ hint \in [Thread -> Nat] /\ commit \in [Thread -> BOOLEAN]
  /\ fresh \in [Thread -> Nat]
  /\ segments \in [Thread -> SUBSET Segment]
  /\ heap \in [Thread -> SUBSET Address]
  /\ aborted \in BOOLEAN

\* what mmap has returned is accessible just as it was asked for, and lies apart
\* from the other segments of the thread
FreshRight ==
  \A t \in Thread :
    /\ fresh[t] # NULL <=> pc[t] = "mapped"
    /\ fresh[t] # NULL =>
         \A a \in Area(fresh[t], SEGMENT_SIZE) :
           /\ a \in Address
           /\ prot[a] = IF commit[t] THEN "rw" ELSE "none"
           /\ \A s \in segments[t] : a \notin SegmentArea(s)

\* a thread that sets the base back has found it unset or too high
ResetRight == \A t \in Thread : pc[t] = "reset" => hint[t] = 0 \/ hint[t] > HINT_MAX

Apart == \A t, u \in Thread : t # u => Owns(t) \cap Owns(u) = {}

Whole == {a \in Address : prot[a] # "unmapped"} = UNION {Owns(t) : t \in Thread}

SegmentRight(t, s) ==
  /\ s.start % SEGMENT_SIZE = 0
  /\ 0 .. INFO_SLICES - 1 \subseteq s.commit_mask
  /\ s.commit_mask = {i \in 0 .. SEGMENT_SIZE - 1 : prot[s.start + i] = "rw"}
  /\ \A r \in segments[t] \ {s} : SegmentArea(r) \cap SegmentArea(s) = {}

SegmentsRight == \A t \in Thread : \A s \in segments[t] : SegmentRight(t, s)

MInv == TypeOK /\ FreshRight /\ ResetRight /\ Apart /\ Whole /\ SegmentsRight

LEMMA Exact == MemoryExact <=> Apart /\ Whole /\ SegmentsRight
BY DEF MemoryExact, Apart, Whole, SegmentsRight, SegmentRight

LEMMA Sizes == /\ SEGMENT_SIZE \in Nat /\ SEGMENT_SIZE > 0 /\ INFO_SLICES \in Nat
               /\ 1 <= INFO_SLICES /\ INFO_SLICES <= SEGMENT_SIZE
BY SegmentAssumption

LEMMA HintBaseBound == HINT_BASE \in Nat /\ HINT_BASE >= SEGMENT_SIZE /\ HINT_MAX \in Nat
<1>1. HINT_BASE \in Nat /\ HINT_BASE > 0 /\ HINT_MAX \in Nat
  BY HintAssumption
<1>2. ASSUME HINT_BASE < SEGMENT_SIZE PROVE HINT_BASE % SEGMENT_SIZE = HINT_BASE
  BY <1>1, <1>2, Sizes
<1> QED BY <1>1, <1>2, Sizes, HintAssumption

-----------------------------------------------------------------------------
(* The end of the process                                                   *)

\* a state with nothing in it: the first one, and the one after an abort
Cleared ==
  /\ Nothing(aligned_base, thread_count, prot, pc, hint, commit, fresh, segments, heap)
  /\ aborted \in BOOLEAN

LEMMA ClearedInv == Cleared => MInv
<1> SUFFICES ASSUME Cleared PROVE MInv
  OBVIOUS
<1> USE DEF Cleared, Nothing, NULL
<1>1. TypeOK
  BY DEF TypeOK, Labels
<1>2. FreshRight /\ ResetRight
  BY DEF FreshRight, ResetRight
<1>3. \A t \in Thread : Owns(t) = {}
  BY DEF Owns
<1>4. Apart /\ Whole
  BY <1>3 DEF Apart, Whole
<1>5. SegmentsRight
  BY DEF SegmentsRight
<1> QED BY <1>1, <1>2, <1>4, <1>5 DEF MInv

LEMMA AbortInv == Abort => MInv'
<1>1. (Cleared => MInv)'
  BY ClearedInv, PTL
<1>2. Abort => Cleared'
  BY DEF Abort, Cleared, Nothing
<1> QED BY <1>1, <1>2

-----------------------------------------------------------------------------
(* Steps that touch no memory                                               *)

LEMMA SameMemory ==
  ASSUME MInv, UNCHANGED <<prot, fresh, segments, heap>>
  PROVE  Apart' /\ Whole' /\ SegmentsRight'
<1>1. \A t \in Thread : Owns(t)' = Owns(t)
  BY DEF Owns, SegmentArea, Area
<1>2. Apart' /\ Whole'
  BY <1>1 DEF MInv, Apart, Whole
<1>3. SegmentsRight'
  BY DEF MInv, SegmentsRight, SegmentRight, SegmentArea, Area
<1> QED BY <1>2, <1>3

\* a thread goes on without a segment from mmap
LEMMA SameFresh ==
  ASSUME MInv, NEW t \in Thread, NEW l \in Labels, l # "mapped", pc[t] # "mapped",
         Goto(t, l), UNCHANGED <<prot, fresh, segments>>,
         \A u \in Thread : u # t => commit'[u] = commit[u]
  PROVE  FreshRight'
<1>1. \A u \in Thread : pc'[u] = IF u = t THEN l ELSE pc[u]
  BY DEF MInv, TypeOK, Goto
<1>2. fresh[t] = NULL
  BY DEF MInv, FreshRight
<1>3. ASSUME NEW u \in Thread
      PROVE  /\ fresh'[u] # NULL <=> pc'[u] = "mapped"
             /\ fresh'[u] # NULL =>
                  \A a \in Area(fresh'[u], SEGMENT_SIZE) :
                    /\ a \in Address
                    /\ prot'[a] = IF commit'[u] THEN "rw" ELSE "none"
                    /\ \A s \in segments'[u] : a \notin SegmentArea(s)
  BY <1>1, <1>2 DEF MInv, FreshRight
<1> QED BY <1>3 DEF FreshRight, SegmentArea, Area

LEMMA IncrementInv ==
  ASSUME MInv, NEW t \in Thread, increment_thread_count(t)
  PROVE  MInv'
<1> USE DEF increment_thread_count
<1>1. TypeOK'
  BY DEF MInv, TypeOK, Goto, Labels
<1>2. FreshRight'
  BY SameFresh DEF Labels
<1>3. ResetRight'
  BY DEF MInv, TypeOK, ResetRight, Goto
<1> QED BY <1>1, <1>2, <1>3, SameMemory DEF MInv

LEMMA SegmentAllocInv ==
  ASSUME MInv, NEW t \in Thread, segment_alloc(t)
  PROVE  MInv'
<1> USE DEF segment_alloc
<1>1. TypeOK'
  BY DEF MInv, TypeOK, Goto, Labels, shared, request_commit
<1>2. FreshRight'
  <2>1. \A u \in Thread : u # t => commit'[u] = commit[u]
    BY DEF MInv, TypeOK
  <2> QED BY <2>1, SameFresh DEF Labels
<1>3. ResetRight'
  BY DEF MInv, TypeOK, ResetRight, Goto
<1> QED BY <1>1, <1>2, <1>3, SameMemory DEF MInv

LEMMA TakeHintInv ==
  ASSUME MInv, NEW t \in Thread, NEW overflow \in BOOLEAN, pc[t] \in {"hint", "again"},
         overflow => aligned_base = 0 \/ aligned_base > HINT_MAX,
         TakeHint(t, overflow)
  PROVE  MInv' /\ aligned_base' >= aligned_base
<1> USE DEF TakeHint
<1>0. aligned_base' \in Nat /\ aligned_base' >= aligned_base
  BY Sizes DEF MInv, TypeOK
<1> DEFINE l == IF overflow THEN "reset" ELSE "map"
<1>1. TypeOK'
  BY <1>0 DEF MInv, TypeOK, Goto, Labels, NULL
<1>2. FreshRight'
  <2>1. l \in Labels /\ l # "mapped" /\ Goto(t, l) /\ pc[t] # "mapped"
    BY DEF Labels
  <2> QED BY <2>1, SameFresh
<1>3. ResetRight'
  <2>1. \A u \in Thread : u # t => pc'[u] = pc[u] /\ hint'[u] = hint[u]
    BY DEF MInv, TypeOK, Goto
  <2>2. pc'[t] = l /\ (overflow => hint'[t] = aligned_base)
    BY DEF MInv, TypeOK, Goto
  <2> QED BY <2>1, <2>2 DEF MInv, ResetRight
<1> QED BY <1>0, <1>1, <1>2, <1>3, SameMemory DEF MInv

LEMMA HintResetInv ==
  ASSUME MInv, NEW t \in Thread, HintReset(t)
  PROVE  MInv' /\ (aligned_base' < aligned_base => aligned_base > HINT_MAX)
<1> USE DEF HintReset
<1>1. TypeOK'
  BY HintBaseBound DEF MInv, TypeOK, Goto, Labels
<1>2. FreshRight'
  BY SameFresh DEF Labels
<1>3. ResetRight'
  BY DEF MInv, TypeOK, ResetRight, Goto
<1>4. ASSUME aligned_base' < aligned_base PROVE aligned_base > HINT_MAX
  <2>1. hint[t] \in Nat /\ aligned_base \in Nat /\ (hint[t] = 0 \/ hint[t] > HINT_MAX)
    BY DEF MInv, TypeOK, ResetRight
  <2>2. aligned_base = hint[t] + SEGMENT_SIZE /\ HINT_BASE < aligned_base
    BY <1>4, <2>1
  <2> QED BY <2>1, <2>2, HintBaseBound, Sizes
<1> QED BY <1>1, <1>2, <1>3, <1>4, SameMemory DEF MInv

-----------------------------------------------------------------------------
(* Steps that map memory                                                    *)

\* What a thread has is mapped; its segments and its fresh one are part of it.
LEMMA OwnedIsMapped ==
  ASSUME MInv, NEW t \in Thread
  PROVE  /\ Owns(t) \subseteq Address /\ \A a \in Owns(t) : prot[a] # "unmapped"
         /\ \A s \in segments[t] : SegmentArea(s) \subseteq Owns(t)
         /\ fresh[t] # NULL => Area(fresh[t], SEGMENT_SIZE) \subseteq Owns(t)
<1>1. Owns(t) \subseteq {a \in Address : prot[a] # "unmapped"}
  BY DEF MInv, Whole
<1>2. ASSUME NEW s \in segments[t] PROVE SegmentArea(s) \subseteq Owns(t)
  <2>1. SegmentArea(s) \in {SegmentArea(r) : r \in segments[t]}
    OBVIOUS
  <2>2. SegmentArea(s) \subseteq UNION {SegmentArea(r) : r \in segments[t]}
    BY <2>1
  <2> QED BY <2>2 DEF Owns
<1>3. fresh[t] # NULL => Area(fresh[t], SEGMENT_SIZE) \subseteq Owns(t)
  BY DEF Owns
<1> QED BY <1>1, <1>2, <1>3

\* the slices of a segment are the addresses of its area
LEMMA SlotAddress ==
  ASSUME TypeOK, NEW t \in Thread, NEW s \in segments[t], NEW i \in Slot
  PROVE  s.start + i \in SegmentArea(s)
<1>1. s.start \in Int /\ i \in Int /\ 0 <= i /\ i <= SEGMENT_SIZE - 1
  BY Sizes, AddressAssumption DEF TypeOK, Segment, Address, Slot
<1> QED BY <1>1, Sizes DEF SegmentArea, Area

LEMMA MapNew ==
  ASSUME MInv, NEW t \in Thread, NEW N, N \subseteq Address, \A a \in N : prot[a] = "unmapped",
         NEW how \in {"none", "rw"}, Protect(N, how), UNCHANGED segments,
         Owns(t)' = Owns(t) \cup N, \A u \in Thread : u # t => Owns(u)' = Owns(u)
  PROVE  /\ prot' \in [Address -> {"unmapped", "none", "rw"}]
         /\ \A u \in Thread : \A a \in Owns(u) : prot'[a] = prot[a]
         /\ \A u \in Thread : N \cap Owns(u) = {}
         /\ Apart' /\ Whole' /\ SegmentsRight'
<1>1. prot' \in [Address -> {"unmapped", "none", "rw"}]
  BY DEF Protect, MInv, TypeOK
<1>2. \A a \in Address : prot'[a] = IF a \in N THEN how ELSE prot[a]
  BY DEF Protect
<1>3. \A u \in Thread : N \cap Owns(u) = {}
  BY OwnedIsMapped
<1>4. \A u \in Thread : \A a \in Owns(u) : prot'[a] = prot[a]
  BY <1>2, <1>3, OwnedIsMapped
<1>5. Apart'
  BY <1>3 DEF MInv, Apart
<1>6. Whole'
  <2>1. {a \in Address : prot'[a] # "unmapped"} = {a \in Address : prot[a] # "unmapped"} \cup N
    BY <1>2
  <2>2. UNION {Owns(u)' : u \in Thread} = (UNION {Owns(u) : u \in Thread}) \cup N
    OBVIOUS
  <2> QED BY <2>1, <2>2 DEF MInv, Whole
<1>7. SegmentsRight'
  <2> SUFFICES ASSUME NEW u \in Thread, NEW s \in segments[u] PROVE SegmentRight(u, s)'
    BY DEF SegmentsRight
  <2>1. SegmentRight(u, s)
    BY DEF MInv, SegmentsRight
  <2>2. \A i \in 0 .. SEGMENT_SIZE - 1 : prot'[s.start + i] = prot[s.start + i]
    BY <1>4, SlotAddress, OwnedIsMapped DEF MInv, Slot
  <2> QED BY <2>1, <2>2 DEF SegmentRight, SegmentArea, Area
<1> QED BY <1>1, <1>3, <1>4, <1>5, <1>6, <1>7

LEMMA MapPageInv ==
  ASSUME MInv, NEW t \in Thread, NEW from \in {"data", "empty"}, NEW to \in {"empty", "idle"},
         MapPage(t, from, to)
  PROVE  MInv'
<1>1. CASE Abort
  BY <1>1, AbortInv
<1>2. ASSUME NEW p \in Placements(NULL, 1), Protect({p}, "rw"),
             heap' = [heap EXCEPT ![t] = @ \cup {p}], Goto(t, to),
             UNCHANGED <<shared, hint, commit, fresh, segments, aborted>>, pc[t] = from
      PROVE  MInv'
  <2>1. p \in Address /\ prot[p] = "unmapped"
    <3>1. p \in Address /\ Unmapped(p, 1)
      BY <1>2 DEF Placements, NULL
    <3>2. p \in Area(p, 1)
      BY <3>1, AddressAssumption DEF Area, Address
    <3> QED BY <3>1, <3>2 DEF Unmapped
  <2>2. Owns(t)' = Owns(t) \cup {p}
    <3>1. heap'[t] = heap[t] \cup {p}
      BY <1>2 DEF MInv, TypeOK
    <3> QED BY <1>2, <3>1 DEF Owns, SegmentArea, Area
  <2>3. \A u \in Thread : u # t => Owns(u)' = Owns(u)
    BY <1>2 DEF Owns, SegmentArea, Area, MInv, TypeOK
  <2>4. {p} \subseteq Address /\ \A a \in {p} : prot[a] = "unmapped"
    BY <2>1
  <2>5. /\ prot' \in [Address -> {"unmapped", "none", "rw"}]
        /\ \A u \in Thread : \A a \in Owns(u) : prot'[a] = prot[a]
        /\ Apart' /\ Whole' /\ SegmentsRight'
    BY <1>2, <2>2, <2>3, <2>4, MapNew
  <2>6. TypeOK'
    BY <1>2, <2>1, <2>5 DEF MInv, TypeOK, Goto, Labels, shared
  <2>7. ResetRight'
    BY <1>2 DEF MInv, TypeOK, ResetRight, Goto
  <2>8. FreshRight'
    <3>1. \A u \in Thread : pc'[u] = "mapped" <=> pc[u] = "mapped"
      BY <1>2 DEF MInv, TypeOK, Goto
    <3>2. \A u \in Thread : fresh[u] # NULL => \A a \in Area(fresh[u], SEGMENT_SIZE) : prot'[a] = prot[a]
      BY <2>5, OwnedIsMapped
    <3> QED BY <1>2, <3>1, <3>2 DEF MInv, FreshRight, SegmentArea, Area
  <2> QED BY <2>5, <2>6, <2>7, <2>8 DEF MInv
<1> QED BY <1>1, <1>2 DEF MapPage

\* mmap has returned the segment at p.
LEMMA MapSegmentInv ==
  ASSUME MInv, NEW t \in Thread, pc[t] \in {"map", "map_anywhere"},
         NEW p, p \in Address \cup Nat, Unmapped(p, SEGMENT_SIZE),
         Protect(Area(p, SEGMENT_SIZE), IF commit[t] THEN "rw" ELSE "none"),
         fresh' = [fresh EXCEPT ![t] = p], Goto(t, "mapped"),
         hint' \in [Thread -> Nat], \A u \in Thread : u # t => hint'[u] = hint[u],
         UNCHANGED <<shared, commit, segments, heap, aborted>>
  PROVE  MInv'
<1> DEFINE N == Area(p, SEGMENT_SIZE)
           how == IF commit[t] THEN "rw" ELSE "none"
<1>1. p \in Nat
  BY AddressAssumption DEF Address
<1>2. p \in N
  BY <1>1, Sizes DEF Area
<1>3. N \subseteq Address /\ \A a \in N : prot[a] = "unmapped"
  BY DEF Unmapped
<1>4. p # NULL
  BY <1>2, <1>3, AddressAssumption DEF Address, NULL
<1>5. /\ fresh'[t] = p /\ pc'[t] = "mapped" /\ fresh[t] = NULL
      /\ \A u \in Thread : u # t => fresh'[u] = fresh[u] /\ pc'[u] = pc[u]
  BY DEF MInv, TypeOK, Goto, FreshRight
<1>6. Owns(t)' = Owns(t) \cup N
  BY <1>4, <1>5 DEF Owns, SegmentArea, Area
<1>7. \A u \in Thread : u # t => Owns(u)' = Owns(u)
  BY <1>5 DEF Owns, SegmentArea, Area
<1>8. how \in {"none", "rw"} /\ Protect(N, how)
  OBVIOUS
<1> HIDE DEF N, how
<1>9. /\ prot' \in [Address -> {"unmapped", "none", "rw"}]
      /\ \A u \in Thread : \A a \in Owns(u) : prot'[a] = prot[a]
      /\ \A u \in Thread : N \cap Owns(u) = {}
      /\ Apart' /\ Whole' /\ SegmentsRight'
  BY <1>3, <1>6, <1>7, <1>8, MapNew
<1>10. TypeOK'
  BY <1>1, <1>9 DEF MInv, TypeOK, Goto, Labels, shared
<1>11. ResetRight'
  BY <1>5 DEF MInv, ResetRight
<1>12. FreshRight'
  <2> SUFFICES ASSUME NEW u \in Thread
               PROVE  /\ fresh'[u] # NULL <=> pc'[u] = "mapped"
                      /\ fresh'[u] # NULL =>
                           \A a \in Area(fresh'[u], SEGMENT_SIZE) :
                             /\ a \in Address
                             /\ prot'[a] = IF commit[u] THEN "rw" ELSE "none"
                             /\ \A s \in segments[u] : a \notin SegmentArea(s)
    BY DEF FreshRight, SegmentArea, Area
  <2>1. CASE u = t
    <3>1. \A a \in N : prot'[a] = how
      BY <1>3, <1>8 DEF Protect
    <3>2. \A s \in segments[t] : SegmentArea(s) \cap N = {}
      BY <1>9, OwnedIsMapped
    <3> QED BY <1>3, <1>4, <1>5, <2>1, <3>1, <3>2 DEF N, how
  <2>2. CASE u # t
    BY <1>5, <1>9, <2>2, OwnedIsMapped DEF MInv, FreshRight
  <2> QED BY <2>1, <2>2
<1> QED BY <1>9, <1>10, <1>11, <1>12 DEF MInv

LEMMA MapAtHintInv ==
  ASSUME MInv, NEW t \in Thread, MapAtHint(t)
  PROVE  MInv'
<1>0. hint' \in [Thread -> Nat] /\ \A u \in Thread : u # t => hint'[u] = hint[u]
  BY DEF MapAtHint, MInv, TypeOK, NULL
<1>1. ASSUME NEW p \in Placements(hint[t], SEGMENT_SIZE), hint[t] # NULL,
             Protect(Area(p, SEGMENT_SIZE), IF commit[t] THEN "rw" ELSE "none"),
             fresh' = [fresh EXCEPT ![t] = p], Goto(t, "mapped")
      PROVE  MInv'
  <2>1. p \in Address \cup Nat /\ Unmapped(p, SEGMENT_SIZE)
    BY <1>1 DEF Placements, MInv, TypeOK
  <2> QED BY <1>0, <1>1, <2>1, MapSegmentInv DEF MapAtHint
<1>2. ASSUME Goto(t, "map_anywhere"), UNCHANGED <<prot, fresh>>
      PROVE  MInv'
  <2>1. TypeOK'
    BY <1>0, <1>2 DEF MapAtHint, MInv, TypeOK, Goto, Labels, shared
  <2>2. FreshRight'
    BY <1>2, SameFresh DEF Labels, MapAtHint
  <2>3. ResetRight'
    BY <1>2 DEF MapAtHint, MInv, TypeOK, ResetRight, Goto
  <2> QED BY <1>2, <2>1, <2>2, <2>3, SameMemory DEF MInv, MapAtHint
<1> QED BY <1>1, <1>2 DEF MapAtHint

LEMMA MapAnywhereInv ==
  ASSUME MInv, NEW t \in Thread, MapAnywhere(t)
  PROVE  MInv'
<1>1. CASE Abort
  BY <1>1, AbortInv
<1>2. ASSUME NEW p \in Placements(NULL, SEGMENT_SIZE),
             Protect(Area(p, SEGMENT_SIZE), IF commit[t] THEN "rw" ELSE "none"),
             fresh' = [fresh EXCEPT ![t] = p], Goto(t, "mapped"),
             UNCHANGED <<shared, hint, commit, segments, heap, aborted>>
      PROVE  MInv'
  <2>1. p \in Address \cup Nat /\ Unmapped(p, SEGMENT_SIZE)
    BY <1>2 DEF Placements
  <2>2. hint' \in [Thread -> Nat] /\ \A u \in Thread : u # t => hint'[u] = hint[u]
    BY <1>2 DEF MInv, TypeOK
  <2>3. pc[t] \in {"map", "map_anywhere"}
    BY DEF MapAnywhere
  <2> QED BY <1>2, <2>1, <2>2, <2>3, MapSegmentInv
<1> QED BY <1>1, <1>2 DEF MapAnywhere

-----------------------------------------------------------------------------
(* Steps that change the access to memory a thread has                      *)

LEMMA Reprotect ==
  ASSUME MInv, NEW t \in Thread, NEW A, A \subseteq Owns(t),
         NEW how \in {"none", "rw"}, Protect(A, how),
         \A u \in Thread : Owns(u)' = Owns(u)
  PROVE  /\ prot' \in [Address -> {"unmapped", "none", "rw"}]
         /\ \A a \in Address : prot'[a] = IF a \in A THEN how ELSE prot[a]
         /\ \A u \in Thread : u # t => \A a \in Owns(u) : prot'[a] = prot[a]
         /\ Apart' /\ Whole'
<1>1. prot' \in [Address -> {"unmapped", "none", "rw"}]
  BY DEF Protect, MInv, TypeOK
<1>2. \A a \in Address : prot'[a] = IF a \in A THEN how ELSE prot[a]
  BY DEF Protect
<1>3. \A u \in Thread : u # t => \A a \in Owns(u) : prot'[a] = prot[a]
  BY <1>2, OwnedIsMapped DEF MInv, Apart
<1>4. Apart'
  BY DEF MInv, Apart
<1>5. Whole'
  <2>1. {a \in Address : prot'[a] # "unmapped"} = {a \in Address : prot[a] # "unmapped"}
    BY <1>2, OwnedIsMapped
  <2> QED BY <2>1 DEF MInv, Whole
<1> QED BY <1>1, <1>2, <1>3, <1>4, <1>5

\* The segments of the other threads are as they were.
LEMMA OthersRight ==
  ASSUME MInv, NEW t \in Thread, NEW u \in Thread, u # t, NEW s \in segments[u],
         segments'[u] = segments[u], \A a \in Owns(u) : prot'[a] = prot[a]
  PROVE  SegmentRight(u, s)'
<1>1. SegmentRight(u, s)
  BY DEF MInv, SegmentsRight
<1>2. \A i \in 0 .. SEGMENT_SIZE - 1 : prot'[s.start + i] = prot[s.start + i]
  BY SlotAddress, OwnedIsMapped DEF MInv, Slot
<1> QED BY <1>1, <1>2 DEF SegmentRight, SegmentArea, Area

LEMMA OthersFresh ==
  ASSUME MInv, NEW t \in Thread, NEW u \in Thread, u # t,
         segments'[u] = segments[u], \A a \in Owns(u) : prot'[a] = prot[a],
         fresh'[u] = fresh[u], pc'[u] = pc[u], commit'[u] = commit[u]
  PROVE  /\ fresh'[u] # NULL <=> pc'[u] = "mapped"
         /\ fresh'[u] # NULL =>
              \A a \in Area(fresh'[u], SEGMENT_SIZE) :
                /\ a \in Address
                /\ prot'[a] = IF commit'[u] THEN "rw" ELSE "none"
                /\ \A s \in segments'[u] : a \notin SegmentArea(s)
BY OwnedIsMapped DEF MInv, FreshRight

\* segment_os_alloc: the fresh segment becomes one of the thread's.
LEMMA SegmentOsAllocInv ==
  ASSUME MInv, NEW t \in Thread, segment_os_alloc(t)
  PROVE  MInv'
<1>1. CASE Abort
  BY <1>1, AbortInv
<1>2. ASSUME NEW p, p = fresh[t], NEW needed, needed = IF commit[t] THEN 0 ELSE INFO_SLICES,
             pc[t] = "mapped", Aligned(p), Protect(os_page_align_areax(p, needed), "rw"),
             NEW s, s = [start |-> p, commit_mask |-> fresh_mask(t)],
             segments' = [segments EXCEPT ![t] = @ \cup {s}],
             fresh' = [fresh EXCEPT ![t] = NULL], commit' = [commit EXCEPT ![t] = FALSE],
             Goto(t, "idle"), UNCHANGED <<shared, hint, heap, aborted>>
      PROVE  MInv'
  <2>1. p # NULL /\ p \in Nat
    BY <1>2 DEF MInv, TypeOK, FreshRight
  <2> DEFINE A == os_page_align_areax(p, needed)
             N == Area(p, SEGMENT_SIZE)
  <2>2. p \in N
    BY <2>1, Sizes DEF Area
  <2>3. /\ N \subseteq Address /\ N \subseteq Owns(t)
        /\ \A a \in N : prot[a] = IF commit[t] THEN "rw" ELSE "none"
        /\ \A r \in segments[t] : N \cap SegmentArea(r) = {}
    BY <1>2, <2>1, OwnedIsMapped DEF MInv, FreshRight
  <2>4. A \subseteq N
    BY <1>2, <2>1, Sizes DEF os_page_align_areax, Area
  <2>5. s.start = p /\ s.commit_mask = fresh_mask(t) /\ SegmentArea(s) = N
    BY <1>2 DEF SegmentArea
  <2>6. fresh_mask(t) \subseteq Slot
    BY Sizes DEF fresh_mask, Slot
  <2>7. s \in Segment
    BY <1>2, <2>2, <2>3, <2>6 DEF Segment
  <2>8. /\ segments'[t] = segments[t] \cup {s} /\ fresh'[t] = NULL /\ pc'[t] = "idle"
        /\ \A u \in Thread : u # t => /\ segments'[u] = segments[u] /\ fresh'[u] = fresh[u]
                                      /\ pc'[u] = pc[u] /\ commit'[u] = commit[u]
    BY <1>2 DEF MInv, TypeOK, Goto
  <2>9. \A u \in Thread : Owns(u)' = Owns(u)
    <3>1. UNION {SegmentArea(r) : r \in segments'[t]}
            = (UNION {SegmentArea(r) : r \in segments[t]}) \cup N
      BY <2>5, <2>8
    <3>2. Owns(t) = heap[t] \cup (UNION {SegmentArea(r) : r \in segments[t]}) \cup N
      BY <1>2, <2>1 DEF Owns
    <3>3. Owns(t)' = heap[t] \cup UNION {SegmentArea(r) : r \in segments'[t]}
      BY <1>2, <2>8 DEF Owns, SegmentArea, Area
    <3>4. \A u \in Thread : u # t => Owns(u)' = Owns(u)
      BY <1>2, <2>8 DEF Owns, SegmentArea, Area
    <3> HIDE DEF N
    <3>5. Owns(t)' = Owns(t)
      BY <3>1, <3>2, <3>3
    <3> QED BY <3>4, <3>5
  <2>10. A \subseteq Owns(t) /\ Protect(A, "rw")
    BY <1>2, <2>3, <2>4
  <2> HIDE DEF A
  <2>11. /\ prot' \in [Address -> {"unmapped", "none", "rw"}]
         /\ \A a \in Address : prot'[a] = IF a \in A THEN "rw" ELSE prot[a]
         /\ \A u \in Thread : u # t => \A a \in Owns(u) : prot'[a] = prot[a]
         /\ Apart' /\ Whole'
    BY <2>9, <2>10, Reprotect
  <2>12. SegmentsRight'
    <3>1. ASSUME NEW u \in Thread, u # t, NEW r \in segments'[u] PROVE SegmentRight(u, r)'
      BY <2>8, <2>11, <3>1, OthersRight
    <3>2. ASSUME NEW r \in segments[t] PROVE SegmentRight(t, r)'
      <4>1. SegmentRight(t, r)
        BY DEF MInv, SegmentsRight
      <4>2. \A i \in 0 .. SEGMENT_SIZE - 1 : prot'[r.start + i] = prot[r.start + i]
        <5> SUFFICES ASSUME NEW i \in 0 .. SEGMENT_SIZE - 1
                     PROVE  prot'[r.start + i] = prot[r.start + i]
          OBVIOUS
        <5>1. r.start + i \in SegmentArea(r)
          BY SlotAddress DEF MInv, Slot
        <5>2. r.start + i \in Address /\ r.start + i \notin A
          BY <2>3, <2>4, <5>1, OwnedIsMapped
        <5> QED BY <2>11, <5>2
      <4>3. \A q \in segments'[t] \ {r} : SegmentArea(q) \cap SegmentArea(r) = {}
        BY <2>3, <2>5, <2>8, <4>1 DEF SegmentRight
      <4> QED BY <4>1, <4>2, <4>3 DEF SegmentRight, SegmentArea, Area
    <3>3. SegmentRight(t, s)'
      <4>1. s.start % SEGMENT_SIZE = 0
        BY <1>2, <2>5 DEF Aligned
      <4>2. 0 .. INFO_SLICES - 1 \subseteq s.commit_mask
        BY <2>5, Sizes DEF fresh_mask
      <4>3. s.commit_mask = {i \in 0 .. SEGMENT_SIZE - 1 : prot'[s.start + i] = "rw"}
        <5>1. \A i \in 0 .. SEGMENT_SIZE - 1 : p + i \in N
          BY <2>1, Sizes DEF Area
        <5>2. \A i \in 0 .. SEGMENT_SIZE - 1 : p + i \in A <=> ~commit[t] /\ i < INFO_SLICES
          BY <1>2, <2>1, Sizes DEF A, os_page_align_areax, Area
        <5> HIDE DEF N
        <5>3. \A i \in 0 .. SEGMENT_SIZE - 1 :
                prot'[p + i] = "rw" <=> commit[t] \/ i < INFO_SLICES
          BY <2>3, <2>11, <5>1, <5>2
        <5>4. \A i : i \in fresh_mask(t) <=> i \in 0 .. SEGMENT_SIZE - 1 /\ (commit[t] \/ i < INFO_SLICES)
          BY Sizes DEF fresh_mask
        <5> QED BY <2>5, <5>3, <5>4
      <4>4. \A q \in segments'[t] \ {s} : SegmentArea(q) \cap SegmentArea(s) = {}
        BY <2>3, <2>5, <2>8
      <4> QED BY <4>1, <4>2, <4>3, <4>4 DEF SegmentRight, SegmentArea, Area
    <3> QED BY <2>8, <3>1, <3>2, <3>3 DEF SegmentsRight
  <2>13. TypeOK'
    BY <1>2, <2>7, <2>11 DEF MInv, TypeOK, Goto, Labels, shared, NULL
  <2>14. ResetRight'
    BY <1>2 DEF MInv, TypeOK, ResetRight, Goto
  <2>15. FreshRight'
    <3>1. ASSUME NEW u \in Thread
          PROVE  /\ fresh'[u] # NULL <=> pc'[u] = "mapped"
                 /\ fresh'[u] # NULL =>
                      \A a \in Area(fresh'[u], SEGMENT_SIZE) :
                        /\ a \in Address
                        /\ prot'[a] = IF commit'[u] THEN "rw" ELSE "none"
                        /\ \A r \in segments'[u] : a \notin SegmentArea(r)
      <4>1. CASE u = t
        BY <2>8, <4>1
      <4>2. CASE u # t
        BY <2>8, <2>11, <4>2, OthersFresh
      <4> QED BY <4>1, <4>2
    <3> QED BY <3>1 DEF FreshRight, SegmentArea, Area
  <2> QED BY <2>11, <2>12, <2>13, <2>14, <2>15 DEF MInv
<1> QED BY <1>1, <1>2 DEF segment_os_alloc

\* os_commit, os_decommit: the mask and the access to the slices change together.
LEMMA RecommitInv ==
  ASSUME MInv, NEW t \in Thread, NEW s \in segments[t],
         NEW i \in 1 .. SEGMENT_SIZE, NEW n \in 1 .. SEGMENT_SIZE,
         NEW how, NEW mask,
         \/ how = "rw" /\ mask = s.commit_mask \cup Area(i, n)
         \/ how = "none" /\ mask = s.commit_mask \ Area(i, n),
         Recommit(t, s, i, n, how, mask)
  PROVE  MInv'
<1>1. CASE Abort
  BY <1>1, AbortInv
<1>2. CASE ~Abort
  <2> DEFINE A == os_page_align_areax(s.start + i, n)
             s2 == [s EXCEPT !.commit_mask = mask]
  <2>1. /\ pc[t] = "idle" /\ i >= INFO_SLICES /\ i + n <= SEGMENT_SIZE
        /\ Protect(A, how)
        /\ segments' = [segments EXCEPT ![t] = (@ \ {s}) \cup {s2}]
        /\ UNCHANGED <<shared, locals, heap, aborted>>
    BY <1>2 DEF Recommit
  <2>2. /\ s \in Segment /\ s.start \in Nat /\ s.start > 0 /\ i \in Nat /\ n \in Nat /\ n > 0
        /\ s.commit_mask \subseteq Slot
    BY AddressAssumption, Sizes DEF MInv, TypeOK, Segment, Address
  <2>3. A = Area(s.start + i, n)
    BY <2>2 DEF os_page_align_areax, NULL
  <2>4. A \subseteq SegmentArea(s)
    BY <2>1, <2>2, <2>3, Sizes DEF Area, SegmentArea
  <2>5. Area(i, n) \subseteq Slot /\ mask \subseteq Slot
    BY <2>1, <2>2, Sizes DEF Area, Slot
  <2>6. s2 \in Segment /\ s2.start = s.start /\ s2.commit_mask = mask /\ SegmentArea(s2) = SegmentArea(s)
    BY <2>2, <2>5 DEF Segment, SegmentArea
  <2>7. /\ segments'[t] = (segments[t] \ {s}) \cup {s2}
        /\ fresh' = fresh /\ pc' = pc /\ commit' = commit /\ hint' = hint
        /\ \A u \in Thread : u # t => segments'[u] = segments[u]
    BY <2>1 DEF MInv, TypeOK, locals
  <2>8. how \in {"none", "rw"}
    OBVIOUS
  <2> HIDE DEF A, s2
  <2>9. \A u \in Thread : Owns(u)' = Owns(u)
    <3>1. {SegmentArea(r) : r \in segments'[t]} = {SegmentArea(r) : r \in segments[t]}
      BY <2>6, <2>7
    <3> QED BY <2>1, <2>7, <3>1 DEF Owns, SegmentArea, Area
  <2>10. A \subseteq Owns(t) /\ Protect(A, how)
    BY <2>1, <2>4, OwnedIsMapped
  <2>11. /\ prot' \in [Address -> {"unmapped", "none", "rw"}]
         /\ \A a \in Address : prot'[a] = IF a \in A THEN how ELSE prot[a]
         /\ \A u \in Thread : u # t => \A a \in Owns(u) : prot'[a] = prot[a]
         /\ Apart' /\ Whole'
    BY <2>8, <2>9, <2>10, Reprotect
  <2>12. SegmentsRight'
    <3>0. SegmentRight(t, s)
      BY DEF MInv, SegmentsRight
    <3>1. ASSUME NEW u \in Thread, u # t, NEW r \in segments'[u] PROVE SegmentRight(u, r)'
      BY <2>7, <2>11, <3>1, OthersRight
    <3>2. ASSUME NEW r \in segments[t] \ {s} PROVE SegmentRight(t, r)'
      <4>1. SegmentRight(t, r) /\ SegmentArea(r) \cap SegmentArea(s) = {}
        BY <3>0 DEF MInv, SegmentsRight, SegmentRight
      <4>2. \A j \in 0 .. SEGMENT_SIZE - 1 : prot'[r.start + j] = prot[r.start + j]
        <5> SUFFICES ASSUME NEW j \in 0 .. SEGMENT_SIZE - 1
                     PROVE  prot'[r.start + j] = prot[r.start + j]
          OBVIOUS
        <5>1. r.start + j \in SegmentArea(r)
          BY SlotAddress DEF MInv, Slot
        <5>2. r.start + j \in Address /\ r.start + j \notin A
          BY <2>4, <4>1, <5>1, OwnedIsMapped
        <5> QED BY <2>11, <5>2
      <4>3. \A q \in segments'[t] \ {r} : SegmentArea(q) \cap SegmentArea(r) = {}
        BY <2>6, <2>7, <4>1 DEF SegmentRight
      <4> QED BY <4>1, <4>2, <4>3 DEF SegmentRight, SegmentArea, Area
    <3>3. SegmentRight(t, s2)'
      <4>1. s2.start % SEGMENT_SIZE = 0
        BY <2>6, <3>0 DEF SegmentRight
      <4>2. 0 .. INFO_SLICES - 1 \subseteq s2.commit_mask
        <5>1. 0 .. INFO_SLICES - 1 \subseteq s.commit_mask
          BY <3>0 DEF SegmentRight
        <5>2. \A j \in 0 .. INFO_SLICES - 1 : j \notin Area(i, n)
          BY <2>1, <2>2, Sizes DEF Area
        <5> QED BY <2>6, <5>1, <5>2
      <4>3. s2.commit_mask = {j \in 0 .. SEGMENT_SIZE - 1 : prot'[s2.start + j] = "rw"}
        <5>1. \A j \in 0 .. SEGMENT_SIZE - 1 : s.start + j \in A <=> j \in Area(i, n)
          BY <2>2, <2>3, Sizes DEF Area
        <5>2. \A j \in 0 .. SEGMENT_SIZE - 1 : s.start + j \in Address
          BY SlotAddress, OwnedIsMapped DEF MInv, Slot
        <5>3. \A j \in 0 .. SEGMENT_SIZE - 1 :
                prot'[s.start + j] = IF j \in Area(i, n) THEN how ELSE prot[s.start + j]
          BY <2>11, <5>1, <5>2
        <5>4. \A j \in 0 .. SEGMENT_SIZE - 1 : j \in s.commit_mask <=> prot[s.start + j] = "rw"
          BY <3>0 DEF SegmentRight
        <5>5. mask \subseteq 0 .. SEGMENT_SIZE - 1
          BY <2>5 DEF Slot
        <5> HIDE DEF Area
        <5>6. \A j \in 0 .. SEGMENT_SIZE - 1 : j \in mask <=> prot'[s.start + j] = "rw"
          BY <5>3, <5>4
        <5> QED BY <2>6, <5>5, <5>6
      <4>4. \A q \in segments'[t] \ {s2} : SegmentArea(q) \cap SegmentArea(s2) = {}
        BY <2>6, <2>7, <3>0 DEF SegmentRight
      <4> QED BY <4>1, <4>2, <4>3, <4>4 DEF SegmentRight, SegmentArea, Area
    <3> QED BY <2>7, <3>1, <3>2, <3>3 DEF SegmentsRight
  <2>13. TypeOK'
    BY <2>1, <2>6, <2>7, <2>11 DEF MInv, TypeOK, shared, locals
  <2>14. ResetRight'
    BY <2>7 DEF MInv, ResetRight
  <2>15. FreshRight'
    <3>1. ASSUME NEW u \in Thread
          PROVE  /\ fresh'[u] # NULL <=> pc'[u] = "mapped"
                 /\ fresh'[u] # NULL =>
                      \A a \in Area(fresh'[u], SEGMENT_SIZE) :
                        /\ a \in Address
                        /\ prot'[a] = IF commit'[u] THEN "rw" ELSE "none"
                        /\ \A r \in segments'[u] : a \notin SegmentArea(r)
      <4>1. CASE u = t
        BY <2>1, <2>7, <4>1 DEF MInv, FreshRight
      <4>2. CASE u # t
        BY <2>7, <2>11, <4>2, OthersFresh
      <4> QED BY <4>1, <4>2
    <3> QED BY <3>1 DEF FreshRight, SegmentArea, Area
  <2> QED BY <2>11, <2>12, <2>13, <2>14, <2>15 DEF MInv
<1> QED BY <1>1, <1>2

-----------------------------------------------------------------------------
(* The theorems                                                             *)

\* no step of a thread but an abort lowers ALIGNED_BASE, unless it is too high
LEMMA StepOfThread ==
  ASSUME MInv, NEW t \in Thread, Step(t)
  PROVE  MInv' /\ (aligned_base' < aligned_base => aligned_base > HINT_MAX \/ aborted')
<1> DEFINE Kept == aligned_base' < aligned_base => aligned_base > HINT_MAX \/ aborted'
<1>0. aligned_base' = aligned_base \/ aborted' => Kept
  BY DEF MInv, TypeOK
<1>1. CASE increment_thread_count(t)
  <2>1. aligned_base' = aligned_base
    BY <1>1 DEF increment_thread_count
  <2> QED BY <1>0, <1>1, <2>1, IncrementInv
<1>2. CASE thread_data_alloc(t) \/ init_empty_page_ptr(t)
  <2>1. MInv'
    BY <1>2, MapPageInv DEF thread_data_alloc, init_empty_page_ptr
  <2>2. Kept
    <3>1. aligned_base' = aligned_base \/ aborted'
      BY <1>2 DEF thread_data_alloc, init_empty_page_ptr, MapPage, Abort, shared
    <3> QED BY <1>0, <3>1
  <2> QED BY <2>1, <2>2
<1>3. CASE segment_alloc(t)
  <2>1. aligned_base' = aligned_base
    BY <1>3 DEF segment_alloc, shared
  <2> QED BY <1>0, <1>3, <2>1, SegmentAllocInv
<1>4. CASE HintFirst(t) \/ HintAgain(t)
  <2>1. PICK overflow \in BOOLEAN :
          /\ pc[t] \in {"hint", "again"} /\ TakeHint(t, overflow)
          /\ overflow => aligned_base = 0 \/ aligned_base > HINT_MAX
    BY <1>4 DEF HintFirst, HintAgain
  <2>2. MInv' /\ aligned_base' >= aligned_base
    BY <2>1, TakeHintInv
  <2>3. aligned_base' \in Nat /\ aligned_base \in Nat
    BY <2>2 DEF MInv, TypeOK
  <2> QED BY <2>2, <2>3
<1>5. CASE HintReset(t)
  BY <1>5, HintResetInv
<1>6. CASE MapAtHint(t)
  <2>1. aligned_base' = aligned_base
    BY <1>6 DEF MapAtHint, shared
  <2> QED BY <1>0, <1>6, <2>1, MapAtHintInv
<1>7. CASE MapAnywhere(t)
  <2>1. Kept
    <3>1. aligned_base' = aligned_base \/ aborted'
      BY <1>7 DEF MapAnywhere, Abort, shared
    <3> QED BY <1>0, <3>1
  <2> QED BY <1>7, <2>1, MapAnywhereInv
<1>8. CASE segment_os_alloc(t)
  <2>1. Kept
    <3>1. aligned_base' = aligned_base \/ aborted'
      BY <1>8 DEF segment_os_alloc, Abort, shared
    <3> QED BY <1>0, <3>1
  <2> QED BY <1>8, <2>1, SegmentOsAllocInv
<1>9. ASSUME NEW s \in segments[t], NEW i \in 1 .. SEGMENT_SIZE, NEW n \in 1 .. SEGMENT_SIZE,
             os_commit(t, s, i, n) \/ os_decommit(t, s, i, n)
      PROVE  MInv' /\ Kept
  <2>1. PICK how, mask :
          /\ \/ how = "rw" /\ mask = s.commit_mask \cup Area(i, n)
             \/ how = "none" /\ mask = s.commit_mask \ Area(i, n)
          /\ Recommit(t, s, i, n, how, mask)
    BY <1>9 DEF os_commit, os_decommit
  <2>2. MInv'
    BY <2>1, RecommitInv
  <2>3. Kept
    <3>1. aligned_base' = aligned_base \/ aborted'
      BY <2>1 DEF Recommit, Abort, shared
    <3> QED BY <1>0, <3>1
  <2> QED BY <2>2, <2>3
<1> QED
  BY <1>1, <1>2, <1>3, <1>4, <1>5, <1>6, <1>7, <1>8, <1>9 DEF Step

LEMMA StutterInv == MInv /\ UNCHANGED vars => MInv'
<1> SUFFICES ASSUME MInv, UNCHANGED vars PROVE MInv'
  OBVIOUS
<1>1. TypeOK' /\ ResetRight'
  BY DEF vars, shared, locals, MInv, TypeOK, ResetRight
<1>2. FreshRight'
  BY DEF vars, shared, locals, MInv, FreshRight, SegmentArea, Area
<1>3. UNCHANGED <<prot, fresh, segments, heap>>
  BY DEF vars, locals
<1> QED BY <1>1, <1>2, <1>3, SameMemory DEF MInv

\* The address space is divided among the threads at every program counter of
\* heap_init and segment_alloc: also what mmap has just returned, and what a
\* thread has decided from ALIGNED_BASE and THREAD_COUNT, stays true until it acts.
THEOREM MemoryInvariant == Spec => []MInv
<1>1. Init => MInv
  BY ClearedInv DEF Init, Cleared
<1>2. MInv /\ [Next]_vars => MInv'
  BY StepOfThread, StutterInv DEF Next
<1> QED BY <1>1, <1>2, PTL DEF Spec

\* However many threads race for segments, the address space is divided exactly
\* among them and every commit mask is what the system was told.
THEOREM MemoryDivided == Spec => []MemoryExact
<1>1. MInv => MemoryExact
  BY Exact DEF MInv
<1> QED BY MemoryInvariant, <1>1, PTL

\* ALIGNED_BASE is set back only from beyond HINT_MAX.
THEOREM HintsNotReused == Spec => HintsRunOut
<1> DEFINE A == aligned_base' < aligned_base => aligned_base > HINT_MAX \/ aborted'
<1>1. MInv /\ [Next]_vars => [A]_vars
  BY StepOfThread DEF Next
<1> QED BY MemoryInvariant, <1>1, PTL DEF Spec, HintsRunOut
=============================================================================
