----------------------------- MODULE MimProofs -----------------------------
(***************************************************************************)
(* The token protocol of Mim is sound, for any number of threads, segments, *)
(* pages and blocks.  The invariants of tokens.rs and the types of its      *)
(* tokens are inductive together; the obligations of the transitions and    *)
(* what the holder of a token may conclude follow from them.                *)
(***************************************************************************)
EXTENDS Mim, FiniteSetTheorems, NaturalsInduction, WellFoundedInduction, TLAPS

-----------------------------------------------------------------------------
(* Types                                                                    *)

PageRec == [offset : Nat, block_size : Sizes, num_blocks : Nat,
            shared_access : Access \cup {None}, is_enabled : BOOLEAN]
SegRec == [shared_access : Access \cup {None}, is_enabled : BOOLEAN]
BlockRec == [segment_shared_access : Access \cup {None},
             page_shared_access : Access \cup {None},
             page_slice_shared_access : Access \cup {None},
             heap_id : HeapId \cup {None}]

\* what a thread's state is made of
ThreadType(u) ==
  /\ DOMAIN u = {"heap_id", "heap", "segments", "pages"}
  /\ u.heap_id \in HeapId
  /\ DOMAIN u.segments \subseteq SegmentId
  /\ \A s \in DOMAIN u.segments : u.segments[s] \in SegRec
  /\ DOMAIN u.pages \subseteq PageId
  /\ \A p \in DOMAIN u.pages : u.pages[p] \in PageRec

ThreadTypes == \A t \in Threads : ThreadType(thread_local_state[t])
TypeInv ==
  /\ Threads \subseteq ThreadId
  /\ ThreadTypes
  /\ DOMAIN thread_of_segment \subseteq SegmentId
  /\ DOMAIN heap_shared_access \cup reserved_uniq \subseteq HeapId
  /\ DOMAIN block \subseteq BlockId
  /\ \A b \in DOMAIN block : block[b] \in BlockRec
  /\ right_to_set_inst \in BOOLEAN /\ my_inst \in BOOLEAN

\* the inductive invariant
IInv == TypeInv /\ Invariants

-----------------------------------------------------------------------------
(* Maps and identifiers                                                     *)

LEMMA PutIs ==
  ASSUME NEW f, NEW k, NEW v
  PROVE  /\ DOMAIN Put(f, k, v) = DOMAIN f \cup {k}
         /\ Put(f, k, v)[k] = v
         /\ \A x \in DOMAIN f : x # k => Put(f, k, v)[x] = f[x]
  BY DEF Put

LEMMA UnionIs ==
  ASSUME NEW f, NEW g
  PROVE  /\ DOMAIN Union(f, g) = DOMAIN f \cup DOMAIN g
         /\ \A x \in DOMAIN g : Union(f, g)[x] = g[x]
         /\ \A x \in DOMAIN f \ DOMAIN g : Union(f, g)[x] = f[x]
  BY DEF Union

LEMMA DropIs ==
  ASSUME NEW f, NEW S
  PROVE  /\ DOMAIN Drop(f, S) = DOMAIN f \ S
         /\ \A x \in DOMAIN f \ S : Drop(f, S)[x] = f[x]
  BY DEF Drop

\* The slices of a page.
LEMMA RangeIs ==
  ASSUME NEW p \in PageId, NEW n \in 1 .. Slices
  PROVE  /\ p \in range_from(p, n)
         /\ \A q \in range_from(p, n) :
              /\ q.segment_id = p.segment_id
              /\ q.idx \in Int /\ q.idx >= p.idx /\ q.idx - p.idx \in Nat
              /\ q.idx = p.idx => q = p
<1>1. p.idx \in Nat /\ p = [segment_id |-> p.segment_id, idx |-> p.idx]
  BY DEF PageId
<1>2. p.idx \in p.idx .. p.idx + n - 1 /\ PageIdAt(p, p.idx) = p
  BY <1>1 DEF PageIdAt
<1>3. p \in range_from(p, n)
  BY <1>2 DEF range_from
<1>4. ASSUME NEW q \in range_from(p, n)
      PROVE  /\ q.segment_id = p.segment_id
             /\ q.idx \in Int /\ q.idx >= p.idx /\ q.idx - p.idx \in Nat
             /\ q.idx = p.idx => q = p
  <2>1. PICK i \in p.idx .. p.idx + n - 1 : q = PageIdAt(p, i)
    BY DEF range_from
  <2>. QED BY <1>1, <2>1 DEF PageIdAt
<1>. QED BY <1>3, <1>4

\* Two pages with the same segment and slice are one.
LEMMA SamePage ==
  ASSUME NEW p \in PageId, NEW q \in PageId, p.segment_id = q.segment_id, p.idx = q.idx
  PROVE  p = q
  BY DEF PageId

\* A non-empty set of numbers has a least one, and a bounded one a greatest.
LEMMA LeastNat ==
  ASSUME NEW T, T \subseteq Nat, T # {}
  PROVE  \E x \in T : \A y \in T : x <= y
<1> DEFINE R == {ss \in Nat \X Nat : ss[1] < ss[2]}
<1>1. \A S : S \subseteq Nat /\ S # {} => \E x \in S : \A y \in S : ~(<<y, x>> \in R)
  BY NatLessThanWellFounded, WFMin DEF OpToRel
<1>2. PICK x \in T : \A y \in T : ~(<<y, x>> \in R)
  BY <1>1
<1>3. ASSUME NEW y \in T PROVE x <= y
  <2>1. ~(<<y, x>> \in R)
    BY <1>2
  <2>2. ~(y < x)
    BY <2>1
  <2> QED BY <2>2
<1> QED BY <1>3

LEMMA Greatest ==
  ASSUME NEW N \in Nat, NEW S \in SUBSET (1 .. N), S # {}
  PROVE  \E u \in S : \A v \in S : v <= u
<1>1. PICK T : T = {N - u : u \in S}
  OBVIOUS
<1>2. T \subseteq Nat /\ T # {}
  <2>1. ASSUME NEW u \in S PROVE N - u \in Nat
    <3>1. u \in 1 .. N
      OBVIOUS
    <3>. QED BY <3>1
  <2>. QED BY <1>1, <2>1
<1>3. PICK k \in T : \A y \in T : k <= y
  BY <1>2, LeastNat
<1>4. PICK u \in S : k = N - u
  BY <1>1
<1>5. ASSUME NEW v \in S PROVE v <= u
  <2>1. N - v \in T /\ v \in 1 .. N /\ u \in 1 .. N
    BY <1>1
  <2>2. k <= N - v
    BY <1>3, <2>1
  <2>. QED BY <1>4, <2>1, <2>2
<1>. QED BY <1>5

\* A new identifier is new.
LEMMA UniqMaxFresh ==
  ASSUME NEW N \in Nat, NEW S \in SUBSET (1 .. N)
  PROVE  UniqMax(S) + 1 \notin S
<1>1. CASE S = {}
  BY <1>1
<1>2. CASE S # {}
  <2>1. \E u \in S : \A v \in S : v <= u
    BY <1>2, Greatest
  <2>2. PICK u : u = UniqMax(S)
    OBVIOUS
  <2>3. u \in S /\ \A v \in S : v <= u
    BY <1>2, <2>1, <2>2 DEF UniqMax
  <2>4. u \in Nat
    BY <2>3
  <2>. QED BY <2>2, <2>3, <2>4
<1>. QED BY <1>1, <1>2

-----------------------------------------------------------------------------
(* The state of a thread                                                    *)

\* SetPages changes the pages of one thread.
LEMMA SetPagesIs ==
  ASSUME ThreadTypes, NEW t \in Threads, NEW f, SetPages(t, f),
         DOMAIN f \subseteq PageId, \A p \in DOMAIN f : f[p] \in PageRec
  PROVE  /\ DOMAIN thread_local_state' = Threads
         /\ ThreadTypes'
         /\ \A u \in Threads :
              /\ thread_local_state'[u].heap_id = thread_local_state[u].heap_id
              /\ thread_local_state'[u].heap = thread_local_state[u].heap
              /\ thread_local_state'[u].segments = thread_local_state[u].segments
         /\ thread_local_state'[t].pages = f
         /\ \A u \in Threads : u # t => thread_local_state'[u].pages = thread_local_state[u].pages
<1>1. DOMAIN thread_local_state' = Threads
  BY DEF SetPages, Threads
<1>2. PICK w : w = thread_local_state[t]
  OBVIOUS
<1>3. PICK x : x = [w EXCEPT !.pages = f]
  OBVIOUS
<1>4. ThreadType(w)
  BY <1>2 DEF ThreadTypes
<1>5. thread_local_state'[t] = x /\ \A u \in Threads : u # t => thread_local_state'[u] = thread_local_state[u]
  BY <1>2, <1>3 DEF SetPages, Threads
<1>6. /\ DOMAIN x = {"heap_id", "heap", "segments", "pages"}
      /\ x.heap_id = w.heap_id /\ x.heap = w.heap /\ x.segments = w.segments /\ x.pages = f
  BY <1>3, <1>4 DEF ThreadType
<1>7. ThreadType(x)
  BY <1>4, <1>6 DEF ThreadType
<1>8. ThreadTypes'
  BY <1>1, <1>5, <1>7 DEF ThreadTypes, Threads, ThreadType
<1>. QED BY <1>1, <1>2, <1>5, <1>6, <1>8

\* The same for the segments of a thread.
LEMMA SetSegmentsIs ==
  ASSUME ThreadTypes, NEW t \in Threads, NEW f,
         thread_local_state' = [thread_local_state EXCEPT ![t].segments = f],
         DOMAIN f \subseteq SegmentId, \A s \in DOMAIN f : f[s] \in SegRec
  PROVE  /\ DOMAIN thread_local_state' = Threads
         /\ ThreadTypes'
         /\ \A u \in Threads :
              /\ thread_local_state'[u].heap_id = thread_local_state[u].heap_id
              /\ thread_local_state'[u].heap = thread_local_state[u].heap
              /\ thread_local_state'[u].pages = thread_local_state[u].pages
         /\ thread_local_state'[t].segments = f
         /\ \A u \in Threads : u # t =>
              thread_local_state'[u].segments = thread_local_state[u].segments
<1>1. DOMAIN thread_local_state' = Threads
  BY DEF Threads
<1>2. PICK w : w = thread_local_state[t]
  OBVIOUS
<1>3. PICK x : x = [w EXCEPT !.segments = f]
  OBVIOUS
<1>4. ThreadType(w)
  BY <1>2 DEF ThreadTypes
<1>5. thread_local_state'[t] = x /\ \A u \in Threads : u # t => thread_local_state'[u] = thread_local_state[u]
  BY <1>2, <1>3 DEF Threads
<1>6. /\ DOMAIN x = {"heap_id", "heap", "segments", "pages"}
      /\ x.heap_id = w.heap_id /\ x.heap = w.heap /\ x.pages = w.pages /\ x.segments = f
  BY <1>3, <1>4 DEF ThreadType
<1>7. ThreadType(x)
  BY <1>4, <1>6 DEF ThreadType
<1>8. ThreadTypes'
  BY <1>1, <1>5, <1>7 DEF ThreadTypes, Threads, ThreadType
<1>. QED BY <1>1, <1>2, <1>5, <1>6, <1>8

-----------------------------------------------------------------------------
(* The invariants in groups, by what they are about                         *)

HeapInv ==
  /\ inv_reserved2 /\ inv_right_to_set_inst /\ inv_checked_threads
  /\ right_to_use_thread_complement /\ heap_of_thread_is_valid
  /\ wf_heap_shared_access_requires_inst
  /\ heap_ids_thread_id1 /\ heap_ids_thread_id2 /\ inv_heap_shared_access
SegmentInv ==
  /\ inv_thread_of_segment1 /\ inv_thread_of_segment2
  /\ inv_segment_shared_access_dom /\ inv_segment_shared_access_eq
PlaceInv ==
  /\ inv_heap_of_page_delay /\ inv_thread_has_segment_for_page
  /\ inv_thread_of_page1 /\ inv_thread_of_page2 /\ heap_of_page_is_correct
  /\ page_implies_segment_enabled
PageInv == PlaceInv /\ inv_page_shared_access_dom /\ inv_page_shared_access_eq
DelayInv ==
  /\ inv_delay_state /\ inv_delay_actor /\ inv_delay_actor_sub
  /\ inv_no_delay_actor_for_checked
BlockInv == inv_block_id_valid /\ inv_block_id_at_idx_uniq

LEMMA Grouped == Invariants <=> HeapInv /\ SegmentInv /\ PageInv /\ DelayInv /\ BlockInv
  BY DEF Invariants, HeapInv, SegmentInv, PlaceInv, PageInv, DelayInv, BlockInv

LEMMA Regroup ==
  ASSUME TypeInv', HeapInv', SegmentInv', PageInv', DelayInv', BlockInv'
  PROVE  IInv'
  BY DEF IInv, Invariants, HeapInv, SegmentInv, PlaceInv, PageInv, DelayInv, BlockInv

\* The page a thread has is a page of one of its segments, and nobody else's.
LEMMA Owner ==
  ASSUME IInv, NEW t \in Threads, NEW p \in DOMAIN Pages(t)
  PROVE  /\ p \in PageId
         /\ p.segment_id \in DOMAIN Segments(t)
         /\ p.segment_id \in DOMAIN thread_of_segment
         /\ thread_of_segment[p.segment_id] = t
  BY DEF IInv, TypeInv, ThreadTypes, ThreadType, Pages, Invariants,
     inv_thread_has_segment_for_page, inv_thread_of_segment1

\* Heaps and threads stay what they are.
LEMMA HeapFrame ==
  ASSUME HeapInv, UNCHANGED heaptok,
         DOMAIN thread_local_state' = Threads,
         DOMAIN thread_checked_state' = DOMAIN thread_checked_state,
         \A u \in Threads : /\ thread_local_state'[u].heap_id = thread_local_state[u].heap_id
                            /\ thread_local_state'[u].heap = thread_local_state[u].heap
  PROVE  HeapInv'
<1>1. /\ inv_reserved2' /\ inv_right_to_set_inst' /\ inv_checked_threads'
      /\ right_to_use_thread_complement' /\ wf_heap_shared_access_requires_inst'
  BY DEF HeapInv, heaptok, Threads, inv_reserved2, inv_right_to_set_inst, inv_checked_threads,
     right_to_use_thread_complement, wf_heap_shared_access_requires_inst, Empty
<1>2. heap_of_thread_is_valid' /\ inv_heap_shared_access'
  BY DEF HeapInv, heaptok, Threads, heap_of_thread_is_valid, inv_heap_shared_access
<1>3. heap_ids_thread_id1' /\ heap_ids_thread_id2'
  BY DEF HeapInv, heaptok, Threads, heap_ids_thread_id1, heap_ids_thread_id2
<1>. QED BY <1>1, <1>2, <1>3 DEF HeapInv

\* Segments stay what they are; a new thread has none.
LEMMA SegmentFrame ==
  ASSUME SegmentInv, UNCHANGED segtok,
         Threads \subseteq DOMAIN thread_local_state',
         \A u \in DOMAIN thread_local_state' \ Threads : DOMAIN thread_local_state'[u].segments = {},
         \A u \in Threads : thread_local_state'[u].segments = thread_local_state[u].segments
  PROVE  SegmentInv'
<1>1. inv_thread_of_segment1' /\ inv_thread_of_segment2'
  BY DEF SegmentInv, segtok, Threads, Segments, inv_thread_of_segment1, inv_thread_of_segment2
<1>2. inv_segment_shared_access_dom' /\ inv_segment_shared_access_eq'
  BY DEF SegmentInv, segtok, Threads, Segments, inv_thread_of_segment2,
     inv_segment_shared_access_dom, inv_segment_shared_access_eq
<1>. QED BY <1>1, <1>2 DEF SegmentInv

\* The pages of a thread stay where they are, and so do the heaps and delay states;
\* segments may only be added or enabled.
LEMMA PlaceFrame ==
  ASSUME IInv, UNCHANGED heap_of_page,
         DOMAIN delay' = DOMAIN delay,
         Threads \subseteq DOMAIN thread_local_state',
         \A u \in DOMAIN thread_local_state' \ Threads : DOMAIN thread_local_state'[u].pages = {},
         \A s \in DOMAIN thread_of_segment :
           s \in DOMAIN thread_of_segment' /\ thread_of_segment'[s] = thread_of_segment[s],
         \A u \in Threads : \A s \in DOMAIN Segments(u) :
           /\ s \in DOMAIN thread_local_state'[u].segments
           /\ Segments(u)[s].is_enabled => thread_local_state'[u].segments[s].is_enabled,
         \A u \in Threads :
           /\ thread_local_state'[u].heap_id = thread_local_state[u].heap_id
           /\ DOMAIN thread_local_state'[u].pages = DOMAIN Pages(u)
           /\ \A p \in DOMAIN Pages(u) :
                thread_local_state'[u].pages[p].offset = Pages(u)[p].offset
  PROVE  PlaceInv'
<1>1. inv_heap_of_page_delay' /\ inv_thread_has_segment_for_page' /\ inv_thread_of_page1'
  BY DEF IInv, Invariants, Threads, Segments, Pages, inv_heap_of_page_delay,
     inv_thread_has_segment_for_page, inv_thread_of_page1
<1>2. inv_thread_of_page2'
  BY DEF IInv, Invariants, Threads, Pages, inv_thread_of_page2, OwnerHas
<1>3. heap_of_page_is_correct'
  BY DEF IInv, Invariants, Threads, Pages, heap_of_page_is_correct, inv_thread_of_page2, OwnerHas
<1>4. page_implies_segment_enabled'
  BY DEF IInv, Invariants, Threads, Segments, Pages, page_implies_segment_enabled,
     inv_thread_has_segment_for_page
<1>. QED BY <1>1, <1>2, <1>3, <1>4 DEF PlaceInv

\* Pages stay what they are, except for the number of their blocks.
LEMMA PageFrame ==
  ASSUME IInv, UNCHANGED <<heap_of_page, page_shared_access>>,
         DOMAIN delay' = DOMAIN delay,
         Threads \subseteq DOMAIN thread_local_state',
         \A u \in DOMAIN thread_local_state' \ Threads : DOMAIN thread_local_state'[u].pages = {},
         \A s \in DOMAIN thread_of_segment :
           s \in DOMAIN thread_of_segment' /\ thread_of_segment'[s] = thread_of_segment[s],
         \A u \in Threads : \A s \in DOMAIN Segments(u) :
           /\ s \in DOMAIN thread_local_state'[u].segments
           /\ Segments(u)[s].is_enabled => thread_local_state'[u].segments[s].is_enabled,
         \A u \in Threads :
           /\ thread_local_state'[u].heap_id = thread_local_state[u].heap_id
           /\ DOMAIN thread_local_state'[u].pages = DOMAIN Pages(u)
           /\ \A p \in DOMAIN Pages(u) :
                /\ thread_local_state'[u].pages[p].offset = Pages(u)[p].offset
                /\ thread_local_state'[u].pages[p].is_enabled = Pages(u)[p].is_enabled
                /\ thread_local_state'[u].pages[p].shared_access = Pages(u)[p].shared_access
  PROVE  PageInv'
<1>1. PlaceInv'
  BY PlaceFrame
<1>2. \A p \in PageId : /\ OwnerHas(p)' <=> OwnerHas(p)
                        /\ OwnerHas(p) => thread_of_segment'[p.segment_id]
                                             = thread_of_segment[p.segment_id]
  BY Owner DEF Threads, Pages, OwnerHas
<1>5. \A p \in PageId : OwnerHas(p) =>
        /\ Pages(thread_of_segment[p.segment_id])'[p].is_enabled
             = Pages(thread_of_segment[p.segment_id])[p].is_enabled
        /\ Pages(thread_of_segment[p.segment_id])'[p].shared_access
             = Pages(thread_of_segment[p.segment_id])[p].shared_access
  BY <1>2 DEF Pages, OwnerHas
<1>6. inv_page_shared_access_dom /\ inv_page_shared_access_eq
  BY DEF IInv, Invariants
<1>3. inv_page_shared_access_dom'
  BY <1>2, <1>5, <1>6 DEF inv_page_shared_access_dom
<1>4. inv_page_shared_access_eq'
  BY <1>2, <1>5, <1>6 DEF inv_page_shared_access_dom, inv_page_shared_access_eq
<1>. QED BY <1>1, <1>3, <1>4 DEF PageInv

\* The pages with a delay_actor stay what they are, and so do their heaps.
LEMMA ActorKept ==
  ASSUME IInv, UNCHANGED delay_actor,
         Threads \subseteq DOMAIN thread_local_state',
         \A s \in DOMAIN thread_of_segment :
           s \in DOMAIN thread_of_segment' /\ thread_of_segment'[s] = thread_of_segment[s],
         \A h \in DOMAIN heap_shared_access :
           h \in DOMAIN heap_shared_access' /\ heap_shared_access'[h] = heap_shared_access[h],
         \A h \in DOMAIN heap_to_thread :
           h \in DOMAIN heap_to_thread' /\ heap_to_thread'[h] = heap_to_thread[h],
         \A u \in Threads, p \in DOMAIN delay_actor : HasEnabled(u, p) =>
           /\ p \in DOMAIN thread_local_state'[u].pages
           /\ thread_local_state'[u].pages[p].is_enabled
           /\ thread_local_state'[u].pages[p].shared_access = Pages(u)[p].shared_access
  PROVE  inv_delay_actor'
<1>1. ASSUME NEW p \in DOMAIN delay_actor PROVE inv_delay_actor_for_page(p)'
  <2>1. inv_delay_actor_for_page(p)
    BY DEF IInv, Invariants, inv_delay_actor
  <2>2. CASE delay_actor[p] = None
    BY <2>1, <2>2 DEF inv_delay_actor_for_page, HasEnabled, Threads, Pages
  <2>3. CASE delay_actor[p] # None
    BY <2>1, <2>3 DEF inv_delay_actor_for_page, HasEnabled, Threads, Pages
  <2>. QED BY <2>2, <2>3
<1>. QED BY <1>1 DEF inv_delay_actor

LEMMA ActorFrame ==
  ASSUME IInv, UNCHANGED <<delay, delay_actor>>,
         Threads \subseteq DOMAIN thread_local_state',
         \A s \in DOMAIN thread_of_segment :
           s \in DOMAIN thread_of_segment' /\ thread_of_segment'[s] = thread_of_segment[s],
         \A h \in DOMAIN heap_shared_access :
           h \in DOMAIN heap_shared_access' /\ heap_shared_access'[h] = heap_shared_access[h],
         \A h \in DOMAIN heap_to_thread :
           h \in DOMAIN heap_to_thread' /\ heap_to_thread'[h] = heap_to_thread[h],
         \A u \in Threads, p \in DOMAIN delay_actor : HasEnabled(u, p) =>
           /\ p \in DOMAIN thread_local_state'[u].pages
           /\ thread_local_state'[u].pages[p].is_enabled
           /\ thread_local_state'[u].pages[p].shared_access = Pages(u)[p].shared_access,
         inv_no_delay_actor_for_checked'
  PROVE  DelayInv'
<1>1. inv_delay_state' /\ inv_delay_actor_sub'
  BY DEF IInv, Invariants, inv_delay_state, inv_delay_actor_sub
<1>2. inv_delay_actor'
  BY ActorKept
<1>. QED BY <1>1, <1>2 DEF DelayInv

\* A block that stays keeps the page and the slice it lies on.
LEMMA BlockKept ==
  ASSUME IInv, NEW b \in DOMAIN block,
         \A s \in DOMAIN thread_of_segment :
           s \in DOMAIN thread_of_segment' /\ thread_of_segment'[s] = thread_of_segment[s],
         Threads \subseteq DOMAIN thread_local_state',
         \A u \in Threads :
           /\ thread_local_state'[u].heap_id = thread_local_state[u].heap_id
           /\ \A s \in DOMAIN Segments(u) : Segments(u)[s].is_enabled =>
                thread_local_state'[u].segments[s] = Segments(u)[s],
         block'[b].segment_shared_access = block[b].segment_shared_access,
         block'[b].page_shared_access = block[b].page_shared_access,
         block'[b].page_slice_shared_access = block[b].page_slice_shared_access,
         block'[b].heap_id
           \in {None, thread_local_state[thread_of_segment[b.page_id.segment_id]].heap_id},
         \A u \in Threads, q \in PageId :
           q \in {b.page_id, page_id_for_slice(b)} /\ HasEnabled(u, q) =>
             /\ q \in DOMAIN thread_local_state'[u].pages
             /\ thread_local_state'[u].pages[q].is_enabled
             /\ thread_local_state'[u].pages[q].shared_access = Pages(u)[q].shared_access
             /\ thread_local_state'[u].pages[q].offset = Pages(u)[q].offset
             /\ thread_local_state'[u].pages[q].block_size = Pages(u)[q].block_size
             /\ q = b.page_id /\ b.idx < Pages(u)[q].num_blocks
                  => b.idx < thread_local_state'[u].pages[q].num_blocks
  PROVE  /\ b.page_id.segment_id \in DOMAIN thread_of_segment'
         /\ block_properties(thread_of_segment[b.page_id.segment_id], b)'
<1>1. PICK t : t = thread_of_segment[b.page_id.segment_id]
  OBVIOUS
<1>2. /\ b.page_id.segment_id \in DOMAIN thread_of_segment
      /\ t \in Threads /\ block_properties(t, b)
      /\ thread_of_segment'[b.page_id.segment_id] = t
  BY <1>1 DEF IInv, Invariants, inv_block_id_valid, inv_thread_of_segment2
<1>3. PICK q : q = page_id_for_slice(b)
  OBVIOUS
<1>4. /\ HasEnabled(t, b.page_id) /\ HasEnabled(t, q) /\ q \in PageId /\ b.page_id \in PageId
      /\ Segments(t)[b.page_id.segment_id].is_enabled
      /\ b.page_id.segment_id \in DOMAIN Segments(t)
  BY <1>2, <1>3, Owner DEF block_properties, HasEnabled
<1>5. PICK pp : pp = b.page_id
  OBVIOUS
<1>6. PICK ps, ss : ps = thread_local_state'[t].pages /\ ss = thread_local_state'[t].segments
  OBVIOUS
<1>7. /\ pp \in DOMAIN ps /\ ps[pp].is_enabled /\ ps[pp].offset = 0
      /\ ps[pp].block_size = b.block_size
      /\ ps[pp].shared_access = block'[b].page_shared_access
      /\ b.idx < ps[pp].num_blocks
  BY <1>2, <1>4, <1>5, <1>6 DEF block_properties
<1>8. /\ q \in DOMAIN ps /\ ps[q].is_enabled
      /\ ps[q].shared_access = block'[b].page_slice_shared_access
      /\ ps[q].offset = q.idx - pp.idx
  BY <1>2, <1>3, <1>4, <1>5, <1>6 DEF block_properties
<1>9. /\ ss[pp.segment_id].is_enabled
      /\ ss[pp.segment_id].shared_access = block'[b].segment_shared_access
      /\ block'[b].heap_id \in {None, thread_local_state'[t].heap_id}
  BY <1>1, <1>2, <1>4, <1>5, <1>6 DEF block_properties
<1>10. block_properties(t, b)'
  BY <1>3, <1>5, <1>6, <1>7, <1>8, <1>9 DEF block_properties, Pages, Segments
<1>. QED BY <1>1, <1>2, <1>10 DEF block_properties, Pages, Segments

\* The same when no block is new.
LEMMA BlockFrame ==
  ASSUME IInv, DOMAIN block' \subseteq DOMAIN block,
         \A s \in DOMAIN thread_of_segment :
           s \in DOMAIN thread_of_segment' /\ thread_of_segment'[s] = thread_of_segment[s],
         Threads \subseteq DOMAIN thread_local_state',
         \A u \in Threads :
           /\ thread_local_state'[u].heap_id = thread_local_state[u].heap_id
           /\ \A s \in DOMAIN Segments(u) : Segments(u)[s].is_enabled =>
                thread_local_state'[u].segments[s] = Segments(u)[s],
         \A b \in DOMAIN block' :
           /\ block'[b].segment_shared_access = block[b].segment_shared_access
           /\ block'[b].page_shared_access = block[b].page_shared_access
           /\ block'[b].page_slice_shared_access = block[b].page_slice_shared_access
           /\ block'[b].heap_id
                \in {None, thread_local_state[thread_of_segment[b.page_id.segment_id]].heap_id},
         \A b \in DOMAIN block', u \in Threads, q \in PageId :
           q \in {b.page_id, page_id_for_slice(b)} /\ HasEnabled(u, q) =>
             /\ q \in DOMAIN thread_local_state'[u].pages
             /\ thread_local_state'[u].pages[q].is_enabled
             /\ thread_local_state'[u].pages[q].shared_access = Pages(u)[q].shared_access
             /\ thread_local_state'[u].pages[q].offset = Pages(u)[q].offset
             /\ thread_local_state'[u].pages[q].block_size = Pages(u)[q].block_size
             /\ q = b.page_id /\ b.idx < Pages(u)[q].num_blocks
                  => b.idx < thread_local_state'[u].pages[q].num_blocks
  PROVE  BlockInv'
<1>1. inv_block_id_at_idx_uniq'
  BY DEF IInv, Invariants, inv_block_id_at_idx_uniq
<1>2. ASSUME NEW b \in DOMAIN block'
      PROVE  /\ b.page_id.segment_id \in DOMAIN thread_of_segment'
             /\ block_properties(thread_of_segment[b.page_id.segment_id], b)'
  BY BlockKept
<1>. QED BY <1>1, <1>2 DEF BlockInv, inv_block_id_valid, block_properties

-----------------------------------------------------------------------------
(* What a thread sees of Mim: the tokens of its own heap                    *)

\* the parts of View, by name
Ps(t) == {p \in DOMAIN Pages(t) : Pages(t)[p].offset = 0}
En(t) == {p \in Ps(t) : Pages(t)[p].is_enabled}
Ac(t) == Ps(t) \cap DOMAIN page_shared_access
Nu(t) == [p \in Ps(t) |-> Pages(t)[p].num_blocks]
Bl(t) == {b \in DOMAIN block : b.page_id \in Ps(t)}
De(t) == [p \in Ps(t) |-> delay[p]]
At(t) == Ps(t) \cap DOMAIN delay_actor
Ch(t) == thread_checked_state[t]

\* a state of MimTokens from its parts
Rec(pg, en, ac, nu, bl, de, at, ch) ==
  [pages |-> pg, enabled |-> en, access |-> ac, num |-> nu, block |-> bl,
   delay |-> de, actor |-> at, checked |-> ch]

HeldBy(t) == [p \in PageId |-> {b \in View(t).block : b.page_id = p}]
Seen(t) == View(t)' = View(t) \/ OneHeap!MimTransition(View(t), View(t)', HeldBy(t))

\* View is made of those parts, now and in the next state.
LEMMA ViewIs ==
  ASSUME NEW t
  PROVE  View(t) = Rec(Ps(t), En(t), Ac(t), Nu(t), Bl(t), De(t), At(t), Ch(t))
  BY DEF View, Rec, Ps, En, Ac, Nu, Bl, De, At, Ch
LEMMA ViewWillBe ==
  ASSUME NEW t
  PROVE  View(t)' = Rec(Ps(t)', En(t)', Ac(t)', Nu(t)', Bl(t)', De(t)', At(t)', Ch(t)')
  BY DEF View, Rec, Ps, En, Ac, Nu, Bl, De, At, Ch

\* MimTokens counts the way this module does.
LEMMA SameCount == \A S : OneHeap!Cardinality(S) = Cardinality(S)
  BY DEF OneHeap!Cardinality, Cardinality, OneHeap!IsFiniteSet, IsFiniteSet

\* The parts of a state of MimTokens.
LEMMA RecParts ==
  ASSUME NEW pg, NEW en, NEW ac, NEW nu, NEW bl, NEW de, NEW at, NEW ch
  PROVE  \A m : m = Rec(pg, en, ac, nu, bl, de, at, ch) =>
    /\ m.pages = pg /\ m.enabled = en /\ m.access = ac /\ m.num = nu
    /\ m.block = bl /\ m.delay = de /\ m.actor = at /\ m.checked = ch
  BY DEF Rec

\* What each transition of MimTokens does to the parts of a state.
LEMMA SetUseIs ==
  ASSUME NEW pg, NEW en, NEW ac, NEW nu, NEW bl, NEW de, NEW at, NEW ch, NEW p
  PROVE  OneHeap!set_use_delayed_free(Rec(pg, en, ac, nu, bl, de, at, ch), p)
           = Rec(pg, en, ac, nu, bl, OneHeap!Over(de, p, 0), at, ch)
<1>1. PICK m : m = Rec(pg, en, ac, nu, bl, de, at, ch)
  OBVIOUS
<1>2. m.delay = de
  BY <1>1, RecParts
<1>3. PICK x : x = OneHeap!Over(de, p, 0)
  OBVIOUS
<1>4. PICK m1 : m1 = [m EXCEPT !.delay = x]
  OBVIOUS
<1>5. m1 = Rec(pg, en, ac, nu, bl, x, at, ch)
  BY <1>1, <1>4 DEF Rec
<1>6. OneHeap!set_use_delayed_free(m, p) = m1
  BY <1>2, <1>3, <1>4 DEF OneHeap!set_use_delayed_free
<1>. QED BY <1>1, <1>3, <1>5, <1>6

LEMMA EnterIs ==
  ASSUME NEW pg, NEW en, NEW ac, NEW nu, NEW bl, NEW de, NEW at, NEW ch, NEW p
  PROVE  OneHeap!delay_enter_freeing(Rec(pg, en, ac, nu, bl, de, at, ch), p)
           = Rec(pg, en, ac, nu, bl, OneHeap!Over(de, p, 1), at \cup {p}, ch)
<1>1. PICK m : m = Rec(pg, en, ac, nu, bl, de, at, ch)
  OBVIOUS
<1>2. m.delay = de /\ m.actor = at
  BY <1>1, RecParts
<1>3. PICK x, y : x = OneHeap!Over(de, p, 1) /\ y = at \cup {p}
  OBVIOUS
<1>4. PICK m1 : m1 = [m EXCEPT !.delay = x]
  OBVIOUS
<1>5. m1 = Rec(pg, en, ac, nu, bl, x, at, ch)
  BY <1>1, <1>4 DEF Rec
<1>6. PICK m2 : m2 = [m1 EXCEPT !.actor = y]
  OBVIOUS
<1>7. m2 = Rec(pg, en, ac, nu, bl, x, y, ch)
  BY <1>5, <1>6 DEF Rec
<1>8. OneHeap!delay_enter_freeing(m, p) = m2
  BY <1>2, <1>3, <1>4, <1>6 DEF OneHeap!delay_enter_freeing
<1>. QED BY <1>1, <1>3, <1>7, <1>8

LEMMA LeaveIs ==
  ASSUME NEW pg, NEW en, NEW ac, NEW nu, NEW bl, NEW de, NEW at, NEW ch, NEW p
  PROVE  OneHeap!delay_leave_freeing(Rec(pg, en, ac, nu, bl, de, at, ch), p)
           = Rec(pg, en, ac, nu, bl, OneHeap!Over(de, p, 2), at \ {p}, ch)
<1>1. PICK m : m = Rec(pg, en, ac, nu, bl, de, at, ch)
  OBVIOUS
<1>2. m.delay = de /\ m.actor = at
  BY <1>1, RecParts
<1>3. PICK x, y : x = OneHeap!Over(de, p, 2) /\ y = at \ {p}
  OBVIOUS
<1>4. PICK m1 : m1 = [m EXCEPT !.delay = x]
  OBVIOUS
<1>5. m1 = Rec(pg, en, ac, nu, bl, x, at, ch)
  BY <1>1, <1>4 DEF Rec
<1>6. PICK m2 : m2 = [m1 EXCEPT !.actor = y]
  OBVIOUS
<1>7. m2 = Rec(pg, en, ac, nu, bl, x, y, ch)
  BY <1>5, <1>6 DEF Rec
<1>8. OneHeap!delay_leave_freeing(m, p) = m2
  BY <1>2, <1>3, <1>4, <1>6 DEF OneHeap!delay_leave_freeing
<1>. QED BY <1>1, <1>3, <1>7, <1>8

LEMMA CreateIs ==
  ASSUME NEW pg, NEW en, NEW ac, NEW nu, NEW bl, NEW de, NEW at, NEW ch, NEW p
  PROVE  OneHeap!create_page_mk_tokens(Rec(pg, en, ac, nu, bl, de, at, ch), p)
           = Rec(pg \cup {p}, en, ac, OneHeap!Over(nu, p, 0), bl, OneHeap!Over(de, p, 0), at, ch)
<1>1. PICK m : m = Rec(pg, en, ac, nu, bl, de, at, ch)
  OBVIOUS
<1>2. m.pages = pg /\ m.num = nu /\ m.delay = de
  BY <1>1, RecParts
<1>3. PICK x, y, z : x = pg \cup {p} /\ y = OneHeap!Over(nu, p, 0) /\ z = OneHeap!Over(de, p, 0)
  OBVIOUS
<1>4. PICK m1 : m1 = [m EXCEPT !.pages = x]
  OBVIOUS
<1>5. m1 = Rec(x, en, ac, nu, bl, de, at, ch)
  BY <1>1, <1>4 DEF Rec
<1>6. PICK m2 : m2 = [m1 EXCEPT !.num = y]
  OBVIOUS
<1>7. m2 = Rec(x, en, ac, y, bl, de, at, ch)
  BY <1>5, <1>6 DEF Rec
<1>8. PICK m3 : m3 = [m2 EXCEPT !.delay = z]
  OBVIOUS
<1>9. m3 = Rec(x, en, ac, y, bl, z, at, ch)
  BY <1>7, <1>8 DEF Rec
<1>10. OneHeap!create_page_mk_tokens(m, p) = m3
  BY <1>2, <1>3, <1>4, <1>6, <1>8 DEF OneHeap!create_page_mk_tokens
<1>. QED BY <1>1, <1>3, <1>9, <1>10

LEMMA EnableIs ==
  ASSUME NEW pg, NEW en, NEW ac, NEW nu, NEW bl, NEW de, NEW at, NEW ch, NEW p
  PROVE  OneHeap!page_enable(Rec(pg, en, ac, nu, bl, de, at, ch), p)
           = Rec(pg, en \cup {p}, ac \cup {p}, nu, bl, de, at, ch)
<1>1. PICK m : m = Rec(pg, en, ac, nu, bl, de, at, ch)
  OBVIOUS
<1>2. m.enabled = en /\ m.access = ac
  BY <1>1, RecParts
<1>3. PICK x, y : x = en \cup {p} /\ y = ac \cup {p}
  OBVIOUS
<1>4. PICK m1 : m1 = [m EXCEPT !.enabled = x]
  OBVIOUS
<1>5. m1 = Rec(pg, x, ac, nu, bl, de, at, ch)
  BY <1>1, <1>4 DEF Rec
<1>6. PICK m2 : m2 = [m1 EXCEPT !.access = y]
  OBVIOUS
<1>7. m2 = Rec(pg, x, y, nu, bl, de, at, ch)
  BY <1>5, <1>6 DEF Rec
<1>8. OneHeap!page_enable(m, p) = m2
  BY <1>2, <1>3, <1>4, <1>6 DEF OneHeap!page_enable
<1>. QED BY <1>1, <1>3, <1>7, <1>8

LEMMA MakeBlocksIs ==
  ASSUME NEW pg, NEW en, NEW ac, NEW nu, NEW bl, NEW de, NEW at, NEW ch, NEW p, NEW S,
         NEW c \in Nat, c = nu[p] + Cardinality(S), nu[p] \in Nat, Cardinality(S) \in Nat,
         NEW nu2, nu2 = OneHeap!Over(nu, p, c)
  PROVE  OneHeap!page_mk_block_tokens(Rec(pg, en, ac, nu, bl, de, at, ch), p, S)
           = Rec(pg, en, ac, nu2, bl \cup S, de, at, ch \ {p})
<1>1. PICK m : m = Rec(pg, en, ac, nu, bl, de, at, ch)
  OBVIOUS
<1>2. m.block = bl /\ m.num = nu /\ m.checked = ch
  BY <1>1, RecParts
<1>3. PICK x, y, z : x = bl \cup S /\ y = nu2 /\ z = ch \ {p}
  OBVIOUS
<1>4. PICK m1 : m1 = [m EXCEPT !.block = x]
  OBVIOUS
<1>5. m1 = Rec(pg, en, ac, nu, x, de, at, ch)
  BY <1>1, <1>4 DEF Rec
<1>6. PICK m2 : m2 = [m1 EXCEPT !.num = y]
  OBVIOUS
<1>7. m2 = Rec(pg, en, ac, y, x, de, at, ch)
  BY <1>5, <1>6 DEF Rec
<1>8. PICK m3 : m3 = [m2 EXCEPT !.checked = z]
  OBVIOUS
<1>9. m3 = Rec(pg, en, ac, y, x, de, at, z)
  BY <1>7, <1>8 DEF Rec
<1>10. OneHeap!page_mk_block_tokens(m, p, S)
         = [m EXCEPT !.block = x, !.num = y, !.checked = z]
  <2>1. m.block \cup S = x /\ m.checked \ {p} = z
    BY <1>2, <1>3
  <2>2. OneHeap!Over(m.num, p, m.num[p] + Cardinality(S)) = y
    BY <1>2, <1>3
  <2>3. OneHeap!page_mk_block_tokens(m, p, S)
          = [m EXCEPT !.block = m.block \cup S,
                      !.num = OneHeap!Over(m.num, p, m.num[p] + Cardinality(S)),
                      !.checked = m.checked \ {p}]
    BY SameCount DEF OneHeap!page_mk_block_tokens
  <2>. QED BY <2>1, <2>2, <2>3
<1>11. [m EXCEPT !.block = x, !.num = y, !.checked = z] = m3
  BY <1>4, <1>6, <1>8
<1>. QED BY <1>1, <1>3, <1>9, <1>10, <1>11

LEMMA DestroyBlocksIs ==
  ASSUME NEW pg, NEW en, NEW ac, NEW nu, NEW bl, NEW de, NEW at, NEW ch, NEW p, NEW S
  PROVE  OneHeap!page_destroy_block_tokens(Rec(pg, en, ac, nu, bl, de, at, ch), p, S)
           = Rec(pg, en, ac, OneHeap!Over(nu, p, 0), bl \ S, de, at, ch)
<1>1. PICK m : m = Rec(pg, en, ac, nu, bl, de, at, ch)
  OBVIOUS
<1>2. m.block = bl /\ m.num = nu
  BY <1>1, RecParts
<1>3. PICK x, y : x = bl \ S /\ y = OneHeap!Over(nu, p, 0)
  OBVIOUS
<1>4. PICK m1 : m1 = [m EXCEPT !.block = x]
  OBVIOUS
<1>5. m1 = Rec(pg, en, ac, nu, x, de, at, ch)
  BY <1>1, <1>4 DEF Rec
<1>6. PICK m2 : m2 = [m1 EXCEPT !.num = y]
  OBVIOUS
<1>7. m2 = Rec(pg, en, ac, y, x, de, at, ch)
  BY <1>5, <1>6 DEF Rec
<1>8. OneHeap!page_destroy_block_tokens(m, p, S) = m2
  BY <1>2, <1>3, <1>4, <1>6 DEF OneHeap!page_destroy_block_tokens
<1>. QED BY <1>1, <1>3, <1>7, <1>8

LEMMA CheckIs ==
  ASSUME NEW pg, NEW en, NEW ac, NEW nu, NEW bl, NEW de, NEW at, NEW ch, NEW p
  PROVE  OneHeap!page_check_delay_state(Rec(pg, en, ac, nu, bl, de, at, ch), p)
           = Rec(pg, en, ac, nu, bl, de, at, ch \cup {p})
<1>1. PICK m : m = Rec(pg, en, ac, nu, bl, de, at, ch)
  OBVIOUS
<1>2. m.checked = ch
  BY <1>1, RecParts
<1>3. PICK x : x = ch \cup {p}
  OBVIOUS
<1>4. PICK m1 : m1 = [m EXCEPT !.checked = x]
  OBVIOUS
<1>5. m1 = Rec(pg, en, ac, nu, bl, de, at, x)
  BY <1>1, <1>4 DEF Rec
<1>6. OneHeap!page_check_delay_state(m, p) = m1
  BY <1>2, <1>3, <1>4 DEF OneHeap!page_check_delay_state
<1>. QED BY <1>1, <1>3, <1>5, <1>6

LEMMA DisableIs ==
  ASSUME NEW pg, NEW en, NEW ac, NEW nu, NEW bl, NEW de, NEW at, NEW ch, NEW p
  PROVE  OneHeap!page_disable(Rec(pg, en, ac, nu, bl, de, at, ch), p)
           = Rec(pg, en \ {p}, ac \ {p}, nu, bl, de, at, ch)
<1>1. PICK m : m = Rec(pg, en, ac, nu, bl, de, at, ch)
  OBVIOUS
<1>2. m.enabled = en /\ m.access = ac
  BY <1>1, RecParts
<1>3. PICK x, y : x = en \ {p} /\ y = ac \ {p}
  OBVIOUS
<1>4. PICK m1 : m1 = [m EXCEPT !.enabled = x]
  OBVIOUS
<1>5. m1 = Rec(pg, x, ac, nu, bl, de, at, ch)
  BY <1>1, <1>4 DEF Rec
<1>6. PICK m2 : m2 = [m1 EXCEPT !.access = y]
  OBVIOUS
<1>7. m2 = Rec(pg, x, y, nu, bl, de, at, ch)
  BY <1>5, <1>6 DEF Rec
<1>8. OneHeap!page_disable(m, p) = m2
  BY <1>2, <1>3, <1>4, <1>6 DEF OneHeap!page_disable
<1>. QED BY <1>1, <1>3, <1>7, <1>8

LEMMA DestroyIs ==
  ASSUME NEW pg, NEW en, NEW ac, NEW nu, NEW bl, NEW de, NEW at, NEW ch, NEW p
  PROVE  OneHeap!page_destroy_tokens(Rec(pg, en, ac, nu, bl, de, at, ch), p)
           = Rec(pg \ {p}, en, ac, OneHeap!Without(nu, p), bl, OneHeap!Without(de, p), at, ch)
<1>1. PICK m : m = Rec(pg, en, ac, nu, bl, de, at, ch)
  OBVIOUS
<1>2. m.pages = pg /\ m.num = nu /\ m.delay = de
  BY <1>1, RecParts
<1>3. PICK x, y, z : x = pg \ {p} /\ y = OneHeap!Without(nu, p) /\ z = OneHeap!Without(de, p)
  OBVIOUS
<1>4. PICK m1 : m1 = [m EXCEPT !.pages = x]
  OBVIOUS
<1>5. m1 = Rec(x, en, ac, nu, bl, de, at, ch)
  BY <1>1, <1>4 DEF Rec
<1>6. PICK m2 : m2 = [m1 EXCEPT !.num = y]
  OBVIOUS
<1>7. m2 = Rec(x, en, ac, y, bl, de, at, ch)
  BY <1>5, <1>6 DEF Rec
<1>8. PICK m3 : m3 = [m2 EXCEPT !.delay = z]
  OBVIOUS
<1>9. m3 = Rec(x, en, ac, y, bl, z, at, ch)
  BY <1>7, <1>8 DEF Rec
<1>10. OneHeap!page_destroy_tokens(m, p) = m3
  BY <1>2, <1>3, <1>4, <1>6, <1>8 DEF OneHeap!page_destroy_tokens
<1>. QED BY <1>1, <1>3, <1>9, <1>10

\* One transition of MimTokens, with its page.
LEMMA Transitions ==
  ASSUME NEW m, NEW n, NEW held, NEW p \in PageId, NEW new,
         \/ OneHeap!CanSetUseDelayedFree(m, p) /\ n = OneHeap!set_use_delayed_free(m, p)
         \/ /\ \E b \in BlockId : OneHeap!CanEnterFreeing(m, p, b)
            /\ n = OneHeap!delay_enter_freeing(m, p)
         \/ OneHeap!CanLeaveFreeing(m, p) /\ n = OneHeap!delay_leave_freeing(m, p)
         \/ OneHeap!CanCreatePage(m, p) /\ n = OneHeap!create_page_mk_tokens(m, p)
         \/ OneHeap!CanEnablePage(m, p) /\ n = OneHeap!page_enable(m, p)
         \/ /\ new = n.block \ m.block
            /\ OneHeap!CanMakeBlocks(m, p, new) /\ n = OneHeap!page_mk_block_tokens(m, p, new)
         \/ /\ new = held[p]
            /\ OneHeap!CanDestroyBlocks(m, p, new)
            /\ n = OneHeap!page_destroy_block_tokens(m, p, new)
         \/ OneHeap!CanCheckDelay(m, p) /\ n = OneHeap!page_check_delay_state(m, p)
         \/ OneHeap!CanDisablePage(m, p) /\ n = OneHeap!page_disable(m, p)
         \/ OneHeap!CanDestroyPage(m, p) /\ n = OneHeap!page_destroy_tokens(m, p)
  PROVE  OneHeap!MimTransition(m, n, held)
  BY DEF OneHeap!MimTransition

\* A thread sees nothing of a step that leaves its pages and their tokens alone.
LEMMA NothingSeen ==
  ASSUME NEW u \in Threads, thread_local_state'[u].pages = Pages(u),
         thread_checked_state'[u] = thread_checked_state[u],
         \A q \in Ps(u) : /\ q \in DOMAIN page_shared_access' <=> q \in DOMAIN page_shared_access
                          /\ q \in DOMAIN delay_actor' <=> q \in DOMAIN delay_actor
                          /\ delay'[q] = delay[q],
         \A b : b.page_id \in Ps(u) => (b \in DOMAIN block' <=> b \in DOMAIN block)
  PROVE  Seen(u)
<1>1. Ps(u)' = Ps(u)
  BY DEF Ps, Pages
<1>2. En(u)' = En(u) /\ Nu(u)' = Nu(u) /\ Ch(u)' = Ch(u)
  BY <1>1 DEF En, Nu, Ch, Pages
<1>3. Ac(u)' = Ac(u) /\ At(u)' = At(u) /\ De(u)' = De(u)
  BY <1>1 DEF Ac, At, De
<1>4. Bl(u)' = Bl(u)
  BY <1>1 DEF Bl
<1>. QED BY <1>1, <1>2, <1>3, <1>4, ViewIs, ViewWillBe DEF Seen

\* The owner of a block's page, and the page.
LEMMA BlockOwner ==
  ASSUME IInv, NEW b \in DOMAIN block
  PROVE  \E t \in Threads :
           /\ b.page_id.segment_id \in DOMAIN thread_of_segment
           /\ thread_of_segment[b.page_id.segment_id] = t
           /\ HasEnabled(t, b.page_id)
           /\ Pages(t)[b.page_id].shared_access = block[b].page_shared_access
           /\ Pages(t)[b.page_id].num_blocks # 0
           /\ \A u \in Threads : b.page_id \in DOMAIN Pages(u) => u = t
<1>1. PICK t : t = thread_of_segment[b.page_id.segment_id]
  OBVIOUS
<1>2. t \in Threads /\ block_properties(t, b) /\ b.page_id.segment_id \in DOMAIN thread_of_segment
  BY <1>1 DEF IInv, Invariants, inv_block_id_valid, inv_thread_of_segment2
<1>3. HasEnabled(t, b.page_id) /\ Pages(t)[b.page_id].shared_access = block[b].page_shared_access
      /\ b.idx < Pages(t)[b.page_id].num_blocks
  BY <1>2 DEF HasEnabled, block_properties
<1>4. b.idx \in Nat
  BY MimAssumption DEF IInv, TypeInv, BlockId
<1>5. Pages(t)[b.page_id].num_blocks # 0
  BY <1>3, <1>4
<1>6. \A u \in Threads : b.page_id \in DOMAIN Pages(u) => u = t
  BY <1>1, Owner
<1>. QED BY <1>1, <1>2, <1>3, <1>5, <1>6

\* The blocks of an interval of indices.
LEMMA RangeCount ==
  ASSUME NEW lo \in Nat, NEW hi \in Nat, lo < hi, NEW p, NEW size
  PROVE  /\ Cardinality(range_block_ids(lo, hi, p, size)) \in Nat
         /\ Cardinality(range_block_ids(lo, hi, p, size)) = hi - lo
<1>1. PICK I : I = lo .. hi - 1
  OBVIOUS
<1>2. PICK T : T = range_block_ids(lo, hi, p, size)
  OBVIOUS
<1>3. PICK f : f = [i \in I |-> [page_id |-> p, idx |-> i, block_size |-> size]]
  OBVIOUS
<1>4. IsFiniteSet(I) /\ Cardinality(I) = hi - lo
  <2>1. IsFiniteSet(I) /\ Cardinality(I) = IF lo > hi - 1 THEN 0 ELSE hi - 1 - lo + 1
    BY <1>1, FS_Interval
  <2>. QED BY <2>1
<1>5. f \in Bijection(I, T)
  <2>1. f \in [I -> T] /\ \A x \in T : \E i \in I : f[i] = x
    BY <1>1, <1>2, <1>3 DEF range_block_ids
  <2>2. ASSUME NEW i \in I, NEW j \in I, f[i] = f[j] PROVE i = j
    <3>1. f[i].idx = i /\ f[j].idx = j
      BY <1>3
    <3>. QED BY <2>2, <3>1
  <2>. QED BY <2>1, <2>2 DEF Bijection, Injection, Surjection, IsInjective
<1>6. ExistsBijection(I, T)
  BY <1>5 DEF ExistsBijection
<1>7. Cardinality(T) = Cardinality(I)
  BY <1>4, <1>6, FS_Bijection
<1>8. hi - lo \in Nat
  OBVIOUS
<1>. QED BY <1>2, <1>4, <1>7, <1>8

\* The page of a delay state is a page of its owner, and nobody else's.
LEMMA DelayOwner ==
  ASSUME IInv, NEW p \in DOMAIN delay
  PROVE  \E t \in Threads : /\ p \in PageId /\ p \in Ps(t)
                            /\ \A u \in Threads : p \in DOMAIN Pages(u) => u = t
<1>1. p \in DOMAIN heap_of_page
  BY DEF IInv, Invariants, inv_heap_of_page_delay
<1>2. PICK t : t = thread_of_segment[p.segment_id]
  OBVIOUS
<1>3. t \in Threads /\ p \in Ps(t)
  BY <1>1, <1>2 DEF IInv, Invariants, inv_thread_of_page2, OwnerHas, Ps
<1>4. p \in PageId /\ \A u \in Threads : p \in DOMAIN Pages(u) => u = t
  BY <1>2, <1>3, Owner DEF Ps
<1>. QED BY <1>3, <1>4

\* A step on the delay state of a page is seen by the owner of the page.
LEMMA DelaySeen ==
  ASSUME IInv, NEW p \in DOMAIN delay, NEW d, delay' = [delay EXCEPT ![p] = d],
         \A q : q # p => (q \in DOMAIN delay_actor' <=> q \in DOMAIN delay_actor),
         UNCHANGED <<thread_local_state, thread_checked_state, block, page_shared_access>>,
         NEW u \in Threads
  PROVE  \/ Seen(u)
         \/ /\ p \in PageId /\ p \in Ps(u) /\ DOMAIN De(u) = Ps(u) /\ De(u)[p] = delay[p]
            /\ At(u) = Ps(u) \cap DOMAIN delay_actor
            /\ View(u)' = Rec(Ps(u), En(u), Ac(u), Nu(u), Bl(u), OneHeap!Over(De(u), p, d),
                              Ps(u) \cap DOMAIN delay_actor', Ch(u))
<1>1. PICK t \in Threads : /\ p \in PageId /\ p \in Ps(t)
                           /\ \A w \in Threads : p \in DOMAIN Pages(w) => w = t
  BY DelayOwner
<1>2. \A q : q # p => delay'[q] = delay[q]
  OBVIOUS
<1>3. CASE u # t
  <2>1. p \notin Ps(u)
    BY <1>1, <1>3 DEF Ps
  <2>2. \A q \in Ps(u) : q # p
    BY <2>1
  <2>. QED BY <1>2, <2>2, NothingSeen DEF Pages
<1>4. CASE u = t
  <2>1. p \in Ps(u) /\ Ps(u)' = Ps(u)
    BY <1>1, <1>4 DEF Ps, Pages
  <2>2. En(u)' = En(u) /\ Nu(u)' = Nu(u) /\ Ch(u)' = Ch(u) /\ Ac(u)' = Ac(u) /\ Bl(u)' = Bl(u)
    BY <2>1 DEF En, Nu, Ch, Ac, Bl, Pages
  <2>3. At(u)' = Ps(u) \cap DOMAIN delay_actor'
    BY <2>1 DEF At
  <2>4. DOMAIN De(u) = Ps(u) /\ De(u)[p] = delay[p]
    BY <2>1 DEF De
  <2>5. De(u)' = OneHeap!Over(De(u), p, d)
    <3>1. \A q \in Ps(u) : delay'[q] = IF q = p THEN d ELSE De(u)[q]
      BY <1>2, <2>4 DEF De
    <3>2. DOMAIN De(u) \cup {p} = Ps(u)
      BY <2>1, <2>4
    <3>3. De(u)' = [q \in Ps(u) |-> delay'[q]]
      BY <2>1 DEF De
    <3>. QED BY <3>1, <3>2, <3>3 DEF OneHeap!Over
  <2>. QED BY <1>1, <2>1, <2>2, <2>3, <2>4, <2>5, ViewWillBe DEF At
<1>. QED BY <1>3, <1>4

LEMMA UseDelayedSeen ==
  ASSUME IInv, NEW p \in DOMAIN delay, set_use_delayed_free(p), NEW u \in Threads
  PROVE  Seen(u)
<1>1. /\ delay' = [delay EXCEPT ![p] = 0] /\ delay_actor' = delay_actor /\ delay[p] = 2
      /\ UNCHANGED <<thread_local_state, thread_checked_state, block, page_shared_access>>
  BY DEF set_use_delayed_free, SetDelay
<1>2. SUFFICES ASSUME /\ p \in PageId /\ p \in Ps(u) /\ DOMAIN De(u) = Ps(u)
                      /\ De(u)[p] = delay[p] /\ At(u) = Ps(u) \cap DOMAIN delay_actor
                      /\ View(u)' = Rec(Ps(u), En(u), Ac(u), Nu(u), Bl(u),
                           OneHeap!Over(De(u), p, 0), Ps(u) \cap DOMAIN delay_actor', Ch(u))
               PROVE  Seen(u)
  BY <1>1, DelaySeen
<1>3. PICK m, n : m = View(u) /\ n = View(u)'
  OBVIOUS
<1>4. m = Rec(Ps(u), En(u), Ac(u), Nu(u), Bl(u), De(u), At(u), Ch(u))
  BY <1>3, ViewIs
<1>5. n = OneHeap!set_use_delayed_free(m, p)
  BY <1>1, <1>2, <1>3, <1>4, SetUseIs
<1>6. OneHeap!CanSetUseDelayedFree(m, p)
  BY <1>1, <1>2, <1>4, RecParts DEF OneHeap!CanSetUseDelayedFree
<1>. QED BY <1>2, <1>3, <1>5, <1>6, Transitions DEF Seen

LEMMA LeaveFreeingSeen ==
  ASSUME IInv, NEW p \in DOMAIN delay, delay_leave_freeing(p), NEW u \in Threads
  PROVE  Seen(u)
<1>1. PICK A : A = DOMAIN delay_actor \ {p}
  OBVIOUS
<1>2. /\ delay' = [delay EXCEPT ![p] = 2] /\ DOMAIN delay_actor' = A
      /\ p \in DOMAIN delay_actor
      /\ UNCHANGED <<thread_local_state, thread_checked_state, block, page_shared_access>>
  BY <1>1 DEF delay_leave_freeing, CanLeaveFreeing, SetDelay, Drop
<1>3. delay[p] = 1
  BY <1>2 DEF IInv, Invariants, inv_delay_state
<1>q. \A q : q # p => (q \in DOMAIN delay_actor' <=> q \in DOMAIN delay_actor)
  BY <1>1, <1>2
<1>4. SUFFICES ASSUME /\ p \in PageId /\ p \in Ps(u) /\ DOMAIN De(u) = Ps(u)
                      /\ De(u)[p] = delay[p] /\ At(u) = Ps(u) \cap DOMAIN delay_actor
                      /\ View(u)' = Rec(Ps(u), En(u), Ac(u), Nu(u), Bl(u),
                           OneHeap!Over(De(u), p, 2), Ps(u) \cap DOMAIN delay_actor', Ch(u))
               PROVE  Seen(u)
  <2>1. \/ Seen(u)
        \/ /\ p \in PageId /\ p \in Ps(u) /\ DOMAIN De(u) = Ps(u) /\ De(u)[p] = delay[p]
           /\ At(u) = Ps(u) \cap DOMAIN delay_actor
           /\ View(u)' = Rec(Ps(u), En(u), Ac(u), Nu(u), Bl(u), OneHeap!Over(De(u), p, 2),
                             Ps(u) \cap DOMAIN delay_actor', Ch(u))
    <3>1. PICK d : d = 2
      OBVIOUS
    <3>2. /\ delay' = [delay EXCEPT ![p] = d]
          /\ UNCHANGED <<thread_local_state, thread_checked_state, block, page_shared_access>>
      BY <1>2, <3>1
    <3>3. \/ Seen(u)
          \/ /\ p \in PageId /\ p \in Ps(u) /\ DOMAIN De(u) = Ps(u) /\ De(u)[p] = delay[p]
             /\ At(u) = Ps(u) \cap DOMAIN delay_actor
             /\ View(u)' = Rec(Ps(u), En(u), Ac(u), Nu(u), Bl(u), OneHeap!Over(De(u), p, d),
                               Ps(u) \cap DOMAIN delay_actor', Ch(u))
      BY <1>q, <3>2, DelaySeen
    <3>. QED BY <3>1, <3>3
  <2>. QED BY <2>1
<1>5. PICK m, n : m = View(u) /\ n = View(u)'
  OBVIOUS
<1>6. m = Rec(Ps(u), En(u), Ac(u), Nu(u), Bl(u), De(u), At(u), Ch(u))
  BY <1>5, ViewIs
<1>7. Ps(u) \cap DOMAIN delay_actor' = At(u) \ {p} /\ p \in At(u)
  BY <1>1, <1>2, <1>4
<1>8. n = OneHeap!delay_leave_freeing(m, p)
  BY <1>4, <1>5, <1>6, <1>7, LeaveIs
<1>9. OneHeap!CanLeaveFreeing(m, p)
  BY <1>3, <1>4, <1>6, <1>7, RecParts DEF OneHeap!CanLeaveFreeing
<1>. QED BY <1>4, <1>5, <1>8, <1>9, Transitions DEF Seen

LEMMA EnterFreeingSeen ==
  ASSUME IInv, NEW b \in DOMAIN block, delay_enter_freeing(b.page_id, b), NEW u \in Threads
  PROVE  Seen(u)
<1>1. PICK p : p = b.page_id
  OBVIOUS
<1>2. PICK A : A = DOMAIN delay_actor \cup {p}
  OBVIOUS
<1>3. /\ delay' = [delay EXCEPT ![p] = 1] /\ DOMAIN delay_actor' = A
      /\ p \in DOMAIN delay /\ delay[p] = 0
      /\ UNCHANGED <<thread_local_state, thread_checked_state, block, page_shared_access>>
  BY <1>1, <1>2 DEF delay_enter_freeing, CanEnterFreeing, SetDelay, Put
<1>4. p \notin DOMAIN delay_actor /\ b \in BlockId
  BY <1>3 DEF IInv, TypeInv, Invariants, inv_delay_state
<1>q. \A q : q # p => (q \in DOMAIN delay_actor' <=> q \in DOMAIN delay_actor)
  BY <1>2, <1>3
<1>5. SUFFICES ASSUME /\ p \in PageId /\ p \in Ps(u) /\ DOMAIN De(u) = Ps(u)
                      /\ De(u)[p] = delay[p] /\ At(u) = Ps(u) \cap DOMAIN delay_actor
                      /\ View(u)' = Rec(Ps(u), En(u), Ac(u), Nu(u), Bl(u),
                           OneHeap!Over(De(u), p, 1), Ps(u) \cap DOMAIN delay_actor', Ch(u))
               PROVE  Seen(u)
  <2>1. \/ Seen(u)
        \/ /\ p \in PageId /\ p \in Ps(u) /\ DOMAIN De(u) = Ps(u) /\ De(u)[p] = delay[p]
           /\ At(u) = Ps(u) \cap DOMAIN delay_actor
           /\ View(u)' = Rec(Ps(u), En(u), Ac(u), Nu(u), Bl(u), OneHeap!Over(De(u), p, 1),
                             Ps(u) \cap DOMAIN delay_actor', Ch(u))
    BY <1>q, <1>3, DelaySeen
  <2>. QED BY <2>1
<1>6. PICK m, n : m = View(u) /\ n = View(u)'
  OBVIOUS
<1>7. m = Rec(Ps(u), En(u), Ac(u), Nu(u), Bl(u), De(u), At(u), Ch(u))
  BY <1>6, ViewIs
<1>8. Ps(u) \cap DOMAIN delay_actor' = At(u) \cup {p} /\ p \notin At(u) /\ b \in Bl(u)
  BY <1>1, <1>2, <1>3, <1>4, <1>5 DEF Bl
<1>9. n = OneHeap!delay_enter_freeing(m, p)
  BY <1>5, <1>6, <1>7, <1>8, EnterIs
<1>10. OneHeap!CanEnterFreeing(m, p, b)
  <2>1. m.delay = De(u) /\ m.block = Bl(u) /\ m.actor = At(u)
    BY <1>7, RecParts
  <2>. QED BY <1>1, <1>3, <1>4, <1>5, <1>8, <2>1 DEF OneHeap!CanEnterFreeing
<1>. QED BY <1>4, <1>5, <1>6, <1>9, <1>10, Transitions DEF Seen

LEMMA CheckDelaySeen ==
  ASSUME IInv, NEW t \in ThreadId, NEW p \in PageId, page_check_delay_state(t, p),
         NEW u \in Threads
  PROVE  Seen(u)
<1>1. /\ t \in Threads /\ p \in DOMAIN Pages(t) /\ Pages(t)[p].num_blocks = 0
      /\ p \in DOMAIN delay /\ delay[p] # 1
      /\ thread_checked_state' = [thread_checked_state EXCEPT ![t] = @ \cup {p}]
      /\ UNCHANGED <<pagetok, thread_local_state>>
  BY DEF page_check_delay_state, Threads
<1>2. CASE u # t
  BY <1>1, <1>2, NothingSeen DEF pagetok, Pages
<1>3. CASE u = t
  <2>1. p \in Ps(t) /\ Ps(t)' = Ps(t)
    BY <1>1, DelayOwner DEF Ps, Pages
  <2>2. En(t)' = En(t) /\ Nu(t)' = Nu(t) /\ Ac(t)' = Ac(t) /\ Bl(t)' = Bl(t) /\ De(t)' = De(t)
        /\ At(t)' = At(t)
    BY <1>1, <2>1 DEF En, Nu, Ac, Bl, De, At, Pages, pagetok
  <2>3. Ch(t)' = Ch(t) \cup {p}
    BY <1>1 DEF Ch, IInv, Invariants, inv_checked_threads
  <2>4. PICK m, n : m = View(t) /\ n = View(t)'
    OBVIOUS
  <2>5. /\ m = Rec(Ps(t), En(t), Ac(t), Nu(t), Bl(t), De(t), At(t), Ch(t))
        /\ n = Rec(Ps(t), En(t), Ac(t), Nu(t), Bl(t), De(t), At(t), Ch(t) \cup {p})
    BY <2>1, <2>2, <2>3, <2>4, ViewIs, ViewWillBe
  <2>6. n = OneHeap!page_check_delay_state(m, p)
    BY <2>5, CheckIs
  <2>7. OneHeap!CanCheckDelay(m, p)
    <3>1. m.pages = Ps(t) /\ m.num = Nu(t) /\ m.delay = De(t)
      BY <2>5, RecParts
    <3>2. Nu(t)[p] = 0 /\ p \in DOMAIN De(t) /\ De(t)[p] # 1
      BY <1>1, <2>1 DEF Nu, De
    <3>. QED BY <2>1, <3>1, <3>2 DEF OneHeap!CanCheckDelay
  <2>. QED BY <1>3, <2>4, <2>6, <2>7, Transitions DEF Seen
<1>. QED BY <1>2, <1>3

-----------------------------------------------------------------------------
(* Threads and segments                                                     *)

\* Everything is kept when neither the threads nor the tokens change.
LEMMA QuietHeap ==
  ASSUME IInv, UNCHANGED <<pagetok, segtok, thread_local_state, thread_checked_state>>,
         UNCHANGED <<heap_shared_access, heap_to_thread>>
  PROVE  SegmentInv' /\ PageInv' /\ DelayInv' /\ BlockInv'
<1>. USE DEF pagetok, segtok
<1>1. SegmentInv /\ PageInv /\ DelayInv /\ BlockInv
  BY Grouped DEF IInv
<1>2. SegmentInv'
  BY <1>1 DEF SegmentInv, Threads, Segments, inv_thread_of_segment1, inv_thread_of_segment2,
     inv_segment_shared_access_dom, inv_segment_shared_access_eq
<1>3. PageInv'
  BY PageFrame DEF Threads, Pages, Segments
<1>4. inv_no_delay_actor_for_checked'
  BY <1>1 DEF DelayInv, Threads, Pages, inv_no_delay_actor_for_checked
<1>5. DelayInv'
  BY <1>4, ActorFrame DEF Threads, Pages, Segments, HasEnabled
<1>6. \A b \in DOMAIN block : block[b].heap_id
        \in {None, thread_local_state[thread_of_segment[b.page_id.segment_id]].heap_id}
  BY <1>1 DEF BlockInv, inv_block_id_valid, block_properties
<1>7. BlockInv'
  BY <1>6, BlockFrame DEF Threads, Pages, Segments, HasEnabled
<1>. QED BY <1>2, <1>3, <1>5, <1>7

LEMMA StepSetInst == ASSUME IInv, set_inst PROVE IInv'
<1>1. SegmentInv' /\ PageInv' /\ DelayInv' /\ BlockInv'
  BY QuietHeap DEF set_inst
<1>2. TypeInv'
  BY DEF IInv, set_inst, TypeInv, ThreadTypes, ThreadType, Threads, pagetok, segtok
<1>3. HeapInv
  BY Grouped DEF IInv
<1>4. HeapInv'
  BY <1>3 DEF set_inst, HeapInv, inv_reserved2, inv_right_to_set_inst, inv_checked_threads,
     right_to_use_thread_complement, heap_of_thread_is_valid, Threads,
     wf_heap_shared_access_requires_inst, heap_ids_thread_id1, heap_ids_thread_id2,
     inv_heap_shared_access
<1>. QED BY <1>1, <1>2, <1>4, Regroup

\* A heap id is reserved once.
LEMMA StepReserve == ASSUME IInv, reserve_uniq_identifier PROVE IInv'
<1>1. SegmentInv' /\ PageInv' /\ DelayInv' /\ BlockInv'
  BY QuietHeap DEF reserve_uniq_identifier
<1>2. TypeInv'
  BY DEF IInv, reserve_uniq_identifier, TypeInv, ThreadTypes, ThreadType, Threads, pagetok, segtok
<1>3. HeapInv
  BY Grouped DEF IInv
<1>4. heap_get_unused_uniq_field \notin DOMAIN heap_shared_access \cup reserved_uniq
  BY UniqMaxFresh, MimAssumption DEF IInv, TypeInv, HeapId, heap_get_unused_uniq_field
<1>5. HeapInv'
  BY <1>3, <1>4 DEF reserve_uniq_identifier, HeapInv, inv_reserved2, inv_right_to_set_inst, inv_checked_threads,
     right_to_use_thread_complement, heap_of_thread_is_valid, Threads,
     wf_heap_shared_access_requires_inst, heap_ids_thread_id1, heap_ids_thread_id2,
     inv_heap_shared_access
<1>. QED BY <1>1, <1>2, <1>5, Regroup

\* A thread starts with a heap that nobody has, and with nothing else.
LEMMA StepCreateThread ==
  ASSUME IInv, NEW t \in ThreadId, NEW h \in HeapId, NEW access \in Access,
         create_thread_mk_tokens(t, h, access)
  PROVE  IInv' /\ \A u \in Threads : Seen(u)
<1>. USE DEF pagetok, segtok
<1>1. HeapInv /\ SegmentInv /\ PageInv /\ DelayInv /\ BlockInv
  BY Grouped DEF IInv
<1>2. t \notin Threads /\ h \notin DOMAIN heap_shared_access /\ h \notin DOMAIN heap_to_thread
      /\ my_inst
  BY <1>1 DEF create_thread_mk_tokens, CanCreateThread, HeapInv, right_to_use_thread_complement,
     inv_reserved2, heap_ids_thread_id2, heap_of_thread_is_valid
<1>3. PICK w : w = [heap_id |-> h, heap |-> access, segments |-> Empty, pages |-> Empty]
  OBVIOUS
<1>4. /\ w.heap_id = h /\ w.heap = access /\ DOMAIN w.segments = {} /\ DOMAIN w.pages = {}
      /\ ThreadType(w)
  BY <1>3 DEF ThreadType, Empty
<1>5. /\ DOMAIN thread_local_state' = Threads \cup {t}
      /\ thread_local_state'[t] = w
      /\ \A u \in Threads : thread_local_state'[u] = thread_local_state[u]
  BY <1>2, <1>3 DEF create_thread_mk_tokens, Put, Threads
<1>6. /\ DOMAIN heap_shared_access' = DOMAIN heap_shared_access \cup {h}
      /\ heap_shared_access'[h] = access
      /\ \A g \in DOMAIN heap_shared_access : heap_shared_access'[g] = heap_shared_access[g]
      /\ DOMAIN heap_to_thread' = DOMAIN heap_to_thread \cup {h}
      /\ heap_to_thread'[h] = t
      /\ \A g \in DOMAIN heap_to_thread : heap_to_thread'[g] = heap_to_thread[g]
  BY <1>2 DEF create_thread_mk_tokens, Put
<1>7. /\ DOMAIN thread_checked_state' = DOMAIN thread_checked_state \cup {t}
      /\ \A u \in Threads : thread_checked_state'[u] = thread_checked_state[u]
  BY <1>1, <1>2 DEF create_thread_mk_tokens, Put, HeapInv, inv_checked_threads
<1>8. TypeInv'
  <2>1. ThreadTypes'
    BY <1>4, <1>5 DEF IInv, TypeInv, ThreadTypes, ThreadType, Threads
  <2>. QED BY <1>5, <1>6, <2>1 DEF IInv, TypeInv, Threads, create_thread_mk_tokens
<1>9. HeapInv'
  <2>1. inv_reserved2' /\ inv_right_to_set_inst' /\ inv_checked_threads'
    BY <1>1, <1>5, <1>6, <1>7 DEF HeapInv, Threads, inv_reserved2, inv_right_to_set_inst,
       inv_checked_threads, create_thread_mk_tokens
  <2>2. right_to_use_thread_complement' /\ wf_heap_shared_access_requires_inst'
    BY <1>1, <1>2, <1>5 DEF HeapInv, Threads, create_thread_mk_tokens,
       right_to_use_thread_complement, wf_heap_shared_access_requires_inst
  <2>3. heap_of_thread_is_valid' /\ inv_heap_shared_access'
    BY <1>1, <1>2, <1>4, <1>5, <1>6 DEF HeapInv, Threads, heap_of_thread_is_valid,
       inv_heap_shared_access
  <2>4. heap_ids_thread_id1' /\ heap_ids_thread_id2'
    BY <1>1, <1>2, <1>4, <1>5, <1>6 DEF HeapInv, Threads, heap_ids_thread_id1,
       heap_ids_thread_id2
  <2>. QED BY <2>1, <2>2, <2>3, <2>4 DEF HeapInv
<1>10. SegmentInv'
  BY <1>1, <1>4, <1>5, SegmentFrame DEF create_thread_mk_tokens, Threads
<1>11. PageInv'
  BY <1>4, <1>5, PageFrame DEF create_thread_mk_tokens, Threads, Pages, Segments
<1>12. inv_no_delay_actor_for_checked'
  BY <1>1, <1>4, <1>5, <1>7 DEF create_thread_mk_tokens, DelayInv, Threads, Pages,
     inv_no_delay_actor_for_checked
<1>13. DelayInv'
  BY <1>5, <1>6, <1>12, ActorFrame DEF create_thread_mk_tokens, Threads, Pages, HasEnabled
<1>14. \A b \in DOMAIN block : block[b].heap_id
        \in {None, thread_local_state[thread_of_segment[b.page_id.segment_id]].heap_id}
  BY <1>1 DEF BlockInv, inv_block_id_valid, block_properties
<1>15. BlockInv'
  BY <1>5, <1>14, BlockFrame DEF create_thread_mk_tokens, Threads, Pages, Segments, HasEnabled
<1>v. \A u \in Threads : Seen(u)
  BY <1>5, <1>7, NothingSeen DEF create_thread_mk_tokens, Pages
<1>s. IInv'
  BY <1>8, <1>9, <1>10, <1>11, <1>13, <1>15, Regroup
<1>. QED BY <1>s, <1>v

\* A new segment is new to every thread.
LEMMA StepCreateSegment ==
  ASSUME IInv, NEW t \in ThreadId, create_segment_mk_tokens(t)
  PROVE  IInv' /\ \A u \in Threads : Seen(u)
<1>. USE DEF pagetok, segtok
<1>1. HeapInv /\ SegmentInv /\ PageInv /\ DelayInv /\ BlockInv
  BY Grouped DEF IInv
<1>2. PICK s : s = mk_fresh_segment_id
  OBVIOUS
<1>3. t \in Threads /\ s \in SegmentId /\ s \notin DOMAIN thread_of_segment
  <2>1. UniqMax(DOMAIN thread_of_segment) + 1 \notin DOMAIN thread_of_segment
    BY UniqMaxFresh, MimAssumption DEF IInv, TypeInv, SegmentId
  <2>. QED BY <1>2, <2>1 DEF create_segment_mk_tokens, mk_fresh_segment_id, Threads
<1>4. PICK r : r = [shared_access |-> None, is_enabled |-> FALSE]
  OBVIOUS
<1>5. PICK f : f = Put(thread_local_state[t].segments, s, r)
  OBVIOUS
<1>6. /\ DOMAIN f = DOMAIN Segments(t) \cup {s} /\ f[s] = r
      /\ \A x \in DOMAIN Segments(t) : x # s => f[x] = Segments(t)[x]
  BY <1>5 DEF Put, Segments
<1>7. ~ r.is_enabled /\ r \in SegRec
  BY <1>4 DEF SegRec
<1>8. s \notin DOMAIN Segments(t)
  BY <1>1, <1>3 DEF SegmentInv, inv_thread_of_segment1
<1>9. DOMAIN f \subseteq SegmentId /\ \A x \in DOMAIN f : f[x] \in SegRec
  BY <1>3, <1>6, <1>7 DEF IInv, TypeInv, ThreadTypes, ThreadType, Segments
<1>10. /\ DOMAIN thread_local_state' = Threads
       /\ ThreadTypes'
       /\ \A u \in Threads :
            /\ thread_local_state'[u].heap_id = thread_local_state[u].heap_id
            /\ thread_local_state'[u].heap = thread_local_state[u].heap
            /\ thread_local_state'[u].pages = thread_local_state[u].pages
       /\ thread_local_state'[t].segments = f
       /\ \A u \in Threads : u # t =>
            thread_local_state'[u].segments = thread_local_state[u].segments
  <2>1. thread_local_state' = [thread_local_state EXCEPT ![t].segments = f]
    BY <1>2, <1>4, <1>5 DEF create_segment_mk_tokens
  <2>2. ThreadTypes
    BY DEF IInv, TypeInv
  <2>. QED BY <1>3, <1>9, <2>1, <2>2, SetSegmentsIs
<1>11. /\ DOMAIN thread_of_segment' = DOMAIN thread_of_segment \cup {s}
       /\ thread_of_segment'[s] = t
       /\ \A x \in DOMAIN thread_of_segment : thread_of_segment'[x] = thread_of_segment[x]
  BY <1>2, <1>3 DEF Put, create_segment_mk_tokens
<1>12. TypeInv'
  BY <1>3, <1>10, <1>11 DEF IInv, TypeInv, Threads, create_segment_mk_tokens, heaptok
<1>13. HeapInv'
  BY <1>1, <1>10, HeapFrame DEF create_segment_mk_tokens
<1>14. SegmentInv'
  <2>1. inv_thread_of_segment1' /\ inv_thread_of_segment2'
    BY <1>1, <1>3, <1>6, <1>10, <1>11 DEF SegmentInv, Threads, Segments,
       inv_thread_of_segment1, inv_thread_of_segment2
  <2>2. \A x \in DOMAIN thread_of_segment :
          Segments(thread_of_segment[x])'[x] = Segments(thread_of_segment[x])[x]
    BY <1>1, <1>3, <1>6, <1>10, <1>11 DEF SegmentInv, Threads, Segments, inv_thread_of_segment2
  <2>3. ~ Segments(t)'[s].is_enabled
    BY <1>6, <1>7, <1>10 DEF Segments
  <2>4. inv_segment_shared_access_dom' /\ inv_segment_shared_access_eq'
    BY <1>1, <1>11, <2>2, <2>3 DEF SegmentInv, Segments, inv_segment_shared_access_dom,
       inv_segment_shared_access_eq, create_segment_mk_tokens
  <2>. QED BY <2>1, <2>4 DEF SegmentInv
<1>15. \A u \in Threads : \A x \in DOMAIN Segments(u) :
         x \in DOMAIN thread_local_state'[u].segments
         /\ thread_local_state'[u].segments[x] = Segments(u)[x]
  BY <1>6, <1>8, <1>10 DEF Segments
<1>16. PageInv'
  BY <1>10, <1>11, <1>15, PageFrame DEF create_segment_mk_tokens, Threads, Pages
<1>17. inv_no_delay_actor_for_checked'
  BY <1>1, <1>10 DEF create_segment_mk_tokens, DelayInv, Threads, Pages,
     inv_no_delay_actor_for_checked
<1>18. DelayInv'
  BY <1>10, <1>11, <1>17, ActorFrame
     DEF create_segment_mk_tokens, Threads, Pages, HasEnabled, heaptok
<1>19. \A b \in DOMAIN block : block[b].heap_id
        \in {None, thread_local_state[thread_of_segment[b.page_id.segment_id]].heap_id}
  BY <1>1 DEF BlockInv, inv_block_id_valid, block_properties
<1>20. BlockInv'
  BY <1>10, <1>11, <1>15, <1>19, BlockFrame DEF create_segment_mk_tokens, Threads, Pages, HasEnabled
<1>v. \A u \in Threads : Seen(u)
  BY <1>10, NothingSeen DEF create_segment_mk_tokens, Pages
<1>s. IInv'
  BY <1>12, <1>13, <1>14, <1>16, <1>18, <1>20, Regroup
<1>. QED BY <1>s, <1>v

\* A segment is enabled once; nothing lies in it before.
LEMMA StepEnableSegment ==
  ASSUME IInv, NEW t \in ThreadId, NEW s \in SegmentId, NEW access \in Access,
         segment_enable(t, s, access)
  PROVE  IInv' /\ \A u \in Threads : Seen(u)
<1>. USE DEF pagetok, segtok
<1>1. HeapInv /\ SegmentInv /\ PageInv /\ DelayInv /\ BlockInv
  BY Grouped DEF IInv
<1>2. thread_of_segment' = thread_of_segment
  BY DEF segment_enable
<1>3. t \in Threads /\ s \in DOMAIN Segments(t) /\ ~ Segments(t)[s].is_enabled
  BY DEF segment_enable, CanEnableSegment, Threads
<1>4. PICK r : r = [shared_access |-> access, is_enabled |-> TRUE]
  OBVIOUS
<1>5. PICK f : f = Put(thread_local_state[t].segments, s, r)
  OBVIOUS
<1>6. /\ DOMAIN f = DOMAIN Segments(t) /\ f[s] = r
      /\ \A x \in DOMAIN Segments(t) : x # s => f[x] = Segments(t)[x]
  BY <1>3, <1>5 DEF Put, Segments
<1>7. r.is_enabled /\ r.shared_access = access /\ r \in SegRec
  BY <1>4 DEF SegRec
<1>8. s \in DOMAIN thread_of_segment /\ thread_of_segment[s] = t
      /\ s \notin DOMAIN segment_shared_access
  BY <1>1, <1>3 DEF SegmentInv, inv_thread_of_segment1, inv_segment_shared_access_dom
<1>9. DOMAIN f \subseteq SegmentId /\ \A x \in DOMAIN f : f[x] \in SegRec
  BY <1>3, <1>6, <1>7 DEF IInv, TypeInv, ThreadTypes, ThreadType, Segments
<1>10. /\ DOMAIN thread_local_state' = Threads
       /\ ThreadTypes'
       /\ \A u \in Threads :
            /\ thread_local_state'[u].heap_id = thread_local_state[u].heap_id
            /\ thread_local_state'[u].heap = thread_local_state[u].heap
            /\ thread_local_state'[u].pages = thread_local_state[u].pages
       /\ thread_local_state'[t].segments = f
       /\ \A u \in Threads : u # t =>
            thread_local_state'[u].segments = thread_local_state[u].segments
  <2>1. thread_local_state' = [thread_local_state EXCEPT ![t].segments = f]
    BY <1>4, <1>5 DEF segment_enable
  <2>2. ThreadTypes
    BY DEF IInv, TypeInv
  <2>. QED BY <1>3, <1>9, <2>1, <2>2, SetSegmentsIs
<1>11. /\ DOMAIN segment_shared_access' = DOMAIN segment_shared_access \cup {s}
       /\ segment_shared_access'[s] = access
       /\ \A x \in DOMAIN segment_shared_access :
            segment_shared_access'[x] = segment_shared_access[x]
  BY <1>8 DEF Put, segment_enable
<1>12. TypeInv'
  BY <1>3, <1>10 DEF IInv, TypeInv, Threads, segment_enable, heaptok
<1>13. HeapInv'
  BY <1>1, <1>10, HeapFrame DEF segment_enable
<1>14. SegmentInv'
  <2>1. inv_thread_of_segment1' /\ inv_thread_of_segment2'
    BY <1>1, <1>2, <1>3, <1>6, <1>10 DEF SegmentInv, Threads, Segments,
       inv_thread_of_segment1, inv_thread_of_segment2
  <2>2. \A x \in DOMAIN thread_of_segment : x # s =>
          Segments(thread_of_segment[x])'[x] = Segments(thread_of_segment[x])[x]
    BY <1>1, <1>2, <1>3, <1>6, <1>10 DEF SegmentInv, Threads, Segments,
       inv_thread_of_segment2
  <2>3. Segments(t)'[s].is_enabled /\ Segments(t)'[s].shared_access = access
    BY <1>6, <1>7, <1>10 DEF Segments
  <2>4. inv_segment_shared_access_dom'
    BY <1>1, <1>8, <1>11, <2>2, <2>3 DEF SegmentInv, Segments, segment_enable,
       inv_segment_shared_access_dom
  <2>5. inv_segment_shared_access_eq'
    BY <1>1, <1>8, <1>11, <2>2, <2>3 DEF SegmentInv, Segments, segment_enable,
       inv_segment_shared_access_dom, inv_segment_shared_access_eq
  <2>. QED BY <2>1, <2>4, <2>5 DEF SegmentInv
<1>15. \A u \in Threads : \A x \in DOMAIN Segments(u) :
         /\ x \in DOMAIN thread_local_state'[u].segments
         /\ Segments(u)[x].is_enabled => thread_local_state'[u].segments[x] = Segments(u)[x]
  BY <1>3, <1>6, <1>10 DEF Segments
<1>16. PageInv'
  BY <1>10, <1>15, PageFrame DEF segment_enable, Threads, Pages
<1>17. inv_no_delay_actor_for_checked'
  BY <1>1, <1>10 DEF segment_enable, DelayInv, Threads, Pages,
     inv_no_delay_actor_for_checked
<1>18. DelayInv'
  BY <1>10, <1>17, ActorFrame
     DEF segment_enable, Threads, Pages, HasEnabled, heaptok
<1>19. \A b \in DOMAIN block : block[b].heap_id
        \in {None, thread_local_state[thread_of_segment[b.page_id.segment_id]].heap_id}
  BY <1>1 DEF BlockInv, inv_block_id_valid, block_properties
<1>20. BlockInv'
  BY <1>10, <1>15, <1>19, BlockFrame DEF segment_enable, Threads, Pages, HasEnabled
<1>v. \A u \in Threads : Seen(u)
  BY <1>10, NothingSeen DEF segment_enable, Pages
<1>s. IInv'
  BY <1>12, <1>13, <1>14, <1>16, <1>18, <1>20, Regroup
<1>. QED BY <1>s, <1>v

-----------------------------------------------------------------------------
(* The delay state                                                          *)

\* A step of the delay states leaves the rest alone.
LEMMA QuietDelay ==
  ASSUME IInv, DOMAIN delay' = DOMAIN delay,
         UNCHANGED <<heaptok, segtok, thread_local_state, thread_checked_state, block,
                     heap_of_page, page_shared_access>>,
         DelayInv'
  PROVE  IInv'
<1>1. HeapInv /\ SegmentInv /\ PageInv /\ DelayInv /\ BlockInv
  BY Grouped DEF IInv
<1>2. TypeInv'
  BY DEF IInv, TypeInv, ThreadTypes, ThreadType, Threads, heaptok, segtok
<1>3. HeapInv'
  BY <1>1, HeapFrame DEF Threads
<1>4. SegmentInv'
  BY <1>1, SegmentFrame DEF Threads
<1>5. PageInv'
  BY PageFrame DEF Threads, Pages, Segments, segtok
<1>6. \A b \in DOMAIN block : block[b].heap_id
        \in {None, thread_local_state[thread_of_segment[b.page_id.segment_id]].heap_id}
  BY <1>1 DEF BlockInv, inv_block_id_valid, block_properties
<1>7. BlockInv'
  BY <1>6, BlockFrame DEF Threads, Pages, Segments, HasEnabled, segtok
<1>. QED BY <1>2, <1>3, <1>4, <1>5, <1>7, Regroup

\* A delay_actor that stays is right after such a step.
LEMMA ActorStays ==
  ASSUME IInv, UNCHANGED <<thread_local_state, thread_of_segment, heap_shared_access, heap_to_thread>>,
         NEW p \in DOMAIN delay_actor, delay_actor'[p] = delay_actor[p]
  PROVE  inv_delay_actor_for_page(p)'
<1>1. inv_delay_actor_for_page(p)
  BY DEF IInv, Invariants, inv_delay_actor
<1>2. CASE delay_actor[p] = None
  BY <1>1, <1>2 DEF inv_delay_actor_for_page, HasEnabled, Threads, Pages
<1>3. CASE delay_actor[p] # None
  BY <1>1, <1>3 DEF inv_delay_actor_for_page, HasEnabled, Threads, Pages
<1>. QED BY <1>2, <1>3

LEMMA StepUseDelayed ==
  ASSUME IInv, NEW p \in DOMAIN delay, set_use_delayed_free(p)
  PROVE  IInv'
<1>. USE DEF set_use_delayed_free, SetDelay, segtok, heaptok
<1>1. DelayInv
  BY Grouped DEF IInv
<1>2. DOMAIN delay' = DOMAIN delay /\ p \notin DOMAIN delay_actor
  BY <1>1 DEF DelayInv, inv_delay_state
<1>3. inv_delay_state' /\ inv_delay_actor_sub'
  BY <1>1, <1>2 DEF DelayInv, inv_delay_state, inv_delay_actor_sub
<1>4. inv_delay_actor'
  BY ActorStays DEF inv_delay_actor
<1>5. inv_no_delay_actor_for_checked'
  BY <1>1 DEF DelayInv, inv_no_delay_actor_for_checked, Threads, Pages
<1>6. DelayInv'
  BY <1>3, <1>4, <1>5 DEF DelayInv
<1>. QED BY <1>2, <1>6, QuietDelay

\* Freeing is entered with a block in hand: the page has an owner and is enabled.
LEMMA StepEnterFreeing ==
  ASSUME IInv, NEW b \in DOMAIN block, delay_enter_freeing(b.page_id, b)
  PROVE  IInv'
<1>. USE DEF delay_enter_freeing, SetDelay, segtok, heaptok
<1>1. DelayInv
  BY Grouped DEF IInv
<1>2. PICK p : p = b.page_id
  OBVIOUS
<1>3. DOMAIN delay' = DOMAIN delay /\ p \notin DOMAIN delay_actor /\ p \in DOMAIN delay
  BY <1>1, <1>2 DEF CanEnterFreeing, DelayInv, inv_delay_state
<1>4. /\ DOMAIN delay_actor' = DOMAIN delay_actor \cup {p} /\ delay_actor'[p] = None
      /\ \A x \in DOMAIN delay_actor : x # p => delay_actor'[x] = delay_actor[x]
  BY <1>2 DEF Put
<1>5. inv_delay_state' /\ inv_delay_actor_sub'
  BY <1>1, <1>2, <1>3, <1>4 DEF DelayInv, inv_delay_state, inv_delay_actor_sub
<1>6. PICK t \in Threads :
           /\ p.segment_id \in DOMAIN thread_of_segment
           /\ thread_of_segment[p.segment_id] = t
           /\ HasEnabled(t, p)
           /\ Pages(t)[p].num_blocks # 0
           /\ \A u \in Threads : p \in DOMAIN Pages(u) => u = t
  BY <1>2, BlockOwner
<1>7. inv_delay_actor_for_page(p)'
  BY <1>4, <1>6 DEF inv_delay_actor_for_page, HasEnabled, Threads, Pages
<1>8. inv_delay_actor'
  BY <1>3, <1>4, <1>7, ActorStays DEF inv_delay_actor
<1>9. inv_no_delay_actor_for_checked'
  BY <1>1, <1>4, <1>6 DEF DelayInv, inv_no_delay_actor_for_checked, Threads, Pages
<1>10. DelayInv'
  BY <1>5, <1>8, <1>9 DEF DelayInv
<1>. QED BY <1>3, <1>10, QuietDelay

LEMMA StepLeaveFreeing ==
  ASSUME IInv, NEW p \in DOMAIN delay, delay_leave_freeing(p)
  PROVE  IInv'
<1>. USE DEF delay_leave_freeing, SetDelay, segtok, heaptok
<1>1. DelayInv
  BY Grouped DEF IInv
<1>2. DOMAIN delay' = DOMAIN delay
  OBVIOUS
<1>3. /\ DOMAIN delay_actor' = DOMAIN delay_actor \ {p}
      /\ \A x \in DOMAIN delay_actor' : delay_actor'[x] = delay_actor[x]
  BY DEF Drop
<1>4. inv_delay_state' /\ inv_delay_actor_sub'
  BY <1>1, <1>2, <1>3 DEF DelayInv, inv_delay_state, inv_delay_actor_sub
<1>5. inv_delay_actor'
  BY <1>3, ActorStays DEF inv_delay_actor
<1>6. inv_no_delay_actor_for_checked'
  BY <1>1, <1>3 DEF DelayInv, inv_no_delay_actor_for_checked, Threads, Pages
<1>7. DelayInv'
  BY <1>4, <1>5, <1>6 DEF DelayInv
<1>. QED BY <1>2, <1>7, QuietDelay

\* The heap that the word names is the heap of the page's owner.
LEMMA StepLookupHeap ==
  ASSUME IInv, NEW b \in DOMAIN block, delay_lookup_heap(b)
  PROVE  IInv'
<1>. USE DEF segtok, heaptok
<1>1. DelayInv /\ HeapInv /\ PageInv
  BY Grouped DEF IInv
<1>2. PICK p : p = b.page_id
  OBVIOUS
<1>3. PICK h : h = heap_of_page[p]
  OBVIOUS
<1>4. PICK a : a = [heap_id |-> h, heap |-> heap_shared_access[h],
                    page |-> block[b].page_shared_access]
  OBVIOUS
<1>5. /\ DOMAIN delay_actor' = DOMAIN delay_actor /\ p \in DOMAIN delay_actor
      /\ delay_actor'[p] = a /\ p \in DOMAIN heap_of_page
      /\ \A x \in DOMAIN delay_actor : x # p => delay_actor'[x] = delay_actor[x]
  BY <1>2, <1>3, <1>4 DEF delay_lookup_heap, CanLookupHeap, Put
<1>6. PICK t \in Threads :
           /\ p.segment_id \in DOMAIN thread_of_segment
           /\ thread_of_segment[p.segment_id] = t
           /\ HasEnabled(t, p)
           /\ Pages(t)[p].shared_access = block[b].page_shared_access
  BY <1>2, BlockOwner
<1>7. h = thread_local_state[t].heap_id
  BY <1>1, <1>3, <1>5, <1>6 DEF PageInv, PlaceInv, heap_of_page_is_correct
<1>8. h \in DOMAIN heap_shared_access \cap DOMAIN heap_to_thread /\ heap_to_thread[h] = t
  BY <1>1, <1>7 DEF HeapInv, heap_of_thread_is_valid, heap_ids_thread_id1
<1>9. a.heap_id = h /\ a.heap = heap_shared_access[h] /\ a.page = block[b].page_shared_access
  BY <1>4
<1>10. UNCHANGED <<thread_local_state, thread_of_segment, heap_shared_access, heap_to_thread,
                   delay, thread_checked_state>>
  BY DEF delay_lookup_heap
<1>11. inv_delay_actor_for_page(p)'
  <2>1. CASE a = None
    BY <1>5, <1>6, <1>10, <2>1 DEF inv_delay_actor_for_page, HasEnabled, Threads, Pages
  <2>2. CASE a # None
    BY <1>5, <1>6, <1>8, <1>9, <1>10, <2>2 DEF inv_delay_actor_for_page, HasEnabled, Threads, Pages
  <2>. QED BY <2>1, <2>2
<1>12. inv_delay_actor'
  <2>1. ASSUME NEW x \in DOMAIN delay_actor, x # p PROVE inv_delay_actor_for_page(x)'
    BY <1>5, <1>10, <2>1, ActorStays
  <2>. QED BY <1>5, <1>11, <2>1 DEF inv_delay_actor
<1>13. inv_delay_state' /\ inv_delay_actor_sub' /\ inv_no_delay_actor_for_checked'
  BY <1>1, <1>5, <1>10 DEF DelayInv, inv_delay_state, inv_delay_actor_sub,
     inv_no_delay_actor_for_checked, Threads, Pages
<1>14. DelayInv'
  BY <1>12, <1>13 DEF DelayInv
<1>. QED BY <1>10, <1>14, QuietDelay DEF delay_lookup_heap

\* A block is put on the list of its owner's heap: the heap in the delay_actor is the
\* heap of the thread that has the page.
LEMMA StepSetHeapId ==
  ASSUME IInv, NEW b \in DOMAIN block, block_set_heap_id(b)
  PROVE  IInv'
<1>. USE DEF segtok, heaptok
<1>1. HeapInv /\ SegmentInv /\ PageInv /\ DelayInv /\ BlockInv
  BY Grouped DEF IInv
<1>2. PICK p : p = b.page_id
  OBVIOUS
<1>3. PICK a : a = delay_actor[p]
  OBVIOUS
<1>4. /\ a # None /\ p \in DOMAIN delay_actor
      /\ UNCHANGED <<heaptok, segtok, thread_local_state, thread_checked_state,
                     delay, heap_of_page, delay_actor, page_shared_access>>
  BY <1>2, <1>3 DEF block_set_heap_id
<1>5. /\ DOMAIN block' = DOMAIN block
      /\ block'[b] = [block[b] EXCEPT !.heap_id = a.heap_id]
      /\ \A c \in DOMAIN block : c # b => block'[c] = block[c]
  BY <1>2, <1>3 DEF block_set_heap_id
<1>6. PICK t \in Threads :
           /\ p.segment_id \in DOMAIN thread_of_segment
           /\ thread_of_segment[p.segment_id] = t
           /\ \A u \in Threads : p \in DOMAIN Pages(u) => u = t
  BY <1>2, BlockOwner
<1>7. inv_delay_actor_for_page(p)
  BY <1>1, <1>4 DEF DelayInv, inv_delay_actor
<1>8. a.heap_id \in DOMAIN heap_to_thread /\ HasEnabled(heap_to_thread[a.heap_id], p)
  BY <1>3, <1>4, <1>7 DEF inv_delay_actor_for_page
<1>9. a.heap_id = thread_local_state[t].heap_id
  BY <1>1, <1>6, <1>8 DEF HeapInv, heap_ids_thread_id2, HasEnabled
<1>10. a.heap_id \in HeapId
  BY <1>9 DEF IInv, TypeInv, ThreadTypes, ThreadType
<1>11. PICK r : r = block[b]
  OBVIOUS
<1>12. r \in BlockRec
  BY <1>11 DEF IInv, TypeInv
<1>13. PICK s : s = [r EXCEPT !.heap_id = a.heap_id]
  OBVIOUS
<1>14. /\ s \in BlockRec /\ s.heap_id = a.heap_id
       /\ s.segment_shared_access = r.segment_shared_access
       /\ s.page_shared_access = r.page_shared_access
       /\ s.page_slice_shared_access = r.page_slice_shared_access
  BY <1>10, <1>12, <1>13 DEF BlockRec
<1>15. TypeInv'
  BY <1>4, <1>5, <1>11, <1>13, <1>14 DEF IInv, TypeInv, ThreadTypes, ThreadType, Threads
<1>16. HeapInv'
  BY <1>1, <1>4, HeapFrame DEF Threads
<1>17. SegmentInv'
  BY <1>1, <1>4, SegmentFrame DEF Threads
<1>18. PageInv'
  BY <1>4, PageFrame DEF Threads, Pages, Segments
<1>19. inv_no_delay_actor_for_checked'
  BY <1>1, <1>4 DEF DelayInv, inv_no_delay_actor_for_checked, Threads, Pages
<1>20. DelayInv'
  BY <1>4, <1>19, ActorFrame DEF Threads, Pages, HasEnabled
<1>21. \A c \in DOMAIN block' :
         /\ block'[c].segment_shared_access = block[c].segment_shared_access
         /\ block'[c].page_shared_access = block[c].page_shared_access
         /\ block'[c].page_slice_shared_access = block[c].page_slice_shared_access
  BY <1>5, <1>11, <1>13, <1>14
<1>22. \A c \in DOMAIN block : block'[c].heap_id
        \in {None, thread_local_state[thread_of_segment[c.page_id.segment_id]].heap_id}
  BY <1>1, <1>2, <1>5, <1>6, <1>9, <1>11, <1>13, <1>14 DEF BlockInv, inv_block_id_valid, block_properties
<1>23. BlockInv'
  BY <1>4, <1>5, <1>21, <1>22, BlockFrame DEF Threads, Pages, Segments, HasEnabled
<1>. QED BY <1>15, <1>16, <1>17, <1>18, <1>20, <1>23, Regroup

\* A page is checked when nobody is freeing into its heap's list.
LEMMA StepCheckDelay ==
  ASSUME IInv, NEW t \in ThreadId, NEW p \in PageId, page_check_delay_state(t, p)
  PROVE  IInv'
<1>. USE DEF segtok, heaptok, pagetok
<1>1. HeapInv /\ SegmentInv /\ PageInv /\ DelayInv /\ BlockInv
  BY Grouped DEF IInv
<1>2. /\ t \in Threads /\ Pages(t)[p].num_blocks = 0 /\ p \notin DOMAIN delay_actor
  BY <1>1 DEF page_check_delay_state, Threads, DelayInv, inv_delay_state
<1>3. UNCHANGED <<pagetok, heaptok, segtok, thread_local_state>>
  BY DEF page_check_delay_state
<1>4. /\ DOMAIN thread_checked_state' = DOMAIN thread_checked_state
      /\ thread_checked_state'[t] = thread_checked_state[t] \cup {p}
      /\ \A u \in Threads : u # t => thread_checked_state'[u] = thread_checked_state[u]
  BY <1>1, <1>2 DEF page_check_delay_state, HeapInv, inv_checked_threads
<1>5. TypeInv'
  BY <1>3 DEF IInv, TypeInv, ThreadTypes, ThreadType, Threads
<1>6. HeapInv'
  BY <1>1, <1>3, <1>4, HeapFrame DEF Threads
<1>7. SegmentInv'
  BY <1>1, <1>3, SegmentFrame DEF Threads
<1>8. PageInv'
  BY <1>3, PageFrame DEF Threads, Pages, Segments
<1>9. inv_no_delay_actor_for_checked'
  BY <1>1, <1>2, <1>3, <1>4 DEF DelayInv, inv_no_delay_actor_for_checked, Threads, Pages
<1>10. DelayInv'
  BY <1>3, <1>9, ActorFrame DEF Threads, Pages, HasEnabled
<1>11. \A c \in DOMAIN block : block[c].heap_id
        \in {None, thread_local_state[thread_of_segment[c.page_id.segment_id]].heap_id}
  BY <1>1 DEF BlockInv, inv_block_id_valid, block_properties
<1>12. BlockInv'
  BY <1>3, <1>11, BlockFrame DEF Threads, Pages, Segments, HasEnabled
<1>. QED BY <1>5, <1>6, <1>7, <1>8, <1>10, <1>12, Regroup

-----------------------------------------------------------------------------
(* Pages                                                                    *)

\* What a thread has is its own.
Owned ==
  \A t \in Threads : \A p \in DOMAIN Pages(t) :
    /\ p \in PageId /\ p.segment_id \in DOMAIN thread_of_segment
    /\ thread_of_segment[p.segment_id] = t

LEMMA OwnedHolds == TypeInv /\ SegmentInv /\ inv_thread_has_segment_for_page => Owned
  BY DEF TypeInv, SegmentInv, ThreadTypes, ThreadType, Pages, Owned, inv_thread_of_segment1,
     inv_thread_has_segment_for_page

\* The rights to read page headers are deposited for the pages that a thread has enabled.
Deposits ==
  /\ \A p : p \in DOMAIN page_shared_access <=> \E t \in Threads : HasEnabled(t, p)
  /\ \A t \in Threads : \A p \in DOMAIN Pages(t) : Pages(t)[p].is_enabled =>
       page_shared_access[p] = Pages(t)[p].shared_access

LEMMA DepositsAre ==
  Owned => (inv_page_shared_access_dom /\ inv_page_shared_access_eq <=> Deposits)
<1>. SUFFICES ASSUME Owned
              PROVE  inv_page_shared_access_dom /\ inv_page_shared_access_eq <=> Deposits
  OBVIOUS
<1>1. \A p : (\E t \in Threads : HasEnabled(t, p)) <=>
             p \in PageId /\ OwnerHas(p) /\ Pages(thread_of_segment[p.segment_id])[p].is_enabled
  BY DEF Owned, OwnerHas, HasEnabled
<1>2. inv_page_shared_access_dom <=>
        \A p : p \in DOMAIN page_shared_access <=> \E t \in Threads : HasEnabled(t, p)
  BY <1>1 DEF inv_page_shared_access_dom
<1>3. ASSUME \A p : p \in DOMAIN page_shared_access <=> \E t \in Threads : HasEnabled(t, p)
      PROVE  inv_page_shared_access_eq <=>
               \A t \in Threads : \A p \in DOMAIN Pages(t) : Pages(t)[p].is_enabled =>
                 page_shared_access[p] = Pages(t)[p].shared_access
  BY <1>3 DEF inv_page_shared_access_eq, Owned, HasEnabled
<1>. QED BY <1>2, <1>3 DEF Deposits

LEMMA DepositsOf ==
  ASSUME IInv PROVE Owned /\ Deposits
<1>1. SegmentInv /\ PageInv
  BY Grouped DEF IInv
<1>. QED BY <1>1, OwnedHolds, DepositsAre DEF IInv, PageInv, PlaceInv

LEMMA DepositsMake ==
  ASSUME TypeInv', SegmentInv', PlaceInv', Deposits' PROVE PageInv'
<1>1. (TypeInv /\ SegmentInv /\ inv_thread_has_segment_for_page => Owned)'
  BY OwnedHolds, PTL
<1>2. (Owned => (inv_page_shared_access_dom /\ inv_page_shared_access_eq <=> Deposits))'
  BY DepositsAre, PTL
<1>. QED BY <1>1, <1>2 DEF PageInv, PlaceInv

\* What SetPages leaves alone.
PagesOnly(t, f) ==
  /\ DOMAIN thread_local_state' = Threads
  /\ ThreadTypes'
  /\ \A u \in Threads :
       /\ thread_local_state'[u].heap_id = thread_local_state[u].heap_id
       /\ thread_local_state'[u].heap = thread_local_state[u].heap
       /\ thread_local_state'[u].segments = thread_local_state[u].segments
  /\ thread_local_state'[t].pages = f
  /\ \A u \in Threads : u # t => thread_local_state'[u].pages = thread_local_state[u].pages

LEMMA SetPagesOnly ==
  ASSUME IInv, NEW t \in Threads, NEW f, SetPages(t, f),
         DOMAIN f \subseteq PageId, \A p \in DOMAIN f : f[p] \in PageRec
  PROVE  PagesOnly(t, f)
<1>1. ThreadTypes
  BY DEF IInv, TypeInv
<1>. QED BY <1>1, SetPagesIs DEF PagesOnly

\* A page of a thread has its type.
LEMMA PageTyped ==
  ASSUME IInv, NEW t \in Threads
  PROVE  DOMAIN Pages(t) \subseteq PageId /\ \A p \in DOMAIN Pages(t) : Pages(t)[p] \in PageRec
  BY DEF IInv, TypeInv, ThreadTypes, ThreadType, Pages

\* A step on the pages of a thread that leaves blocks and checked pages alone.
LEMMA QuietPages ==
  ASSUME IInv, NEW t \in Threads, NEW f, PagesOnly(t, f),
         UNCHANGED <<heaptok, segtok>>,
         DOMAIN thread_checked_state' = DOMAIN thread_checked_state
  PROVE  HeapInv' /\ SegmentInv'
<1>1. HeapInv /\ SegmentInv
  BY Grouped DEF IInv
<1>2. HeapInv'
  BY <1>1, HeapFrame DEF PagesOnly
<1>3. SegmentInv'
  BY <1>1, SegmentFrame DEF PagesOnly
<1>. QED BY <1>2, <1>3

\* The blocks keep what they lie on when what a thread has enabled, and they lie on, stays.
LEMMA BlocksStay ==
  ASSUME IInv, NEW t \in Threads, NEW f, PagesOnly(t, f), UNCHANGED <<segtok, block>>,
         \A b \in DOMAIN block, q \in PageId :
           q \in {b.page_id, page_id_for_slice(b)} /\ HasEnabled(t, q) =>
             q \in DOMAIN f /\ f[q] = Pages(t)[q]
  PROVE  BlockInv'
<1>1. \A b \in DOMAIN block : block[b].heap_id
        \in {None, thread_local_state[thread_of_segment[b.page_id.segment_id]].heap_id}
  BY DEF IInv, Invariants, inv_block_id_valid, block_properties
<1>2. \A u \in Threads : u # t => thread_local_state'[u].pages = Pages(u)
  BY DEF PagesOnly, Pages
<1>3. \A b \in DOMAIN block, u \in Threads, q \in PageId :
           q \in {b.page_id, page_id_for_slice(b)} /\ HasEnabled(u, q) =>
             q \in DOMAIN thread_local_state'[u].pages
             /\ thread_local_state'[u].pages[q] = Pages(u)[q]
  <2>1. ASSUME NEW b \in DOMAIN block, NEW u \in Threads, NEW q \in PageId,
               q \in {b.page_id, page_id_for_slice(b)}, HasEnabled(u, q)
        PROVE  q \in DOMAIN thread_local_state'[u].pages
               /\ thread_local_state'[u].pages[q] = Pages(u)[q]
    <3>1. CASE u = t
      BY <2>1, <3>1 DEF PagesOnly
    <3>2. CASE u # t
      BY <1>2, <2>1, <3>2 DEF HasEnabled
    <3>. QED BY <3>1, <3>2
  <2>. QED BY <2>1
<1>. QED BY <1>1, <1>3, BlockFrame DEF PagesOnly, segtok, Segments, HasEnabled

\* A page is made of slices that nobody has, and nobody is freeing into it.
LEMMA StepCreatePage ==
  ASSUME IInv, NEW t \in ThreadId, NEW p \in PageId, NEW n \in 1 .. Slices, NEW size \in Sizes,
         create_page_mk_tokens(t, p, n, size)
  PROVE  IInv' /\ \A u \in Threads : Seen(u)
<1>1. HeapInv /\ SegmentInv /\ PageInv /\ DelayInv /\ BlockInv /\ Owned /\ Deposits
  BY Grouped, DepositsOf DEF IInv
<1>2. PICK S : S = range_from(p, n)
  OBVIOUS
<1>3. PICK g : g = [q \in S |->
       [offset |-> q.idx - p.idx, block_size |-> size, num_blocks |-> 0,
        shared_access |-> None, is_enabled |-> FALSE]]
  OBVIOUS
<1>4. PICK f : f = Union(Pages(t), g)
  OBVIOUS
<1>5. /\ t \in Threads /\ S \subseteq PageId /\ DOMAIN Pages(t) \cap S = {}
      /\ p.segment_id \in DOMAIN Segments(t) /\ Segments(t)[p.segment_id].is_enabled
  BY <1>2 DEF create_page_mk_tokens, CanCreatePage, Threads
<1>6. /\ p \in S
      /\ \A q \in S : q.segment_id = p.segment_id /\ q.idx - p.idx \in Nat
                      /\ q.idx \in Int /\ p.idx \in Int /\ (q.idx = p.idx => q = p)
  BY <1>2, RangeIs DEF PageId
<1>7. \A q \in S : /\ g[q] \in PageRec /\ ~ g[q].is_enabled /\ g[q].num_blocks = 0
                   /\ g[q].offset = q.idx - p.idx
  BY <1>3, <1>6 DEF PageRec
<1>8. /\ DOMAIN f = DOMAIN Pages(t) \cup S
      /\ \A q \in S : f[q] = g[q]
      /\ \A q \in DOMAIN Pages(t) : f[q] = Pages(t)[q]
  BY <1>3, <1>4, <1>5 DEF Union
<1>9. PagesOnly(t, f)
  <2>1. DOMAIN f \subseteq PageId /\ \A q \in DOMAIN f : f[q] \in PageRec
    BY <1>5, <1>7, <1>8, PageTyped
  <2>2. SetPages(t, f)
    BY <1>2, <1>3, <1>4 DEF create_page_mk_tokens
  <2>. QED BY <1>5, <2>1, <2>2, SetPagesOnly
<1>10. UNCHANGED <<heaptok, segtok, thread_checked_state, block, delay_actor, page_shared_access>>
  BY DEF create_page_mk_tokens
<1>11. thread_of_segment[p.segment_id] = t /\ p.segment_id \in DOMAIN thread_of_segment
  BY <1>1, <1>5 DEF SegmentInv, inv_thread_of_segment1
<1>12. \A q \in S : q \notin DOMAIN heap_of_page
  BY <1>1, <1>5, <1>6, <1>11 DEF PageInv, PlaceInv, inv_thread_of_page2, OwnerHas
<1>13. /\ DOMAIN heap_of_page' = DOMAIN heap_of_page \cup {p}
       /\ heap_of_page'[p] = thread_local_state[t].heap_id
       /\ \A q \in DOMAIN heap_of_page : heap_of_page'[q] = heap_of_page[q]
       /\ DOMAIN delay' = DOMAIN delay \cup {p} /\ delay'[p] = 0
       /\ \A q \in DOMAIN delay : q # p => delay'[q] = delay[q]
  BY <1>6, <1>12 DEF create_page_mk_tokens, Put
<1>14. \A q \in S : q \notin DOMAIN delay_actor
  BY <1>1, <1>12 DEF PageInv, PlaceInv, DelayInv, inv_heap_of_page_delay, inv_delay_actor_sub
<1>15. TypeInv'
  BY <1>9, <1>10 DEF IInv, TypeInv, Threads, PagesOnly, heaptok, segtok
<1>16. HeapInv' /\ SegmentInv'
  BY <1>5, <1>9, <1>10, QuietPages
<1>17. \A u \in Threads : \A q \in DOMAIN Pages(u) :
         q \in DOMAIN thread_local_state'[u].pages
         /\ thread_local_state'[u].pages[q] = Pages(u)[q]
  BY <1>8, <1>9 DEF PagesOnly, Pages
<1>18. PlaceInv'
  <2>1. inv_heap_of_page_delay'
    BY <1>1, <1>13 DEF PageInv, PlaceInv, inv_heap_of_page_delay
  <2>2. inv_thread_has_segment_for_page'
    BY <1>1, <1>5, <1>6, <1>8, <1>9 DEF PageInv, PlaceInv, PagesOnly, Threads, Pages, Segments,
       inv_thread_has_segment_for_page
  <2>3. page_implies_segment_enabled'
    BY <1>1, <1>5, <1>6, <1>8, <1>9 DEF PageInv, PlaceInv, PagesOnly, Threads, Pages, Segments,
       page_implies_segment_enabled
  <2>4. \A q \in S : f[q].offset = 0 => q = p
    BY <1>6, <1>7, <1>8
  <2>5. inv_thread_of_page1'
    BY <1>1, <1>5, <1>8, <1>9, <1>13, <2>4 DEF PageInv, PlaceInv, PagesOnly, Threads, Pages,
       inv_thread_of_page1
  <2>6. f[p].offset = 0 /\ p \in DOMAIN f
    BY <1>6, <1>7, <1>8
  <2>7. inv_thread_of_page2'
    BY <1>1, <1>5, <1>9, <1>10, <1>11, <1>13, <1>17, <2>6 DEF PageInv, PlaceInv, PagesOnly, Threads, Pages,
       inv_thread_of_page2, OwnerHas, segtok
  <2>8. heap_of_page_is_correct'
    BY <1>1, <1>5, <1>9, <1>10, <1>11, <1>13 DEF PageInv, PlaceInv, PagesOnly, Threads, Pages,
       heap_of_page_is_correct, inv_thread_of_page2, OwnerHas, segtok
  <2>. QED BY <2>1, <2>2, <2>3, <2>5, <2>7, <2>8 DEF PlaceInv
<1>19. PageInv'
  <2>1. \A u \in Threads : \A q : HasEnabled(u, q)' <=> HasEnabled(u, q)
    BY <1>5, <1>7, <1>8, <1>9 DEF HasEnabled, PagesOnly, Threads, Pages
  <2>2. \A u \in Threads : \A q \in DOMAIN Pages(u)' : Pages(u)'[q].is_enabled =>
          q \in DOMAIN Pages(u) /\ Pages(u)'[q] = Pages(u)[q]
    BY <1>5, <1>7, <1>8, <1>9 DEF PagesOnly, Pages
  <2>3. Deposits'
    BY <1>1, <1>9, <1>10, <2>1, <2>2 DEF Deposits, PagesOnly, Threads, Pages
  <2>. QED BY <1>15, <1>16, <1>18, <2>3, DepositsMake
<1>20. DelayInv'
  <2>1. inv_delay_state' /\ inv_delay_actor_sub'
    BY <1>1, <1>6, <1>10, <1>13, <1>14 DEF DelayInv, inv_delay_state, inv_delay_actor_sub
  <2>2. inv_no_delay_actor_for_checked'
    BY <1>1, <1>5, <1>7, <1>8, <1>9, <1>10, <1>14 DEF DelayInv, PagesOnly, Threads, Pages,
       inv_no_delay_actor_for_checked
  <2>3. inv_delay_actor'
    BY <1>9, <1>10, <1>17, ActorKept DEF PagesOnly, HasEnabled, heaptok, segtok
  <2>. QED BY <2>1, <2>2, <2>3 DEF DelayInv
<1>21. BlockInv'
  BY <1>5, <1>8, <1>9, <1>10, BlocksStay DEF HasEnabled
<1>d. \A w \in Threads : Ps(w) \subseteq DOMAIN delay
  BY <1>1 DEF PageInv, PlaceInv, inv_thread_of_page1, inv_heap_of_page_delay, Ps
<1>v. ASSUME NEW w \in Threads, w # t PROVE Seen(w)
  <2>1. p \notin Ps(w)
    BY <1>1, <1>11, <1>v DEF Owned, Ps
  <2>2. \A q \in Ps(w) : q \in DOMAIN delay /\ q # p
    BY <1>d, <2>1
  <2>3. \A q \in Ps(w) : delay'[q] = delay[q]
    BY <1>13, <2>2
  <2>. QED BY <1>9, <1>10, <1>v, <2>3, NothingSeen DEF PagesOnly, Pages
<1>w. Seen(t)
  <2>1. p \notin Ps(t) /\ Ps(t)' = Ps(t) \cup {p}
    BY <1>5, <1>6, <1>7, <1>8, <1>9 DEF Ps, Pages, PagesOnly
  <2>2. Pages(t)' = f
    BY <1>9 DEF PagesOnly, Pages
  <2>3. En(t)' = En(t)
    BY <1>6, <1>7, <1>8, <2>1, <2>2 DEF En, Ps
  <2>4. p \notin DOMAIN page_shared_access
    BY <1>1, <1>5, <1>6, <1>11 DEF Deposits, HasEnabled, Owned
  <2>5. Ac(t)' = Ac(t) /\ At(t)' = At(t) /\ Ch(t)' = Ch(t)
    BY <1>6, <1>10, <1>14, <2>1, <2>4 DEF Ac, At, Ch
  <2>6. \A b \in DOMAIN block : b.page_id # p
    BY <1>5, <1>6, <1>11, BlockOwner DEF HasEnabled
  <2>7. Bl(t)' = Bl(t)
    BY <1>10, <2>1, <2>6 DEF Bl
  <2>8. Nu(t)' = OneHeap!Over(Nu(t), p, 0)
    <3>1. \A q \in Ps(t) : f[q].num_blocks = Nu(t)[q]
      BY <1>8 DEF Nu, Ps
    <3>2. f[p].num_blocks = 0 /\ DOMAIN Nu(t) = Ps(t)
      BY <1>6, <1>7, <1>8 DEF Nu
    <3>3. Nu(t)' = [q \in Ps(t) \cup {p} |-> f[q].num_blocks]
      BY <2>1, <2>2 DEF Nu
    <3>4. \A q \in Ps(t) \cup {p} : f[q].num_blocks = IF q = p THEN 0 ELSE Nu(t)[q]
      BY <3>1, <3>2
    <3>. QED BY <3>2, <3>3, <3>4 DEF OneHeap!Over
  <2>9. De(t)' = OneHeap!Over(De(t), p, 0)
    <3>1. DOMAIN De(t) = Ps(t) /\ De(t)' = [q \in Ps(t) \cup {p} |-> delay'[q]]
      BY <2>1 DEF De
    <3>2. \A q \in Ps(t) : delay'[q] = De(t)[q]
      BY <1>5, <1>13, <1>d, <2>1 DEF De
    <3>3. \A q \in Ps(t) \cup {p} : delay'[q] = IF q = p THEN 0 ELSE De(t)[q]
      BY <1>13, <3>2
    <3>. QED BY <3>1, <3>3 DEF OneHeap!Over
  <2>10. PICK m, n1 : m = View(t) /\ n1 = View(t)'
    OBVIOUS
  <2>11. /\ m = Rec(Ps(t), En(t), Ac(t), Nu(t), Bl(t), De(t), At(t), Ch(t))
         /\ n1 = Rec(Ps(t) \cup {p}, En(t), Ac(t), OneHeap!Over(Nu(t), p, 0), Bl(t),
                     OneHeap!Over(De(t), p, 0), At(t), Ch(t))
    BY <2>1, <2>3, <2>5, <2>7, <2>8, <2>9, <2>10, ViewIs, ViewWillBe
  <2>12. n1 = OneHeap!create_page_mk_tokens(m, p)
    BY <2>11, CreateIs
  <2>13. OneHeap!CanCreatePage(m, p)
    <3>1. m.pages = Ps(t) /\ m.delay = De(t) /\ DOMAIN De(t) = Ps(t)
      BY <2>11, RecParts DEF De
    <3>. QED BY <2>1, <3>1 DEF OneHeap!CanCreatePage
  <2>. QED BY <2>10, <2>12, <2>13, Transitions DEF Seen
<1>s. IInv'
  BY <1>15, <1>16, <1>19, <1>20, <1>21, Regroup
<1>. QED BY <1>s, <1>v, <1>w

\* A page is enabled: nothing lies on its slices before.
LEMMA StepEnablePage ==
  ASSUME IInv, NEW t \in ThreadId, NEW p \in PageId, NEW n \in 1 .. Slices,
         NEW psa_map \in [range_from(p, n) -> Access], page_enable(t, p, n, psa_map)
  PROVE  IInv' /\ \A u \in Threads : Seen(u)
<1>1. HeapInv /\ SegmentInv /\ PageInv /\ DelayInv /\ BlockInv /\ Owned /\ Deposits
  BY Grouped, DepositsOf DEF IInv
<1>2. PICK S : S = range_from(p, n)
  OBVIOUS
<1>3. PICK g : g = [q \in S |->
       [Pages(t)[q] EXCEPT !.is_enabled = TRUE, !.shared_access = psa_map[q]]]
  BY <1>2
<1>4. PICK f : f = Union(Pages(t), g)
  OBVIOUS
<1>5. /\ t \in Threads /\ S \subseteq DOMAIN Pages(t) /\ psa_map \in [S -> Access]
      /\ \A q \in S : ~ Pages(t)[q].is_enabled
  BY <1>2 DEF page_enable, CanEnablePage, Threads
<1>6. DOMAIN Pages(t) \subseteq PageId /\ \A q \in DOMAIN Pages(t) : Pages(t)[q] \in PageRec
  BY <1>5, PageTyped
<1>7. \A q \in S : /\ g[q] \in PageRec /\ g[q].is_enabled /\ g[q].shared_access = psa_map[q]
                   /\ g[q].offset = Pages(t)[q].offset
                   /\ g[q].num_blocks = Pages(t)[q].num_blocks
  <2>1. ASSUME NEW q \in S, NEW r \in PageRec, r = Pages(t)[q]
        PROVE  /\ g[q] \in PageRec /\ g[q].is_enabled /\ g[q].shared_access = psa_map[q]
               /\ g[q].offset = r.offset /\ g[q].num_blocks = r.num_blocks
    <3>1. PICK m : m = [r EXCEPT !.is_enabled = TRUE]
      OBVIOUS
    <3>2. /\ m \in PageRec /\ m.is_enabled /\ m.offset = r.offset
          /\ m.num_blocks = r.num_blocks
      BY <3>1 DEF PageRec
    <3>3. PICK o : o = [m EXCEPT !.shared_access = psa_map[q]]
      OBVIOUS
    <3>4. /\ o \in PageRec /\ o.is_enabled /\ o.shared_access = psa_map[q] /\ o.offset = r.offset
          /\ o.num_blocks = r.num_blocks
      BY <1>5, <3>2, <3>3 DEF PageRec
    <3>5. g[q] = o
      BY <1>3, <2>1, <3>1, <3>3
    <3>. QED BY <3>4, <3>5
  <2>. QED BY <1>5, <1>6, <2>1
<1>8. /\ DOMAIN f = DOMAIN Pages(t)
      /\ \A q \in S : f[q] = g[q]
      /\ \A q \in DOMAIN Pages(t) \ S : f[q] = Pages(t)[q]
  BY <1>3, <1>4, <1>5 DEF Union
<1>9. PagesOnly(t, f)
  <2>1. DOMAIN f \subseteq PageId /\ \A q \in DOMAIN f : f[q] \in PageRec
    BY <1>6, <1>7, <1>8
  <2>2. SetPages(t, f)
    BY <1>2, <1>3, <1>4 DEF page_enable
  <2>. QED BY <1>5, <2>1, <2>2, SetPagesOnly
<1>10. UNCHANGED <<heaptok, segtok, thread_checked_state, block, delay, heap_of_page, delay_actor>>
  BY DEF page_enable
<1>11. /\ DOMAIN page_shared_access' = DOMAIN page_shared_access \cup S
       /\ \A q \in S : page_shared_access'[q] = psa_map[q]
       /\ \A q \in DOMAIN page_shared_access \ S : page_shared_access'[q] = page_shared_access[q]
  BY <1>5 DEF page_enable, Union
<1>12. \A u \in Threads : \A q \in DOMAIN Pages(u) : u # t => q \notin S
  BY <1>1, <1>5 DEF Owned
<1>13. TypeInv'
  BY <1>9, <1>10 DEF IInv, TypeInv, Threads, PagesOnly, heaptok, segtok
<1>14. HeapInv' /\ SegmentInv'
  BY <1>5, <1>9, <1>10, QuietPages
<1>15. \A q \in DOMAIN Pages(t) : f[q].offset = Pages(t)[q].offset
                                  /\ f[q].num_blocks = Pages(t)[q].num_blocks
  BY <1>7, <1>8
<1>16. PlaceInv'
  BY <1>5, <1>8, <1>9, <1>10, <1>15, PlaceFrame DEF PagesOnly, Pages, Segments, segtok
<1>17. PageInv'
  <2>1. \A u \in Threads : \A q : HasEnabled(u, q)' <=> HasEnabled(u, q) \/ (u = t /\ q \in S)
    BY <1>5, <1>7, <1>8, <1>9 DEF HasEnabled, PagesOnly, Threads, Pages
  <2>2. \A q : q \in DOMAIN page_shared_access' <=> \E u \in Threads : HasEnabled(u, q)'
    BY <1>1, <1>5, <1>11, <2>1 DEF Deposits
  <2>3. \A u \in Threads : \A q \in DOMAIN Pages(u)' : Pages(u)'[q].is_enabled =>
          page_shared_access'[q] = Pages(u)'[q].shared_access
    <3>1. ASSUME NEW u \in Threads, NEW q \in DOMAIN Pages(u)', Pages(u)'[q].is_enabled
          PROVE  page_shared_access'[q] = Pages(u)'[q].shared_access
      <4>1. CASE u = t /\ q \in S
        BY <1>7, <1>8, <1>9, <1>11, <4>1 DEF PagesOnly, Pages
      <4>2. CASE ~(u = t /\ q \in S)
        <5>1. /\ q \in DOMAIN Pages(u) /\ q \notin S /\ Pages(u)'[q] = Pages(u)[q]
          BY <1>8, <1>9, <1>12, <4>2 DEF PagesOnly, Pages
        <5>2. q \in DOMAIN page_shared_access
          BY <1>1, <3>1, <5>1 DEF Deposits, HasEnabled
        <5>. QED BY <1>1, <1>11, <3>1, <5>1, <5>2 DEF Deposits
      <4>. QED BY <4>1, <4>2
    <3>. QED BY <3>1
  <2>4. Deposits'
    BY <1>9, <2>2, <2>3 DEF Deposits, PagesOnly, Threads
  <2>. QED BY <1>13, <1>14, <1>16, <2>4, DepositsMake
<1>18. inv_no_delay_actor_for_checked'
  BY <1>1, <1>5, <1>8, <1>9, <1>10, <1>15 DEF DelayInv, PagesOnly, Threads, Pages,
       inv_no_delay_actor_for_checked
<1>19. \A u \in Threads : \A q : HasEnabled(u, q) =>
           /\ q \in DOMAIN thread_local_state'[u].pages
           /\ thread_local_state'[u].pages[q] = Pages(u)[q]
  BY <1>5, <1>8, <1>9 DEF HasEnabled, PagesOnly, Pages
<1>20. DelayInv'
  BY <1>9, <1>10, <1>18, <1>19, ActorFrame DEF PagesOnly, HasEnabled, heaptok, segtok
<1>21. BlockInv'
  BY <1>5, <1>8, <1>9, <1>10, BlocksStay DEF HasEnabled
<1>v. ASSUME NEW w \in Threads, w # t PROVE Seen(w)
  <2>1. \A q \in Ps(w) : q \notin S
    BY <1>12, <1>v DEF Ps
  <2>. QED BY <1>9, <1>10, <1>11, <1>v, <2>1, NothingSeen DEF PagesOnly, Pages
<1>w. Seen(t)
  <2>1. /\ p \in S
        /\ \A q \in S : q.idx \in Int /\ p.idx \in Int /\ (q.idx = p.idx => q = p)
    BY <1>2, RangeIs DEF PageId
  <2>2. \A q \in S : Pages(t)[q].offset + p.idx = q.idx /\ Pages(t)[q].offset \in Nat
    BY <1>2, <1>5, <1>6 DEF page_enable, CanEnablePage, PageRec
  <2>3. Pages(t)[p].offset = 0 /\ \A q \in S : Pages(t)[q].offset = 0 => q = p
    BY <2>1, <2>2
  <2>4. p \in Ps(t) /\ Ps(t) \cap S = {p}
    BY <1>5, <2>1, <2>3 DEF Ps
  <2>5. Pages(t)' = f
    BY <1>9 DEF PagesOnly, Pages
  <2>6. Ps(t)' = Ps(t)
    BY <1>8, <1>15, <2>5 DEF Ps
  <2>7. En(t)' = En(t) \cup {p} /\ p \notin En(t)
    BY <1>5, <1>7, <1>8, <2>4, <2>5, <2>6 DEF En, Ps
  <2>8. p \notin DOMAIN page_shared_access
    BY <1>1, <1>5, <1>12, <2>1 DEF Deposits, HasEnabled
  <2>9. Ac(t)' = Ac(t) \cup {p} /\ p \notin Ac(t)
    BY <1>11, <2>4, <2>6, <2>8 DEF Ac
  <2>10. Nu(t)' = Nu(t)
    <3>1. \A q \in Ps(t) : f[q].num_blocks = Pages(t)[q].num_blocks
      BY <1>15 DEF Ps
    <3>. QED BY <2>5, <2>6, <3>1 DEF Nu
  <2>11. Bl(t)' = Bl(t) /\ De(t)' = De(t) /\ At(t)' = At(t) /\ Ch(t)' = Ch(t)
    BY <1>10, <2>6 DEF Bl, De, At, Ch
  <2>12. PICK m, n1 : m = View(t) /\ n1 = View(t)'
    OBVIOUS
  <2>13. /\ m = Rec(Ps(t), En(t), Ac(t), Nu(t), Bl(t), De(t), At(t), Ch(t))
         /\ n1 = Rec(Ps(t), En(t) \cup {p}, Ac(t) \cup {p}, Nu(t), Bl(t), De(t), At(t), Ch(t))
    BY <2>6, <2>7, <2>9, <2>10, <2>11, <2>12, ViewIs, ViewWillBe
  <2>14. n1 = OneHeap!page_enable(m, p)
    BY <2>13, EnableIs
  <2>15. OneHeap!CanEnablePage(m, p)
    <3>1. m.pages = Ps(t) /\ m.enabled = En(t) /\ m.access = Ac(t)
      BY <2>13, RecParts
    <3>. QED BY <2>4, <2>7, <2>9, <3>1 DEF OneHeap!CanEnablePage
  <2>. QED BY <2>12, <2>14, <2>15, Transitions DEF Seen
<1>s. IInv'
  BY <1>13, <1>14, <1>17, <1>20, <1>21, Regroup
<1>. QED BY <1>s, <1>v, <1>w

\* A page is disabled after it was checked: none of its blocks is left, and nobody is
\* freeing into it.
LEMMA StepDisablePage ==
  ASSUME IInv, NEW t \in ThreadId, NEW p \in PageId, NEW n \in 1 .. Slices,
         page_disable(t, p, n)
  PROVE  IInv' /\ \A u \in Threads : Seen(u)
<1>1. HeapInv /\ SegmentInv /\ PageInv /\ DelayInv /\ BlockInv /\ Owned /\ Deposits
  BY Grouped, DepositsOf DEF IInv
<1>2. PICK S : S = range_from(p, n)
  OBVIOUS
<1>3. PICK g : g = [q \in S |-> [Pages(t)[q] EXCEPT !.is_enabled = FALSE]]
  BY <1>2
<1>4. PICK f : f = Union(Pages(t), g)
  OBVIOUS
<1>5. /\ t \in Threads /\ S \subseteq DOMAIN Pages(t)
      /\ p \in thread_checked_state[t] /\ Pages(t)[p].num_blocks = 0
      /\ \A q \in S : Pages(t)[q].is_enabled /\ Pages(t)[q].offset = q.idx - p.idx
  BY <1>2 DEF page_disable, CanDisablePage, Threads
<1>6. DOMAIN Pages(t) \subseteq PageId /\ \A q \in DOMAIN Pages(t) : Pages(t)[q] \in PageRec
  BY <1>5, PageTyped
<1>7. \A q \in S : /\ g[q] \in PageRec /\ ~ g[q].is_enabled
                   /\ g[q].offset = Pages(t)[q].offset
                   /\ g[q].num_blocks = Pages(t)[q].num_blocks
  <2>1. ASSUME NEW q \in S, NEW r \in PageRec, r = Pages(t)[q]
        PROVE  /\ g[q] \in PageRec /\ ~ g[q].is_enabled
               /\ g[q].offset = r.offset /\ g[q].num_blocks = r.num_blocks
    <3>1. PICK m : m = [r EXCEPT !.is_enabled = FALSE]
      OBVIOUS
    <3>2. /\ m \in PageRec /\ ~ m.is_enabled /\ m.offset = r.offset
          /\ m.num_blocks = r.num_blocks
      BY <3>1 DEF PageRec
    <3>3. g[q] = m
      BY <1>3, <2>1, <3>1
    <3>. QED BY <3>2, <3>3
  <2>. QED BY <1>5, <1>6, <2>1
<1>8. /\ DOMAIN f = DOMAIN Pages(t)
      /\ \A q \in S : f[q] = g[q]
      /\ \A q \in DOMAIN Pages(t) \ S : f[q] = Pages(t)[q]
  BY <1>3, <1>4, <1>5 DEF Union
<1>9. PagesOnly(t, f)
  <2>1. DOMAIN f \subseteq PageId /\ \A q \in DOMAIN f : f[q] \in PageRec
    BY <1>6, <1>7, <1>8
  <2>2. SetPages(t, f)
    BY <1>2, <1>3, <1>4 DEF page_disable
  <2>. QED BY <1>5, <2>1, <2>2, SetPagesOnly
<1>10. UNCHANGED <<heaptok, segtok, thread_checked_state, block, delay, heap_of_page, delay_actor>>
  BY DEF page_disable
<1>11. /\ DOMAIN page_shared_access' = DOMAIN page_shared_access \ S
       /\ \A q \in DOMAIN page_shared_access \ S : page_shared_access'[q] = page_shared_access[q]
  BY <1>2 DEF page_disable, Drop
<1>12. \A u \in Threads : \A q \in DOMAIN Pages(u) : u # t => q \notin S
  BY <1>1, <1>5 DEF Owned
<1>13. TypeInv'
  BY <1>9, <1>10 DEF IInv, TypeInv, Threads, PagesOnly, heaptok, segtok
<1>14. HeapInv' /\ SegmentInv'
  BY <1>5, <1>9, <1>10, QuietPages
<1>15. \A q \in DOMAIN Pages(t) : f[q].offset = Pages(t)[q].offset
                                  /\ f[q].num_blocks = Pages(t)[q].num_blocks
  BY <1>7, <1>8
<1>16. PlaceInv'
  BY <1>5, <1>8, <1>9, <1>10, <1>15, PlaceFrame DEF PagesOnly, Pages, Segments, segtok
<1>17. PageInv'
  <2>1. \A u \in Threads : \A q : HasEnabled(u, q)' <=> HasEnabled(u, q) /\ q \notin S
    BY <1>5, <1>7, <1>8, <1>9, <1>12 DEF HasEnabled, PagesOnly, Threads, Pages
  <2>2. \A q : q \in DOMAIN page_shared_access' <=> \E u \in Threads : HasEnabled(u, q)'
    BY <1>1, <1>5, <1>11, <2>1 DEF Deposits
  <2>3. \A u \in Threads : \A q \in DOMAIN Pages(u)' : Pages(u)'[q].is_enabled =>
          page_shared_access'[q] = Pages(u)'[q].shared_access
    <3>1. ASSUME NEW u \in Threads, NEW q \in DOMAIN Pages(u)', Pages(u)'[q].is_enabled
          PROVE  page_shared_access'[q] = Pages(u)'[q].shared_access
      <4>1. /\ q \in DOMAIN Pages(u) /\ q \notin S /\ Pages(u)'[q] = Pages(u)[q]
        BY <1>7, <1>8, <1>9, <1>12, <3>1 DEF PagesOnly, Pages
      <4>2. q \in DOMAIN page_shared_access
        BY <1>1, <3>1, <4>1 DEF Deposits, HasEnabled
      <4>. QED BY <1>1, <1>11, <3>1, <4>1, <4>2 DEF Deposits
    <3>. QED BY <3>1
  <2>4. Deposits'
    BY <1>9, <2>2, <2>3 DEF Deposits, PagesOnly, Threads
  <2>. QED BY <1>13, <1>14, <1>16, <2>4, DepositsMake
<1>18. inv_no_delay_actor_for_checked'
  BY <1>1, <1>5, <1>8, <1>9, <1>10, <1>15 DEF DelayInv, PagesOnly, Threads, Pages,
       inv_no_delay_actor_for_checked
<1>19. /\ p \in S
       /\ \A q \in S : q.segment_id = p.segment_id /\ q.idx \in Int /\ p.idx \in Int
                       /\ (q.idx = p.idx => q = p)
  BY <1>2, RangeIs DEF PageId
<1>20. ASSUME NEW q \in S, Pages(t)[q].offset = 0 PROVE q = p
  <2>1. q.idx - p.idx = 0 /\ q.idx \in Int /\ p.idx \in Int
    BY <1>5, <1>19, <1>20
  <2>. QED BY <1>19, <2>1
<1>21. ASSUME NEW q \in DOMAIN delay_actor PROVE q \notin S
  <2>1. SUFFICES ASSUME q \in S PROVE FALSE
    OBVIOUS
  <2>2. q \in DOMAIN heap_of_page
    BY <1>1 DEF PageInv, PlaceInv, DelayInv, inv_heap_of_page_delay, inv_delay_actor_sub
  <2>3. thread_of_segment[q.segment_id] = t
    BY <1>1, <1>5, <2>1 DEF Owned
  <2>4. Pages(t)[q].offset = 0
    BY <1>1, <2>2, <2>3 DEF PageInv, PlaceInv, inv_thread_of_page2
  <2>5. q = p
    BY <1>20, <2>1, <2>4
  <2>. QED BY <1>1, <1>5, <1>19, <2>5 DEF DelayInv, inv_no_delay_actor_for_checked
<1>22. ASSUME NEW b \in DOMAIN block, NEW q \in PageId, q \in {b.page_id, page_id_for_slice(b)},
              HasEnabled(t, q)
       PROVE  q \notin S
  <2>1. SUFFICES ASSUME q \in S PROVE FALSE
    OBVIOUS
  <2>2. PICK c : c = b.page_id
    OBVIOUS
  <2>3. c \in PageId /\ c.idx \in Int
    BY <2>2 DEF IInv, TypeInv, BlockId, PageId
  <2>4. q.segment_id = c.segment_id
    BY <1>22, <2>2 DEF page_id_for_slice, PageIdAt
  <2>5. block_properties(t, b)
    <3>1. thread_of_segment[q.segment_id] = t
      BY <1>1, <1>5, <2>1 DEF Owned
    <3>. QED BY <1>1, <2>2, <2>4, <3>1 DEF BlockInv, inv_block_id_valid
  <2>6. b.page_id # p
    <3>1. b.idx \in Nat
      BY MimAssumption DEF IInv, TypeInv, BlockId
    <3>. QED BY <1>5, <2>5, <3>1 DEF block_properties
  <2>7. CASE q = b.page_id
    <3>1. Pages(t)[q].offset = 0
      BY <2>5, <2>7 DEF block_properties
    <3>. QED BY <1>20, <2>1, <2>6, <2>7, <3>1
  <2>8. CASE q = page_id_for_slice(b)
    <3>1. Pages(t)[q].offset = q.idx - c.idx
      BY <2>2, <2>5, <2>8 DEF block_properties
    <3>2. q.idx - c.idx = q.idx - p.idx
      BY <1>5, <2>1, <3>1
    <3>3. c.idx = p.idx
      BY <1>19, <2>1, <2>3, <3>2
    <3>4. c.segment_id = p.segment_id
      BY <1>19, <2>1, <2>4
    <3>. QED BY <2>2, <2>3, <2>6, <3>3, <3>4, SamePage
  <2>. QED BY <1>22, <2>7, <2>8
<1>23. \A u \in Threads, q \in DOMAIN delay_actor : HasEnabled(u, q) =>
           /\ q \in DOMAIN thread_local_state'[u].pages
           /\ thread_local_state'[u].pages[q] = Pages(u)[q]
  BY <1>5, <1>8, <1>9, <1>21 DEF HasEnabled, PagesOnly, Pages
<1>24. DelayInv'
  BY <1>9, <1>10, <1>18, <1>23, ActorFrame DEF PagesOnly, HasEnabled, heaptok, segtok
<1>25. BlockInv'
  BY <1>5, <1>8, <1>9, <1>10, <1>22, BlocksStay DEF HasEnabled
<1>v. ASSUME NEW w \in Threads, w # t PROVE Seen(w)
  <2>1. \A q \in Ps(w) : q \notin S
    BY <1>12, <1>v DEF Ps
  <2>. QED BY <1>9, <1>10, <1>11, <1>v, <2>1, NothingSeen DEF PagesOnly, Pages
<1>w. Seen(t)
  <2>1. Pages(t)[p].offset = 0
    <3>1. Pages(t)[p].offset = p.idx - p.idx /\ p.idx \in Int
      BY <1>5, <1>19
    <3>. QED BY <3>1
  <2>2. p \in Ps(t) /\ Ps(t) \cap S = {p}
    BY <1>5, <1>19, <1>20, <2>1 DEF Ps
  <2>3. Pages(t)' = f
    BY <1>9 DEF PagesOnly, Pages
  <2>4. Ps(t)' = Ps(t)
    BY <1>8, <1>15, <2>3 DEF Ps
  <2>5. En(t)' = En(t) \ {p} /\ p \in En(t)
    BY <1>5, <1>7, <1>8, <2>2, <2>3, <2>4 DEF En, Ps
  <2>6. Ac(t)' = Ac(t) \ {p}
    BY <1>11, <2>2, <2>4 DEF Ac
  <2>7. Nu(t)' = Nu(t) /\ Nu(t)[p] = 0
    <3>1. \A q \in Ps(t) : f[q].num_blocks = Pages(t)[q].num_blocks
      BY <1>15 DEF Ps
    <3>. QED BY <1>5, <2>2, <2>3, <2>4, <3>1 DEF Nu
  <2>8. Bl(t)' = Bl(t) /\ De(t)' = De(t) /\ At(t)' = At(t) /\ Ch(t)' = Ch(t) /\ p \in Ch(t)
    BY <1>5, <1>10, <2>4 DEF Bl, De, At, Ch
  <2>9. PICK m, n1 : m = View(t) /\ n1 = View(t)'
    OBVIOUS
  <2>10. /\ m = Rec(Ps(t), En(t), Ac(t), Nu(t), Bl(t), De(t), At(t), Ch(t))
         /\ n1 = Rec(Ps(t), En(t) \ {p}, Ac(t) \ {p}, Nu(t), Bl(t), De(t), At(t), Ch(t))
    BY <2>4, <2>5, <2>6, <2>7, <2>8, <2>9, ViewIs, ViewWillBe
  <2>11. n1 = OneHeap!page_disable(m, p)
    BY <2>10, DisableIs
  <2>12. OneHeap!CanDisablePage(m, p)
    <3>1. m.enabled = En(t) /\ m.checked = Ch(t) /\ m.num = Nu(t)
      BY <2>10, RecParts
    <3>. QED BY <2>5, <2>7, <2>8, <3>1 DEF OneHeap!CanDisablePage
  <2>. QED BY <2>9, <2>11, <2>12, Transitions DEF Seen
<1>s. IInv'
  BY <1>13, <1>14, <1>17, <1>24, <1>25, Regroup
<1>. QED BY <1>s, <1>v, <1>w

\* A page is destroyed when it is disabled: it has no delay_actor.
LEMMA StepDestroyPage ==
  ASSUME IInv, NEW t \in ThreadId, NEW p \in PageId, NEW n \in 1 .. Slices,
         page_destroy_tokens(t, p, n)
  PROVE  IInv' /\ \A u \in Threads : Seen(u)
<1>1. HeapInv /\ SegmentInv /\ PageInv /\ DelayInv /\ BlockInv /\ Owned /\ Deposits
  BY Grouped, DepositsOf DEF IInv
<1>2. PICK S : S = range_from(p, n)
  OBVIOUS
<1>3. PICK f : f = Drop(Pages(t), S)
  OBVIOUS
<1>4. /\ t \in Threads /\ S \subseteq DOMAIN Pages(t)
      /\ \A q \in S : ~ Pages(t)[q].is_enabled /\ (p # q => Pages(t)[q].offset # 0)
  BY <1>2 DEF page_destroy_tokens, Threads
<1>5. p \in S
  BY <1>2, RangeIs
<1>6. DOMAIN Pages(t) \subseteq PageId /\ \A q \in DOMAIN Pages(t) : Pages(t)[q] \in PageRec
  BY <1>4, PageTyped
<1>7. /\ DOMAIN f = DOMAIN Pages(t) \ S
      /\ \A q \in DOMAIN f : f[q] = Pages(t)[q]
  BY <1>3 DEF Drop
<1>8. PagesOnly(t, f)
  <2>1. DOMAIN f \subseteq PageId /\ \A q \in DOMAIN f : f[q] \in PageRec
    BY <1>6, <1>7
  <2>2. SetPages(t, f)
    BY <1>2, <1>3 DEF page_destroy_tokens
  <2>. QED BY <1>4, <2>1, <2>2, SetPagesOnly
<1>9. UNCHANGED <<heaptok, segtok, thread_checked_state, block, delay_actor, page_shared_access>>
  BY DEF page_destroy_tokens
<1>10. /\ DOMAIN heap_of_page' = DOMAIN heap_of_page \ {p}
       /\ \A q \in DOMAIN heap_of_page' : heap_of_page'[q] = heap_of_page[q]
       /\ DOMAIN delay' = DOMAIN delay \ {p}
       /\ \A q \in DOMAIN delay' : delay'[q] = delay[q]
  BY DEF page_destroy_tokens, Drop
<1>11. \A u \in Threads : \A q \in DOMAIN Pages(u) : u # t => q \notin S
  BY <1>1, <1>4 DEF Owned
<1>12. p \notin DOMAIN delay_actor
  <2>1. SUFFICES ASSUME p \in DOMAIN delay_actor PROVE FALSE
    OBVIOUS
  <2>2. inv_delay_actor_for_page(p)
    BY <1>1, <2>1 DEF DelayInv, inv_delay_actor
  <2>3. \E u \in Threads : HasEnabled(u, p)
    BY <2>2 DEF inv_delay_actor_for_page, HasEnabled
  <2>. QED BY <1>4, <1>5, <1>11, <2>3 DEF HasEnabled
<1>13. TypeInv'
  BY <1>8, <1>9 DEF IInv, TypeInv, Threads, PagesOnly, heaptok, segtok
<1>14. HeapInv' /\ SegmentInv'
  BY <1>4, <1>8, <1>9, QuietPages
<1>15. \A u \in Threads : \A q \in DOMAIN Pages(u) : ~(q \in S) =>
         q \in DOMAIN thread_local_state'[u].pages
         /\ thread_local_state'[u].pages[q] = Pages(u)[q]
  BY <1>7, <1>8 DEF PagesOnly, Pages
<1>16. \A u \in Threads : \A q \in DOMAIN thread_local_state'[u].pages :
         q \in DOMAIN Pages(u) /\ q \notin S /\ thread_local_state'[u].pages[q] = Pages(u)[q]
  BY <1>7, <1>8, <1>11 DEF PagesOnly, Pages
<1>17. PlaceInv'
  <2>1. inv_heap_of_page_delay'
    BY <1>1, <1>10 DEF PageInv, PlaceInv, inv_heap_of_page_delay
  <2>2. inv_thread_has_segment_for_page'
    BY <1>1, <1>8, <1>16 DEF PageInv, PlaceInv, PagesOnly, Threads, Pages, Segments,
       inv_thread_has_segment_for_page
  <2>3. page_implies_segment_enabled'
    BY <1>1, <1>8, <1>16 DEF PageInv, PlaceInv, PagesOnly, Threads, Pages, Segments,
       page_implies_segment_enabled
  <2>4. inv_thread_of_page1'
    BY <1>1, <1>5, <1>8, <1>10, <1>16 DEF PageInv, PlaceInv, PagesOnly, Threads, Pages,
       inv_thread_of_page1
  <2>5. \A q \in DOMAIN heap_of_page' : q \notin S
    BY <1>1, <1>4, <1>10 DEF PageInv, PlaceInv, Owned, inv_thread_of_page2
  <2>6. inv_thread_of_page2'
    BY <1>1, <1>8, <1>9, <1>10, <1>15, <2>5 DEF PageInv, PlaceInv, PagesOnly, Threads, Pages,
       inv_thread_of_page2, OwnerHas, segtok
  <2>7. heap_of_page_is_correct'
    BY <1>1, <1>8, <1>9, <1>10 DEF PageInv, PlaceInv, PagesOnly, Threads, Pages,
       heap_of_page_is_correct, inv_thread_of_page2, OwnerHas, segtok
  <2>. QED BY <2>1, <2>2, <2>3, <2>4, <2>6, <2>7 DEF PlaceInv
<1>18. PageInv'
  <2>1. \A u \in Threads : \A q : HasEnabled(u, q)' <=> HasEnabled(u, q)
    BY <1>4, <1>7, <1>8 DEF HasEnabled, PagesOnly, Threads, Pages
  <2>2. Deposits'
    BY <1>1, <1>8, <1>9, <1>16, <2>1 DEF Deposits, PagesOnly, Threads, Pages
  <2>. QED BY <1>13, <1>14, <1>17, <2>2, DepositsMake
<1>19. DelayInv'
  <2>1. inv_delay_state' /\ inv_delay_actor_sub'
    BY <1>1, <1>9, <1>10, <1>12 DEF DelayInv, inv_delay_state, inv_delay_actor_sub
  <2>2. inv_no_delay_actor_for_checked'
    BY <1>1, <1>8, <1>9, <1>16 DEF DelayInv, PagesOnly, Threads, Pages,
       inv_no_delay_actor_for_checked
  <2>3. \A u \in Threads : \A q : HasEnabled(u, q) =>
           /\ q \in DOMAIN thread_local_state'[u].pages
           /\ thread_local_state'[u].pages[q] = Pages(u)[q]
    BY <1>4, <1>11, <1>15 DEF HasEnabled
  <2>4. inv_delay_actor'
    BY <1>8, <1>9, <2>3, ActorKept DEF PagesOnly, HasEnabled, heaptok, segtok
  <2>. QED BY <2>1, <2>2, <2>4 DEF DelayInv
<1>20. BlockInv'
  BY <1>4, <1>7, <1>8, <1>9, BlocksStay DEF HasEnabled
<1>d. \A w \in Threads : Ps(w) \subseteq DOMAIN delay
  BY <1>1 DEF PageInv, PlaceInv, inv_thread_of_page1, inv_heap_of_page_delay, Ps
<1>v. ASSUME NEW w \in Threads, w # t PROVE Seen(w)
  <2>1. \A q \in Ps(w) : q \in DOMAIN delay /\ q # p
    BY <1>5, <1>11, <1>d, <1>v DEF Ps
  <2>2. \A q \in Ps(w) : delay'[q] = delay[q]
    BY <1>10, <2>1
  <2>. QED BY <1>8, <1>9, <1>v, <2>2, NothingSeen DEF PagesOnly, Pages
<1>w. Seen(t)
  <2>1. p \in DOMAIN heap_of_page
    BY DEF page_destroy_tokens
  <2>2. p \in Ps(t)
    BY <1>1, <1>4, <1>5, <2>1 DEF PageInv, PlaceInv, Owned, inv_thread_of_page2, Ps
  <2>3. Pages(t)' = f
    BY <1>8 DEF PagesOnly, Pages
  <2>4. Ps(t)' = Ps(t) \ {p}
    BY <1>4, <1>5, <1>7, <2>3 DEF Ps
  <2>5. p \notin En(t) /\ En(t)' = En(t)
    BY <1>4, <1>5, <1>7, <2>3, <2>4 DEF En, Ps
  <2>6. p \notin DOMAIN page_shared_access
    BY <1>1, <1>4, <1>5, <1>11 DEF Deposits, HasEnabled
  <2>7. Ac(t)' = Ac(t) /\ At(t)' = At(t) /\ Ch(t)' = Ch(t)
    BY <1>9, <1>12, <2>4, <2>6 DEF Ac, At, Ch
  <2>8. \A b \in DOMAIN block : b.page_id # p
    BY <1>4, <1>5, <1>11, BlockOwner DEF HasEnabled
  <2>9. Bl(t)' = Bl(t)
    BY <1>9, <2>4, <2>8 DEF Bl
  <2>10. Nu(t)' = OneHeap!Without(Nu(t), p)
    <3>1. DOMAIN Nu(t) = Ps(t) /\ Nu(t)' = [q \in Ps(t) \ {p} |-> f[q].num_blocks]
      BY <2>3, <2>4 DEF Nu
    <3>2. \A q \in Ps(t) \ {p} : f[q].num_blocks = Nu(t)[q]
      BY <1>4, <1>7 DEF Nu, Ps
    <3>. QED BY <3>1, <3>2 DEF OneHeap!Without
  <2>11. De(t)' = OneHeap!Without(De(t), p)
    <3>1. DOMAIN De(t) = Ps(t) /\ De(t)' = [q \in Ps(t) \ {p} |-> delay'[q]]
      BY <2>4 DEF De
    <3>2. \A q \in Ps(t) \ {p} : delay'[q] = De(t)[q]
      BY <1>4, <1>10, <1>d DEF De
    <3>. QED BY <3>1, <3>2 DEF OneHeap!Without
  <2>12. PICK m, n1 : m = View(t) /\ n1 = View(t)'
    OBVIOUS
  <2>13. /\ m = Rec(Ps(t), En(t), Ac(t), Nu(t), Bl(t), De(t), At(t), Ch(t))
         /\ n1 = Rec(Ps(t) \ {p}, En(t), Ac(t), OneHeap!Without(Nu(t), p), Bl(t),
                     OneHeap!Without(De(t), p), At(t), Ch(t))
    BY <2>4, <2>5, <2>7, <2>9, <2>10, <2>11, <2>12, ViewIs, ViewWillBe
  <2>14. n1 = OneHeap!page_destroy_tokens(m, p)
    BY <2>13, DestroyIs
  <2>15. OneHeap!CanDestroyPage(m, p)
    <3>1. m.pages = Ps(t) /\ m.enabled = En(t) /\ m.delay = De(t) /\ DOMAIN De(t) = Ps(t)
      BY <2>13, RecParts DEF De
    <3>. QED BY <2>2, <2>5, <3>1 DEF OneHeap!CanDestroyPage
  <2>. QED BY <2>12, <2>14, <2>15, Transitions DEF Seen
<1>s. IInv'
  BY <1>13, <1>14, <1>18, <1>19, <1>20, Regroup
<1>. QED BY <1>s, <1>v, <1>w

\* The number of blocks of a page changes, and nothing else of it.
LEMMA SetNum ==
  ASSUME IInv, NEW t \in Threads, NEW p \in DOMAIN Pages(t), NEW k \in Nat,
         SetPages(t, [Pages(t) EXCEPT ![p].num_blocks = k])
  PROVE  \E f : /\ PagesOnly(t, f) /\ DOMAIN f = DOMAIN Pages(t)
                /\ f[p].num_blocks = k
                /\ \A q \in DOMAIN Pages(t) :
                     /\ f[q].offset = Pages(t)[q].offset
                     /\ f[q].block_size = Pages(t)[q].block_size
                     /\ f[q].shared_access = Pages(t)[q].shared_access
                     /\ f[q].is_enabled = Pages(t)[q].is_enabled
                     /\ q # p => f[q].num_blocks = Pages(t)[q].num_blocks
<1>1. DOMAIN Pages(t) \subseteq PageId /\ \A q \in DOMAIN Pages(t) : Pages(t)[q] \in PageRec
  BY PageTyped
<1>2. PICK f : f = [Pages(t) EXCEPT ![p].num_blocks = k]
  OBVIOUS
<1>3. PICK r : r = Pages(t)[p]
  OBVIOUS
<1>4. PICK m : m = [r EXCEPT !.num_blocks = k]
  OBVIOUS
<1>5. DOMAIN f = DOMAIN Pages(t) /\ f[p] = m /\ \A q \in DOMAIN Pages(t) : q # p => f[q] = Pages(t)[q]
  BY <1>2, <1>3, <1>4
<1>6. r \in PageRec
  BY <1>1, <1>3
<1>7. /\ m \in PageRec /\ m.num_blocks = k /\ m.offset = r.offset /\ m.block_size = r.block_size
      /\ m.shared_access = r.shared_access /\ m.is_enabled = r.is_enabled
  BY <1>4, <1>6 DEF PageRec
<1>8. DOMAIN f \subseteq PageId /\ \A q \in DOMAIN f : f[q] \in PageRec
  BY <1>1, <1>5, <1>7
<1>9. SetPages(t, f)
  BY <1>2
<1>10. PagesOnly(t, f)
  BY <1>8, <1>9, SetPagesOnly
<1>. QED BY <1>3, <1>5, <1>7, <1>10

\* A step that changes the number of blocks of a page and its tokens.
LEMMA QuietNum ==
  ASSUME IInv, NEW t \in Threads, NEW p \in DOMAIN Pages(t), NEW f, PagesOnly(t, f),
         DOMAIN f = DOMAIN Pages(t),
         \A q \in DOMAIN Pages(t) :
           /\ f[q].offset = Pages(t)[q].offset
           /\ f[q].shared_access = Pages(t)[q].shared_access
           /\ f[q].is_enabled = Pages(t)[q].is_enabled,
         UNCHANGED <<heaptok, segtok, delay, heap_of_page, delay_actor, page_shared_access>>,
         DOMAIN thread_checked_state' = DOMAIN thread_checked_state,
         inv_no_delay_actor_for_checked',
         DOMAIN block' \subseteq BlockId, \A b \in DOMAIN block' : block'[b] \in BlockRec,
         BlockInv'
  PROVE  IInv'
<1>1. TypeInv'
  BY DEF IInv, TypeInv, Threads, PagesOnly, heaptok, segtok
<1>2. HeapInv' /\ SegmentInv'
  BY QuietPages
<1>3. \A u \in Threads :
        /\ DOMAIN thread_local_state'[u].pages = DOMAIN Pages(u)
        /\ \A q \in DOMAIN Pages(u) :
             /\ thread_local_state'[u].pages[q].offset = Pages(u)[q].offset
             /\ thread_local_state'[u].pages[q].is_enabled = Pages(u)[q].is_enabled
             /\ thread_local_state'[u].pages[q].shared_access = Pages(u)[q].shared_access
  BY DEF PagesOnly, Pages
<1>4. PageInv'
  BY <1>3, PageFrame DEF PagesOnly, Segments, segtok
<1>5. DelayInv'
  BY <1>3, ActorFrame DEF PagesOnly, HasEnabled, heaptok, segtok
<1>. QED BY <1>1, <1>2, <1>4, <1>5, Regroup

\* The new blocks of a page have indices of their own, and lie on slices of the page.
LEMMA StepMakeBlocks ==
  ASSUME IInv, NEW t \in ThreadId, NEW p \in PageId, NEW hi \in 1 .. MaxBlock,
         page_mk_block_tokens(t, p, hi)
  PROVE  IInv' /\ \A u \in Threads : Seen(u)
<1>1. HeapInv /\ SegmentInv /\ PageInv /\ DelayInv /\ BlockInv /\ Owned
  BY Grouped, DepositsOf DEF IInv
<1>2. PICK r : r = Pages(t)[p]
  OBVIOUS
<1>3. /\ t \in Threads /\ p \in DOMAIN Pages(t)
      /\ r.is_enabled /\ r.offset = 0 /\ r.num_blocks < hi
      /\ \A i \in r.num_blocks .. hi - 1 : okay_to_add_block(t, p, i, r.block_size)
  BY <1>2 DEF page_mk_block_tokens, CanMakeBlocks, Threads
<1>4. DOMAIN Pages(t) \subseteq PageId /\ \A q \in DOMAIN Pages(t) : Pages(t)[q] \in PageRec
  BY <1>3, PageTyped
<1>5. /\ r \in PageRec /\ r.num_blocks \in Nat /\ r.block_size \in Sizes /\ hi \in Nat
      /\ MaxBlock \in Nat /\ hi <= MaxBlock
  BY <1>2, <1>3, <1>4, MimAssumption DEF PageRec
<1>6. PICK f : /\ PagesOnly(t, f) /\ DOMAIN f = DOMAIN Pages(t)
               /\ f[p].num_blocks = hi
               /\ \A q \in DOMAIN Pages(t) :
                    /\ f[q].offset = Pages(t)[q].offset
                    /\ f[q].block_size = Pages(t)[q].block_size
                    /\ f[q].shared_access = Pages(t)[q].shared_access
                    /\ f[q].is_enabled = Pages(t)[q].is_enabled
                    /\ q # p => f[q].num_blocks = Pages(t)[q].num_blocks
  BY <1>3, <1>5, SetNum DEF page_mk_block_tokens
<1>7. PICK B : B = NewBlocks(t, p, hi)
  OBVIOUS
<1>8. PICK g : g = [b \in B |->
       [segment_shared_access    |-> segment_shared_access[p.segment_id],
        page_shared_access       |-> Pages(t)[p].shared_access,
        page_slice_shared_access |-> Pages(t)[page_id_for_slice(b)].shared_access,
        heap_id                  |-> None]]
  OBVIOUS
<1>9. /\ UNCHANGED <<heaptok, segtok, delay, heap_of_page, delay_actor, page_shared_access>>
      /\ block' = Union(block, g)
      /\ thread_checked_state' = [thread_checked_state EXCEPT ![t] = @ \ {p}]
  BY <1>7, <1>8 DEF page_mk_block_tokens
<1>10. thread_of_segment[p.segment_id] = t /\ p.segment_id \in DOMAIN thread_of_segment
       /\ p.segment_id \in DOMAIN Segments(t)
  BY <1>3, Owner
<1>11. ASSUME NEW b \in DOMAIN block, b.page_id = p
       PROVE  b.idx \in Nat /\ b.idx < r.num_blocks
  <2>1. b.idx \in Nat
    BY MimAssumption DEF IInv, TypeInv, BlockId
  <2>2. block_properties(t, b)
    BY <1>1, <1>10, <1>11 DEF BlockInv, inv_block_id_valid
  <2>. QED BY <1>2, <1>11, <2>1, <2>2 DEF block_properties
<1>12. ASSUME NEW b \in B
       PROVE  /\ b \in BlockId /\ b.page_id = p /\ b.block_size = r.block_size
              /\ b.idx \in Nat /\ r.num_blocks <= b.idx /\ b.idx < hi
              /\ b.idx \in r.num_blocks .. hi - 1
              /\ b = [page_id |-> p, idx |-> b.idx, block_size |-> r.block_size]
  <2>1. PICK i \in r.num_blocks .. hi - 1 :
          b = [page_id |-> p, idx |-> i, block_size |-> r.block_size]
    BY <1>2, <1>7 DEF NewBlocks, range_block_ids
  <2>2. i \in Nat /\ r.num_blocks <= i /\ i < hi /\ i \in 0 .. MaxBlock - 1
    BY <1>5, <2>1
  <2>. QED BY <1>5, <2>1, <2>2 DEF BlockId
<1>13. \A b \in DOMAIN block : b \notin B
  <2>1. ASSUME NEW b \in DOMAIN block, b \in B PROVE FALSE
    <3>1. b.page_id = p /\ b.idx \in Nat /\ r.num_blocks <= b.idx
      BY <1>12, <2>1
    <3>2. b.idx < r.num_blocks
      BY <1>11, <2>1, <3>1
    <3>. QED BY <1>5, <3>1, <3>2
  <2>. QED BY <2>1
<1>14. /\ DOMAIN block' = DOMAIN block \cup B
       /\ \A b \in DOMAIN block : block'[b] = block[b]
       /\ \A b \in B : block'[b] = g[b]
  BY <1>8, <1>9, <1>13 DEF Union
<1>15. /\ p.segment_id \in DOMAIN segment_shared_access
       /\ Segments(t)[p.segment_id].is_enabled
       /\ segment_shared_access[p.segment_id] = Segments(t)[p.segment_id].shared_access
       /\ Segments(t)[p.segment_id] \in SegRec
  <2>1. Segments(t)[p.segment_id].is_enabled
    BY <1>1, <1>3 DEF PageInv, PlaceInv, page_implies_segment_enabled
  <2>2. p.segment_id \in DOMAIN segment_shared_access
    BY <1>1, <1>10, <2>1 DEF SegmentInv, inv_segment_shared_access_dom
  <2>3. Segments(t)[p.segment_id] \in SegRec
    BY <1>3, <1>10 DEF IInv, TypeInv, ThreadTypes, ThreadType, Segments
  <2>. QED BY <1>1, <1>10, <2>1, <2>2, <2>3 DEF SegmentInv, inv_segment_shared_access_eq
<1>16. ASSUME NEW b \in B, NEW q, q = page_id_for_slice(b)
       PROVE  q \in DOMAIN Pages(t) /\ Pages(t)[q].is_enabled /\ Pages(t)[q].offset = q.idx - p.idx
  <2>1. okay_to_add_block(t, p, b.idx, r.block_size)
    BY <1>3, <1>12
  <2>2. q = PageIdAt(p, get_slice_idx(p, b.idx, r.block_size))
    BY <1>12, <1>16 DEF page_id_for_slice
  <2>. QED BY <2>1, <2>2 DEF okay_to_add_block
<1>17. ASSUME NEW b \in B PROVE g[b] \in BlockRec
  <2>1. PICK q : q = page_id_for_slice(b)
    OBVIOUS
  <2>2. PICK z : z = Pages(t)[q]
    OBVIOUS
  <2>3. z.shared_access \in Access \cup {None} /\ r.shared_access \in Access \cup {None}
    BY <1>4, <1>5, <1>16, <2>1, <2>2 DEF PageRec
  <2>4. segment_shared_access[p.segment_id] \in Access \cup {None}
    BY <1>15 DEF SegRec
  <2>. QED BY <1>2, <1>8, <2>1, <2>2, <2>3, <2>4 DEF BlockRec
<1>18. DOMAIN block' \subseteq BlockId /\ \A b \in DOMAIN block' : block'[b] \in BlockRec
  BY <1>12, <1>14, <1>17 DEF IInv, TypeInv
<1>19. ASSUME NEW b \in B
       PROVE  /\ b.page_id.segment_id \in DOMAIN thread_of_segment'
              /\ block_properties(thread_of_segment[b.page_id.segment_id], b)'
  <2>1. PICK q : q = page_id_for_slice(b)
    OBVIOUS
  <2>2. b.page_id = p /\ b.block_size = r.block_size /\ b.idx < hi
    BY <1>12
  <2>3. PICK v : v = block'[b]
    OBVIOUS
  <2>4. /\ v.segment_shared_access = segment_shared_access[p.segment_id]
        /\ v.page_shared_access = r.shared_access
        /\ v.page_slice_shared_access = Pages(t)[q].shared_access
        /\ v.heap_id = None
    BY <1>2, <1>8, <1>14, <2>1, <2>3
  <2>5. /\ p \in DOMAIN f /\ f[p].is_enabled /\ f[p].offset = 0 /\ f[p].block_size = b.block_size
        /\ f[p].shared_access = v.page_shared_access
        /\ b.idx < f[p].num_blocks
    BY <1>2, <1>3, <1>6, <2>2, <2>4
  <2>6. /\ q \in DOMAIN f /\ f[q].is_enabled /\ f[q].shared_access = v.page_slice_shared_access
        /\ f[q].offset = q.idx - p.idx
    BY <1>6, <1>16, <2>1, <2>4
  <2>7. thread_local_state'[t].segments = Segments(t) /\ thread_local_state'[t].pages = f
    BY <1>3, <1>6 DEF PagesOnly, Segments
  <2>8. block_properties(t, b)'
    BY <1>15, <2>1, <2>2, <2>3, <2>4, <2>5, <2>6, <2>7 DEF block_properties, Pages, Segments
  <2>9. thread_of_segment' = thread_of_segment
    BY <1>9 DEF segtok
  <2>. QED BY <1>10, <2>2, <2>8, <2>9 DEF block_properties, Pages, Segments
<1>20. ASSUME NEW b \in DOMAIN block
       PROVE  /\ b.page_id.segment_id \in DOMAIN thread_of_segment'
              /\ block_properties(thread_of_segment[b.page_id.segment_id], b)'
  <2>1. block'[b] = block[b]
    BY <1>14
  <2>2. block[b].heap_id
           \in {None, thread_local_state[thread_of_segment[b.page_id.segment_id]].heap_id}
    BY <1>1 DEF BlockInv, inv_block_id_valid, block_properties
  <2>3. b.page_id = p => b.idx < hi
    <3>1. ASSUME b.page_id = p PROVE b.idx < hi
      <4>1. b.idx \in Nat /\ b.idx < r.num_blocks
        BY <1>11, <3>1
      <4>. QED BY <1>3, <1>5, <4>1
    <3>. QED BY <3>1
  <2>4. ASSUME NEW u \in Threads, NEW q \in PageId, HasEnabled(u, q)
        PROVE  /\ q \in DOMAIN thread_local_state'[u].pages
               /\ thread_local_state'[u].pages[q].is_enabled
               /\ thread_local_state'[u].pages[q].shared_access = Pages(u)[q].shared_access
               /\ thread_local_state'[u].pages[q].offset = Pages(u)[q].offset
               /\ thread_local_state'[u].pages[q].block_size = Pages(u)[q].block_size
               /\ q = b.page_id /\ b.idx < Pages(u)[q].num_blocks
                    => b.idx < thread_local_state'[u].pages[q].num_blocks
    <3>1. CASE u = t
      <4>1. q \in DOMAIN Pages(t) /\ Pages(t)[q].is_enabled
        BY <2>4, <3>1 DEF HasEnabled
      <4>2. thread_local_state'[u].pages = f
        BY <1>6, <3>1 DEF PagesOnly
      <4>. QED BY <1>6, <2>3, <3>1, <4>1, <4>2
    <3>2. CASE u # t
      BY <1>6, <2>4, <3>2 DEF PagesOnly, HasEnabled, Pages
    <3>. QED BY <3>1, <3>2
  <2>. QED BY <1>6, <1>9, <2>1, <2>2, <2>4, BlockKept DEF PagesOnly, segtok, Segments
<1>21. inv_block_id_valid'
  BY <1>14, <1>19, <1>20 DEF inv_block_id_valid, block_properties
<1>22. inv_block_id_at_idx_uniq'
  <2>1. ASSUME NEW b \in DOMAIN block', NEW c \in DOMAIN block', b.page_id = c.page_id, b.idx = c.idx
        PROVE  b = c
    <3>1. CASE b \in DOMAIN block /\ c \in DOMAIN block
      BY <1>1, <2>1, <3>1 DEF BlockInv, inv_block_id_at_idx_uniq
    <3>2. CASE b \in B /\ c \in B
      BY <1>12, <2>1, <3>2
    <3>3. ASSUME NEW x \in DOMAIN block, NEW y \in B, x.page_id = y.page_id, x.idx = y.idx
          PROVE  FALSE
      <4>1. y.page_id = p /\ y.idx \in Nat /\ r.num_blocks <= y.idx
        BY <1>12
      <4>2. x.idx < r.num_blocks
        BY <1>11, <3>3, <4>1
      <4>. QED BY <1>5, <3>3, <4>1, <4>2
    <3>. QED BY <1>14, <2>1, <3>1, <3>2, <3>3
  <2>. QED BY <2>1 DEF inv_block_id_at_idx_uniq
<1>23. BlockInv'
  BY <1>21, <1>22 DEF BlockInv
<1>24. /\ DOMAIN thread_checked_state' = DOMAIN thread_checked_state
       /\ thread_checked_state'[t] = thread_checked_state[t] \ {p}
       /\ \A u \in Threads : u # t => thread_checked_state'[u] = thread_checked_state[u]
  BY <1>1, <1>3, <1>9 DEF HeapInv, inv_checked_threads
<1>25. inv_no_delay_actor_for_checked'
  BY <1>1, <1>3, <1>6, <1>9, <1>24 DEF DelayInv, PagesOnly, Threads, Pages,
     inv_no_delay_actor_for_checked
<1>v. ASSUME NEW w \in Threads, w # t PROVE Seen(w)
  <2>1. p \notin Ps(w)
    BY <1>1, <1>10, <1>v DEF Owned, Ps
  <2>2. \A b : b.page_id \in Ps(w) => (b \in DOMAIN block' <=> b \in DOMAIN block)
    BY <1>12, <1>14, <2>1
  <2>. QED BY <1>6, <1>9, <1>24, <1>v, <2>2, NothingSeen DEF PagesOnly, Pages
<1>w. Seen(t)
  <2>1. p \in Ps(t)
    BY <1>2, <1>3 DEF Ps
  <2>2. Pages(t)' = f
    BY <1>6 DEF PagesOnly, Pages
  <2>3. Ps(t)' = Ps(t) /\ En(t)' = En(t)
    BY <1>6, <2>2 DEF Ps, En
  <2>4. Ac(t)' = Ac(t) /\ De(t)' = De(t) /\ At(t)' = At(t) /\ Ch(t)' = Ch(t) \ {p}
    BY <1>9, <1>24, <2>3 DEF Ac, De, At, Ch
  <2>5. Bl(t)' = Bl(t) \cup B /\ Bl(t)' \ Bl(t) = B /\ B \cap Bl(t) = {}
    BY <1>12, <1>13, <1>14, <2>1, <2>3 DEF Bl
  <2>6. Cardinality(B) \in Nat /\ Cardinality(B) = hi - r.num_blocks
    BY <1>2, <1>3, <1>5, <1>7, RangeCount DEF NewBlocks
  <2>7. DOMAIN Nu(t) = Ps(t) /\ Nu(t)[p] = r.num_blocks
    BY <1>2, <2>1 DEF Nu
  <2>8. PICK nu2 : nu2 = OneHeap!Over(Nu(t), p, hi)
    OBVIOUS
  <2>9. Nu(t)' = nu2
    <3>1. Nu(t)' = [q \in Ps(t) |-> f[q].num_blocks]
      BY <2>2, <2>3 DEF Nu
    <3>2. \A q \in Ps(t) : f[q].num_blocks = IF q = p THEN hi ELSE Nu(t)[q]
      BY <1>6 DEF Nu, Ps
    <3>3. DOMAIN Nu(t) \cup {p} = Ps(t)
      BY <2>1, <2>7
    <3>. QED BY <2>8, <3>1, <3>2, <3>3 DEF OneHeap!Over
  <2>10. PICK m, n1 : m = View(t) /\ n1 = View(t)'
    OBVIOUS
  <2>11. /\ m = Rec(Ps(t), En(t), Ac(t), Nu(t), Bl(t), De(t), At(t), Ch(t))
         /\ n1 = Rec(Ps(t), En(t), Ac(t), nu2, Bl(t) \cup B, De(t), At(t), Ch(t) \ {p})
    BY <2>3, <2>4, <2>5, <2>9, <2>10, ViewIs, ViewWillBe
  <2>12. n1 = OneHeap!page_mk_block_tokens(m, p, B)
    <3>1. hi \in Nat /\ hi = Nu(t)[p] + Cardinality(B) /\ Nu(t)[p] \in Nat /\ Cardinality(B) \in Nat
      BY <1>5, <2>6, <2>7
    <3>. QED BY <2>8, <2>11, <3>1, MakeBlocksIs
  <2>13. OneHeap!CanMakeBlocks(m, p, B) /\ B = n1.block \ m.block
    <3>1. m.enabled = En(t) /\ m.block = Bl(t) /\ n1.block = Bl(t) \cup B
      BY <2>11, RecParts
    <3>2. p \in En(t)
      BY <1>2, <1>3, <2>1 DEF En
    <3>3. \A b \in B : [c \in BlockId |-> c.page_id][b] = p
      BY <1>12
    <3>. QED BY <2>5, <3>1, <3>2, <3>3 DEF OneHeap!CanMakeBlocks
  <2>. QED BY <2>10, <2>12, <2>13, Transitions DEF Seen
<1>s. IInv'
  BY <1>3, <1>6, <1>9, <1>18, <1>23, <1>24, <1>25, QuietNum
<1>. QED BY <1>s, <1>v, <1>w

\* As many blocks of a page as it has blocks are all its blocks.
LEMMA AllBlocks ==
  ASSUME IInv, NEW t \in Threads, NEW p \in DOMAIN Pages(t), NEW blocks,
         Cardinality(blocks) = Pages(t)[p].num_blocks,
         blocks \subseteq {b \in DOMAIN block : b.page_id = p}
  PROVE  blocks = {b \in DOMAIN block : b.page_id = p}
<1>1. PICK B : B = {b \in DOMAIN block : b.page_id = p}
  OBVIOUS
<1>2. PICK k : k = Pages(t)[p].num_blocks
  OBVIOUS
<1>3. k \in Nat
  BY <1>2, PageTyped DEF PageRec
<1>4. PICK f : f = [b \in B |-> b.idx]
  OBVIOUS
<1>5. ASSUME NEW b \in B PROVE b.idx \in 0 .. k - 1
  <2>1. b \in DOMAIN block /\ b.page_id = p
    BY <1>1
  <2>2. b.idx \in Nat
    BY <2>1, MimAssumption DEF IInv, TypeInv, BlockId
  <2>3. thread_of_segment[p.segment_id] = t
    BY Owner
  <2>4. block_properties(t, b)
    BY <2>1, <2>3 DEF IInv, Invariants, inv_block_id_valid
  <2>5. b.idx < k
    BY <1>2, <2>1, <2>4 DEF block_properties
  <2>. QED BY <1>3, <2>2, <2>5
<1>6. f \in [B -> 0 .. k - 1]
  BY <1>4, <1>5
<1>7. ASSUME NEW b \in B, NEW c \in B, f[b] = f[c] PROVE b = c
  BY <1>1, <1>4, <1>7 DEF IInv, Invariants, inv_block_id_at_idx_uniq
<1>8. f \in Injection(B, 0 .. k - 1)
  BY <1>6, <1>7 DEF Injection, IsInjective
<1>9. IsFiniteSet(0 .. k - 1) /\ Cardinality(0 .. k - 1) = k
  <2>1. IsFiniteSet(0 .. k - 1) /\ Cardinality(0 .. k - 1) = IF 0 > k - 1 THEN 0 ELSE k - 1 - 0 + 1
    BY <1>3, FS_Interval
  <2>. QED BY <1>3, <2>1
<1>10. IsFiniteSet(B) /\ Cardinality(B) <= k
  BY <1>8, <1>9, FS_Injection
<1>11. Cardinality(blocks) <= Cardinality(B) /\ (Cardinality(B) = Cardinality(blocks) => B = blocks)
  BY <1>1, <1>10, FS_Subset
<1>12. Cardinality(B) \in Nat
  BY <1>10, FS_CardinalityType
<1>. QED BY <1>1, <1>2, <1>3, <1>10, <1>11, <1>12

LEMMA StepDestroyBlocks ==
  ASSUME IInv, NEW t \in ThreadId, NEW p \in PageId,
         NEW blocks \in SUBSET {b \in DOMAIN block : b.page_id = p},
         page_destroy_block_tokens(t, p, blocks)
  PROVE  IInv' /\ \A u \in Threads : Seen(u)
<1>1. HeapInv /\ SegmentInv /\ PageInv /\ DelayInv /\ BlockInv /\ Owned
  BY Grouped, DepositsOf DEF IInv
<1>2. t \in Threads /\ p \in DOMAIN Pages(t) /\ Cardinality(blocks) = Pages(t)[p].num_blocks
  BY DEF page_destroy_block_tokens, CanDestroyBlocks, Threads
<1>3. blocks = {b \in DOMAIN block : b.page_id = p}
  BY <1>2, AllBlocks
<1>4. PICK f : /\ PagesOnly(t, f) /\ DOMAIN f = DOMAIN Pages(t)
               /\ f[p].num_blocks = 0
               /\ \A q \in DOMAIN Pages(t) :
                    /\ f[q].offset = Pages(t)[q].offset
                    /\ f[q].block_size = Pages(t)[q].block_size
                    /\ f[q].shared_access = Pages(t)[q].shared_access
                    /\ f[q].is_enabled = Pages(t)[q].is_enabled
                    /\ q # p => f[q].num_blocks = Pages(t)[q].num_blocks
  BY <1>2, SetNum DEF page_destroy_block_tokens
<1>5. UNCHANGED <<heaptok, segtok, thread_checked_state, delay, heap_of_page, delay_actor,
                  page_shared_access>>
  BY DEF page_destroy_block_tokens
<1>6. /\ DOMAIN block' = {b \in DOMAIN block : b.page_id # p}
      /\ \A b \in DOMAIN block' : block'[b] = block[b]
  BY <1>3 DEF page_destroy_block_tokens, Drop
<1>7. \A b \in DOMAIN block : block[b].heap_id
        \in {None, thread_local_state[thread_of_segment[b.page_id.segment_id]].heap_id}
  BY <1>1 DEF BlockInv, inv_block_id_valid, block_properties
<1>8. ASSUME NEW b \in DOMAIN block', NEW u \in Threads, NEW q \in PageId, HasEnabled(u, q)
      PROVE  /\ q \in DOMAIN thread_local_state'[u].pages
             /\ thread_local_state'[u].pages[q].is_enabled
             /\ thread_local_state'[u].pages[q].shared_access = Pages(u)[q].shared_access
             /\ thread_local_state'[u].pages[q].offset = Pages(u)[q].offset
             /\ thread_local_state'[u].pages[q].block_size = Pages(u)[q].block_size
             /\ q = b.page_id /\ b.idx < Pages(u)[q].num_blocks
                  => b.idx < thread_local_state'[u].pages[q].num_blocks
  <2>1. b.page_id # p
    BY <1>6
  <2>2. CASE u = t
    <3>1. q \in DOMAIN Pages(t) /\ Pages(t)[q].is_enabled
      BY <1>8, <2>2 DEF HasEnabled
    <3>2. thread_local_state'[u].pages = f
      BY <1>4, <2>2 DEF PagesOnly
    <3>. QED BY <1>4, <2>1, <2>2, <3>1, <3>2
  <2>3. CASE u # t
    BY <1>4, <1>8, <2>3 DEF PagesOnly, HasEnabled, Pages
  <2>. QED BY <2>2, <2>3
<1>9. BlockInv'
  BY <1>4, <1>5, <1>6, <1>7, <1>8, BlockFrame DEF PagesOnly, segtok, Segments
<1>10. DOMAIN block' \subseteq BlockId /\ \A b \in DOMAIN block' : block'[b] \in BlockRec
  BY <1>6 DEF IInv, TypeInv
<1>11. inv_no_delay_actor_for_checked'
  BY <1>1, <1>2, <1>4, <1>5 DEF DelayInv, PagesOnly, Threads, Pages,
     inv_no_delay_actor_for_checked
<1>v. ASSUME NEW w \in Threads, w # t \/ p \notin Ps(t) PROVE Seen(w)
  <2>1. p \notin Ps(w)
    BY <1>1, <1>2, <1>v DEF Owned, Ps
  <2>2. \A b : b.page_id \in Ps(w) => (b \in DOMAIN block' <=> b \in DOMAIN block)
    BY <1>6, <2>1
  <2>3. CASE w # t
    BY <1>4, <1>5, <2>2, <2>3, NothingSeen DEF PagesOnly, Pages
  <2>4. CASE w = t
    <3>1. Pages(t)' = f
      BY <1>4 DEF PagesOnly, Pages
    <3>2. Ps(t)' = Ps(t) /\ \A q \in Ps(t) : q \in DOMAIN Pages(t) /\ q # p
      BY <1>4, <2>1, <2>4, <3>1 DEF Ps
    <3>3. Nu(t)' = Nu(t)
      BY <1>4, <3>1, <3>2 DEF Nu
    <3>4. En(t)' = En(t) /\ Bl(t)' = Bl(t)
      BY <1>4, <2>2, <2>4, <3>1, <3>2 DEF En, Bl
    <3>5. Ac(t)' = Ac(t) /\ De(t)' = De(t) /\ At(t)' = At(t) /\ Ch(t)' = Ch(t)
      BY <1>5, <3>2 DEF Ac, De, At, Ch
    <3>. QED BY <2>4, <3>2, <3>3, <3>4, <3>5, ViewIs, ViewWillBe DEF Seen
  <2>. QED BY <2>3, <2>4
<1>w. ASSUME p \in Ps(t) PROVE Seen(t)
  <2>1. Pages(t)' = f
    BY <1>4 DEF PagesOnly, Pages
  <2>2. Ps(t)' = Ps(t) /\ En(t)' = En(t)
    BY <1>4, <2>1 DEF Ps, En
  <2>3. Ac(t)' = Ac(t) /\ De(t)' = De(t) /\ At(t)' = At(t) /\ Ch(t)' = Ch(t)
    BY <1>5, <2>2 DEF Ac, De, At, Ch
  <2>4. Bl(t)' = Bl(t) \ blocks /\ blocks \subseteq Bl(t) /\ blocks = {b \in Bl(t) : b.page_id = p}
    BY <1>3, <1>6, <1>w, <2>2 DEF Bl
  <2>5. DOMAIN Nu(t) = Ps(t) /\ Nu(t)[p] = Cardinality(blocks)
    BY <1>2, <1>w DEF Nu
  <2>6. Nu(t)' = OneHeap!Over(Nu(t), p, 0)
    <3>1. Nu(t)' = [q \in Ps(t) |-> f[q].num_blocks]
      BY <2>1, <2>2 DEF Nu
    <3>2. \A q \in Ps(t) : f[q].num_blocks = IF q = p THEN 0 ELSE Nu(t)[q]
      BY <1>4 DEF Nu, Ps
    <3>3. DOMAIN Nu(t) \cup {p} = Ps(t)
      BY <1>w, <2>5
    <3>. QED BY <3>1, <3>2, <3>3 DEF OneHeap!Over
  <2>7. PICK m, n1 : m = View(t) /\ n1 = View(t)'
    OBVIOUS
  <2>8. /\ m = Rec(Ps(t), En(t), Ac(t), Nu(t), Bl(t), De(t), At(t), Ch(t))
        /\ n1 = Rec(Ps(t), En(t), Ac(t), OneHeap!Over(Nu(t), p, 0), Bl(t) \ blocks, De(t), At(t),
                    Ch(t))
    BY <2>2, <2>3, <2>4, <2>6, <2>7, ViewIs, ViewWillBe
  <2>9. n1 = OneHeap!page_destroy_block_tokens(m, p, blocks)
    BY <2>8, DestroyBlocksIs
  <2>10. m.pages = Ps(t) /\ m.num = Nu(t) /\ m.block = Bl(t)
    BY <2>8, RecParts
  <2>11. blocks = HeldBy(t)[p]
    BY <2>4, <2>7, <2>10 DEF HeldBy
  <2>12. OneHeap!CanDestroyBlocks(m, p, blocks)
    <3>1. \A b \in blocks : [c \in BlockId |-> c.page_id][b] = p
      BY <1>3 DEF IInv, TypeInv
    <3>. QED BY <1>w, <2>4, <2>5, <2>10, <3>1, SameCount DEF OneHeap!CanDestroyBlocks
  <2>. QED BY <2>7, <2>9, <2>11, <2>12, Transitions DEF Seen
<1>s. IInv'
  BY <1>2, <1>4, <1>5, <1>9, <1>10, <1>11, QuietNum
<1>. QED BY <1>s, <1>v, <1>w

-----------------------------------------------------------------------------
(* The invariants of tokens.rs                                              *)

LEMMA InitHolds == Init => IInv
<1>. SUFFICES ASSUME Init PROVE IInv
  OBVIOUS
<1>1. /\ Threads = {} /\ DOMAIN block = {} /\ DOMAIN thread_of_segment = {} /\ DOMAIN delay = {}
      /\ DOMAIN heap_of_page = {} /\ DOMAIN delay_actor = {} /\ DOMAIN segment_shared_access = {}
      /\ DOMAIN page_shared_access = {} /\ DOMAIN heap_shared_access = {}
      /\ DOMAIN heap_to_thread = {} /\ DOMAIN thread_checked_state = {} /\ reserved_uniq = {}
  BY DEF Init, Threads, Empty
<1>2. TypeInv
  BY <1>1 DEF Init, TypeInv, ThreadTypes
<1>3. HeapInv
  BY <1>1 DEF Init, HeapInv, inv_reserved2, inv_right_to_set_inst, inv_checked_threads,
     right_to_use_thread_complement, heap_of_thread_is_valid, wf_heap_shared_access_requires_inst,
     heap_ids_thread_id1, heap_ids_thread_id2, inv_heap_shared_access
<1>4. SegmentInv
  BY <1>1 DEF SegmentInv, inv_thread_of_segment1, inv_thread_of_segment2,
     inv_segment_shared_access_dom, inv_segment_shared_access_eq
<1>5. PageInv
  BY <1>1 DEF PageInv, PlaceInv, inv_heap_of_page_delay, inv_thread_has_segment_for_page,
     inv_thread_of_page1, inv_thread_of_page2, heap_of_page_is_correct,
     page_implies_segment_enabled, inv_page_shared_access_dom, inv_page_shared_access_eq, OwnerHas
<1>6. DelayInv /\ BlockInv
  BY <1>1 DEF DelayInv, BlockInv, inv_delay_state, inv_delay_actor, inv_delay_actor_sub,
     inv_no_delay_actor_for_checked, inv_block_id_valid, inv_block_id_at_idx_uniq
<1>. QED BY <1>2, <1>3, <1>4, <1>5, <1>6, Grouped DEF IInv

LEMMA StutterHolds == ASSUME IInv, UNCHANGED vars PROVE IInv'
<1>1. UNCHANGED <<pagetok, segtok, thread_local_state, thread_checked_state>>
      /\ UNCHANGED <<heap_shared_access, heap_to_thread>> /\ UNCHANGED heaptok
  BY DEF vars, heaptok
<1>2. SegmentInv' /\ PageInv' /\ DelayInv' /\ BlockInv'
  BY <1>1, QuietHeap
<1>3. HeapInv
  BY Grouped DEF IInv
<1>4. HeapInv'
  BY <1>1, <1>3, HeapFrame DEF Threads
<1>5. TypeInv'
  BY <1>1 DEF IInv, TypeInv, ThreadTypes, ThreadType, Threads, pagetok, segtok, heaptok
<1>. QED BY <1>2, <1>4, <1>5, Regroup

\* A transition that keeps the pages and their tokens is not seen.
LEMMA QuietSeen ==
  ASSUME UNCHANGED <<thread_local_state, thread_checked_state, delay, page_shared_access>>,
         DOMAIN block' = DOMAIN block, DOMAIN delay_actor' = DOMAIN delay_actor,
         NEW w \in Threads
  PROVE  Seen(w)
  BY NothingSeen DEF Pages

\* Every transition keeps the invariants, and each thread sees a transition of its heap.
LEMMA StepHolds ==
  ASSUME IInv, [Next]_vars
  PROVE  IInv' /\ \A u \in Threads : Seen(u)
<1>1. CASE set_inst
  BY <1>1, StepSetInst, QuietSeen DEF set_inst, pagetok
<1>2. CASE reserve_uniq_identifier
  BY <1>2, StepReserve, QuietSeen DEF reserve_uniq_identifier, pagetok
<1>3. ASSUME NEW t \in ThreadId, NEW h \in HeapId, NEW x \in Access,
             create_thread_mk_tokens(t, h, x)
      PROVE  IInv' /\ \A u \in Threads : Seen(u)
  BY <1>3, StepCreateThread
<1>4. ASSUME NEW t \in ThreadId, create_segment_mk_tokens(t) PROVE IInv' /\ \A u \in Threads : Seen(u)
  BY <1>4, StepCreateSegment
<1>5. ASSUME NEW t \in ThreadId, NEW s \in SegmentId, NEW x \in Access, segment_enable(t, s, x)
      PROVE  IInv' /\ \A u \in Threads : Seen(u)
  BY <1>5, StepEnableSegment
<1>6. ASSUME NEW t \in ThreadId, NEW p \in PageId, NEW hi \in 1 .. MaxBlock,
             page_mk_block_tokens(t, p, hi)
      PROVE  IInv' /\ \A u \in Threads : Seen(u)
  BY <1>6, StepMakeBlocks
<1>7. ASSUME NEW t \in ThreadId, NEW p \in PageId,
             NEW blocks \in SUBSET {b \in DOMAIN block : b.page_id = p},
             page_destroy_block_tokens(t, p, blocks)
      PROVE  IInv' /\ \A u \in Threads : Seen(u)
  BY <1>7, StepDestroyBlocks
<1>8. ASSUME NEW t \in ThreadId, NEW p \in PageId, page_check_delay_state(t, p) PROVE IInv' /\ \A u \in Threads : Seen(u)
  BY <1>8, StepCheckDelay, CheckDelaySeen
<1>9. ASSUME NEW t \in ThreadId, NEW p \in PageId, NEW n \in 1 .. Slices, NEW size \in Sizes,
             create_page_mk_tokens(t, p, n, size)
      PROVE  IInv' /\ \A u \in Threads : Seen(u)
  BY <1>9, StepCreatePage
<1>10. ASSUME NEW t \in ThreadId, NEW p \in PageId, NEW n \in 1 .. Slices,
              NEW psa_map \in [range_from(p, n) -> Access], page_enable(t, p, n, psa_map)
       PROVE  IInv' /\ \A u \in Threads : Seen(u)
  BY <1>10, StepEnablePage
<1>11. ASSUME NEW t \in ThreadId, NEW p \in PageId, NEW n \in 1 .. Slices, page_disable(t, p, n)
       PROVE  IInv' /\ \A u \in Threads : Seen(u)
  BY <1>11, StepDisablePage
<1>12. ASSUME NEW t \in ThreadId, NEW p \in PageId, NEW n \in 1 .. Slices,
              page_destroy_tokens(t, p, n)
       PROVE  IInv' /\ \A u \in Threads : Seen(u)
  BY <1>12, StepDestroyPage
<1>13. ASSUME NEW p \in DOMAIN delay, set_use_delayed_free(p) \/ delay_leave_freeing(p)
       PROVE  IInv' /\ \A u \in Threads : Seen(u)
  BY <1>13, StepUseDelayed, StepLeaveFreeing, UseDelayedSeen, LeaveFreeingSeen
<1>14. ASSUME NEW b \in DOMAIN block,
              \/ delay_enter_freeing(b.page_id, b)
              \/ delay_lookup_heap(b)
              \/ block_set_heap_id(b)
       PROVE  IInv' /\ \A u \in Threads : Seen(u)
  <2>1. CASE delay_enter_freeing(b.page_id, b)
    BY <2>1, StepEnterFreeing, EnterFreeingSeen
  <2>2. CASE delay_lookup_heap(b)
    <3>1. DOMAIN delay_actor' = DOMAIN delay_actor
      BY <2>2 DEF delay_lookup_heap, CanLookupHeap, Put
    <3>2. UNCHANGED <<thread_local_state, thread_checked_state, delay, page_shared_access, block>>
      BY <2>2 DEF delay_lookup_heap
    <3>. QED BY <2>2, <3>1, <3>2, StepLookupHeap, QuietSeen
  <2>3. CASE block_set_heap_id(b)
    <3>1. UNCHANGED <<thread_local_state, thread_checked_state, delay, page_shared_access, delay_actor>>
          /\ DOMAIN block' = DOMAIN block
      BY <2>3 DEF block_set_heap_id
    <3>. QED BY <2>3, <3>1, StepSetHeapId, QuietSeen
  <2>. QED BY <1>14, <2>1, <2>2, <2>3
<1>15. CASE UNCHANGED vars
  BY <1>15, StutterHolds, QuietSeen DEF vars, pagetok
<1>. QED BY <1>1, <1>2, <1>3, <1>4, <1>5, <1>6, <1>7, <1>8, <1>9, <1>10, <1>11, <1>12, <1>13,
            <1>14, <1>15 DEF Next

\* The invariants of tokens.rs, with the types of the tokens, hold in every reachable state.
THEOREM TokensInvariant == Spec => []IInv
<1>1. Init => IInv
  BY InitHolds
<1>2. IInv /\ [Next]_vars => IInv'
  BY StepHolds
<1>. QED BY <1>1, <1>2, PTL DEF Spec

-----------------------------------------------------------------------------
(* What the transitions need, and what a token is good for                  *)

LEMMA ThreadsOblige == ASSUME IInv PROVE ThreadObligations
<1>1. HeapInv /\ SegmentInv
  BY Grouped DEF IInv
<1>2. ASSUME NEW t \in ThreadId, NEW h \in HeapId, CanCreateThread(t, h)
      PROVE  /\ Fresh(thread_local_state, {t}) /\ Fresh(thread_checked_state, {t})
             /\ Fresh(heap_shared_access, {h})
  BY <1>1, <1>2 DEF CanCreateThread, HeapInv, right_to_use_thread_complement, inv_reserved2,
     inv_checked_threads, Fresh, Threads
<1>3. mk_fresh_segment_id \notin DOMAIN thread_of_segment
  BY UniqMaxFresh, MimAssumption DEF IInv, TypeInv, SegmentId, mk_fresh_segment_id
<1>4. \A t \in Threads : mk_fresh_segment_id \notin DOMAIN Segments(t)
  BY <1>1, <1>3 DEF SegmentInv, inv_thread_of_segment1
<1>5. ASSUME NEW t \in ThreadId, NEW s \in SegmentId, CanEnableSegment(t, s)
      PROVE  Fresh(segment_shared_access, {s})
  BY <1>1, <1>5 DEF CanEnableSegment, SegmentInv, inv_thread_of_segment1,
     inv_segment_shared_access_dom, Fresh, Threads
<1>. QED BY <1>2, <1>4, <1>5 DEF ThreadObligations

LEMMA PagesOblige == ASSUME IInv PROVE PageObligations
<1>1. SegmentInv /\ PageInv /\ BlockInv /\ Owned /\ Deposits
  BY Grouped, DepositsOf DEF IInv
<1>. SUFFICES ASSUME NEW t \in Threads, NEW p \in PageId
              PROVE
    /\ \A n \in 1..Slices :
         /\ CanCreatePage(t, p, n) => Fresh(heap_of_page, {p}) /\ Fresh(delay, {p})
         /\ CanEnablePage(t, p, n) => Fresh(page_shared_access, range_from(p, n))
         /\ CanDisablePage(t, p, n) => \A q \in range_from(p, n) :
              /\ q \in DOMAIN page_shared_access
              /\ page_shared_access[q] = Pages(t)[q].shared_access
    /\ \A hi \in 1..MaxBlock : CanMakeBlocks(t, p, hi) =>
         Fresh(block, NewBlocks(t, p, hi)) /\ p.segment_id \in DOMAIN segment_shared_access
  BY DEF PageObligations
<1>2. ASSUME NEW n \in 1 .. Slices, CanCreatePage(t, p, n)
      PROVE  Fresh(heap_of_page, {p}) /\ Fresh(delay, {p})
  <2>1. p \notin DOMAIN Pages(t) /\ p.segment_id \in DOMAIN Segments(t)
    BY <1>2, RangeIs DEF CanCreatePage
  <2>2. thread_of_segment[p.segment_id] = t
    BY <1>1, <2>1 DEF SegmentInv, inv_thread_of_segment1
  <2>3. p \notin DOMAIN heap_of_page
    BY <1>1, <2>1, <2>2 DEF PageInv, PlaceInv, inv_thread_of_page2, OwnerHas
  <2>. QED BY <1>1, <2>3 DEF PageInv, PlaceInv, inv_heap_of_page_delay, Fresh
<1>3. ASSUME NEW n \in 1 .. Slices, CanEnablePage(t, p, n)
      PROVE  Fresh(page_shared_access, range_from(p, n))
  <2>1. ASSUME NEW q \in range_from(p, n), q \in DOMAIN page_shared_access PROVE FALSE
    <3>1. q \in DOMAIN Pages(t) /\ ~ Pages(t)[q].is_enabled
      BY <1>3 DEF CanEnablePage
    <3>2. PICK u \in Threads : HasEnabled(u, q)
      BY <1>1, <2>1 DEF Deposits
    <3>3. u = t
      BY <1>1, <3>1, <3>2 DEF Owned, HasEnabled
    <3>. QED BY <3>1, <3>2, <3>3 DEF HasEnabled
  <2>. QED BY <2>1 DEF Fresh
<1>4. ASSUME NEW n \in 1 .. Slices, CanDisablePage(t, p, n), NEW q \in range_from(p, n)
      PROVE  q \in DOMAIN page_shared_access /\ page_shared_access[q] = Pages(t)[q].shared_access
  BY <1>1, <1>4 DEF CanDisablePage, Deposits, HasEnabled
<1>5. ASSUME NEW hi \in 1 .. MaxBlock, CanMakeBlocks(t, p, hi)
      PROVE  Fresh(block, NewBlocks(t, p, hi)) /\ p.segment_id \in DOMAIN segment_shared_access
  <2>1. p \in DOMAIN Pages(t)
    BY <1>5 DEF CanMakeBlocks
  <2>2. thread_of_segment[p.segment_id] = t /\ p.segment_id \in DOMAIN thread_of_segment
    BY <2>1, Owner
  <2>3. Segments(t)[p.segment_id].is_enabled
    BY <1>1, <2>1 DEF PageInv, PlaceInv, page_implies_segment_enabled
  <2>4. p.segment_id \in DOMAIN segment_shared_access
    BY <1>1, <2>2, <2>3 DEF SegmentInv, inv_segment_shared_access_dom
  <2>5. Pages(t)[p].num_blocks \in Nat
    BY <2>1, PageTyped DEF PageRec
  <2>6. ASSUME NEW b \in DOMAIN block, b \in NewBlocks(t, p, hi) PROVE FALSE
    <3>1. PICK i \in Pages(t)[p].num_blocks .. hi - 1 :
            b = [page_id |-> p, idx |-> i, block_size |-> Pages(t)[p].block_size]
      BY <2>6 DEF NewBlocks, range_block_ids
    <3>2. b.page_id = p /\ b.idx = i
      BY <3>1
    <3>3. block_properties(t, b)
      BY <1>1, <2>2, <3>2 DEF BlockInv, inv_block_id_valid
    <3>4. i < Pages(t)[p].num_blocks
      BY <3>2, <3>3 DEF block_properties
    <3>. QED BY <2>5, <3>1, <3>4
  <2>. QED BY <2>4, <2>6 DEF Fresh
<1>. QED BY <1>2, <1>3, <1>4, <1>5

LEMMA DelaysOblige == ASSUME IInv PROVE DelayObligations
<1>1. HeapInv /\ PageInv /\ DelayInv
  BY Grouped DEF IInv
<1>2. ASSUME NEW b \in DOMAIN block, CanEnterFreeing(b.page_id, b)
      PROVE  Fresh(delay_actor, {b.page_id})
  BY <1>1, <1>2 DEF CanEnterFreeing, DelayInv, inv_delay_state, Fresh
<1>3. ASSUME NEW b \in DOMAIN block, CanLookupHeap(b)
      PROVE  heap_of_page[b.page_id] \in DOMAIN heap_shared_access
  <2>1. b.page_id \in DOMAIN heap_of_page
    BY <1>3 DEF CanLookupHeap
  <2>2. thread_of_segment[b.page_id.segment_id] \in Threads
    BY <1>1, <2>1 DEF PageInv, PlaceInv, inv_thread_of_page2, OwnerHas
  <2>. QED BY <1>1, <2>1, <2>2 DEF PageInv, PlaceInv, heap_of_page_is_correct, HeapInv,
              heap_of_thread_is_valid
<1>4. \A p \in DOMAIN delay : CanLeaveFreeing(p) => delay[p] = 1
  BY <1>1 DEF CanLeaveFreeing, DelayInv, inv_delay_state
<1>. QED BY <1>2, <1>3, <1>4 DEF DelayObligations

LEMMA HoldersConclude == ASSUME IInv PROVE Conclusions
<1>1. HeapInv /\ SegmentInv /\ PageInv /\ DelayInv /\ BlockInv /\ Owned /\ Deposits
  BY Grouped, DepositsOf DEF IInv
<1>2. ASSUME NEW t \in Threads PROVE thread_local_state_guards(t)
  <2>1. \A p \in DOMAIN Pages(t) : Pages(t)[p].is_enabled =>
          Guards(page_shared_access, p, Pages(t)[p].shared_access)
    BY <1>1 DEF Deposits, HasEnabled, Guards
  <2>2. \A s \in DOMAIN Segments(t) : Segments(t)[s].is_enabled =>
          Guards(segment_shared_access, s, Segments(t)[s].shared_access)
    BY <1>1 DEF SegmentInv, inv_thread_of_segment1, inv_segment_shared_access_dom,
       inv_segment_shared_access_eq, Guards
  <2>3. Guards(heap_shared_access, thread_local_state[t].heap_id, thread_local_state[t].heap)
    BY <1>1 DEF HeapInv, heap_of_thread_is_valid, inv_heap_shared_access, Guards
  <2>. QED BY <2>1, <2>2, <2>3 DEF thread_local_state_guards
<1>3. ASSUME NEW b \in DOMAIN block
      PROVE  \E t \in Threads :
               /\ t = thread_of_segment[b.page_id.segment_id] /\ block_properties(t, b)
               /\ b.page_id.segment_id \in DOMAIN Segments(t)
  BY <1>1 DEF BlockInv, SegmentInv, inv_block_id_valid, inv_thread_of_segment2
<1>4. ASSUME NEW b \in DOMAIN block PROVE alloc_guards(b)
  <2>1. PICK t \in Threads : block_properties(t, b) /\ b.page_id.segment_id \in DOMAIN Segments(t)
    BY <1>3
  <2>2. PICK p, q : p = b.page_id /\ q = page_id_for_slice(b)
    OBVIOUS
  <2>3. /\ p \in DOMAIN Pages(t) /\ Pages(t)[p].is_enabled
        /\ Pages(t)[p].shared_access = block[b].page_shared_access
        /\ q \in DOMAIN Pages(t) /\ Pages(t)[q].is_enabled
        /\ Pages(t)[q].shared_access = block[b].page_slice_shared_access
        /\ Segments(t)[p.segment_id].is_enabled
        /\ Segments(t)[p.segment_id].shared_access = block[b].segment_shared_access
    BY <2>1, <2>2 DEF block_properties
  <2>4. thread_local_state_guards(t)
    BY <1>2
  <2>. QED BY <2>1, <2>2, <2>3, <2>4 DEF thread_local_state_guards, alloc_guards
<1>5. ASSUME NEW p \in DOMAIN delay_actor PROVE delay_guards(p)
  <2>1. inv_delay_actor_for_page(p)
    BY <1>1 DEF DelayInv, inv_delay_actor
  <2>2. CASE delay_actor[p] # None
    <3>1. PICK a : a = delay_actor[p]
      OBVIOUS
    <3>2. /\ a.heap_id \in DOMAIN heap_shared_access /\ heap_shared_access[a.heap_id] = a.heap
          /\ HasEnabled(heap_to_thread[a.heap_id], p)
          /\ Pages(heap_to_thread[a.heap_id])[p].shared_access = a.page
      BY <2>1, <2>2, <3>1 DEF inv_delay_actor_for_page
    <3>3. p \in DOMAIN page_shared_access /\ page_shared_access[p] = a.page
      BY <1>1, <3>2 DEF Deposits, HasEnabled
    <3>. QED BY <3>1, <3>2, <3>3 DEF delay_guards, Guards
  <2>. QED BY <2>2 DEF delay_guards
<1>6. ASSUME NEW t \in Threads, NEW b \in DOMAIN block
      PROVE  block_on_the_local_thread(t, b) /\ block_in_heap_has_valid_page(t, b)
  <2>1. PICK u \in Threads :
               /\ u = thread_of_segment[b.page_id.segment_id] /\ block_properties(u, b)
               /\ b.page_id.segment_id \in DOMAIN Segments(u)
    BY <1>3
  <2>2. block_on_the_local_thread(t, b)
    BY <2>1 DEF block_on_the_local_thread, block_properties
  <2>3. ASSUME block[b].heap_id = thread_local_state[t].heap_id PROVE u = t
    <3>1. thread_local_state[t].heap_id \in HeapId
      BY DEF IInv, TypeInv, ThreadTypes, ThreadType
    <3>2. CASE block[b].heap_id = None
      BY <2>3, <3>1, <3>2, MimAssumption DEF HeapId
    <3>3. CASE block[b].heap_id # None
      BY <1>1, <2>1, <2>3, <3>3 DEF block_properties, HeapInv, heap_ids_thread_id1
    <3>. QED BY <3>2, <3>3
  <2>4. block_in_heap_has_valid_page(t, b)
    BY <2>1, <2>3 DEF block_in_heap_has_valid_page, block_properties
  <2>. QED BY <2>2, <2>4
<1>7. ASSUME NEW t \in Threads, NEW p \in DOMAIN heap_of_page
      PROVE  heap_of_page_agree_with_thread_state(t, p)
  BY <1>1 DEF PageInv, PlaceInv, Owned, heap_of_page_is_correct, heap_of_page_agree_with_thread_state
<1>. QED BY <1>2, <1>4, <1>5, <1>6, <1>7 DEF Conclusions

\* The token protocol is sound, whatever the number of threads, segments, pages and blocks.
THEOREM TokensSound == Spec => []ProtocolSound
<1>1. IInv => ProtocolSound
  BY ThreadsOblige, PagesOblige, DelaysOblige, HoldersConclude DEF IInv, ProtocolSound
<1>. QED BY <1>1, TokensInvariant, PTL

\* Seen from one thread, what all threads do keeps to the protocol of its heap: every
\* transition is one of MimTokens, the protocol that the code of one heap is proved to
\* follow (CodeFollowsMim), or changes nothing the thread can see.
THEOREM EachHeapKeepsProtocol == Spec => OneHeapView
<1>1. IInv /\ [Next]_vars =>
        [\A t \in Threads : \E m \in {View(t)}, n \in {View(t)'} :
           m = n \/ OneHeap!MimTransition(m, n,
                      [p \in PageId |-> {b \in m.block : b.page_id = p}])]_vars
  <2>. SUFFICES ASSUME IInv, [Next]_vars, NEW t \in Threads
               PROVE  \E m \in {View(t)}, n \in {View(t)'} :
                        m = n \/ OneHeap!MimTransition(m, n,
                                   [p \in PageId |-> {b \in m.block : b.page_id = p}])
    OBVIOUS
  <2>1. Seen(t)
    BY StepHolds
  <2>. QED BY <2>1 DEF Seen, HeldBy
<1>2. Spec => [][Next]_vars
  BY DEF Spec
<1>. QED BY <1>1, <1>2, TokensInvariant, PTL DEF OneHeapView
=============================================================================
