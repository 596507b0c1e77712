--------------------------------- MODULE Mim ---------------------------------
(***************************************************************************)
(* Mim, the tokenized state machine of tokens.rs.  The allocator carries   *)
(* the state of Mim as ghost tokens: a thread has its thread_local_state,  *)
(* whoever holds a block has the token of the block, the atomic words have *)
(* delay, heap_of_page and thread_of_segment.  The right to read a header  *)
(* or a heap is deposited in Mim, and a token guards what it may read.     *)
(* The code is sound if every transition finds what it removes, adds       *)
(* nothing that is there already, and every guard finds the deposit.       *)
(*                                                                         *)
(* One action for each transition, with its `remove`, `have` and `require` *)
(* as guards.  What the transition asserts, and what Verus asks of `add`,  *)
(* `deposit`, `withdraw` and `guard`, is not a guard: Obligations says it. *)
(*                                                                         *)
(* Identifiers are small numbers and records of them; a shared access is a *)
(* member of Access, for its content does not matter here.  Not modelled:  *)
(* actor, which no transition ever fills.                                  *)
(***************************************************************************)
EXTENDS Naturals, FiniteSets

CONSTANTS
  ThreadId,
  MaxHeap,      \* bound on the heaps, one for a thread that starts
  MaxSegment,   \* bound on the segments, of all threads
  Slices,       \* slices of a segment
  SLICE_SIZE,
  Sizes,        \* block sizes
  MaxBlock,     \* bound on the blocks of a page
  MaxPages,     \* bound on the pages that exist at the same time
  Access,       \* shared accesses
  None

ASSUME MimAssumption ==
  /\ MaxHeap \in Nat /\ MaxSegment \in Nat /\ MaxBlock \in Nat /\ MaxPages \in Nat
  /\ Slices \in Nat \ {0} /\ SLICE_SIZE \in Nat \ {0}
  /\ Sizes \subseteq Nat \ {0}
  /\ None \notin 1..MaxHeap          \* the None of an Option is not an identifier

HeapId    == 1..MaxHeap
SegmentId == 1..MaxSegment
PageId    == [segment_id : SegmentId, idx : 0 .. Slices - 1]
BlockId   == [page_id : PageId, idx : 0 .. MaxBlock - 1, block_size : Sizes]

\* the slice in which a block begins; the offset of the first block is left out
get_slice_idx(p, i, size) == p.idx + (i * size) \div SLICE_SIZE
PageIdAt(p, i) == [segment_id |-> p.segment_id, idx |-> i]
page_id_for_slice(b) == PageIdAt(b.page_id, get_slice_idx(b.page_id, b.idx, b.block_size))
range_from(p, n) == {PageIdAt(p, i) : i \in p.idx .. p.idx + n - 1}
range_block_ids(lo, hi, p, size) ==
  {[page_id |-> p, idx |-> i, block_size |-> size] : i \in lo .. hi - 1}

VARIABLES
  right_to_set_inst, my_inst,
  thread_local_state, right_to_use_thread, thread_checked_state,
  block,
  thread_of_segment, delay, heap_of_page, delay_actor,
  segment_shared_access, page_shared_access, heap_shared_access,
  reserved_uniq, heap_to_thread

pagetok == <<block, delay, heap_of_page, delay_actor, page_shared_access>>
heaptok == <<right_to_set_inst, my_inst, right_to_use_thread,
             heap_shared_access, reserved_uniq, heap_to_thread>>
segtok  == <<thread_of_segment, segment_shared_access>>
vars == <<pagetok, heaptok, segtok, thread_local_state, thread_checked_state>>

\* maps
Put(f, k, v)  == [x \in DOMAIN f \cup {k} |-> IF x = k THEN v ELSE f[x]]
Union(f, g)   == [x \in DOMAIN f \cup DOMAIN g |-> IF x \in DOMAIN g THEN g[x] ELSE f[x]]
Drop(f, S)    == [x \in DOMAIN f \ S |-> f[x]]
Empty         == [x \in {} |-> x]
UniqMax(S)    == IF S = {} THEN 0 ELSE CHOOSE u \in S : \A v \in S : v <= u

Pages(t)    == thread_local_state[t].pages
Segments(t) == thread_local_state[t].segments
SetPages(t, f) ==
  thread_local_state' = [thread_local_state EXCEPT ![t].pages = f]

Init ==
  /\ right_to_set_inst = TRUE
  /\ my_inst = FALSE
  /\ right_to_use_thread = ThreadId
  /\ thread_local_state = Empty
  /\ thread_checked_state = Empty
  /\ block = Empty
  /\ thread_of_segment = Empty
  /\ delay = Empty
  /\ heap_of_page = Empty
  /\ delay_actor = Empty
  /\ segment_shared_access = Empty
  /\ page_shared_access = Empty
  /\ heap_shared_access = Empty
  /\ heap_to_thread = Empty
  /\ reserved_uniq = {}

set_inst ==
  /\ right_to_set_inst
  /\ right_to_set_inst' = FALSE
  /\ my_inst' = TRUE
  /\ UNCHANGED <<pagetok, segtok, thread_local_state, thread_checked_state,
                 right_to_use_thread, heap_shared_access, reserved_uniq, heap_to_thread>>

-----------------------------------------------------------------------------
(* Threads and segments                                                     *)

heap_get_unused_uniq_field == UniqMax(DOMAIN heap_shared_access \cup reserved_uniq) + 1

reserve_uniq_identifier ==
  /\ heap_get_unused_uniq_field \in HeapId
  /\ reserved_uniq' = reserved_uniq \cup {heap_get_unused_uniq_field}
  /\ UNCHANGED <<pagetok, segtok, thread_local_state, thread_checked_state,
                 right_to_set_inst, my_inst, right_to_use_thread,
                 heap_shared_access, heap_to_thread>>

CanCreateThread(t, h) == t \in right_to_use_thread /\ h \in reserved_uniq /\ my_inst
create_thread_mk_tokens(t, h, access) ==
  /\ CanCreateThread(t, h)
  /\ right_to_use_thread' = right_to_use_thread \ {t}
  /\ reserved_uniq' = reserved_uniq \ {h}
  /\ heap_shared_access' = Put(heap_shared_access, h, access)
  /\ heap_to_thread' = Put(heap_to_thread, h, t)
  /\ thread_local_state' = Put(thread_local_state, t,
       [heap_id |-> h, heap |-> access, segments |-> Empty, pages |-> Empty])
  /\ thread_checked_state' = Put(thread_checked_state, t, {})
  /\ UNCHANGED <<pagetok, segtok, right_to_set_inst, my_inst>>

\* mk_fresh_segment_id: an address that is used again makes a new segment
mk_fresh_segment_id == UniqMax(DOMAIN thread_of_segment) + 1
create_segment_mk_tokens(t) ==
  /\ t \in DOMAIN thread_local_state
  /\ mk_fresh_segment_id \in SegmentId
  /\ thread_local_state' = [thread_local_state EXCEPT ![t].segments =
       Put(@, mk_fresh_segment_id, [shared_access |-> None, is_enabled |-> FALSE])]
  /\ thread_of_segment' = Put(thread_of_segment, mk_fresh_segment_id, t)
  /\ UNCHANGED <<pagetok, heaptok, segment_shared_access, thread_checked_state>>

CanEnableSegment(t, s) ==
  /\ t \in DOMAIN thread_local_state
  /\ s \in DOMAIN Segments(t)
  /\ ~ Segments(t)[s].is_enabled
segment_enable(t, s, access) ==
  /\ CanEnableSegment(t, s)
  /\ thread_local_state' = [thread_local_state EXCEPT ![t].segments =
       Put(@, s, [shared_access |-> access, is_enabled |-> TRUE])]
  /\ segment_shared_access' = Put(segment_shared_access, s, access)
  /\ UNCHANGED <<pagetok, heaptok, thread_of_segment, thread_checked_state>>

-----------------------------------------------------------------------------
(* Pages                                                                    *)

\* Bound: MaxPages, and a page ends in its segment
CanCreatePage(t, p, n) ==
  /\ t \in DOMAIN thread_local_state
  /\ p.segment_id \in DOMAIN Segments(t)
  /\ Segments(t)[p.segment_id].is_enabled
  /\ range_from(p, n) \subseteq PageId
  /\ DOMAIN Pages(t) \cap range_from(p, n) = {}
  /\ Cardinality(DOMAIN heap_of_page) < MaxPages
create_page_mk_tokens(t, p, n, size) ==
  /\ CanCreatePage(t, p, n)
  /\ SetPages(t, Union(Pages(t), [q \in range_from(p, n) |->
       [offset |-> q.idx - p.idx, block_size |-> size, num_blocks |-> 0,
        shared_access |-> None, is_enabled |-> FALSE]]))
  /\ heap_of_page' = Put(heap_of_page, p, thread_local_state[t].heap_id)
  /\ delay' = Put(delay, p, 0)
  /\ UNCHANGED <<heaptok, segtok, thread_checked_state, block, delay_actor,
                 page_shared_access>>

CanEnablePage(t, p, n) ==
  /\ t \in DOMAIN thread_local_state
  /\ range_from(p, n) \subseteq DOMAIN Pages(t)
  /\ \A q \in range_from(p, n) : /\ ~ Pages(t)[q].is_enabled
                                 /\ Pages(t)[q].offset + p.idx = q.idx
page_enable(t, p, n, psa_map) ==
  /\ CanEnablePage(t, p, n)
  /\ SetPages(t, Union(Pages(t), [q \in range_from(p, n) |->
       [Pages(t)[q] EXCEPT !.is_enabled = TRUE, !.shared_access = psa_map[q]]]))
  /\ page_shared_access' = Union(page_shared_access, psa_map)
  /\ UNCHANGED <<heaptok, segtok, thread_checked_state, block, delay, heap_of_page,
                 delay_actor>>

okay_to_add_block(t, p, i, size) ==
  LET q == PageIdAt(p, get_slice_idx(p, i, size))
  IN  q \in DOMAIN Pages(t) /\ Pages(t)[q].is_enabled
        /\ Pages(t)[q].offset = q.idx - p.idx
CanMakeBlocks(t, p, hi) ==
  /\ t \in DOMAIN thread_local_state
  /\ p \in DOMAIN Pages(t)
  /\ Pages(t)[p].is_enabled
  /\ Pages(t)[p].offset = 0
  /\ Pages(t)[p].num_blocks < hi
  /\ \A i \in Pages(t)[p].num_blocks .. hi - 1 :
       okay_to_add_block(t, p, i, Pages(t)[p].block_size)
NewBlocks(t, p, hi) ==
  range_block_ids(Pages(t)[p].num_blocks, hi, p, Pages(t)[p].block_size)
page_mk_block_tokens(t, p, hi) ==
  /\ CanMakeBlocks(t, p, hi)
  /\ block' = Union(block, [b \in NewBlocks(t, p, hi) |->
       [segment_shared_access    |-> segment_shared_access[p.segment_id],
        page_shared_access       |-> Pages(t)[p].shared_access,
        page_slice_shared_access |-> Pages(t)[page_id_for_slice(b)].shared_access,
        heap_id                  |-> None]])
  /\ SetPages(t, [Pages(t) EXCEPT ![p].num_blocks = hi])
  /\ thread_checked_state' = [thread_checked_state EXCEPT ![t] = @ \ {p}]
  /\ UNCHANGED <<heaptok, segtok, delay, heap_of_page, delay_actor, page_shared_access>>

\* the tokens of as many blocks of the page as it has blocks
CanDestroyBlocks(t, p, blocks) ==
  /\ t \in DOMAIN thread_local_state
  /\ p \in DOMAIN Pages(t)
  /\ Cardinality(blocks) = Pages(t)[p].num_blocks
  /\ blocks \subseteq {b \in DOMAIN block : b.page_id = p}
\* forgets that the page has no blocks now
page_destroy_block_tokens_KeepsNum(t, p, blocks) ==
  /\ CanDestroyBlocks(t, p, blocks)
  /\ block' = Drop(block, blocks)
  /\ UNCHANGED <<heaptok, segtok, thread_local_state, thread_checked_state, delay,
                 heap_of_page, delay_actor, page_shared_access>>
page_destroy_block_tokens(t, p, blocks) ==
  /\ CanDestroyBlocks(t, p, blocks)
  /\ block' = Drop(block, blocks)
  /\ SetPages(t, [Pages(t) EXCEPT ![p].num_blocks = 0])
  /\ UNCHANGED <<heaptok, segtok, thread_checked_state, delay, heap_of_page,
                 delay_actor, page_shared_access>>

\* takes any delay state
page_check_delay_state_Any(t, p) ==
  /\ t \in DOMAIN thread_local_state
  /\ p \in DOMAIN Pages(t)
  /\ Pages(t)[p].num_blocks = 0
  /\ p \in DOMAIN delay
  /\ thread_checked_state' = [thread_checked_state EXCEPT ![t] = @ \cup {p}]
  /\ UNCHANGED <<pagetok, heaptok, segtok, thread_local_state>>
page_check_delay_state(t, p) ==
  /\ t \in DOMAIN thread_local_state
  /\ p \in DOMAIN Pages(t)
  /\ Pages(t)[p].num_blocks = 0
  /\ p \in DOMAIN delay
  /\ delay[p] # 1
  /\ thread_checked_state' = [thread_checked_state EXCEPT ![t] = @ \cup {p}]
  /\ UNCHANGED <<pagetok, heaptok, segtok, thread_local_state>>

CanDisablePage(t, p, n) ==
  /\ t \in DOMAIN thread_local_state
  /\ range_from(p, n) \subseteq DOMAIN Pages(t)
  /\ p \in thread_checked_state[t]
  /\ Pages(t)[p].num_blocks = 0
  /\ \A q \in range_from(p, n) : /\ Pages(t)[q].is_enabled
                                 /\ Pages(t)[q].offset = q.idx - p.idx
page_disable(t, p, n) ==
  /\ CanDisablePage(t, p, n)
  /\ SetPages(t, Union(Pages(t), [q \in range_from(p, n) |->
       [Pages(t)[q] EXCEPT !.is_enabled = FALSE]]))
  /\ page_shared_access' = Drop(page_shared_access, range_from(p, n))
  /\ UNCHANGED <<heaptok, segtok, thread_checked_state, block, delay, heap_of_page,
                 delay_actor>>

page_destroy_tokens(t, p, n) ==
  /\ t \in DOMAIN thread_local_state
  /\ p \in DOMAIN heap_of_page /\ p \in DOMAIN delay
  /\ range_from(p, n) \subseteq DOMAIN Pages(t)
  /\ \A q \in range_from(p, n) : /\ ~ Pages(t)[q].is_enabled
                                 /\ p # q => Pages(t)[q].offset # 0
  /\ SetPages(t, Drop(Pages(t), range_from(p, n)))
  /\ heap_of_page' = Drop(heap_of_page, {p})
  /\ delay' = Drop(delay, {p})
  /\ UNCHANGED <<heaptok, segtok, thread_checked_state, block, delay_actor,
                 page_shared_access>>

-----------------------------------------------------------------------------
(* The delay state: 0 UseDelayedFree, 1 Freeing, 2 NoDelayedFree            *)

SetDelay(p, d, actors) ==
  /\ delay' = [delay EXCEPT ![p] = d]
  /\ delay_actor' = actors
  /\ UNCHANGED <<heaptok, segtok, thread_local_state, thread_checked_state,
                 block, heap_of_page, page_shared_access>>

set_use_delayed_free(p) ==
  /\ p \in DOMAIN delay /\ delay[p] = 2
  /\ SetDelay(p, 0, delay_actor)

CanEnterFreeing(p, b) ==
  p \in DOMAIN delay /\ delay[p] = 0 /\ b \in DOMAIN block /\ b.page_id = p
delay_enter_freeing(p, b) ==
  /\ CanEnterFreeing(p, b)
  /\ SetDelay(p, 1, Put(delay_actor, p, None))   \* HeapUnknown

CanLeaveFreeing(p) == p \in DOMAIN delay /\ p \in DOMAIN delay_actor
delay_leave_freeing(p) ==
  /\ CanLeaveFreeing(p)
  /\ SetDelay(p, 2, Drop(delay_actor, {p}))

CanLookupHeap(b) ==
  /\ b.page_id \in DOMAIN heap_of_page
  /\ b \in DOMAIN block
  /\ my_inst
  /\ b.page_id \in DOMAIN delay_actor
delay_lookup_heap(b) ==
  /\ CanLookupHeap(b)
  /\ delay_actor' = Put(delay_actor, b.page_id,
       LET h == heap_of_page[b.page_id]
       IN  [heap_id |-> h, heap |-> heap_shared_access[h],
            page |-> block[b].page_shared_access])
  /\ UNCHANGED <<heaptok, segtok, thread_local_state, thread_checked_state,
                 block, delay, heap_of_page, page_shared_access>>

block_set_heap_id(b) ==
  /\ b \in DOMAIN block
  /\ b.page_id \in DOMAIN delay_actor /\ delay_actor[b.page_id] # None
  /\ block' = [block EXCEPT ![b].heap_id = delay_actor[b.page_id].heap_id]
  /\ UNCHANGED <<heaptok, segtok, thread_local_state, thread_checked_state,
                 delay, heap_of_page, delay_actor, page_shared_access>>

Next ==
  \/ set_inst
  \/ reserve_uniq_identifier
  \/ \E t \in ThreadId :
       \/ \E h \in HeapId, x \in Access : create_thread_mk_tokens(t, h, x)
       \/ create_segment_mk_tokens(t)
       \/ \E s \in SegmentId, x \in Access : segment_enable(t, s, x)
       \/ \E p \in PageId :
            \/ \E hi \in 1..MaxBlock : page_mk_block_tokens(t, p, hi)
            \/ \E blocks \in SUBSET {b \in DOMAIN block : b.page_id = p} :
                 page_destroy_block_tokens(t, p, blocks)
            \/ page_check_delay_state(t, p)
            \/ \E n \in 1..Slices :
                 \/ \E size \in Sizes : create_page_mk_tokens(t, p, n, size)
                 \/ \E psa_map \in [range_from(p, n) -> Access] : page_enable(t, p, n, psa_map)
                 \/ page_disable(t, p, n)
                 \/ page_destroy_tokens(t, p, n)
  \/ \E p \in DOMAIN delay : set_use_delayed_free(p) \/ delay_leave_freeing(p)
  \/ \E b \in DOMAIN block :
       \/ delay_enter_freeing(b.page_id, b)
       \/ delay_lookup_heap(b)
       \/ block_set_heap_id(b)

Spec == Init /\ [][Next]_vars

-----------------------------------------------------------------------------
(* The invariants of tokens.rs, under their names                           *)

Threads == DOMAIN thread_local_state

inv_reserved2 == reserved_uniq \cap DOMAIN heap_shared_access = {}
inv_right_to_set_inst == right_to_set_inst <=> ~ my_inst
inv_heap_of_page_delay == DOMAIN heap_of_page = DOMAIN delay
inv_delay_state ==
  \A p \in DOMAIN delay : delay[p] \in 0..2 /\ (delay[p] = 1 <=> p \in DOMAIN delay_actor)

HasEnabled(t, p) == t \in Threads /\ p \in DOMAIN Pages(t) /\ Pages(t)[p].is_enabled
inv_delay_actor_for_page(p) ==
  IF delay_actor[p] = None
  THEN p.segment_id \in DOMAIN thread_of_segment
         /\ HasEnabled(thread_of_segment[p.segment_id], p)
  ELSE LET a == delay_actor[p]
       IN  /\ a.heap_id \in DOMAIN heap_shared_access \cap DOMAIN heap_to_thread
           /\ heap_shared_access[a.heap_id] = a.heap
           /\ HasEnabled(heap_to_thread[a.heap_id], p)
           /\ Pages(heap_to_thread[a.heap_id])[p].shared_access = a.page
inv_delay_actor == \A p \in DOMAIN delay_actor : inv_delay_actor_for_page(p)
inv_delay_actor_sub == DOMAIN delay_actor \subseteq DOMAIN delay

inv_checked_threads == Threads = DOMAIN thread_checked_state
inv_no_delay_actor_for_checked ==
  \A t \in Threads : \A p \in DOMAIN Pages(t) \cap thread_checked_state[t] :
    Pages(t)[p].num_blocks = 0 /\ p \notin DOMAIN delay_actor

right_to_use_thread_complement == right_to_use_thread = ThreadId \ Threads
heap_of_thread_is_valid ==
  \A t \in Threads : thread_local_state[t].heap_id \in DOMAIN heap_shared_access
wf_heap_shared_access_requires_inst == ~ my_inst => heap_shared_access = Empty

inv_thread_of_segment1 ==
  \A t \in Threads : \A s \in DOMAIN Segments(t) :
    s \in DOMAIN thread_of_segment /\ thread_of_segment[s] = t
inv_thread_of_segment2 ==
  \A s \in DOMAIN thread_of_segment :
    thread_of_segment[s] \in Threads /\ s \in DOMAIN Segments(thread_of_segment[s])
inv_thread_has_segment_for_page ==
  \A t \in Threads : \A p \in DOMAIN Pages(t) : p.segment_id \in DOMAIN Segments(t)
inv_thread_of_page1 ==
  \A t \in Threads : \A p \in DOMAIN Pages(t) :
    Pages(t)[p].offset = 0 => p \in DOMAIN heap_of_page

\* the thread of the page's segment has the page
OwnerHas(p) ==
  /\ p.segment_id \in DOMAIN thread_of_segment
  /\ thread_of_segment[p.segment_id] \in Threads
  /\ p \in DOMAIN Pages(thread_of_segment[p.segment_id])
inv_thread_of_page2 ==
  \A p \in DOMAIN heap_of_page :
    OwnerHas(p) /\ Pages(thread_of_segment[p.segment_id])[p].offset = 0
heap_of_page_is_correct ==
  \A p \in DOMAIN heap_of_page :
    heap_of_page[p] = thread_local_state[thread_of_segment[p.segment_id]].heap_id

inv_page_shared_access_dom ==
  DOMAIN page_shared_access =
    {p \in PageId : OwnerHas(p) /\ Pages(thread_of_segment[p.segment_id])[p].is_enabled}
inv_page_shared_access_eq ==
  \A p \in DOMAIN page_shared_access :
    page_shared_access[p] = Pages(thread_of_segment[p.segment_id])[p].shared_access
inv_segment_shared_access_dom ==
  DOMAIN segment_shared_access =
    {s \in DOMAIN thread_of_segment : Segments(thread_of_segment[s])[s].is_enabled}
inv_segment_shared_access_eq ==
  \A s \in DOMAIN segment_shared_access :
    segment_shared_access[s] = Segments(thread_of_segment[s])[s].shared_access

block_properties(t, b) ==
  LET ps == Pages(t)  p == b.page_id  q == page_id_for_slice(b)
  IN  /\ p \in DOMAIN ps /\ ps[p].is_enabled /\ ps[p].offset = 0
      /\ ps[p].block_size = b.block_size
      /\ ps[p].shared_access = block[b].page_shared_access
      /\ b.idx < ps[p].num_blocks
      /\ q \in DOMAIN ps /\ ps[q].is_enabled
      /\ ps[q].shared_access = block[b].page_slice_shared_access
      /\ ps[q].offset = q.idx - p.idx
      /\ Segments(t)[p.segment_id].is_enabled
      /\ Segments(t)[p.segment_id].shared_access = block[b].segment_shared_access
      /\ block[b].heap_id \in {None, thread_local_state[t].heap_id}
inv_block_id_valid ==
  \A b \in DOMAIN block :
    /\ b.page_id.segment_id \in DOMAIN thread_of_segment
    /\ block_properties(thread_of_segment[b.page_id.segment_id], b)
inv_block_id_at_idx_uniq ==
  \A b, c \in DOMAIN block : b.page_id = c.page_id /\ b.idx = c.idx => b = c

heap_ids_thread_id1 ==
  \A t \in Threads : LET h == thread_local_state[t].heap_id
                     IN  h \in DOMAIN heap_to_thread /\ heap_to_thread[h] = t
heap_ids_thread_id2 ==
  \A h \in DOMAIN heap_to_thread :
    heap_to_thread[h] \in Threads /\ thread_local_state[heap_to_thread[h]].heap_id = h
inv_heap_shared_access ==
  \A t \in Threads :
    heap_shared_access[thread_local_state[t].heap_id] = thread_local_state[t].heap
page_implies_segment_enabled ==
  \A t \in Threads : \A p \in DOMAIN Pages(t) : Segments(t)[p.segment_id].is_enabled

Invariants ==
  /\ inv_reserved2 /\ inv_right_to_set_inst
  /\ inv_heap_of_page_delay /\ inv_delay_state /\ inv_delay_actor /\ inv_delay_actor_sub
  /\ inv_checked_threads /\ inv_no_delay_actor_for_checked
  /\ right_to_use_thread_complement
  /\ heap_of_thread_is_valid /\ wf_heap_shared_access_requires_inst
  /\ inv_thread_of_segment1 /\ inv_thread_of_segment2
  /\ inv_thread_has_segment_for_page /\ inv_thread_of_page1 /\ inv_thread_of_page2
  /\ heap_of_page_is_correct
  /\ inv_page_shared_access_dom /\ inv_page_shared_access_eq
  /\ inv_segment_shared_access_dom /\ inv_segment_shared_access_eq
  /\ inv_block_id_valid /\ inv_block_id_at_idx_uniq
  /\ heap_ids_thread_id1 /\ heap_ids_thread_id2 /\ inv_heap_shared_access
  /\ page_implies_segment_enabled

-----------------------------------------------------------------------------
(* What the transitions assert, and what `add`, `deposit` and `withdraw`    *)
(* need                                                                     *)

Fresh(f, S) == DOMAIN f \cap S = {}

ThreadObligations ==
  \A t \in ThreadId :
    /\ \A h \in HeapId : CanCreateThread(t, h) =>
         /\ Fresh(thread_local_state, {t}) /\ Fresh(thread_checked_state, {t})
         /\ Fresh(heap_shared_access, {h})
    /\ t \in Threads => mk_fresh_segment_id \notin DOMAIN Segments(t)
    /\ \A s \in SegmentId : CanEnableSegment(t, s) => Fresh(segment_shared_access, {s})

PageObligations ==
  \A t \in Threads : \A p \in PageId :
    /\ \A n \in 1..Slices :
         /\ CanCreatePage(t, p, n) => Fresh(heap_of_page, {p}) /\ Fresh(delay, {p})
         /\ CanEnablePage(t, p, n) => Fresh(page_shared_access, range_from(p, n))
         /\ CanDisablePage(t, p, n) => \A q \in range_from(p, n) :
              /\ q \in DOMAIN page_shared_access
              /\ page_shared_access[q] = Pages(t)[q].shared_access
    /\ \A hi \in 1..MaxBlock : CanMakeBlocks(t, p, hi) =>
         Fresh(block, NewBlocks(t, p, hi)) /\ p.segment_id \in DOMAIN segment_shared_access

DelayObligations ==
  /\ \A b \in DOMAIN block :
       /\ CanEnterFreeing(b.page_id, b) => Fresh(delay_actor, {b.page_id})
       /\ CanLookupHeap(b) => heap_of_page[b.page_id] \in DOMAIN heap_shared_access
  /\ \A p \in DOMAIN delay : CanLeaveFreeing(p) => delay[p] = 1

-----------------------------------------------------------------------------
(* What a token guards, and what its holder may conclude                    *)

Guards(f, k, v) == k \in DOMAIN f /\ f[k] = v

alloc_guards(b) ==
  /\ Guards(segment_shared_access, b.page_id.segment_id, block[b].segment_shared_access)
  /\ Guards(page_shared_access, b.page_id, block[b].page_shared_access)
  /\ Guards(page_shared_access, page_id_for_slice(b), block[b].page_slice_shared_access)

delay_guards(p) ==
  delay_actor[p] # None =>
    /\ Guards(heap_shared_access, delay_actor[p].heap_id, delay_actor[p].heap)
    /\ Guards(page_shared_access, p, delay_actor[p].page)

thread_local_state_guards(t) ==
  /\ \A p \in DOMAIN Pages(t) : Pages(t)[p].is_enabled =>
       Guards(page_shared_access, p, Pages(t)[p].shared_access)
  /\ \A s \in DOMAIN Segments(t) : Segments(t)[s].is_enabled =>
       Guards(segment_shared_access, s, Segments(t)[s].shared_access)
  /\ Guards(heap_shared_access, thread_local_state[t].heap_id, thread_local_state[t].heap)

\* free compares the segment's thread_id with its own and takes the local path
block_on_the_local_thread(t, b) ==
  thread_of_segment[b.page_id.segment_id] = t =>
    /\ b.page_id.segment_id \in DOMAIN Segments(t)
    /\ b.page_id \in DOMAIN Pages(t)
    /\ Pages(t)[b.page_id].block_size = b.block_size
    /\ Pages(t)[b.page_id].offset = 0
    /\ b.idx < Pages(t)[b.page_id].num_blocks

\* free_delayed_block takes a block from the heap's list
block_in_heap_has_valid_page(t, b) ==
  block[b].heap_id = thread_local_state[t].heap_id =>
    /\ b.page_id \in DOMAIN Pages(t)
    /\ Pages(t)[b.page_id].block_size = b.block_size
    /\ Pages(t)[b.page_id].offset = 0

heap_of_page_agree_with_thread_state(t, p) ==
  p \in DOMAIN Pages(t) => thread_local_state[t].heap_id = heap_of_page[p]

Conclusions ==
  /\ \A b \in DOMAIN block : alloc_guards(b)
  /\ \A p \in DOMAIN delay_actor : delay_guards(p)
  /\ \A t \in Threads :
       /\ thread_local_state_guards(t)
       /\ \A b \in DOMAIN block :
            block_on_the_local_thread(t, b) /\ block_in_heap_has_valid_page(t, b)
       /\ \A p \in DOMAIN heap_of_page : heap_of_page_agree_with_thread_state(t, p)

\* The token protocol is sound: in whatever order threads start, make segments
\* and pages, hand blocks around and enter and leave Freeing, no transition adds
\* what is there or takes what is not, and whoever holds a token finds the
\* memory it guards deposited and unchanged.  free relies on it to read the
\* header of a page it does not own.
ProtocolSound ==
  /\ Invariants
  /\ ThreadObligations /\ PageObligations /\ DelayObligations
  /\ Conclusions

-----------------------------------------------------------------------------
OneHeap == INSTANCE MimTokens
  WITH Page <- PageId, Block <- BlockId, PageOf <- [b \in BlockId |-> b.page_id]

\* the part of a thread: the pages, by their first slice, and their tokens
View(t) ==
  LET ps == {p \in DOMAIN Pages(t) : Pages(t)[p].offset = 0}
  IN  [pages   |-> ps,
       enabled |-> {p \in ps : Pages(t)[p].is_enabled},
       access  |-> ps \cap DOMAIN page_shared_access,
       num     |-> [p \in ps |-> Pages(t)[p].num_blocks],
       block   |-> {b \in DOMAIN block : b.page_id \in ps},
       delay   |-> [p \in ps |-> delay[p]],
       actor   |-> ps \cap DOMAIN delay_actor,
       checked |-> thread_checked_state[t]]

\* What the threads do to each other's pages keeps to the protocol of one heap
\* (MimTokens), the one the code is checked against: seen from a thread, every
\* transition is one of its own heap's or changes nothing it can see.
OneHeapView ==
  [][\A t \in Threads : \E m \in {View(t)}, n \in {View(t)'} :
       m = n \/ OneHeap!MimTransition(m, n,
                  [p \in PageId |-> {b \in m.block : b.page_id = p}])]_vars
=============================================================================
