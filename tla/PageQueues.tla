----------------------------- MODULE PageQueues -----------------------------
(***************************************************************************)
(* The page queues of a heap (queues.rs, page.rs): doubly linked lists of  *)
(* pages, one per size class and one of full pages, and pages_free_direct, *)
(* in which malloc looks up the first page of a small class.               *)
(*                                                                         *)
(* Only the owner of the heap runs this code.  Which pages have free       *)
(* blocks, and when the last block of one comes back, is DelayedFree's     *)
(* subject; here it may happen at any time.                                *)
(***************************************************************************)
EXTENDS Integers, FiniteSets

CONSTANTS
  Page,         \* slices that can hold a page of any class
  ClassCount,   \* the classes are the queues 1 .. ClassCount
  Words,        \* block_size of the queues in words, increasing
  SmallMax,     \* SMALL_SIZE_MAX in words: pages_free_direct is 0 .. SmallMax
  NULL,
  EMPTY         \* page_empty_ptr

Class == 1 .. ClassCount
Full == ClassCount + 1         \* BIN_FULL
Queue == Class \cup {Full}
Entry == 0 .. SmallMax

ASSUME PageAssumption == IsFiniteSet(Page) /\ NULL \notin Page /\ EMPTY \notin Page /\ NULL # EMPTY
ASSUME ClassAssumption == ClassCount \in Nat \ {0} /\ SmallMax \in Nat
ASSUME WordsAssumption ==
  /\ Words \in [Class -> Nat \ {0}]
  /\ Words[1] = 1
  /\ \A c, d \in Class : c < d => Words[c] < Words[d]
\* SMALL_SIZE_MAX, 128 words, is the block size of a queue
ASSUME SmallAssumption == \E c \in Class : Words[c] = SmallMax

VARIABLES
  h,         \* the heap: first, last of each queue, pages_free_direct,
             \* page_count, and next, prev, in_full of each page
  class,     \* the queue xblock_size belongs to, 0 for no page
  pc,        \* "idle", "walk" (in page_queue_find_free_ex), "abort"
  wq, cursor, first_try    \* its locals pq, page, first_try

vars == <<h, class, pc, wq, cursor, first_try>>

-----------------------------------------------------------------------------
(* heap_init                                                                *)

\* PageQueue::empty, for every queue of pages_tmp
EmptyEnds == [q \in Queue |-> NULL]

pages_free_direct_tmp == [e \in Entry |-> NULL]

\* the loop that points every entry to the empty page
PointToEmpty(direct) == [e \in DOMAIN direct |-> EMPTY]

heap_init ==
  [first |-> EmptyEnds, last |-> EmptyEnds,
   next |-> [p \in Page |-> NULL], prev |-> [p \in Page |-> NULL],
   in_full |-> [p \in Page |-> FALSE],
   direct |-> PointToEmpty(pages_free_direct_tmp), page_count |-> 0]

Init ==
  /\ h = heap_init
  /\ class = [p \in Page |-> 0]
  /\ pc = "idle" /\ wq = 1 /\ cursor = NULL /\ first_try = TRUE

-----------------------------------------------------------------------------
(* The queues                                                               *)

Small(q) == q \in Class /\ Words[q] <= SmallMax

\* the first entry a queue writes
Start(q) == IF Words[q] <= 1 THEN 0 ELSE 1 + Words[q - 1]

\* (mutant) only the entry of the block size itself is written
FirstUpdate_One(g, q) ==
  LET page == IF g.first[q] = NULL THEN EMPTY ELSE g.first[q]
  IN  IF ~Small(q) THEN g ELSE [g EXCEPT !.direct[Words[q]] = page]

\* the loop over the entries of a queue
WriteEntries(direct, q, page) ==
  [e \in Entry |-> IF e \in Start(q) .. Words[q] THEN page ELSE direct[e]]

\* heap_queue_first_update: nothing is written if the last entry is right
FirstUpdate(g, q) ==
  LET page == IF g.first[q] = NULL THEN EMPTY ELSE g.first[q]
  IN  IF ~Small(q) \/ g.direct[Words[q]] = page
      THEN g
      ELSE [g EXCEPT !.direct = WriteEntries(@, q, page)]

\* PagePtr::get_prev, get_next
get_prev(g, p) == g.prev[p]
get_next(g, p) == g.next[p]

\* used_page_get_mut_prev, used_page_get_mut_next: a link is written, if there
\* is a page to write it to
set_prev(prev, p, x) == IF p = NULL THEN prev ELSE [prev EXCEPT ![p] = x]
set_next(next, p, x) == IF p = NULL THEN next ELSE [next EXCEPT ![p] = x]

\* page_queue_remove: the links of p itself stay as they are
Unlink(g, q, p) ==
  LET before == get_prev(g, p)
      after  == get_next(g, p)
  IN  [g EXCEPT
        !.next = set_next(@, before, after),
        !.prev = set_prev(@, after, before),
        !.last[q] = IF after = NULL THEN before ELSE @,
        !.first[q] = IF before = NULL THEN after ELSE @,
        !.page_count = @ - 1]

\* (mutant) the page after p keeps pointing to p
Remove_OneLink(g, q, p) ==
  LET unlinked == [Unlink(g, q, p) EXCEPT !.prev = g.prev]
  IN  IF g.prev[p] = NULL THEN FirstUpdate(unlinked, q) ELSE unlinked

Remove(g, q, p) ==
  IF g.prev[p] = NULL THEN FirstUpdate(Unlink(g, q, p), q) ELSE Unlink(g, q, p)

\* page_queue_push
Push(g, q, p) ==
  LET old == g.first[q]
      linked == [g EXCEPT
        !.in_full[p] = (q = Full),
        !.first[q] = p,
        !.last[q] = IF old = NULL THEN p ELSE @,
        !.prev = set_prev(set_prev(@, p, NULL), old, p),
        !.next[p] = old,
        !.page_count = @ + 1]
  IN  FirstUpdate(linked, q)

\* page_queue_push_back
PushBack(g, q, p) ==
  LET old == g.last[q]
      linked == [g EXCEPT
        !.in_full[p] = (q = Full),
        !.last[q] = p,
        !.first[q] = IF old = NULL THEN p ELSE @,
        !.next = set_next(set_next(@, p, NULL), old, p),
        !.prev[p] = old,
        !.page_count = @ + 1]
  IN  IF old = NULL THEN FirstUpdate(linked, q) ELSE linked

\* (mutant) a page that changes its queue is put first
EnqueueFrom_Front(g, to, from, p) == Push(Remove(g, from, p), to, p)

\* page_queue_enqueue_from
EnqueueFrom(g, to, from, p) == PushBack(Remove(g, from, p), to, p)

\* page_queue_of
QueueOf(p) == IF h.in_full[p] THEN Full ELSE class[p]

\* the lookup of the fast path; the empty page has no free block
heap_get_free_small_page(g, size) == g.direct[(size + 7) \div 8]

-----------------------------------------------------------------------------
(* Looking for a page with a free block                                     *)

\* find_free_page, the beginning of page_queue_find_free_ex
FindFree(c) ==
  /\ pc = "idle"
  /\ pc' = "walk" /\ wq' = c /\ cursor' = h.first[c] /\ first_try' = TRUE
  /\ UNCHANGED <<h, class>>

\* the page has a free block or room for more
WalkFound ==
  /\ pc = "walk" /\ cursor # NULL
  /\ pc' = "idle" /\ cursor' = NULL
  /\ UNCHANGED <<h, class, wq, first_try>>

\* (mutant) next is read after the page has been moved
NextOf_After(g, p) == EnqueueFrom(g, Full, wq, p).next[p]

\* next_ptr is read before the page is moved
NextOf(g, p) == get_next(g, p)

\* the page is full: page_to_full, on to the next one
WalkFull ==
  /\ pc = "walk" /\ cursor # NULL
  /\ cursor' = NextOf(h, cursor)
  /\ h' = EnqueueFrom(h, Full, wq, cursor)
  /\ UNCHANGED <<class, pc, wq, first_try>>

\* page_fresh
WalkFresh(p) ==
  /\ pc = "walk" /\ cursor = NULL
  /\ class[p] = 0
  /\ class' = [class EXCEPT ![p] = wq]
  /\ h' = Push(h, wq, p)
  /\ pc' = "idle"
  /\ UNCHANGED <<wq, cursor, first_try>>

\* (mutant) the second search is a first one again
WalkAgain_Always ==
  /\ pc = "walk" /\ cursor = NULL /\ first_try
  /\ cursor' = h.first[wq]
  /\ UNCHANGED <<h, class, pc, wq, first_try>>

\* page_fresh returns null: the search is repeated once, then malloc gives up
WalkAgain ==
  /\ pc = "walk" /\ cursor = NULL /\ first_try
  /\ first_try' = FALSE /\ cursor' = h.first[wq]
  /\ UNCHANGED <<h, class, pc, wq>>

WalkFails ==
  /\ pc = "walk" /\ cursor = NULL /\ ~first_try
  /\ pc' = "abort"
  /\ UNCHANGED <<h, class, wq, cursor, first_try>>

-----------------------------------------------------------------------------
(* Blocks that come back                                                    *)

\* page_unfull: a block of a full page was freed
Unfull(p) ==
  /\ pc = "idle"
  /\ class[p] # 0 /\ h.in_full[p]
  /\ h' = EnqueueFrom(h, class[p], Full, p)
  /\ UNCHANGED <<class, pc, wq, cursor, first_try>>

\* page_retire: the last block was freed.  The only page of a class stays.
OnlyPage(p) == h.first[QueueOf(p)] = p /\ h.last[QueueOf(p)] = p

\* page_free; segment_page_clear resets the header
Retire(p) ==
  /\ pc = "idle"
  /\ class[p] # 0
  /\ QueueOf(p) = Full \/ ~OnlyPage(p)
  /\ h' = [Remove(h, QueueOf(p), p) EXCEPT !.in_full[p] = FALSE]
  /\ class' = [class EXCEPT ![p] = 0]
  /\ UNCHANGED <<pc, wq, cursor, first_try>>

Aborted == pc = "abort" /\ UNCHANGED vars

-----------------------------------------------------------------------------
Walk ==
  \/ WalkFound \/ WalkFull \/ WalkAgain \/ WalkFails
  \/ \E p \in Page : WalkFresh(p)

Next ==
  \/ \E c \in Class : FindFree(c)
  \/ Walk
  \/ \E p \in Page : Unfull(p) \/ Retire(p)
  \/ Aborted

Spec == Init /\ [][Next]_vars

\* A thread inside malloc goes on.
FairSpec == Spec /\ WF_vars(Walk)

-----------------------------------------------------------------------------
(* Properties                                                               *)

Members(q) == {p \in Page : class[p] # 0 /\ QueueOf(p) = q}

\* The links of a queue fit together, and page_queue_of, which decides from the
\* header of a page alone, finds the queue the page is linked into.
LinksExact ==
  /\ h.page_count = Cardinality({p \in Page : class[p] # 0})
  /\ \A q \in Queue :
       /\ h.first[q] = NULL <=> Members(q) = {}
       /\ h.last[q] = NULL <=> Members(q) = {}
       /\ Members(q) # {} =>
            h.first[q] \in Members(q) /\ h.last[q] \in Members(q)
       /\ \A p \in Members(q) :
            /\ h.prev[p] = NULL <=> p = h.first[q]
            /\ h.next[p] = NULL <=> p = h.last[q]
            /\ h.next[p] # NULL => h.next[p] \in Members(q) /\ h.prev[h.next[p]] = p
            /\ h.prev[p] # NULL => h.prev[p] \in Members(q) /\ h.next[h.prev[p]] = p

\* the queue of the smallest class whose blocks hold so many bytes
BestQueue(size) ==
  CHOOSE c \in Class : 8 * Words[c] >= size /\ \A d \in Class : 8 * Words[d] >= size => c <= d

\* The page malloc takes a block from unseen, whatever small size it is asked for,
\* is the first of the queue malloc_generic would search: its blocks are large
\* enough, and a page that has left the queue is never used again.
DirectExact ==
  \A size \in 0 .. 8 * SmallMax :
    LET first == h.first[BestQueue(size)]
    IN  heap_get_free_small_page(h, size) = IF first = NULL THEN EMPTY ELSE first

\* The search goes on at the front of its queue, although the page it comes from
\* has left: when it asks for a new page every page of the class is full.
WalkAtFront == pc = "walk" => cursor = h.first[wq]

\* The search ends.
WalkEnds == pc = "walk" ~> pc # "walk"

\* the pages of a queue as the links order them
Nth(q) ==
  LET n[k \in 1 .. Cardinality(Page)] == IF k = 1 THEN h.first[q] ELSE h.next[n[k - 1]]
  IN  [k \in 1 .. Cardinality(Members(q)) |-> n[k]]

Q == INSTANCE QueueSpec WITH order <- [q \in Queue |-> Nth(q)]

\* The queues are sequences: no page is missed or met twice on the way from first
\* to last, and nothing but the operations of QueueSpec changes their order.
KeepsOrder == Q!Spec
=============================================================================
