----------------------------- MODULE BlockLists -----------------------------
(***************************************************************************)
(* The lists of free blocks of one page as linked_list.rs keeps them in     *)
(* memory: a list is the address of its first block, every block on it      *)
(* holds the address of the next, and a block the program has holds         *)
(* whatever the program wrote.  xthread_free is one word, an address with   *)
(* the DelayState in its two low bits.  One step is one access to a word    *)
(* another thread may write; the owner's walk along a list it has taken is  *)
(* one step per block.                                                      *)
(*                                                                          *)
(* DelayedFree has the same protocol for several pages with lists as sets;  *)
(* here there is one page, and what is asked is whether the words and links *)
(* are the lists they stand for (ListSpec).  The other pages of the heap    *)
(* show in three choices: malloc may be served by another page while this   *)
(* one is full, page_retire keeps the page or frees it, and a page that was *)
(* freed may be the one page_fresh gets.                                    *)
(***************************************************************************)
EXTENDS Integers, Sequences, FiniteSets

CONSTANTS
  RESERVED,    \* blocks of the page: inner.reserved
  MAX_EXTEND,  \* most blocks page_extend_free carves at a time
  BSIZE,       \* distance between blocks
  Remote,      \* threads that do not own the heap
  JUNK         \* what the program writes into its blocks

ASSUME ReservedAssumption == RESERVED \in Nat \ {0} /\ MAX_EXTEND \in Nat \ {0}
\* is_block_ptr_mult4: block addresses leave the two low bits free
ASSUME AlignAssumption == BSIZE \in Nat \ {0} /\ BSIZE % 4 = 0
ASSUME JunkAssumption == JUNK \notin Nat

VARIABLES
  mem,     \* mem[a]: the first word of the block at address a
  page,    \* the header: free, local_free, used, capacity, in_full
  xfree,   \* the word xthread_free
  dfree,   \* the heap's thread_delayed_free
  held,    \* addresses the program has from malloc
  r,       \* r[t]: a thread in free_block_mt: pc, block, the word it loaded
  o        \* the owner: pc, where page_free_collect returns to, its local lists

vars == <<mem, page, xfree, dfree, held, r, o>>

NULL == 0
Address == {BSIZE * k : k \in 1 .. RESERVED}

-----------------------------------------------------------------------------
(* masked_ptr_delay_*                                                       *)

get_delay(v) == v % 4
get_is_use_delayed(v) == get_delay(v) = 0
get_ptr(v) == v - (v % 4)
set_ptr(v, p) == p + (v % 4)
set_freeing(v) == get_ptr(v) + 1
set_delay(v, d) == get_ptr(v) + d
xor3(v) == get_ptr(v) + (3 - get_delay(v))

-----------------------------------------------------------------------------
(* Links                                                                    *)

\* a thread that is about to push block a writes its link
block_write_ptr(a, next) == [mem EXCEPT ![a] = next]

\* the list that begins at `first`, with block a in front
insert_block(first, a) == [first |-> a, mem |-> [mem EXCEPT ![a] = first]]

\* the list without its first block, which is raw memory again
pop_block(first) == [first |-> mem[first], mem |-> [mem EXCEPT ![first] = JUNK]]

\* page_get_mut_inner: the header with a block more or less on its list
PageInserted(a) == [page EXCEPT !.free = insert_block(page.free, a).first, !.used = @ - 1]
PagePopped == [page EXCEPT !.free = pop_block(page.free).first, !.used = @ + 1]

\* the header after local_free.append(ll), and when free may take local_free over;
\* no caller of page_free_collect asks for force
PageAppended(first, count) == [page EXCEPT !.local_free = first, !.used = @ - count]
PageRefilled ==
  IF page.local_free # NULL /\ page.free = NULL
    THEN [page EXCEPT !.free = page.local_free, !.local_free = NULL]
    ELSE page

\* the header of a page that is none (LL::make_empty for both of its lists)
make_empty == [free |-> NULL, local_free |-> NULL, used |-> 0, capacity |-> 0,
               in_full |-> FALSE]

-----------------------------------------------------------------------------
Init ==
  /\ mem = [a \in Address |-> JUNK]
  /\ page = make_empty
  /\ xfree = NULL
  /\ dfree = NULL
  /\ held = {}
  /\ r = [t \in Remote |-> [pc |-> "idle", blk |-> NULL, word |-> NULL]]
  /\ o = [pc |-> "idle", ret |-> "idle", back |-> "idle", ll |-> NULL, taken |-> NULL,
          at |-> NULL, count |-> 0, blk |-> NULL, word |-> NULL]

-----------------------------------------------------------------------------
(* Remote threads: free_block_mt                                            *)

RFree(t, a) ==
  /\ r[t].pc = "idle"
  /\ a \in held
  /\ held' = held \ {a}
  /\ r' = [r EXCEPT ![t] = [@ EXCEPT !.pc = "load", !.blk = a]]
  /\ UNCHANGED <<mem, page, xfree, dfree, o>>

\* mask = xthread_free.load(), and the link is written unless the block is to
\* go to the heap's list
RLoad(t) ==
  /\ r[t].pc = "load"
  /\ r' = [r EXCEPT ![t] = [@ EXCEPT !.pc = "cas", !.word = xfree]]
  /\ mem' = IF get_is_use_delayed(xfree) THEN mem
            ELSE block_write_ptr(r[t].blk, get_ptr(xfree))
  /\ UNCHANGED <<page, xfree, dfree, held, o>>

RCasFreeing(t) ==
  /\ r[t].pc = "cas"
  /\ get_is_use_delayed(r[t].word)
  /\ xfree = r[t].word
  /\ xfree' = set_freeing(r[t].word)
  /\ r' = [r EXCEPT ![t] = [@ EXCEPT !.pc = "dload", !.word = NULL]]
  /\ UNCHANGED <<mem, page, dfree, held, o>>

RCasPush(t) ==
  /\ r[t].pc = "cas"
  /\ ~get_is_use_delayed(r[t].word)
  /\ xfree = r[t].word
  /\ xfree' = set_ptr(r[t].word, r[t].blk)
  /\ r' = [r EXCEPT ![t] = [pc |-> "idle", blk |-> NULL, word |-> NULL]]
  /\ UNCHANGED <<mem, page, dfree, held, o>>

\* the word changed, or the weak exchange failed without a reason
RCasFail(t) ==
  /\ r[t].pc = "cas"
  /\ r' = [r EXCEPT ![t] = [@ EXCEPT !.pc = "load", !.word = NULL]]
  /\ UNCHANGED <<mem, page, xfree, dfree, held, o>>

\* atomic_insert_block on thread_delayed_free
RDelayedLoad(t) ==
  /\ r[t].pc = "dload"
  /\ r' = [r EXCEPT ![t] = [@ EXCEPT !.pc = "dcas", !.word = dfree]]
  /\ mem' = block_write_ptr(r[t].blk, dfree)
  /\ UNCHANGED <<page, xfree, dfree, held, o>>

RDelayedPush(t) ==
  /\ r[t].pc = "dcas"
  /\ dfree = r[t].word
  /\ dfree' = r[t].blk
  /\ r' = [r EXCEPT ![t] = [pc |-> "xor", blk |-> NULL, word |-> NULL]]
  /\ UNCHANGED <<mem, page, xfree, held, o>>

RDelayedFail(t) ==
  /\ r[t].pc = "dcas"
  /\ r' = [r EXCEPT ![t] = [@ EXCEPT !.pc = "dload", !.word = NULL]]
  /\ UNCHANGED <<mem, page, xfree, dfree, held, o>>

\* fetch_xor(3): Freeing becomes NoDelayedFree under whatever list hangs there
RXor(t) ==
  /\ r[t].pc = "xor"
  /\ xfree' = xor3(xfree)
  /\ r' = [r EXCEPT ![t] = [@ EXCEPT !.pc = "idle"]]
  /\ UNCHANGED <<mem, page, dfree, held, o>>

-----------------------------------------------------------------------------
(* The owner: free, page_retire, page_free                                  *)

\* free_block with is_local: insert_block on free; page_retire may free a page
\* without blocks in use, any other leaves the full queue
FreeLocal(a, back) ==
  /\ mem' = insert_block(page.free, a).mem
  /\ page' = [PageInserted(a) EXCEPT !.in_full = @ /\ page.used = 1]
  /\ \E pc \in IF page.used = 1 THEN {back, "clear"} ELSE {back} :
       o' = [o EXCEPT !.pc = pc, !.blk = NULL, !.back = IF pc = "clear" THEN back ELSE "idle"]

OFree(a) ==
  /\ o.pc = "idle"
  /\ a \in held
  /\ held' = held \ {a}
  /\ FreeLocal(a, "idle")
  /\ UNCHANGED <<xfree, dfree, r>>

\* segment_page_clear: the header first
OClear ==
  /\ o.pc = "clear"
  /\ page' = make_empty
  /\ mem' = [a \in Address |-> JUNK]
  /\ o' = [o EXCEPT !.pc = "check"]
  /\ UNCHANGED <<xfree, dfree, held, r>>

\* check_is_good waits for a thread between its two accesses to xthread_free
OCheckGood ==
  /\ o.pc = "check"
  /\ get_delay(xfree) # 1
  /\ o' = [o EXCEPT !.pc = "disable"]
  /\ UNCHANGED <<mem, page, xfree, dfree, held, r>>

ODisable ==
  /\ o.pc = "disable"
  /\ xfree' = NULL
  /\ o' = [o EXCEPT !.pc = o.back, !.back = "idle"]
  /\ UNCHANGED <<mem, page, dfree, held, r>>

-----------------------------------------------------------------------------
(* The owner: malloc_generic -> heap_delayed_free_partial                   *)

OTakeLoad ==
  /\ o.pc = "idle"
  /\ o' = [o EXCEPT !.pc = IF dfree = NULL THEN "find" ELSE "swap"]
  /\ UNCHANGED <<mem, page, xfree, dfree, held, r>>

OTakeSwap ==
  /\ o.pc = "swap"
  /\ dfree' = NULL
  /\ o' = [o EXCEPT !.pc = "pop", !.ll = dfree]
  /\ UNCHANGED <<mem, page, xfree, held, r>>

\* pop_block reads the link before the block is anybody else's
OPop ==
  /\ o.pc = "pop"
  /\ o.ll # NULL
  /\ o' = [o EXCEPT !.pc = "try", !.blk = o.ll, !.ll = pop_block(o.ll).first]
  /\ mem' = pop_block(o.ll).mem
  /\ UNCHANGED <<page, xfree, dfree, held, r>>

OPopDone ==
  /\ o.pc = "pop"
  /\ o.ll = NULL
  /\ o' = [o EXCEPT !.pc = "find"]
  /\ UNCHANGED <<mem, page, xfree, dfree, held, r>>

\* try_use_delayed_free(0, false).  It loads the word again while it reads
\* Freeing, five times at most: a load that changes nothing is no step.
OTryGiveUp ==
  /\ o.pc = "try"
  /\ get_delay(xfree) = 1
  /\ o' = [o EXCEPT !.pc = "rload"]
  /\ UNCHANGED <<mem, page, xfree, dfree, held, r>>

OTryLoad ==
  /\ o.pc = "try"
  /\ get_delay(xfree) # 1
  /\ o' = IF get_delay(xfree) = 0
            THEN [o EXCEPT !.pc = "collect", !.ret = "delayed"]
            ELSE [o EXCEPT !.pc = "trycas", !.word = xfree]
  /\ UNCHANGED <<mem, page, xfree, dfree, held, r>>

\* (mutant) the word is written with the pointer loaded before
OTryCas_Store ==
  /\ o.pc = "trycas"
  /\ xfree' = set_delay(o.word, 0)
  /\ o' = [o EXCEPT !.pc = "collect", !.ret = "delayed", !.word = NULL]
  /\ UNCHANGED <<mem, page, dfree, held, r>>

OTryCas ==
  /\ o.pc = "trycas"
  /\ xfree = o.word
  /\ xfree' = set_delay(o.word, 0)
  /\ o' = [o EXCEPT !.pc = "collect", !.ret = "delayed", !.word = NULL]
  /\ UNCHANGED <<mem, page, dfree, held, r>>

OTryFail ==
  /\ o.pc = "trycas"
  /\ o' = [o EXCEPT !.pc = "try", !.word = NULL]
  /\ UNCHANGED <<mem, page, xfree, dfree, held, r>>

\* atomic_insert_block: the block goes back to the heap's list
OReinsertLoad ==
  /\ o.pc = "rload"
  /\ o' = [o EXCEPT !.pc = "rcas", !.word = dfree]
  /\ mem' = block_write_ptr(o.blk, dfree)
  /\ UNCHANGED <<page, xfree, dfree, held, r>>

OReinsertPush ==
  /\ o.pc = "rcas"
  /\ dfree = o.word
  /\ dfree' = o.blk
  /\ o' = [o EXCEPT !.pc = "pop", !.blk = NULL, !.word = NULL]
  /\ UNCHANGED <<mem, page, xfree, held, r>>

OReinsertFail ==
  /\ o.pc = "rcas"
  /\ o' = [o EXCEPT !.pc = "rload", !.word = NULL]
  /\ UNCHANGED <<mem, page, xfree, dfree, held, r>>

\* free_delayed_block, its page collected: free_block
ODelayedFree ==
  /\ o.pc = "delayed"
  /\ FreeLocal(o.blk, "pop")
  /\ UNCHANGED <<xfree, dfree, held, r>>

-----------------------------------------------------------------------------
(* The owner: page_free_collect                                             *)

\* the word is compared with null, its DelayState included
OCollectLoad ==
  /\ o.pc = "collect"
  /\ o' = [o EXCEPT !.pc = IF xfree # NULL THEN "take" ELSE "refill"]
  /\ UNCHANGED <<mem, page, xfree, dfree, held, r>>

\* ThreadLLWithDelayBits::take: fetch_and(3)
OCollectTake ==
  /\ o.pc = "take"
  /\ xfree' = get_delay(xfree)
  /\ o' = IF get_ptr(xfree) = NULL
            THEN [o EXCEPT !.pc = "refill"]
            ELSE [o EXCEPT !.pc = "append", !.taken = get_ptr(xfree),
                           !.at = get_ptr(xfree), !.count = 1]
  /\ UNCHANGED <<mem, page, dfree, held, r>>

\* LL::append looks for the last block of the list it was given, and counts
OAppendWalk ==
  /\ o.pc = "append"
  /\ mem[o.at] # NULL
  /\ o' = [o EXCEPT !.at = mem[o.at], !.count = @ + 1]
  /\ UNCHANGED <<mem, page, xfree, dfree, held, r>>

\* (mutant) the first block is not counted
OAppendEnd_Short ==
  /\ o.pc = "append"
  /\ mem[o.at] = NULL
  /\ mem' = [mem EXCEPT ![o.at] = page.local_free]
  /\ page' = PageAppended(o.taken, o.count - 1)
  /\ o' = [o EXCEPT !.pc = "refill", !.taken = NULL, !.at = NULL, !.count = 0]
  /\ UNCHANGED <<xfree, dfree, held, r>>

OAppendEnd ==
  /\ o.pc = "append"
  /\ mem[o.at] = NULL
  /\ mem' = [mem EXCEPT ![o.at] = page.local_free]
  /\ page' = PageAppended(o.taken, o.count)
  /\ o' = [o EXCEPT !.pc = "refill", !.taken = NULL, !.at = NULL, !.count = 0]
  /\ UNCHANGED <<xfree, dfree, held, r>>

ORefill ==
  /\ o.pc = "refill"
  /\ page' = PageRefilled
  /\ o' = [o EXCEPT !.pc = o.ret, !.ret = "idle"]
  /\ UNCHANGED <<mem, xfree, dfree, held, r>>

-----------------------------------------------------------------------------
(* The owner: malloc                                                        *)

\* page_malloc: pop_block, used + 1; the program writes into the block
PageMalloc ==
  /\ page.free # NULL
  /\ page' = PagePopped
  /\ mem' = pop_block(page.free).mem
  /\ held' = held \cup {page.free}
  /\ o' = [o EXCEPT !.pc = "idle"]
  /\ UNCHANGED <<xfree, dfree, r>>

OMallocFast == o.pc = "idle" /\ ~page.in_full /\ PageMalloc

OFind ==
  /\ o.pc = "find"
  /\ ~page.in_full /\ page.capacity > 0
  /\ o' = [o EXCEPT !.pc = "collect", !.ret = "found"]
  /\ UNCHANGED <<mem, page, xfree, dfree, held, r>>

\* malloc_generic finds another page
OFindOther ==
  /\ o.pc = "find"
  /\ o' = [o EXCEPT !.pc = "idle"]
  /\ UNCHANGED <<mem, page, xfree, dfree, held, r>>

OFound == o.pc = "found" /\ PageMalloc

extend_count ==
  IF RESERVED - page.capacity > MAX_EXTEND THEN MAX_EXTEND ELSE RESERVED - page.capacity

\* prepend_contiguous_blocks writes the link of every new block: the next one
\* for all but the last, which gets the list there was
prepend_contiguous_blocks(start, last) ==
  [a \in Address |-> IF a < start \/ a > last THEN mem[a]
                     ELSE IF a < last THEN a + BSIZE ELSE page.free]

\* page_extend_free, for a page without free blocks in page_queue_find_free_ex
\* and for one that page_fresh has just got
OExtend ==
  /\ \/ o.pc = "found" /\ page.free = NULL
     \/ o.pc = "find" /\ page.capacity = 0
  /\ page.capacity < RESERVED
  /\ LET start == BSIZE * (page.capacity + 1)
         last  == BSIZE * (page.capacity + extend_count)
     IN  /\ mem' = prepend_contiguous_blocks(start, last)
         /\ page' = [page EXCEPT !.free = start, !.capacity = @ + extend_count]
  /\ o' = [o EXCEPT !.pc = "found"]
  /\ UNCHANGED <<xfree, dfree, held, r>>

\* page_to_full, which collects the page once more; another page serves
OToFull ==
  /\ o.pc = "found"
  /\ page.free = NULL /\ page.capacity = RESERVED
  /\ page' = [page EXCEPT !.in_full = TRUE]
  /\ o' = [o EXCEPT !.pc = "collect", !.ret = "idle"]
  /\ UNCHANGED <<mem, xfree, dfree, held, r>>

-----------------------------------------------------------------------------
OwnerStep ==
  \/ OClear \/ OCheckGood \/ ODisable
  \/ OTakeSwap \/ OPop \/ OPopDone \/ OTryGiveUp \/ OTryLoad \/ OTryCas \/ OTryFail
  \/ OReinsertLoad \/ OReinsertPush \/ OReinsertFail \/ ODelayedFree
  \/ OCollectLoad \/ OCollectTake \/ OAppendWalk \/ OAppendEnd \/ ORefill
  \/ OFind \/ OFindOther \/ OFound \/ OExtend \/ OToFull

RemoteStep(t) ==
  \/ RLoad(t) \/ RCasFreeing(t) \/ RCasPush(t) \/ RCasFail(t)
  \/ RDelayedLoad(t) \/ RDelayedPush(t) \/ RDelayedFail(t) \/ RXor(t)

\* calls of malloc and free, which the program need not make
Call == \/ OMallocFast \/ OTakeLoad
        \/ \E a \in Address : OFree(a) \/ \E t \in Remote : RFree(t, a)

Next == OwnerStep \/ Call \/ \E t \in Remote : RemoteStep(t)

Spec == Init /\ [][Next]_vars

-----------------------------------------------------------------------------
(* Properties                                                               *)

\* the blocks a list leads to, by number; a list that does not end is cut off
Blocks(head) ==
  LET at[n \in 0 .. RESERVED + 1] ==
        IF n = 0 THEN head
        ELSE IF at[n - 1] \in Address THEN mem[at[n - 1]] ELSE NULL
      len == Cardinality({n \in 0 .. RESERVED + 1 : at[n] \in Address})
  IN  [n \in 1 .. len |-> at[n - 1] \div BSIZE]

Heads ==
  [n \in {"free", "local_free", "thread_free", "delayed_free", "taken", "popping"} |->
     CASE n = "free" -> page.free
       [] n = "local_free" -> page.local_free
       [] n = "thread_free" -> get_ptr(xfree)
       [] n = "delayed_free" -> dfree
       [] n = "taken" -> o.taken
       [] n = "popping" -> o.ll]

lists == [n \in DOMAIN Heads |-> Blocks(Heads[n])]

loose == {a \div BSIZE : a \in (held \cup {o.blk} \cup {r[t].blk : t \in Remote}) \ {NULL}}

Lists == INSTANCE ListSpec

\* Under all interleavings of the threads that push and the owner that takes,
\* walks and appends, the words and links are the sequences of ListSpec: no
\* push is lost or cut in two by a compare-and-exchange that sees an old
\* address again, no block is on two lists, and taking a list moves all of it.
KeepsLists == Lists!Spec

\* page.used is the number of blocks that are on neither of the page's own
\* lists, although blocks leave it in one thread and are counted in another.
UsedExact ==
  page.used = page.capacity - Len(lists["free"]) - Len(lists["local_free"])
=============================================================================
