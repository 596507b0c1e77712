----------------------------- MODULE DelayedFree -----------------------------
(***************************************************************************)
(* Blocks of one heap travelling between the thread that owns the heap and  *)
(* the threads that free its blocks from elsewhere: `free` and             *)
(* `free_block_mt` on the remote side, `malloc_generic`, the collection of *)
(* the per-page thread_free lists, the heap's thread_delayed_free list,    *)
(* retiring and clearing of pages on the owner's side.                     *)
(*                                                                         *)
(* One step is one access to a word another thread may write: the page's   *)
(* `xthread_free` (a list head whose two low bits are the DelayState) or   *)
(* the heap's `thread_delayed_free`.  What a thread does between two such   *)
(* accesses touches only memory it owns and is part of the step before it. *)
(*                                                                         *)
(* Abstractions.  The owner's queue of one size class is a set: every      *)
(* order of its pages is allowed.  The lists of free blocks are sets, and   *)
(* a shared list is its set of blocks plus the head pointer, which is what *)
(* a compare-and-exchange looks at.  `raw` holds the blocks of a page that *)
(* page_extend_free has not yet put on the free list.                      *)
(***************************************************************************)
EXTENDS Naturals, FiniteSets

CONSTANTS
  Page,        \* pages the owner's segments can hand out
  Block,       \* blocks of those pages
  PageOf,      \* PageOf[b]: the page block b lies on
  SegmentOf,   \* SegmentOf[p]: the segment page p lies on
  Remote,      \* threads that do not own the heap
  MaxYield,    \* yields before try_use_delayed_free gives up (4 in the code)
  MaxExtend,   \* most blocks one page_extend_free carves
  NULL         \* the null pointer

ASSUME PageAssumption   == IsFiniteSet(Page) /\ NULL \notin Page
ASSUME BlockAssumption  == IsFiniteSet(Block) /\ NULL \notin Block
ASSUME PageOfAssumption == PageOf \in [Block -> Page]
ASSUME BoundAssumption  == MaxYield \in Nat /\ MaxExtend \in Nat \ {0}
ASSUME HasBlocksAssumption == \A p \in Page : \E b \in Block : PageOf[b] = p

VARIABLES
  (* page headers, owned by the owner thread *)
  state,       \* state[p]: "unused", "bin" (in its size queue), "full", "popped"
  free,        \* free[p]: blocks malloc takes from
  local_free,  \* local_free[p]: blocks collected but not yet in free
  raw,         \* raw[p]: blocks beyond the page's capacity
  used,        \* used[p]: the counter of blocks handed out
  (* shared words *)
  delay,       \* delay[p]: the DelayState bits of xthread_free
  tfree,       \* tfree[p]: the blocks on xthread_free's list
  thead,       \* thead[p]: the pointer part of xthread_free
  dfree,       \* blocks on the heap's thread_delayed_free list
  dhead,       \* its head pointer
  (* clients *)
  user,        \* blocks that malloc returned and nobody has freed
  (* threads inside free_block_mt *)
  rpc,         \* rpc[t]: where remote thread t is
  rblk,        \* rblk[t]: the block t is freeing, while t still owns it
  rpage,       \* rpage[t]: the page pointer t works on
  rhead,       \* rhead[t]: the pointer t loaded last
  rdelay,      \* rdelay[t]: the DelayState t loaded last
  (* the owner thread *)
  opc,         \* where the owner is
  opage,       \* the page it works on
  oblk,        \* the delayed block it is freeing
  pend,        \* blocks taken off the delayed list and not yet looked at
  ohead,       \* the pointer it loaded last
  odelay,      \* the DelayState it loaded last
  yields,      \* yield_count of try_use_delayed_free
  oret,        \* where it goes on after page_free_collect or page_free
  first_try    \* the argument of page_queue_find_free_ex

pageVars   == <<state, free, local_free, raw, used>>
sharedVars == <<delay, tfree, thead, dfree, dhead>>
remoteVars == <<rpc, rblk, rpage, rhead, rdelay>>
ownerVars  == <<opc, opage, oblk, pend, ohead, odelay, yields, oret, first_try>>
vars == <<pageVars, sharedVars, user, remoteVars, ownerVars>>

\* enum DelayState, as its two-bit encoding
UseDelayedFree   == 0
Freeing          == 1
NoDelayedFree    == 2
NeverDelayedFree == 3
DelayState       == 0 .. 3

\* (mutant) fetch_xor(1)
Xor3_OneBit(d) == IF d % 2 = 0 THEN d + 1 ELSE d - 1

\* fetch_xor(3) on the delay bits
Xor3(d) == 3 - d

BlocksOf(p) == {b \in Block : PageOf[b] = p}
Bin         == {p \in Page : state[p] = "bin"}

Init ==
  /\ state = [p \in Page |-> "unused"]
  /\ free = [p \in Page |-> {}]
  /\ local_free = [p \in Page |-> {}]
  /\ raw = [p \in Page |-> BlocksOf(p)]
  /\ used = [p \in Page |-> 0]
  /\ delay = [p \in Page |-> UseDelayedFree]
  /\ tfree = [p \in Page |-> {}]
  /\ thead = [p \in Page |-> NULL]
  /\ dfree = {}
  /\ dhead = NULL
  /\ user = {}
  /\ rpc = [t \in Remote |-> "idle"]
  /\ rblk = [t \in Remote |-> NULL]
  /\ rpage = [t \in Remote |-> NULL]
  /\ rhead = [t \in Remote |-> NULL]
  /\ rdelay = [t \in Remote |-> UseDelayedFree]
  /\ opc = "idle"
  /\ opage = NULL
  /\ oblk = NULL
  /\ pend = {}
  /\ ohead = NULL
  /\ odelay = UseDelayedFree
  /\ yields = 0
  /\ oret = "idle"
  /\ first_try = TRUE

-----------------------------------------------------------------------------
(* Remote threads: free -> free_generic -> free_block -> free_block_mt      *)

\* free(ptr) on a thread that does not own the segment
RFree(t, b) ==
  /\ rpc[t] = "idle"
  /\ b \in user
  /\ user' = user \ {b}
  /\ rpc' = [rpc EXCEPT ![t] = "load"]
  /\ rblk' = [rblk EXCEPT ![t] = b]
  /\ rpage' = [rpage EXCEPT ![t] = PageOf[b]]
  /\ UNCHANGED <<pageVars, sharedVars, rhead, rdelay, ownerVars>>

\* let mask = xthread_free.load()
RLoad(t) ==
  /\ rpc[t] = "load"
  /\ rpc' = [rpc EXCEPT ![t] = "cas"]
  /\ rhead' = [rhead EXCEPT ![t] = thead[rpage[t]]]
  /\ rdelay' = [rdelay EXCEPT ![t] = delay[rpage[t]]]
  /\ UNCHANGED <<pageVars, sharedVars, user, rblk, rpage, ownerVars>>

RMaskUnchanged(t) ==
  thead[rpage[t]] = rhead[t] /\ delay[rpage[t]] = rdelay[t]

\* (mutant) a store in place of the compare-and-exchange
RCasFreeing_Store(t) ==
  /\ rpc[t] = "cas"
  /\ rdelay[t] = UseDelayedFree
  /\ delay' = [delay EXCEPT ![rpage[t]] = Freeing]
  /\ rpc' = [rpc EXCEPT ![t] = "dload"]
  /\ rhead' = [rhead EXCEPT ![t] = NULL]
  /\ UNCHANGED <<pageVars, tfree, thead, dfree, dhead, user, rblk, rpage, rdelay,
                 ownerVars>>

\* compare_exchange_weak(mask, mask with the Freeing bits) succeeds
RCasFreeing(t) ==
  /\ rpc[t] = "cas"
  /\ rdelay[t] = UseDelayedFree
  /\ RMaskUnchanged(t)
  /\ delay' = [delay EXCEPT ![rpage[t]] = Freeing]
  /\ rpc' = [rpc EXCEPT ![t] = "dload"]
  /\ rhead' = [rhead EXCEPT ![t] = NULL]
  /\ UNCHANGED <<pageVars, tfree, thead, dfree, dhead, user, rblk, rpage, rdelay,
                 ownerVars>>

\* compare_exchange_weak(mask, ptr with the old delay bits) succeeds
RCasPush(t) ==
  /\ rpc[t] = "cas"
  /\ rdelay[t] # UseDelayedFree
  /\ RMaskUnchanged(t)
  /\ tfree' = [tfree EXCEPT ![rpage[t]] = @ \cup {rblk[t]}]
  /\ thead' = [thead EXCEPT ![rpage[t]] = rblk[t]]
  /\ rpc' = [rpc EXCEPT ![t] = "idle"]
  /\ rblk' = [rblk EXCEPT ![t] = NULL]
  /\ rpage' = [rpage EXCEPT ![t] = NULL]
  /\ rhead' = [rhead EXCEPT ![t] = NULL]
  /\ rdelay' = [rdelay EXCEPT ![t] = UseDelayedFree]
  /\ UNCHANGED <<pageVars, delay, dfree, dhead, user, ownerVars>>

\* it fails: the word changed, or the weak form failed for no reason
RCasFail(t) ==
  /\ rpc[t] = "cas"
  /\ rpc' = [rpc EXCEPT ![t] = "load"]
  /\ rhead' = [rhead EXCEPT ![t] = NULL]
  /\ rdelay' = [rdelay EXCEPT ![t] = UseDelayedFree]
  /\ UNCHANGED <<pageVars, sharedVars, user, rblk, rpage, ownerVars>>

\* xheap.load(), then atomic_insert_block: next_ptr = thread_delayed_free.load()
RDelayedLoad(t) ==
  /\ rpc[t] = "dload"
  /\ rpc' = [rpc EXCEPT ![t] = "dcas"]
  /\ rhead' = [rhead EXCEPT ![t] = dhead]
  /\ UNCHANGED <<pageVars, sharedVars, user, rblk, rpage, rdelay, ownerVars>>

\* compare_exchange_weak(next_ptr, ptr) succeeds: the heap's list has the block
RDelayedPush(t) ==
  /\ rpc[t] = "dcas"
  /\ dhead = rhead[t]
  /\ dfree' = dfree \cup {rblk[t]}
  /\ dhead' = rblk[t]
  /\ rpc' = [rpc EXCEPT ![t] = "xor"]
  /\ rblk' = [rblk EXCEPT ![t] = NULL]
  /\ rhead' = [rhead EXCEPT ![t] = NULL]
  /\ UNCHANGED <<pageVars, delay, tfree, thead, user, rpage, rdelay, ownerVars>>

RDelayedFail(t) ==
  /\ rpc[t] = "dcas"
  /\ rpc' = [rpc EXCEPT ![t] = "dload"]
  /\ rhead' = [rhead EXCEPT ![t] = NULL]
  /\ UNCHANGED <<pageVars, sharedVars, user, rblk, rpage, rdelay, ownerVars>>

\* xthread_free.fetch_xor(3): Freeing becomes NoDelayedFree
RXor(t) ==
  /\ rpc[t] = "xor"
  /\ delay' = [delay EXCEPT ![rpage[t]] = Xor3(@)]
  /\ rpc' = [rpc EXCEPT ![t] = "idle"]
  /\ rpage' = [rpage EXCEPT ![t] = NULL]
  /\ UNCHANGED <<pageVars, tfree, thead, dfree, dhead, user, rblk, rhead, rdelay,
                 ownerVars>>

-----------------------------------------------------------------------------
(* The owner: free of a local block, and retiring a page                    *)

\* free_block with is_local: the block goes on `free`; an empty page is
\* retired, a full one goes back to its size queue.  page_retire keeps a page
\* that is alone in its size queue, and calls page_free for any other.
FreeLocal(b, ret) ==
  LET p == PageOf[b] IN
  /\ free' = [free EXCEPT ![p] = @ \cup {b}]
  /\ used' = [used EXCEPT ![p] = @ - 1]
  /\ IF used[p] = 1
       THEN /\ state' = state
            /\ opc' = IF Bin = {p} THEN ret ELSE "page_free"
            /\ opage' = IF Bin = {p} THEN NULL ELSE p
       ELSE /\ state' = [state EXCEPT ![p] = "bin"]
            /\ opc' = ret
            /\ opage' = NULL
  /\ oret' = IF opc' = "page_free" THEN ret ELSE "idle"
  /\ UNCHANGED <<local_free, raw>>

\* the owner thread frees a block of its own heap
OFree(b) ==
  /\ opc = "idle"
  /\ b \in user
  /\ user' = user \ {b}
  /\ FreeLocal(b, "idle")
  /\ UNCHANGED <<sharedVars, remoteVars, oblk, pend, ohead, odelay, yields, first_try>>

\* page_free: out of its queue; segment_page_clear first resets the header
OPageFree ==
  /\ opc = "page_free"
  /\ state' = [state EXCEPT ![opage] = "popped"]
  /\ free' = [free EXCEPT ![opage] = {}]
  /\ local_free' = [local_free EXCEPT ![opage] = {}]
  /\ raw' = [raw EXCEPT ![opage] = BlocksOf(opage)]
  /\ used' = [used EXCEPT ![opage] = 0]
  /\ opc' = "check_good"
  /\ UNCHANGED <<sharedVars, user, remoteVars, opage, oblk, pend, ohead, odelay,
                 yields, oret, first_try>>

\* check_is_good: goes on once it loads a word that is not Freeing
OCheckGood ==
  /\ opc = "check_good"
  /\ delay[opage] # Freeing
  /\ opc' = "clear"
  /\ UNCHANGED <<pageVars, sharedVars, user, remoteVars, opage, oblk, pend, ohead,
                 odelay, yields, oret, first_try>>

\* xthread_free.disable() swaps in the null word, the slices are given back,
\* segment.used -= 1; a segment without pages is freed, which is todo()
OClear ==
  /\ opc = "clear"
  /\ delay' = [delay EXCEPT ![opage] = UseDelayedFree]
  /\ tfree' = [tfree EXCEPT ![opage] = {}]
  /\ thead' = [thead EXCEPT ![opage] = NULL]
  /\ state' = [state EXCEPT ![opage] = "unused"]
  /\ opc' = IF \E q \in Page \ {opage} : /\ SegmentOf[q] = SegmentOf[opage]
                                         /\ state[q] # "unused"
              THEN oret ELSE "abort"
  /\ opage' = NULL
  /\ oret' = "idle"
  /\ UNCHANGED <<free, local_free, raw, used, dfree, dhead, user, remoteVars, oblk,
                 pend, ohead, odelay, yields, first_try>>

-----------------------------------------------------------------------------
(* The owner: malloc                                                        *)

\* page_malloc on the page pages_free_direct names
OMallocFast(p, b) ==
  /\ opc = "idle"
  /\ p \in Bin
  /\ b \in free[p]
  /\ free' = [free EXCEPT ![p] = @ \ {b}]
  /\ used' = [used EXCEPT ![p] = @ + 1]
  /\ user' = user \cup {b}
  /\ UNCHANGED <<state, local_free, raw, sharedVars, remoteVars, ownerVars>>

\* malloc_generic -> heap_delayed_free_partial: res = thread_delayed_free.load()
OTakeLoad ==
  /\ opc = "idle"
  /\ opc' = IF dhead = NULL THEN "find" ELSE "swap"
  /\ UNCHANGED <<pageVars, sharedVars, user, remoteVars, opage, oblk, pend, ohead,
                 odelay, yields, oret, first_try>>

\* (mutant) a load in place of the swap
OTakeSwap_Copies ==
  /\ opc = "swap"
  /\ pend' = dfree
  /\ opc' = "pop"
  /\ UNCHANGED <<pageVars, sharedVars, user, remoteVars, opage, oblk, ohead, odelay,
                 yields, oret, first_try>>

\* thread_delayed_free.swap(null)
OTakeSwap ==
  /\ opc = "swap"
  /\ pend' = dfree
  /\ dfree' = {}
  /\ dhead' = NULL
  /\ opc' = "pop"
  /\ UNCHANGED <<pageVars, delay, tfree, thead, user, remoteVars, opage, oblk,
                 ohead, odelay, yields, oret, first_try>>

\* ll.pop_block(), free_delayed_block -> page_try_use_delayed_free
OPop(b) ==
  /\ opc = "pop"
  /\ b \in pend
  /\ pend' = pend \ {b}
  /\ oblk' = b
  /\ opage' = PageOf[b]
  /\ yields' = 0
  /\ opc' = "try_load"
  /\ UNCHANGED <<pageVars, sharedVars, user, remoteVars, ohead, odelay, oret, first_try>>

OPopDone ==
  /\ opc = "pop"
  /\ pend = {}
  /\ opc' = "find"
  /\ UNCHANGED <<pageVars, sharedVars, user, remoteVars, opage, oblk, pend, ohead,
                 odelay, yields, oret, first_try>>

\* try_use_delayed_free(0, false) loads Freeing: yield and try again, at most
\* MaxYield times
OTryYield ==
  /\ opc = "try_load"
  /\ delay[opage] = Freeing
  /\ yields < MaxYield
  /\ yields' = yields + 1
  /\ UNCHANGED <<pageVars, sharedVars, user, remoteVars, opc, opage, oblk, pend, ohead,
                 odelay, oret, first_try>>

\* (mutant) the block is not put back
OTryGiveUp_Forgets ==
  /\ opc = "try_load"
  /\ delay[opage] = Freeing
  /\ yields >= MaxYield
  /\ yields' = 0
  /\ opc' = "pop"
  /\ oblk' = NULL
  /\ opage' = NULL
  /\ UNCHANGED <<pageVars, sharedVars, user, remoteVars, pend, ohead, odelay, oret,
                 first_try>>

OTryGiveUp ==
  /\ opc = "try_load"
  /\ delay[opage] = Freeing
  /\ yields >= MaxYield
  /\ yields' = 0
  /\ opc' = "rload"
  /\ UNCHANGED <<pageVars, sharedVars, user, remoteVars, opage, oblk, pend, ohead,
                 odelay, oret, first_try>>

\* (mutant) Freeing is taken for a state that will do
OTryLoad_IgnoresFreeing ==
  /\ opc = "try_load"
  /\ IF delay[opage] = NoDelayedFree
       THEN /\ opc' = "try_cas"
            /\ ohead' = thead[opage]
            /\ odelay' = delay[opage]
            /\ UNCHANGED <<yields, oret>>
       ELSE /\ opc' = "collect"
            /\ oret' = "delayed"
            /\ yields' = 0
            /\ UNCHANGED <<ohead, odelay>>
  /\ UNCHANGED <<pageVars, sharedVars, user, remoteVars, opage, oblk, pend, first_try>>

\* it loads another state: NoDelayedFree has to be exchanged, any other will do
OTryLoad ==
  /\ opc = "try_load"
  /\ delay[opage] # Freeing
  /\ IF delay[opage] = NoDelayedFree
       THEN /\ opc' = "try_cas"
            /\ ohead' = thead[opage]
            /\ odelay' = delay[opage]
            /\ UNCHANGED <<yields, oret>>
       ELSE /\ opc' = "collect"
            /\ oret' = "delayed"
            /\ yields' = 0
            /\ UNCHANGED <<ohead, odelay>>
  /\ UNCHANGED <<pageVars, sharedVars, user, remoteVars, opage, oblk, pend, first_try>>

\* (mutant) free_delayed_block does not collect the page before it frees
OTryCas_NoCollect ==
  /\ opc = "try_cas"
  /\ thead[opage] = ohead
  /\ delay[opage] = odelay
  /\ delay' = [delay EXCEPT ![opage] = UseDelayedFree]
  /\ opc' = "delayed"
  /\ ohead' = NULL
  /\ odelay' = UseDelayedFree
  /\ yields' = 0
  /\ UNCHANGED <<pageVars, tfree, thead, dfree, dhead, user, remoteVars, opage, oblk,
                 pend, oret, first_try>>

\* compare_exchange_weak(tfree, tfree with UseDelayedFree) succeeds
OTryCas ==
  /\ opc = "try_cas"
  /\ thead[opage] = ohead
  /\ delay[opage] = odelay
  /\ delay' = [delay EXCEPT ![opage] = UseDelayedFree]
  /\ opc' = "collect"
  /\ oret' = "delayed"
  /\ ohead' = NULL
  /\ odelay' = UseDelayedFree
  /\ yields' = 0
  /\ UNCHANGED <<pageVars, tfree, thead, dfree, dhead, user, remoteVars, opage, oblk,
                 pend, first_try>>

OTryFail ==
  /\ opc = "try_cas"
  /\ opc' = "try_load"
  /\ ohead' = NULL
  /\ odelay' = UseDelayedFree
  /\ UNCHANGED <<pageVars, sharedVars, user, remoteVars, opage, oblk, pend, yields,
                 oret, first_try>>

\* a delayed block whose page stayed in Freeing goes back: atomic_insert_block
OReinsertLoad ==
  /\ opc = "rload"
  /\ ohead' = dhead
  /\ opc' = "rcas"
  /\ UNCHANGED <<pageVars, sharedVars, user, remoteVars, opage, oblk, pend,
                 odelay, yields, oret, first_try>>

OReinsertPush ==
  /\ opc = "rcas"
  /\ dhead = ohead
  /\ dfree' = dfree \cup {oblk}
  /\ dhead' = oblk
  /\ oblk' = NULL
  /\ opage' = NULL
  /\ ohead' = NULL
  /\ opc' = "pop"
  /\ UNCHANGED <<pageVars, delay, tfree, thead, user, remoteVars, pend, odelay,
                 yields, oret, first_try>>

OReinsertFail ==
  /\ opc = "rcas"
  /\ ohead' = NULL
  /\ opc' = "rload"
  /\ UNCHANGED <<pageVars, sharedVars, user, remoteVars, opage, oblk, pend, odelay,
                 yields, oret, first_try>>

\* the end of page_free_collect(page, false): an empty `free` gets local_free
Refill(p, loc) ==
  IF free[p] = {}
    THEN /\ free' = [free EXCEPT ![p] = loc]
         /\ local_free' = [local_free EXCEPT ![p] = {}]
    ELSE /\ free' = free
         /\ local_free' = [local_free EXCEPT ![p] = loc]

\* page_free_collect: xthread_free.load() is not the zero word
OCollectLoad ==
  /\ opc = "collect"
  /\ thead[opage] # NULL \/ delay[opage] # UseDelayedFree
  /\ opc' = "take"
  /\ UNCHANGED <<pageVars, sharedVars, user, remoteVars, opage, oblk, pend, ohead,
                 odelay, yields, oret, first_try>>

\* it is the zero word: nothing to take
OCollectSkip ==
  /\ opc = "collect"
  /\ thead[opage] = NULL
  /\ delay[opage] = UseDelayedFree
  /\ Refill(opage, local_free[opage])
  /\ opc' = oret
  /\ oret' = "idle"
  /\ UNCHANGED <<state, raw, used, sharedVars, user, remoteVars, opage, oblk, pend,
                 ohead, odelay, yields, first_try>>

\* (mutant) the blocks are collected and not counted
OCollectTake_NoCount ==
  /\ opc = "take"
  /\ tfree' = [tfree EXCEPT ![opage] = {}]
  /\ thead' = [thead EXCEPT ![opage] = NULL]
  /\ Refill(opage, local_free[opage] \cup tfree[opage])
  /\ opc' = oret
  /\ oret' = "idle"
  /\ UNCHANGED <<state, raw, used, delay, dfree, dhead, user, remoteVars, opage, oblk,
                 pend, ohead, odelay, yields, first_try>>

\* page_thread_free_collect: fetch_and(3), append to local_free, used -= count
OCollectTake ==
  /\ opc = "take"
  /\ tfree' = [tfree EXCEPT ![opage] = {}]
  /\ thead' = [thead EXCEPT ![opage] = NULL]
  /\ used' = [used EXCEPT ![opage] = @ - Cardinality(tfree[opage])]
  /\ Refill(opage, local_free[opage] \cup tfree[opage])
  /\ opc' = oret
  /\ oret' = "idle"
  /\ UNCHANGED <<state, raw, delay, dfree, dhead, user, remoteVars, opage, oblk,
                 pend, ohead, odelay, yields, first_try>>

\* free_delayed_block ends with free_block(page, true, ptr)
ODelayedFree ==
  /\ opc = "delayed"
  /\ FreeLocal(oblk, "pop")
  /\ oblk' = NULL
  /\ UNCHANGED <<sharedVars, user, remoteVars, pend, ohead, odelay, yields, first_try>>

\* find_free_page: collect the first page of the queue, if there is one
OFind(p) ==
  /\ opc = "find"
  /\ p \in Bin
  /\ opage' = p
  /\ oret' = "first"
  /\ opc' = "collect"
  /\ UNCHANGED <<pageVars, sharedVars, user, remoteVars, oblk, pend, ohead, odelay,
                 yields, first_try>>

OFindNone ==
  /\ opc = "find"
  /\ Bin = {}
  /\ opc' = "walk"
  /\ first_try' = TRUE
  /\ UNCHANGED <<pageVars, sharedVars, user, remoteVars, opage, oblk, pend, ohead,
                 odelay, yields, oret>>

\* (mutant) the first page is taken without a look at its free list
OFirst_NoCheck ==
  /\ opc = "first"
  /\ opc' = "alloc"
  /\ first_try' = TRUE
  /\ UNCHANGED <<pageVars, sharedVars, user, remoteVars, opage, oblk, pend, ohead, odelay,
                 yields, oret>>

OFirst ==
  /\ opc = "first"
  /\ opc' = IF free[opage] # {} THEN "alloc" ELSE "walk"
  /\ opage' = IF free[opage] # {} THEN opage ELSE NULL
  /\ first_try' = TRUE
  /\ UNCHANGED <<pageVars, sharedVars, user, remoteVars, oblk, pend, ohead, odelay,
                 yields, oret>>

\* page_queue_find_free_ex: collect the page the walk is at.  A page the walk
\* leaves behind has left the queue, so the walk is always at its head.
OWalk(p) ==
  /\ opc = "walk"
  /\ p \in Bin
  /\ opage' = p
  /\ oret' = "look"
  /\ opc' = "collect"
  /\ UNCHANGED <<pageVars, sharedVars, user, remoteVars, oblk, pend, ohead, odelay,
                 yields, first_try>>

\* the page has a free block
OLookFound ==
  /\ opc = "look"
  /\ free[opage] # {}
  /\ opc' = "alloc"
  /\ UNCHANGED <<pageVars, sharedVars, user, remoteVars, opage, oblk, pend, ohead,
                 odelay, yields, oret, first_try>>

\* the sets of blocks page_extend_free may carve next
Extensions(S) ==
  {E \in SUBSET S : Cardinality(E) = IF Cardinality(S) < MaxExtend
                                       THEN Cardinality(S) ELSE MaxExtend}

\* capacity < reserved: page_extend_free
OLookExtend(E) ==
  /\ opc = "look"
  /\ free[opage] = {}
  /\ raw[opage] # {}
  /\ E \in Extensions(raw[opage])
  /\ free' = [free EXCEPT ![opage] = @ \cup E]
  /\ raw' = [raw EXCEPT ![opage] = @ \ E]
  /\ opc' = "alloc"
  /\ UNCHANGED <<state, local_free, used, sharedVars, user, remoteVars, opage, oblk,
                 pend, ohead, odelay, yields, oret, first_try>>

\* page_to_full: into the full queue, and collect once more
OToFull ==
  /\ opc = "look"
  /\ free[opage] = {}
  /\ raw[opage] = {}
  /\ state' = [state EXCEPT ![opage] = "full"]
  /\ opc' = "collect"
  /\ oret' = "walk"
  /\ UNCHANGED <<free, local_free, raw, used, sharedVars, user, remoteVars, opage,
                 oblk, pend, ohead, odelay, yields, first_try>>

\* page_fresh: a page from a segment, page_init (with its first
\* page_extend_free) and page_queue_push.  The lists, the counter and
\* xthread_free are taken as the last owner of the header left them:
\* xthread_free.enable() is a no-op on the word.
OFresh(p, E) ==
  /\ opc = "walk"
  /\ Bin = {}
  /\ state[p] = "unused"
  /\ E \in Extensions(raw[p])
  /\ state' = [state EXCEPT ![p] = "bin"]
  /\ free' = [free EXCEPT ![p] = @ \cup E]
  /\ raw' = [raw EXCEPT ![p] = @ \ E]
  /\ opage' = p
  /\ opc' = "alloc"
  /\ UNCHANGED <<local_free, used, sharedVars, user, remoteVars, oblk, pend, ohead,
                 odelay, yields, oret, first_try>>

\* (mutant) the next try counts as the first again
ONoPage_Forever ==
  /\ opc = "walk"
  /\ Bin = {}
  /\ opage' = NULL
  /\ UNCHANGED <<pageVars, sharedVars, user, remoteVars, oblk, pend, ohead, odelay,
                 yields, oret, opc, first_try>>

\* page_fresh returned null, which it may whenever the operating system refuses
\* a segment: one more try, then malloc_generic's todo()
ONoPage ==
  /\ opc = "walk"
  /\ Bin = {}
  /\ opc' = IF first_try THEN "walk" ELSE "abort"
  /\ first_try' = FALSE
  /\ opage' = NULL
  /\ UNCHANGED <<pageVars, sharedVars, user, remoteVars, oblk, pend, ohead, odelay,
                 yields, oret>>

\* page_malloc on the page find_page returned
OAlloc(b) ==
  /\ opc = "alloc"
  /\ b \in free[opage]
  /\ free' = [free EXCEPT ![opage] = @ \ {b}]
  /\ used' = [used EXCEPT ![opage] = @ + 1]
  /\ user' = user \cup {b}
  /\ opc' = "idle"
  /\ opage' = NULL
  /\ UNCHANGED <<state, local_free, raw, sharedVars, remoteVars, oblk, pend, ohead,
                 odelay, yields, oret, first_try>>

-----------------------------------------------------------------------------
RemoteStep(t) ==
  \/ RLoad(t) \/ RCasFreeing(t) \/ RCasPush(t) \/ RCasFail(t)
  \/ RDelayedLoad(t) \/ RDelayedPush(t) \/ RDelayedFail(t) \/ RXor(t)

OwnerStep ==
  \/ OPageFree \/ OCheckGood \/ OClear
  \/ OTakeSwap \/ (\E b \in Block : OPop(b)) \/ OPopDone
  \/ OTryYield \/ OTryGiveUp \/ OTryLoad \/ OTryCas \/ OTryFail
  \/ OReinsertLoad \/ OReinsertPush \/ OReinsertFail
  \/ OCollectLoad \/ OCollectSkip \/ OCollectTake \/ ODelayedFree
  \/ (\E p \in Page : OFind(p)) \/ OFindNone \/ OFirst
  \/ (\E p \in Page : OWalk(p)) \/ OLookFound \/ OToFull \/ ONoPage
  \/ (\E E \in SUBSET Block : OLookExtend(E))
  \/ (\E p \in Page, E \in SUBSET Block : OFresh(p, E))
  \/ (\E b \in Block : OAlloc(b))

\* what the program asks of the allocator
Client ==
  \/ \E t \in Remote, b \in Block : RFree(t, b)
  \/ \E b \in Block : OFree(b)
  \/ \E p \in Page, b \in Block : OMallocFast(p, b)
  \/ OTakeLoad

\* todo() panics, or aborts the process when the allocator replaces the
\* system's: the owner is gone, and the other threads at best run on
Aborted == opc = "abort" /\ UNCHANGED vars

Next ==
  \/ Client
  \/ OwnerStep
  \/ \E t \in Remote : RemoteStep(t)
  \/ Aborted

Spec == Init /\ [][Next]_vars

(* Fairness.  Every thread keeps running (WF).  A compare-and-exchange that  *)
(* is tried again and again does not lose its race, or fail spuriously, for *)
(* ever (SF): the loops retry without bound and promise no more.  The       *)
(* program keeps allocating, so malloc_generic runs again and again.        *)
Fairness ==
  /\ WF_vars(OwnerStep)
  /\ SF_vars(OTryCas)
  /\ SF_vars(OReinsertPush)
  /\ SF_vars(OTakeLoad)
  /\ \A t \in Remote : /\ WF_vars(RemoteStep(t))
                       /\ SF_vars(RCasFreeing(t) \/ RCasPush(t))
                       /\ SF_vars(RDelayedPush(t))

FairSpec == Spec /\ Fairness

-----------------------------------------------------------------------------
(* Properties                                                               *)

RemotePC == {"idle", "load", "cas", "dload", "dcas", "xor"}
OwnerPC  == {"idle", "swap", "pop", "try_load", "try_cas", "rload", "rcas",
             "collect", "take", "delayed", "find", "first", "walk", "look",
             "alloc", "page_free", "check_good", "clear", "abort"}
PageState == {"unused", "bin", "full", "popped"}

\* The type invariant: the fields of the page headers, the two shared words
\* and the locals of every thread hold values of their types.
TypeOK ==
  /\ state \in [Page -> PageState]
  /\ free \in [Page -> SUBSET Block]
  /\ local_free \in [Page -> SUBSET Block]
  /\ raw \in [Page -> SUBSET Block]
  /\ used \in [Page -> Nat]
  /\ delay \in [Page -> DelayState]
  /\ tfree \in [Page -> SUBSET Block]
  /\ thead \in [Page -> Block \cup {NULL}]
  /\ dfree \in SUBSET Block
  /\ dhead \in Block \cup {NULL}
  /\ user \in SUBSET Block
  /\ rpc \in [Remote -> RemotePC]
  /\ rblk \in [Remote -> Block \cup {NULL}]
  /\ rpage \in [Remote -> Page \cup {NULL}]
  /\ rhead \in [Remote -> Block \cup {NULL}]
  /\ rdelay \in [Remote -> DelayState]
  /\ opc \in OwnerPC
  /\ opage \in Page \cup {NULL}
  /\ oblk \in Block \cup {NULL}
  /\ pend \in SUBSET Block
  /\ ohead \in Block \cup {NULL}
  /\ odelay \in DelayState
  /\ yields \in 0 .. MaxYield
  /\ oret \in OwnerPC
  /\ first_try \in BOOLEAN

\* the places block b can be in, counted
One(P) == IF P THEN 1 ELSE 0
Places(b) ==
  One(b \in user) + One(b \in free[PageOf[b]]) + One(b \in local_free[PageOf[b]])
  + One(b \in raw[PageOf[b]]) + One(b \in tfree[PageOf[b]]) + One(b \in dfree)
  + One(b \in pend) + One(b = oblk) + One(\E t \in Remote : rblk[t] = b)

\* Every block is in exactly one place: with the program, on one of its own
\* page's lists, on the heap's delayed list, or in the hands of one thread
\* inside free.  malloc never returns a block that a slow `free` still holds,
\* no compare-and-exchange loses or duplicates a block, and no block is on
\* the list of another page.
OnePlace ==
  /\ \A b \in Block : Places(b) = 1
  /\ \A t, u \in Remote : rblk[t] = rblk[u] /\ rblk[t] # NULL => t = u
  /\ \A p \in Page : free[p] \cup local_free[p] \cup raw[p] \cup tfree[p] \subseteq BlocksOf(p)

\* the blocks of p that are not on a list only the owner can see
Outside(p) == BlocksOf(p) \ (free[p] \cup local_free[p] \cup raw[p])

\* page.used counts the blocks handed out and not yet given back to the owner,
\* wherever a free in progress has carried them, so used = 0 (which makes
\* page_retire clear the page) means that nobody can still touch the page.
UsedCount == \A p \in Page : used[p] = Cardinality(Outside(p))

\* threads between the Freeing compare-and-exchange and fetch_xor(3)
Window(p) == {t \in Remote : rpage[t] = p /\ rpc[t] \in {"dload", "dcas", "xor"}}

\* delayed blocks of p that the owner still has to handle
Pending(p) ==
  {b \in BlocksOf(p) : \/ b \in dfree \cup pend
                       \/ b = oblk /\ opc \in {"try_load", "try_cas", "rload", "rcas"}}

\* The DelayState is exact.  UseDelayedFree: nobody is notifying the heap about
\* this page.  Freeing: one thread is, alone in the window.  NoDelayedFree: one
\* block of the page is on its way to the owner, and one only, so the owner is
\* certain to come by, and later frees may go to thread_free silently.
DelayExact ==
  \A p \in Page :
    /\ delay[p] # NeverDelayedFree
    /\ delay[p] = Freeing <=> Window(p) # {}
    /\ \A t, u \in Window(p) : t = u
    /\ \A b, c \in Pending(p) : b = c
    /\ Pending(p) # {} <=> \/ delay[p] = NoDelayedFree
                           \/ \E t \in Window(p) : rpc[t] = "xor"

\* the owner is between try_use_delayed_free and free_block for a block of p,
\* or about to take p off its queue
Unwinding(p) ==
  opage = p /\ \/ opc \in {"delayed", "page_free"}
               \/ opc \in {"collect", "take"} /\ oret = "delayed"

\* No free memory is stranded: a page whose state is UseDelayedFree has no
\* block on thread_free, and a page in the full queue, which malloc never
\* looks at, then has no free block either.  Whatever is freed on a full page
\* is announced to the heap.
NothingStranded ==
  \A p \in Page : delay[p] = UseDelayedFree /\ ~ Unwinding(p) =>
    /\ tfree[p] = {}
    /\ state[p] = "full" => free[p] = {} /\ local_free[p] = {}

\* A page header is never written through a stale pointer: as long as a
\* thread inside free holds a pointer to a page, or a delayed block of it is
\* underway, the page has not been cleared or handed out again.
NoStalePage ==
  /\ \A t \in Remote : rpc[t] # "idle" => state[rpage[t]] \in {"bin", "full"}
  /\ \A b \in dfree \cup pend : state[PageOf[b]] \in {"bin", "full"}

\* When a page is cleared nothing is left to wait for: check_is_good finds a
\* quiet word at its first load, and disable() drops no block with the word.
ClearIsQuiet ==
  opc \in {"check_good", "clear"} =>
    delay[opage] = UseDelayedFree /\ tfree[opage] = {}

\* malloc_generic -> page_malloc does not recurse: the page that find_page
\* returns, in every one of its three ways, has a free block.
FoundPageHasBlock == opc = "alloc" => free[opage] # {}

\* README.md lists "Supports `malloc` and `free`" and no exception for giving
\* memory back: clearing a page that free emptied does not end the process.
FreeCompletes == [][opc = "clear" => opc' # "abort"]_vars

-----------------------------------------------------------------------------
(* What else the argument for these properties needs                        *)

\* the locals of a thread inside free_block_mt
RemoteLocals ==
  \A t \in Remote :
    /\ rpc[t] = "idle" => rblk[t] = NULL /\ rpage[t] = NULL
    /\ rpc[t] \in {"load", "cas", "dload", "dcas"} =>
         rblk[t] \in Block /\ rpage[t] = PageOf[rblk[t]]
    /\ rpc[t] = "xor" => rblk[t] = NULL /\ rpage[t] \in Page

\* the owner is inside free_delayed_block
HoldsDelayed ==
  \/ opc \in {"try_load", "try_cas", "rload", "rcas", "delayed"}
  \/ opc \in {"collect", "take"} /\ oret = "delayed"

\* the owner is inside the loop of heap_delayed_free_partial
Draining ==
  \/ HoldsDelayed
  \/ opc \in {"pop", "abort"}
  \/ opc \in {"page_free", "check_good", "clear"} /\ oret = "pop"

\* the locals of the owner
OwnerLocals ==
  /\ HoldsDelayed => oblk \in Block /\ opage = PageOf[oblk]
  /\ ~ HoldsDelayed => oblk = NULL
  /\ ~ Draining => pend = {}
  /\ opc \in {"collect", "take"} => /\ opage \in Page
                                    /\ oret \in {"delayed", "first", "look", "walk"}
  /\ opc \in {"first", "look", "alloc", "page_free", "check_good", "clear"} => opage \in Page
  /\ opc \in {"page_free", "check_good", "clear"} => oret \in {"idle", "pop"}
  /\ opc = "try_cas" => odelay = NoDelayedFree
  /\ opc = "look" \/ (opc \in {"collect", "take"} /\ oret = "look") => state[opage] = "bin"
  /\ opc = "look" /\ free[opage] = {} => local_free[opage] = {}
  /\ opc = "page_free" => used[opage] = 0 /\ state[opage] \in {"bin", "full"}
  /\ opc \in {"check_good", "clear"} => state[opage] = "popped"

\* a null head is an empty list
HeadOK == \A p \in Page : thead[p] = NULL => tfree[p] = {}

\* NothingStranded, as far as it goes at every moment of free_delayed_block
Stranded ==
  \A p \in Page : delay[p] = UseDelayedFree =>
    /\ tfree[p] = {} \/ (opage = p /\ opc \in {"collect", "take"} /\ oret = "delayed")
    /\ state[p] = "full" => Unwinding(p) \/ (free[p] = {} /\ local_free[p] = {})

\* a page out of use has all its blocks back
Vacated == \A p \in Page : state[p] \in {"unused", "popped"} => raw[p] = BlocksOf(p)

\* the inductive invariant
IInv ==
  /\ TypeOK
  /\ RemoteLocals
  /\ OwnerLocals
  /\ HeadOK
  /\ OnePlace
  /\ UsedCount
  /\ DelayExact
  /\ Stranded
  /\ Vacated

-----------------------------------------------------------------------------
\* the owner has the block back, or has already handed it out again
Returned(b) ==
  b \in user \cup free[PageOf[b]] \cup local_free[PageOf[b]] \cup raw[PageOf[b]]

\* A block that any thread frees comes back to the page it belongs to, through
\* whichever of the two lists it went, as long as the owner keeps allocating:
\* no interleaving of the delay protocol parks it for ever.
EveryFreeArrives ==
  \A b \in Block : ~ Returned(b) ~> (Returned(b) \/ opc = "abort")

\* malloc and free return on the thread that owns the heap: the loop over the
\* blocks of thread_delayed_free ends although blocks are put back on it, the
\* search for a page ends although other threads free blocks of pages it has
\* left, and check_is_good and try_use_delayed_free do not wait for ever for a
\* thread that is between its two accesses to xthread_free.
OwnerReturns == opc # "idle" ~> opc \in {"idle", "abort"}

-----------------------------------------------------------------------------
\* blocks that were freed and that the owner does not have back
Returning ==
  {b \in Block : \/ b \in tfree[PageOf[b]] \cup dfree \cup pend \cup {oblk}
                 \/ \E t \in Remote : rblk[t] = b}

Abstract == INSTANCE AllocatorSpec WITH allocated <- user, returning <- Returning

\* The allocator keeps its promise: seen from the program, every behaviour of
\* the protocol is one in which malloc returns a block that nobody holds and no
\* free is still working on, and each free takes one block from the program.
Promise == Abstract!ASpec

-----------------------------------------------------------------------------
Mim == INSTANCE MimTokens

\* the tokens of Mim that are out in a state of the program; a page keeps its
\* check when it is cleared, until it is made again
Tokens ==
  LET inUse == {p \in Page : state[p] # "unused"} IN
  [pages   |-> inUse,
   enabled |-> inUse,
   access  |-> inUse,
   num     |-> [p \in inUse |-> Cardinality(BlocksOf(p) \ raw[p])],
   block   |-> UNION {BlocksOf(p) \ raw[p] : p \in inUse},
   delay   |-> [p \in inUse |-> delay[p]],
   actor   |-> {p \in Page : Window(p) # {}},
   checked |-> {p \in Page : state[p] = "unused" \/ (opc = "clear" /\ opage = p)}]

\* what they depend on
TokenParts ==
  <<{p \in Page : state[p] # "unused"}, raw, delay,
    {rpage[t] : t \in {u \in Remote : rpc[u] \in {"dload", "dcas", "xor"}}},
    IF opc = "clear" THEN opage ELSE NULL>>

\* The code keeps to the protocol of Mim: whatever threads do between two
\* accesses of another, each step makes transitions of Mim whose requirements
\* hold at that moment (Freeing is entered from UseDelayedFree with a block in
\* hand and left by the thread that entered it, a page goes when all its blocks
\* are with the owner and the DelayState was checked), and at every moment a
\* thread that works on a page may read its header.
FollowsMim ==
  [][\E m \in {Tokens}, n \in {Tokens'} :
       /\ n = m \/ Mim!MimStep(m, n, [p \in Page |-> free[p] \cup local_free[p]])
       /\ Mim!MimGuards(n)]_TokenParts
=============================================================================
