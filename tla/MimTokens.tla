------------------------------ MODULE MimTokens ------------------------------
(***************************************************************************)
(* Mim, the token state machine of tokens.rs, for the pages and blocks of  *)
(* one heap.  The code carries its tokens as ghost state and may change    *)
(* them only by the transitions of Mim, so Mim is what the authors say the *)
(* protocol between the threads is.                                        *)
(*                                                                         *)
(* A state of Mim is a record m of sets and functions; a transition is an  *)
(* operator that gives the next record, next to the operator Can... that   *)
(* says what it requires.  A step of the code may take several of them.    *)
(*                                                                         *)
(*   m.pages     the pages of thread_local_state                           *)
(*   m.enabled   those that are is_enabled                                 *)
(*   m.num       their num_blocks, a function on m.pages                   *)
(*   m.block     the blocks that have a token                              *)
(*   m.delay     the DelayState of a page, a function                      *)
(*   m.actor     the pages with a delay_actor                              *)
(*   m.checked   the pages of thread_checked_state                         *)
(*   m.access    the pages whose page_shared_access is deposited           *)
(*                                                                         *)
(* This is the part of Mim (module Mim) that belongs to one heap, without  *)
(* sizes, offsets and identifiers; OneHeapView of module Mim says that it  *)
(* is one.                                                                 *)
(***************************************************************************)
EXTENDS Naturals, FiniteSets

CONSTANTS Page, Block, PageOf

Over(f, p, x) == [q \in DOMAIN f \cup {p} |-> IF q = p THEN x ELSE f[q]]
Without(f, p) == [q \in DOMAIN f \ {p} |-> f[q]]

-----------------------------------------------------------------------------
(* DelayState: 0 UseDelayedFree, 1 Freeing, 2 NoDelayedFree, 3 Never        *)

CanSetUseDelayedFree(m, p) == p \in DOMAIN m.delay /\ m.delay[p] = 2
set_use_delayed_free(m, p) == [m EXCEPT !.delay = Over(@, p, 0)]

CanEnterFreeing(m, p, b) ==
  /\ p \in DOMAIN m.delay /\ m.delay[p] = 0
  /\ PageOf[b] = p /\ b \in m.block
  /\ p \notin m.actor
delay_enter_freeing(m, p) == [m EXCEPT !.delay = Over(@, p, 1), !.actor = @ \cup {p}]

\* the code's assert is part of it
CanLeaveFreeing(m, p) == p \in m.actor /\ p \in DOMAIN m.delay /\ m.delay[p] = 1
delay_leave_freeing(m, p) == [m EXCEPT !.delay = Over(@, p, 2), !.actor = @ \ {p}]

-----------------------------------------------------------------------------
(* Pages                                                                    *)

CanCreatePage(m, p) == p \notin m.pages /\ p \notin DOMAIN m.delay
create_page_mk_tokens(m, p) ==
  [m EXCEPT !.pages = @ \cup {p}, !.num = Over(@, p, 0), !.delay = Over(@, p, 0)]

CanEnablePage(m, p) == p \in m.pages \ m.enabled /\ p \notin m.access
page_enable(m, p) == [m EXCEPT !.enabled = @ \cup {p}, !.access = @ \cup {p}]

CanMakeBlocks(m, p, new) ==
  /\ p \in m.enabled
  /\ \A b \in new : PageOf[b] = p /\ b \notin m.block
page_mk_block_tokens(m, p, new) ==
  [m EXCEPT !.block = @ \cup new, !.num = Over(@, p, @[p] + Cardinality(new)),
            !.checked = @ \ {p}]

\* `blocks` are the tokens the owner has in its hands: all of the page's
CanDestroyBlocks(m, p, blocks) ==
  /\ p \in m.pages
  /\ Cardinality(blocks) = m.num[p]
  /\ blocks \subseteq m.block
  /\ \A b \in blocks : PageOf[b] = p
page_destroy_block_tokens(m, p, blocks) ==
  [m EXCEPT !.block = @ \ blocks, !.num = Over(@, p, 0)]

CanCheckDelay(m, p) ==
  p \in m.pages /\ m.num[p] = 0 /\ p \in DOMAIN m.delay /\ m.delay[p] # 1
page_check_delay_state(m, p) == [m EXCEPT !.checked = @ \cup {p}]

CanDisablePage(m, p) == p \in m.enabled /\ p \in m.checked /\ m.num[p] = 0
page_disable(m, p) == [m EXCEPT !.enabled = @ \ {p}, !.access = @ \ {p}]

\* the check of a page that is gone stays
CanDestroyPage(m, p) == p \in m.pages \ m.enabled /\ p \in DOMAIN m.delay
page_destroy_tokens(m, p) ==
  [m EXCEPT !.pages = @ \ {p}, !.num = Without(@, p), !.delay = Without(@, p)]

-----------------------------------------------------------------------------
(* What a step of the code does to the tokens                               *)

\* page_init: make the page, enable it, make its first blocks
MimFresh(m, p, new) ==
  page_mk_block_tokens(page_enable(create_page_mk_tokens(m, p), p), p, new)
CanFresh(m, p, new) ==
  /\ CanCreatePage(m, p)
  /\ CanEnablePage(create_page_mk_tokens(m, p), p)
  /\ CanMakeBlocks(page_enable(create_page_mk_tokens(m, p), p), p, new)

\* segment_page_clear: disable the page, destroy its tokens
MimClear(m, p) == page_destroy_tokens(page_disable(m, p), p)
CanClear(m, p) == CanDisablePage(m, p) /\ CanDestroyPage(page_disable(m, p), p)

\* m becomes n by one transition; `held` are the tokens of blocks that the
\* owner has in its hands
MimTransition(m, n, held) ==
  \E p \in Page :
    \/ CanSetUseDelayedFree(m, p) /\ n = set_use_delayed_free(m, p)
    \/ (\E b \in Block : CanEnterFreeing(m, p, b)) /\ n = delay_enter_freeing(m, p)
    \/ CanLeaveFreeing(m, p) /\ n = delay_leave_freeing(m, p)
    \/ CanCreatePage(m, p) /\ n = create_page_mk_tokens(m, p)
    \/ CanEnablePage(m, p) /\ n = page_enable(m, p)
    \/ LET new == n.block \ m.block
       IN  CanMakeBlocks(m, p, new) /\ n = page_mk_block_tokens(m, p, new)
    \/ CanDestroyBlocks(m, p, held[p]) /\ n = page_destroy_block_tokens(m, p, held[p])
    \/ CanCheckDelay(m, p) /\ n = page_check_delay_state(m, p)
    \/ CanDisablePage(m, p) /\ n = page_disable(m, p)
    \/ CanDestroyPage(m, p) /\ n = page_destroy_tokens(m, p)

\* m becomes n by the transitions that one step of the code makes
MimStep(m, n, held) ==
  \/ MimTransition(m, n, held)
  \/ \E p \in Page :
       \/ LET new == n.block \ m.block
          IN  CanFresh(m, p, new) /\ n = MimFresh(m, p, new)
       \/ CanClear(m, p) /\ n = MimClear(m, p)

\* delay_guards_page_shared_access and alloc_guards_page_shared_access: a
\* thread with a delay_actor, or with the token of a block, may use the page
MimGuards(m) == m.actor \cup {PageOf[b] : b \in m.block} \subseteq m.access
=============================================================================
