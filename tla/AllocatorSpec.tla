---------------------------- MODULE AllocatorSpec ----------------------------
(***************************************************************************)
(* What malloc and free promise the program, whatever threads, pages and    *)
(* lists are behind them.  A block is available, allocated, or returning:   *)
(* freed, but still on its way to the thread that hands blocks out.  The    *)
(* ghost state machine Mim of tokens.rs keeps one token per allocated block *)
(* to the same end: only its holder may free it.                            *)
(***************************************************************************)
CONSTANT Block

VARIABLES
  allocated,   \* blocks the program holds
  returning    \* blocks it gave back that malloc cannot use yet

avars == <<allocated, returning>>

AInit == allocated = {} /\ returning = {}

\* malloc returns a block that nobody holds and no free is still working on
Malloc(b) ==
  /\ b \notin allocated \cup returning
  /\ allocated' = allocated \cup {b}
  /\ UNCHANGED returning

\* free by the thread that owns the heap: the block is available at once
FreeHere(b) ==
  /\ b \in allocated
  /\ allocated' = allocated \ {b}
  /\ UNCHANGED returning

\* free by any other thread
FreeElsewhere(b) ==
  /\ b \in allocated
  /\ allocated' = allocated \ {b}
  /\ returning' = returning \cup {b}

\* the owner takes delivery of some of the blocks
Deliver(S) ==
  /\ returning' = returning \ S
  /\ UNCHANGED allocated

ANext ==
  \/ \E b \in Block : Malloc(b) \/ FreeHere(b) \/ FreeElsewhere(b)
  \/ \E S \in SUBSET returning : Deliver(S)

ASpec == AInit /\ [][ANext]_avars
=============================================================================
