------------------------------ MODULE ListSpec ------------------------------
(***************************************************************************)
(* What the lists of free blocks of a page are to the rest of the           *)
(* allocator: sequences of blocks, each changed in one indivisible step.    *)
(* A block of the page is on one list or loose: with the program, or with a *)
(* thread that is giving it back.                                           *)
(***************************************************************************)
EXTENDS Integers, Sequences

CONSTANT RESERVED    \* blocks the page has room for

VARIABLES lists,     \* lists[n]: the blocks of list n, the next to be popped first
          loose      \* blocks on no list

\* the page's own lists, the two that any thread may push on, and what the
\* owner has taken from those two
List == {"free", "local_free", "thread_free", "delayed_free", "taken", "popping"}

\* the whole of one list goes in front of another
Moves == {<<"thread_free", "taken">>, <<"taken", "local_free">>,
          <<"local_free", "free">>, <<"delayed_free", "popping">>}

On(n) == {lists[n][k] : k \in DOMAIN lists[n]}

Carved == loose \cup UNION {On(n) : n \in List}

Init == lists = [n \in List |-> <<>>] /\ loose = {}

Push(n, b) ==
  /\ b \in loose
  /\ lists' = [lists EXCEPT ![n] = <<b>> \o @]
  /\ loose' = loose \ {b}

Pop(n) ==
  /\ lists[n] # <<>>
  /\ loose' = loose \cup {Head(lists[n])}
  /\ lists' = [lists EXCEPT ![n] = Tail(@)]

Move(from, to) ==
  /\ lists[from] # <<>>
  /\ lists' = [lists EXCEPT ![from] = <<>>, ![to] = lists[from] \o @]
  /\ UNCHANGED loose

\* the page's next blocks up to number `last`, in the order of their addresses
Extend(last) ==
  \E capacity \in 0 .. last - 1 :
    /\ Carved = 1 .. capacity
    /\ lists' = [lists EXCEPT !["free"] = [k \in 1 .. last - capacity |-> capacity + k] \o @]
    /\ UNCHANGED loose

\* the page is given back, once every block is on one of its own two lists
Drop ==
  /\ Carved = On("free") \cup On("local_free")
  /\ lists' = [n \in List |-> <<>>]
  /\ UNCHANGED loose

Next ==
  \/ \E b \in 1 .. RESERVED, n \in {"free", "thread_free", "delayed_free"} : Push(n, b)
  \/ \E n \in {"free", "popping"} : Pop(n)
  \/ \E m \in Moves : Move(m[1], m[2])
  \/ \E last \in 1 .. RESERVED : Extend(last)
  \/ Drop

Spec == Init /\ [][Next]_<<lists, loose>>
=============================================================================
