----------------------------- MODULE QueueSpec -----------------------------
(***************************************************************************)
(* What the page queues of a heap are to the rest of the allocator: one    *)
(* sequence of pages per size class and one of full pages.  A new page is  *)
(* the first that is tried, a page that changes its queue the last.        *)
(***************************************************************************)
EXTENDS Sequences, Integers

CONSTANTS Page, Class, Full

VARIABLE order    \* the pages of each queue

Queue == Class \cup {Full}

Pages(q) == {order[q][k] : k \in DOMAIN order[q]}

\* s, in which p occurs once, without p
Without(s, p) ==
  LET k == CHOOSE i \in DOMAIN s : s[i] = p
  IN  [i \in 1 .. Len(s) - 1 |-> IF i < k THEN s[i] ELSE s[i + 1]]

Init == order = [q \in Queue |-> <<>>]

\* page_fresh_alloc
Add(q, p) ==
  /\ \A r \in Queue : p \notin Pages(r)
  /\ order' = [order EXCEPT ![q] = <<p>> \o @]

\* page_to_full, page_unfull
Move(p, from, to) ==
  /\ p \in Pages(from)
  /\ order' = [order EXCEPT ![from] = Without(@, p), ![to] = Append(@, p)]

\* page_retire, page_free: the only page of a class is kept
Drop(p, q) ==
  /\ p \in Pages(q)
  /\ q = Full \/ Len(order[q]) > 1
  /\ order' = [order EXCEPT ![q] = Without(@, p)]

Next ==
  \E p \in Page :
    \/ \E c \in Class : Add(c, p) \/ Move(p, c, Full) \/ Move(p, Full, c)
    \/ \E q \in Queue : Drop(p, q)

Spec == Init /\ [][Next]_order
=============================================================================
