------------------------------ MODULE SpanSpec ------------------------------
(***************************************************************************)
(* What the segments of a thread promise its heap: a page is a run of      *)
(* slices that no other page has.                                          *)
(***************************************************************************)
EXTENDS Integers

CONSTANTS Segment, SliceCount, Request

VARIABLES
  segs,     \* segments obtained
  alloc,    \* pages in use: <<segment, first slice, number of slices>>
  req,      \* slices requested, or 0
  grown     \* the request has obtained a segment

vars == <<segs, alloc, req, grown>>

Run(x) == x[2] .. x[2] + x[3] - 1

\* slices i .. i+n-1 of s are in no page; slice 0 holds the headers
Vacant(s, i, n) ==
  /\ s \in segs
  /\ i >= 1 /\ i + n <= SliceCount
  /\ \A x \in alloc : x[1] = s => Run(x) \cap (i .. i + n - 1) = {}

Room(n) == \E s \in Segment, i \in 1 .. SliceCount - 1 : Vacant(s, i, n)

Init == segs = {} /\ alloc = {} /\ req = 0 /\ grown = FALSE

Ask(n) ==
  /\ req = 0
  /\ req' = n
  /\ grown' = FALSE
  /\ UNCHANGED <<segs, alloc>>

Take(s, i) ==
  /\ req # 0
  /\ Vacant(s, i, req)
  /\ alloc' = alloc \cup {<<s, i, req>>}
  /\ req' = 0
  /\ grown' = FALSE
  /\ UNCHANGED segs

Grow(s) ==
  /\ req # 0 /\ ~grown
  /\ ~Room(req)
  /\ segs' = segs \cup {s}
  /\ grown' = TRUE
  /\ UNCHANGED <<alloc, req>>

Refuse ==
  /\ req # 0 /\ ~grown
  /\ ~Room(req)
  /\ req' = 0
  /\ grown' = FALSE
  /\ UNCHANGED <<segs, alloc>>

Give(x) ==
  /\ req = 0
  /\ alloc' = alloc \ {x}
  /\ UNCHANGED <<segs, req, grown>>

Next ==
  \/ \E n \in Request : Ask(n)
  \/ \E s \in Segment, i \in 1 .. SliceCount - 1 : Take(s, i)
  \/ \E s \in Segment : Grow(s)
  \/ Refuse
  \/ \E x \in alloc : Give(x)

Spec == Init /\ [][Next]_vars
=============================================================================
