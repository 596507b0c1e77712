---------------------------- MODULE MCDelayedFree ----------------------------
(***************************************************************************)
(* Instances of DelayedFree for TLC: pages on the blocks of which Remote    *)
(* threads and the owner work at the same time.                            *)
(***************************************************************************)
EXTENDS DelayedFree, TLC

CONSTANTS p1, p2, p3, a1, a2, b1, c1

\* a page of two blocks and a page of one, in one segment
TwoPages    == {p1, p2}
ThreeBlocks == {a1, a2, b1}
ThreeOf     == [b \in ThreeBlocks |-> IF b = b1 THEN p2 ELSE p1]
OneSegment  == [p \in TwoPages |-> 1]

\* a page of two blocks and two pages of one, in two segments
ThreePages  == {p1, p2, p3}
MixedBlocks == {a1, a2, b1, c1}
MixedOf     == [b \in MixedBlocks |-> CASE b = b1 -> p2 [] b = c1 -> p3 [] OTHER -> p1]
TwoSegments == [p \in ThreePages |-> IF p = p3 THEN 2 ELSE 1]
MixedSymmetry == Permutations(Remote) \cup Permutations({a1, a2})
=============================================================================
