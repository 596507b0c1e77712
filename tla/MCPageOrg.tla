----------------------------- MODULE MCPageOrg -----------------------------
(***************************************************************************)
(* Instances of PageOrg for TLC, with the span bins of the code.           *)
(***************************************************************************)
EXTENDS PageOrg

Sizes == INSTANCE BinSizes

MCSmallestSbin == [n \in 1 .. SLICES_PER_SEGMENT |-> Sizes!SliceBinOf(n)]
Symmetric == Permutations(Segment)
=============================================================================
