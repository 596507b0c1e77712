--------------------------- MODULE MCSegmentSpans ---------------------------
(***************************************************************************)
(* Instances of SegmentSpans for TLC.  slice_bin gives a queue to every    *)
(* size up to eight and lets several sizes share one from nine on; here    *)
(* they share one from three on, so that a segment of six slices has a     *)
(* queue with spans that are too small for a request in it.                *)
(***************************************************************************)
EXTENDS SegmentSpans, TLC

MCSliceBin == <<1, 2, 3, 3, 4>>
Symmetric  == Permutations(Segment)
=============================================================================
