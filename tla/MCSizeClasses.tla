--------------------------- MODULE MCSizeClasses ---------------------------
(***************************************************************************)
(* SizeClasses and Layout for TLC: every size malloc accepts and the first *)
(* ones it does not, every span of a segment, every block of a page of     *)
(* each queue in two segments, at the first slice a page can have, at one  *)
(* where a page of eight slices ends the segment, and at the last one.     *)
(***************************************************************************)
EXTENDS Layout

AcceptedAndMore == MEDIUM_OBJ_SIZE_MAX + WordSize
Segments        == {1, 62}
Slices          == {1, 504, 511}
=============================================================================
