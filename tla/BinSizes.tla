------------------------------ MODULE BinSizes ------------------------------
(***************************************************************************)
(* bin and slice_bin (bin_sizes.rs): the page queue of a request and the   *)
(* span queue of a number of slices.                                       *)
(***************************************************************************)
EXTENDS Integers, FiniteSetsExt

\* BITS - 1 - leading_zeros: the position of the highest bit of w > 0
HighestBit(w) == Max({b \in 0 .. 30 : 2 ^ b <= w})

\* the two bits of w below the highest
NextBits(w) == (w \div 2 ^ (HighestBit(w) - 2)) % 4

\* Up to 8 one bin for each count; above, four bins for each power of two (the
\* low bits of b << 2 are 0, so | is +).
SliceBinOf(n) == IF n <= 8 THEN n ELSE 4 * HighestBit(n - 1) + NextBits(n - 1) - 4

WordSize == 8
Words(size) == (size + WordSize - 1) \div WordSize

\* (mutant) the count of words is not decremented before its bits are taken
BinOf_Exact(size) ==
  LET w == Words(size)
  IN  IF w <= 1 THEN 1 ELSE IF w <= 8 THEN w ELSE 4 * HighestBit(w) + NextBits(w) - 3

\* bin, for a request of size bytes
BinOf(size) ==
  LET w == Words(size)
  IN  IF w <= 1 THEN 1 ELSE IF w <= 8 THEN w ELSE 4 * HighestBit(w - 1) + NextBits(w - 1) - 3
=============================================================================
