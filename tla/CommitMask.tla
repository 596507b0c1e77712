----------------------------- MODULE CommitMask -----------------------------
(***************************************************************************)
(* The bit mask of a segment (commit_mask.rs): an array of words, one bit  *)
(* per slice.  A word is the set of its bits; the loops of create and      *)
(* next_run are taken step by step, with their words, shifts and indices.  *)
(*                                                                         *)
(* The callers create a mask for a run of slices, set, clear or intersect  *)
(* another one with it, and ask next_run for the runs of the result.       *)
(***************************************************************************)
EXTENDS Integers

CONSTANTS
  FieldCount,    \* COMMIT_MASK_FIELD_COUNT
  WordBits       \* usize::BITS

ASSUME FieldCountAssumption == FieldCount \in Nat \ {0}
ASSUME WordBitsAssumption == WordBits \in Nat \ {0}

Field == 0 .. FieldCount - 1
Bit == 0 .. WordBits - 1
MaskBits == FieldCount * WordBits     \* COMMIT_MASK_BITS

\* the numbers of the bits of a mask, which is what its callers mean by it
Bits(m) == UNION {{f * WordBits + b : b \in m[f]} : f \in Field}

VARIABLES
  mask,      \* a mask of the segment
  arg,       \* the mask create makes
  pc,        \* "idle", in create: "create", "created", in next_run: "scan",
             \* "shift", "run", "boundary", "found"
  idx, n,    \* the arguments of the call; n is create's count
  i, ofs,    \* locals of both loops
  bitcount,  \* local of create
  w,         \* next_run's local mask
  next_idx, count    \* next_run's result

locals == <<i, ofs, bitcount, w, next_idx, count>>
vars == <<mask, arg, pc, idx, n, locals>>

empty == [f \in Field |-> {}]
create_full == [f \in Field |-> Bit]

Clean == i = 0 /\ ofs = 0 /\ bitcount = 0 /\ w = {} /\ next_idx = 0 /\ count = 0

Init ==
  /\ mask \in {empty, create_full}
  /\ arg = empty
  /\ pc = "idle" /\ idx = 0 /\ n = 0
  /\ Clean

Shr(word, k) == {b \in Bit : b + k \in word}
Shl(word, k) == {b \in Bit : b - k \in word}

-----------------------------------------------------------------------------
(* Operations on all words                                                  *)

all_set(m, o) == \A f \in Field : m[f] \cap o[f] = o[f]

any_set(m, o) == \E f \in Field : m[f] \cap o[f] # {}

create_intersect(m, o) == [f \in Field |-> m[f] \cap o[f]]

clear(m, o) == [f \in Field |-> m[f] \ o[f]]

set(m, o) == [f \in Field |-> m[f] \cup o[f]]

is_empty(m) == \A f \in Field : m[f] = {}

is_full(m) == \A f \in Field : m[f] = Bit

-----------------------------------------------------------------------------
(* create                                                                   *)

\* create(idx, count), on a new mask
CallCreate(first, len) ==
  /\ pc = "idle"
  /\ idx' = first /\ n' = len
  /\ \/ /\ len = MaskBits
        /\ arg' = create_full
        /\ pc' = "created"
        /\ UNCHANGED <<i, ofs, bitcount>>
     \/ /\ len = 0
        /\ pc' = "created"
        /\ UNCHANGED <<arg, i, ofs, bitcount>>
     \/ /\ len \notin {0, MaskBits}
        /\ i' = first \div WordBits
        /\ ofs' = first % WordBits
        /\ bitcount' = len
        /\ pc' = "create"
        /\ UNCHANGED arg
  /\ UNCHANGED <<mask, w, next_idx, count>>

\* c: how many bits of this word
Chunk == IF bitcount > WordBits - ofs THEN WordBits - ofs ELSE bitcount

CreateWord ==
  /\ pc = "create"
  /\ bitcount > 0
  /\ arg' = [arg EXCEPT ![i] =
       IF Chunk >= WordBits THEN Bit ELSE Shl(0 .. Chunk - 1, ofs)]
  /\ bitcount' = bitcount - Chunk
  /\ ofs' = 0 /\ i' = i + 1
  /\ UNCHANGED <<mask, pc, idx, n, w, next_idx, count>>

CreateDone ==
  /\ pc = "create"
  /\ bitcount <= 0
  /\ pc' = "created"
  /\ UNCHANGED <<mask, arg, idx, n, locals>>

\* what the caller does with the new mask
Apply ==
  /\ pc = "created"
  /\ \/ mask' = set(mask, arg)
     \/ mask' = clear(mask, arg)
     \/ mask' = create_intersect(mask, arg)
  /\ arg' = empty
  /\ pc' = "idle" /\ idx' = 0 /\ n' = 0
  /\ i' = 0 /\ ofs' = 0 /\ bitcount' = 0
  /\ UNCHANGED <<w, next_idx, count>>

-----------------------------------------------------------------------------
(* next_run                                                                 *)

CallNextRun(first) ==
  /\ pc = "idle"
  /\ idx' = first
  /\ i' = first \div WordBits
  /\ ofs' = first % WordBits
  /\ pc' = "scan"
  /\ UNCHANGED <<mask, arg, n, bitcount, w, next_idx, count>>

\* (mutant) a word without a set bit is looked at again
ScanWord_Again ==
  /\ pc = "scan"
  /\ i < FieldCount
  /\ w' = Shr(mask[i], ofs)
  /\ \/ w' # {} /\ pc' = "shift" /\ UNCHANGED <<i, ofs>>
     \/ w' = {} /\ i' = i /\ ofs' = 0 /\ UNCHANGED pc
  /\ UNCHANGED <<mask, arg, idx, n, bitcount, next_idx, count>>

\* the next word is shifted to the offset; without a set bit it is passed
ScanWord ==
  /\ pc = "scan"
  /\ i < FieldCount
  /\ w' = Shr(mask[i], ofs)
  /\ \/ w' # {} /\ pc' = "shift" /\ UNCHANGED <<i, ofs>>
     \/ w' = {} /\ i' = i + 1 /\ ofs' = 0 /\ UNCHANGED pc
  /\ UNCHANGED <<mask, arg, idx, n, bitcount, next_idx, count>>

NoRun ==
  /\ pc = "scan"
  /\ i >= FieldCount
  /\ next_idx' = MaskBits /\ count' = 0
  /\ pc' = "found"
  /\ UNCHANGED <<mask, arg, idx, n, i, ofs, bitcount, w>>

ShiftZero ==
  /\ pc = "shift"
  /\ 0 \notin w
  /\ w' = Shr(w, 1) /\ ofs' = ofs + 1
  /\ UNCHANGED <<mask, arg, pc, idx, n, i, bitcount, next_idx, count>>

RunStarts ==
  /\ pc = "shift"
  /\ 0 \in w
  /\ next_idx' = i * WordBits + ofs /\ count' = 0
  /\ pc' = "run"
  /\ UNCHANGED <<mask, arg, idx, n, i, ofs, bitcount, w>>

\* the inner loop: at the end of a word the shift brings a zero, too
CountBit ==
  /\ pc = "run"
  /\ count' = count + 1
  /\ w' = Shr(w, 1)
  /\ pc' = IF 0 \in w' THEN "run" ELSE "boundary"
  /\ UNCHANGED <<mask, arg, idx, n, i, ofs, bitcount, next_idx>>

\* (mutant) a run ends with its word
AtBoundary_Never == FALSE

AtBoundary == (next_idx + count) % WordBits = 0

LastWord ==
  /\ pc = "boundary"
  /\ AtBoundary
  /\ i + 1 >= FieldCount
  /\ i' = i + 1
  /\ pc' = "found"
  /\ UNCHANGED <<mask, arg, idx, n, ofs, bitcount, w, next_idx, count>>

NextWord ==
  /\ pc = "boundary"
  /\ AtBoundary
  /\ i + 1 < FieldCount
  /\ i' = i + 1 /\ ofs' = 0
  /\ w' = mask[i + 1]
  /\ pc' = IF 0 \in w' THEN "run" ELSE "found"
  /\ UNCHANGED <<mask, arg, idx, n, bitcount, next_idx, count>>

RunEnds ==
  /\ pc = "boundary"
  /\ ~AtBoundary
  /\ pc' = IF 0 \in w THEN "run" ELSE "found"
  /\ UNCHANGED <<mask, arg, idx, n, locals>>

\* next_run returns; its locals are gone
Return ==
  /\ pc = "found"
  /\ pc' = "idle" /\ idx' = 0
  /\ i' = 0 /\ ofs' = 0 /\ w' = {} /\ next_idx' = 0 /\ count' = 0
  /\ UNCHANGED <<mask, arg, n, bitcount>>

-----------------------------------------------------------------------------
Loop ==
  \/ CreateWord \/ CreateDone
  \/ ScanWord \/ NoRun \/ ShiftZero \/ RunStarts
  \/ CountBit \/ LastWord \/ NextWord \/ RunEnds

Next ==
  \/ \E first \in 0 .. MaskBits, len \in 0 .. MaskBits :
       first + len <= MaskBits /\ CallCreate(first, len)
  \/ \E first \in 0 .. MaskBits - 1 : CallNextRun(first)
  \/ Loop
  \/ Apply
  \/ Return

Spec == Init /\ [][Next]_vars

\* A thread inside a loop goes on.
FairSpec == Spec /\ WF_vars(Loop)

-----------------------------------------------------------------------------
(* Properties                                                               *)

\* create makes the mask of the bits idx .. idx+count-1, and what its callers
\* then do to the words of the two masks, or ask of them, is done to the sets
\* of bit numbers.  next_run returns the first run from idx on and all of it,
\* and count 0 only if no bit is left: segment_delayed_decommit stops there,
\* although the contract in commit_mask.rs only says that the bits it returns
\* are set.
WordsAreSets ==
  /\ pc = "created" =>
       LET a == Bits(mask)
           b == idx .. idx + n - 1
       IN  /\ Bits(arg) = b
           /\ Bits(set(mask, arg)) = a \cup b
           /\ Bits(clear(mask, arg)) = a \ b
           /\ Bits(create_intersect(mask, arg)) = a \cap b
           /\ all_set(mask, arg) <=> b \subseteq a
           /\ any_set(mask, arg) <=> a \cap b # {}
           /\ is_empty(mask) <=> a = {}
           /\ is_full(mask) <=> a = 0 .. MaskBits - 1
  /\ pc = "found" =>
       LET rest == {j \in Bits(mask) : j >= idx}
       IN  \/ rest = {} /\ next_idx = MaskBits /\ count = 0
           \/ /\ count > 0
              /\ next_idx .. next_idx + count - 1 \subseteq rest
              /\ \A j \in rest : j >= next_idx
              /\ next_idx + count \notin rest

\* The nested loops of create and next_run end.
LoopsEnd ==
  pc \in {"create", "scan", "shift", "run", "boundary"} ~> pc \in {"created", "found"}
=============================================================================
