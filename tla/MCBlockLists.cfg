SPECIFICATION Spec
CONSTANTS
  RESERVED = 3
  MAX_EXTEND = 2
  BSIZE = 8
  Remote = {t1, t2}
  JUNK = JUNK
INVARIANT UsedExact
PROPERTY KeepsLists
SYMMETRY Symmetric
