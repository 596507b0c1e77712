SPECIFICATION Spec
CONSTANTS
  Thread = {t1, t2}
  SEGMENT_SIZE = 2
  INFO_SLICES = 1
  HINT_BASE = 4
  HINT_MAX = 6
  MAX_ADDRESS = 9
  MAX_SEGMENTS = 2
SYMMETRY Symmetric
CHECK_DEADLOCK FALSE
INVARIANT MemoryExact
PROPERTY HintsRunOut
