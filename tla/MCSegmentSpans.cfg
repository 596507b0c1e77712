CONSTANTS
  Segment = {s1, s2}
  SliceCount = 6
  SEGMENT_BIN_MAX = 4
  SliceBin <- MCSliceBin
  Request = {1, 2, 4}
  MaxPages = 4
SPECIFICATION Spec
SYMMETRY Symmetric
INVARIANTS
  Tiling
  PageLookup
  QueueExact
  NoFreeNeighbours
PROPERTIES
  LiveHeadersUntouched
  KeepsSpanPromise
