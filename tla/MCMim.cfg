CONSTANTS
  ThreadId = {t1, t2}
  MaxHeap = 2
  MaxSegment = 1
  Slices = 2
  SLICE_SIZE = 2
  Sizes = {1, 2}
  MaxBlock = 2
  MaxPages = 2
  Access = {x, y}
  None = None
SPECIFICATION Spec
SYMMETRY Symmetry
INVARIANT ProtocolSound
PROPERTY OneHeapView
