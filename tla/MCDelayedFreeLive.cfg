CONSTANTS
  p1 = p1
  p2 = p2
  p3 = p3
  a1 = a1
  a2 = a2
  b1 = b1
  c1 = c1
  Page <- TwoPages
  Block <- ThreeBlocks
  PageOf <- ThreeOf
  SegmentOf <- OneSegment
  Remote = {t1}
  MaxYield = 1
  MaxExtend = 1
  NULL = NULL
SPECIFICATION FairSpec
PROPERTIES EveryFreeArrives OwnerReturns
