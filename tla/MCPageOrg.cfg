CONSTANTS
  Segment = {s1, s2}
  SLICES_PER_SEGMENT = 4
  SEGMENT_BIN_MAX = 4
  SmallestSbin <- MCSmallestSbin
  ValidBin = {1}
  BIN_FULL = 2
  FirstCount = {1}
  NONE = NONE
SPECIFICATION Spec
SYMMETRY Symmetric
INVARIANTS
  CountIsRight
  OrgSound
  CodeFindsItsWay
PROPERTY ThroughPopped
