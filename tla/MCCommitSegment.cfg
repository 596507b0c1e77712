CONSTANTS
  SliceCount = 10
  Request = {1, 2}
  Delay = 3
  Extend = 2
  MaxLeft = 7
SPECIFICATION FairSpec
INVARIANTS
  InUseAccessible
  MaskExact
  GivenBack
PROPERTY DecommitEnds
