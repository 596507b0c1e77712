CONSTANTS
  Page = {a, b, c}
  ClassCount = 3
  Words <- ThreeClasses
  SmallMax = 3
  NULL = NULL
  EMPTY = EMPTY
SPECIFICATION FairSpec
INVARIANTS
  LinksExact
  DirectExact
  WalkAtFront
PROPERTIES
  WalkEnds
  KeepsOrder
