CONSTANTS
  MaxSize <- AcceptedAndMore
  MaxSpan <- SLICES_PER_SEGMENT
  SegmentAt <- Segments
  FirstSlice <- Slices
SPECIFICATION LSpec
INVARIANTS
  BestFit
  BlockInside
  HeadersFound
