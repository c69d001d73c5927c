SPECIFICATION FileSpec
CONSTANTS
  MaxUsize = 7
  HeaderBytes = 1
  MaxHeader = 2
  Shapes <- MCShapes
  Items = {1, 2}
  MaxEntries = 3
INVARIANTS SlicesInsideMapping AcceptedArePartitioned
CHECK_DEADLOCK FALSE
