SPECIFICATION ParseSpec
CONSTANTS
  Ids = {a, b}
  Functions = {"f", "g"}
  NoId = none
  MaxMessages = 5
  MaxCalls = 2
  MaxTools = 2
INVARIANTS ScanIsExact ToolsFit
SYMMETRY Symmetry
