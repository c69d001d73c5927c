CONSTANTS
  Simd = 8
  LaneCols = 4
  QuantGroups = {8, 16, 32}
  AlignedGroup = 16
  NormWide = 9
  HistoryLong = 2
  MlpShapes <- MCShapes
  MaxIndex = 4095
  Scenarios <- MCScenarios
  Context = 4
  Tokens = {0, 1}
  BadToken = 99
  Asked <- MCAsked
  Garbage = Garbage
SPECIFICATION Spec
INVARIANTS CallsAccepted AccessesInside OutputsWrittenOnce SumsComplete
PROPERTIES ImplementsEngine
CHECK_DEADLOCK FALSE
