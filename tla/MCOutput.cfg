SPECIFICATION OutputSpec
CONSTANTS
  Alphabet = {"<", "/", "k", "t", "e", "f", "/f", "p", "q", "/p"}
  Open <- MCOpen
  Close <- MCClose
  Think <- MCThink
  ThinkEnd <- MCThinkEnd
  Brace = "t"
  Quote = "k"
  Escape = "e"
  Function = "f"
  FunctionEnd = "/f"
  Parameters = {"p", "q"}
  ParameterEnd = "/p"
  Chunks <- MCChunks
  Follows <- MCFollows
  Options <- MCOptions
  ValidJson <- MCValidJson
INVARIANTS ChunkingIrrelevant StopNeverLeaks ReasoningThenAnswer CallsAreFrames
CHECK_DEADLOCK FALSE
