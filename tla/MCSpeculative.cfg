CONSTANTS
  Vocab = {0, 1, 2}
  Depth = 4
  Levels = 5
  Options <- MCOptions
  Configs <- MCConfigs
  Rows <- MCRows
  DraftRows <- MCDraftRows
  MaxEmitted = 2
  MaxDrafts = 2
SPECIFICATION RoundSpec
INVARIANTS LawPreserved RejectionHasCorrection SamplersFollowLaw
CHECK_DEADLOCK FALSE
