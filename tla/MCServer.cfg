CONSTANTS
  Requests = {r1, r2}
  Kinds <- MCKinds
  QueueCapacity = 1
  EventCapacity = 1
  MaxDeltas = 2
SPECIFICATION FairSpec
INVARIANTS StreamGrammar NothingLost JsonHeldBack
PROPERTIES EveryRequestEnds WorkerComesBack
