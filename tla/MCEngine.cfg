CONSTANTS
  Vocab = {a, b}
  OutOfVocab = bad
  Context = 3
  MaxBlock = 3
  Garbage = Garbage
SPECIFICATION Spec
INVARIANTS RecurrentCoherent AttentionCoherent PrefixRestorable
PROPERTIES ScheduleChangesOnZeroState ImplementsLog
SYMMETRY Symmetry
