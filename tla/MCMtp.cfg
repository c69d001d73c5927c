SPECIFICATION Spec
CONSTANTS
  Inputs = {x, y, z}
  Invalid = bad
  Context = 4
INVARIANTS VisibleSlots
PROPERTIES ImplementsLog
