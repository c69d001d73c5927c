SPECIFICATION Spec
CONSTANTS
  Shards = {s1, s2}
  Namespaces = {"hf", "plain"}
  Convs = {"conv1", "conv2"}
  Others = {"norm"}
  NoIndex = none
  MaxNames = 3
  MaxTensors = 2
INVARIANTS OpenIsExact NormsAgree
CHECK_DEADLOCK FALSE
