SPECIFICATION Spec
CONSTANTS
  Kernels = {"matvec", "norm"}
  MaxDispatches = 2
  MaxTicks = 2
  MaxTime = 4
INVARIANTS ReportDescribesFrame
PROPERTIES NextFrameAccepted ReportsAgree
