CONSTANTS
  f1 = f1
  f2 = f2
  Frame = {f1}
  DataLens = {1}
  Receivers = 1
  Cir = FALSE
  DiagLen = 1
  CirLen = 1
  BlockLen = 3
  NumBlocks = 2
SPECIFICATION Spec
INVARIANTS DiagnosticsReadBack
CHECK_DEADLOCK FALSE
