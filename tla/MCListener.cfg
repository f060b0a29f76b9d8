CONSTANTS
  f1 = f1
  f2 = f2
  Frame = {f1, f2}
  DataLens = {1, 2}
  Receivers = 2
  Cir = TRUE
  DiagLen = 1
  CirLen = 2
  BlockLen = 3
  NumBlocks = 3
SPECIFICATION FairSpec
INVARIANTS TypeOK NoBlockLost PrintsTheFrame CirIsOwn
PROPERTIES GetsToPackets
CHECK_DEADLOCK FALSE
