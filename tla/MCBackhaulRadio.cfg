CONSTANTS
  b1 = b1
  p1 = p1
  Block = {b1}
  Peer = {p1}
  SeqMod = 1
  RxLengths = {1}
  ResultLengths = {}
  Tick = 2
  TimeoutMod = 4
  Listens = {}
  RxTimes = {}
  Wrap = 16
  Lag = 2
  Timeouts = {2, 3}
  Restarts = {TRUE, FALSE}
  MaxTime = 22
SPECIFICATION RadioSpec
PROPERTIES WindowKept TimeoutUntouched
