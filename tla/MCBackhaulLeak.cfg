CONSTANTS
  b1 = b1
  b2 = b2
  p1 = p1
  Block <- Blocks2
  Peer <- Peers1
  SeqMod = 2
  RxLengths = {1, 2}
  ResultLengths = {1, 2}
  Tick = 1
  TimeoutMod = 1
  Listens <- OneListen
  RxTimes = {2}
SPECIFICATION Spec
INVARIANTS NoLeak
