SPECIFICATION Spec
CONSTANTS
  w1 = w1
  NoWorker = NoWorker
  Workers <- OneWorker
  Sessions <- OneSession
  Ops <- OnlyRead
  MaxOutput = 1
CHECK_DEADLOCK FALSE
INVARIANT WaitingIsOwed
