SPECIFICATION FairSpec
CONSTANTS
  w1 = w1
  NoWorker = NoWorker
  Workers <- OneWorker
  Sessions <- TwoSessions
  Ops <- AllOps
  MaxOutput = 2
CONSTRAINT UntilEarly
CHECK_DEADLOCK FALSE
INVARIANTS TypeOK OneAnswer AnswerIsMine PendingMeansEmpty
PROPERTIES SessionSpec AnsweredInTheEnd
