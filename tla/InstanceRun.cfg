SPECIFICATION FairSpec
CONSTANTS
  HighWater = 2
  MaxIn = 1
  MaxOut = 2
  MaxTrouble = 1
  Touched = {"stdout"}
  Results = {"Exit7"}
CHECK_DEADLOCK FALSE
INVARIANTS TypeOK NothingLost OkIsComplete EofIsTheEnd NeverKilled
PROPERTY WaitEnds
