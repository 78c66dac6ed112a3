SPECIFICATION FairSpec
CONSTANTS
    Workers = {w1, w2}
    NoWorker = NoWorker
    Sessions = {1}
    Children = {1, 2}
    Uses <- UsesMC
    MaxPosted = 4
    MaxCalls = 2
CHECK_DEADLOCK FALSE
INVARIANTS TypeOK ControlArrives ClosedIsClosed ChildHears
PROPERTIES ExitHeard
