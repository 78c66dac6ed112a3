SPECIFICATION FairSpec
CONSTANTS
    Pipes = 2
    Fds = 2
    Messages = 2
CHECK_DEADLOCK FALSE
INVARIANTS IInv CountIsEnds NotCutOff
PROPERTIES EofComes
