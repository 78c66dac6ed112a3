SPECIFICATION Spec
CONSTANTS
    Pipes = 2
    Fds = 2
    Messages = 1
CHECK_DEADLOCK FALSE
INVARIANT DescriptorsKeepPipe
