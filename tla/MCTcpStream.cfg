SPECIFICATION Spec
CONSTANTS
    Fds = {f1}
    Chunks = {a, b}
    QueueSize = 2
    MaxTidx <- Tasks
    MaxReads = 3
    MaxConns = 3
SYMMETRY Symmetry
INVARIANTS InOrder NothingLeftBehind StreamIsPrefix
CHECK_DEADLOCK FALSE
