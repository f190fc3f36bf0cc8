CONSTANTS
    s1 = s1
    s2 = s2
    Short = Short
    Long = Long
    Senders = {s1, s2}
    Files = {Short, Long}
    Length <- Lengths
    TaskBuffer = 2
    MaxTasks <- Tasks
    MaxRuns <- Runs
    MaxCrashes = 1
SPECIFICATION Spec
INVARIANTS JoinedIntact ArrivedIsJoined
CHECK_DEADLOCK FALSE
