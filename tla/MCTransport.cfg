CONSTANTS
    a = a
    Senders = {a}
    Sizes = {1, 2}
    Tries = 2
    MaxMessages = 1
    MaxRestarts = 1
    MaxCrashes = 1
SPECIFICATION TransportFairSpec
INVARIANTS HandledIntact CompleteIsHandled AckedIsHandled
PROPERTIES Outcome
CHECK_DEADLOCK FALSE
