SPECIFICATION FairSpec
CONSTANTS
    o1 = o1
    o2 = o2
    t1 = t1
    t2 = t2
    NoKey = NoKey
    Owners <- MCOwners
    Transactions <- MCTransactions
    MaxLength <- MCMaxLength
    MaxSent = 2
    MaxLosses = 1
    MaxFaults = 1
INVARIANTS CopiesAreReal SavedIsCopy
PROPERTIES CopiesGrow Converges
CHECK_DEADLOCK FALSE
