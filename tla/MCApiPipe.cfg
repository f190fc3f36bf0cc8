SPECIFICATION FairSpec
CONSTANTS
    Length <- MCLength
    Kind <- MCKind
    HeaderLen = 2
    BufferLen = 9
    Room = 3
    MaxNotices = 2
    MaxRare = 2
INVARIANTS NothingSkipped AnswersInOrder
PROPERTIES CommandsHandled
CHECK_DEADLOCK FALSE
