\* The messages and the starts run out.
SPECIFICATION Spec
CONSTANTS
    multi1 = multi1
    multi2 = multi2
    single1 = single1
    node1 = node1
    node2 = node2
    Senders = {multi1, multi2, single1}
    Size <- Mixed
    SourceOf <- Apart
    Singles = {single1}
    Garbage <- NoReport
    SeqNums = 3
    MsgNums = 2
    MissesFrames = TRUE
    QueueSize = 1
    MaxStarts = 2
INVARIANTS
    TypeOK
    NothingLost
    NoNarrowHole
PROPERTY ImplementsStream
CHECK_DEADLOCK FALSE
