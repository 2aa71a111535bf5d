\* The messages and the starts run out.
SPECIFICATION Spec
CONSTANTS
    multi1 = multi1
    multi2 = multi2
    single1 = single1
    node1 = node1
    node2 = node2
    Senders = {multi1}
    Size <- Long
    SourceOf <- OneNode
    Singles = {}
    Garbage <- NoReport
    SeqNums = 3
    MsgNums = 2
    MissesFrames = FALSE
    QueueSize = 2
    MaxStarts = 2
INVARIANT JoinsMidStreamCleanly
CHECK_DEADLOCK FALSE
