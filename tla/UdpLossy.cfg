\* The messages and the starts run out.
SPECIFICATION Spec
CONSTANTS
    dev1 = dev1
    dev2 = dev2
    Senders = {dev1, dev2}
    Size <- Lossy
    Garbage <- NoReport
    SeqNums = 3
    MsgNums = 2
    QueueSize = 2
    MaxStarts = 2
    MaxStrays = 0
    MaxLost = 1
INVARIANTS
    TypeOK
    OnlyWholeReports
PROPERTY ImplementsStream
CHECK_DEADLOCK FALSE
