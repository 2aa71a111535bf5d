\* The messages, the strays and the starts run out.
SPECIFICATION Spec
CONSTANTS
    dev1 = dev1
    dev2 = dev2
    Senders = {dev1, dev2}
    Size <- Faulty
    Garbage <- NoReport
    SeqNums = 3
    MsgNums = 2
    QueueSize = 1
    MaxStarts = 2
    MaxStrays = 3
    MaxLost = 2
INVARIANTS
    NothingLost
    NeverMixed
CHECK_DEADLOCK FALSE
