\* The device stops after MaxReplies.
SPECIFICATION Spec
CONSTANTS
    Replies <- WellFormed
    MaxReplies = 3
    Decode <- CborDecode
INVARIANTS
    TypeOK
    EachReplyOnceInOrder
    BufferHoldsNextReply
CHECK_DEADLOCK FALSE
