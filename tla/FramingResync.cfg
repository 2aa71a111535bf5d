SPECIFICATION Spec
CONSTANTS
    Replies <- SomeMalformed
    MaxReplies = 2
    Decode <- CborDecode
INVARIANT ConsumedIsDropped
CHECK_DEADLOCK FALSE
