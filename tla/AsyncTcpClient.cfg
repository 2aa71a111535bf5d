\* The calls run out, so the client may stop for good.
SPECIFICATION FairSpec
CONSTANT Calls = {c1, c2, c3}
INVARIANTS
    TypeOK
    OneRequestAtATime
    NoReplyTwice
    MixupNeedsTimeout
    StaleRepliesAreDrained
    CloseReleasesConnection
    AttributeErrorOnlyIfClosed
PROPERTIES
    ImplementsService
    EveryCallReturns
CHECK_DEADLOCK FALSE
