\* A sniffer that is closed has nothing more to do.
SPECIFICATION FairSpec
CONSTANTS
    None = None
    Variants = {"can", "udp"}
    Sources = {s1, s2}
    Unknown = {i1}
    Rounds = 2
INVARIANTS
    TypeOK
    TreeIsItsOwn
PROPERTY
    EveryFetchSettles
CHECK_DEADLOCK FALSE
