\* A sniffer that is closed has nothing more to do.
SPECIFICATION Spec
CONSTANTS
    None = None
    Variants = {"can"}
    Sources = {s1, s2}
    Unknown = {i1}
    Rounds = 2
INVARIANT
    FetchesAreSerialised
CHECK_DEADLOCK FALSE
