\* Nodes that are ready or closed have nothing more to do.
SPECIFICATION FairSpec
CONSTANTS
    None = None
    Nodes = {n1, n2}
    Desired <- AllZero
    MaxAddr = 3
    Held = {0, 2}
    Refusing = {n1}
INVARIANTS
    TypeOK
    HeldAddressesAreLeft
    OneOwnerPerAddress
    TimesOutOnlyIfFull
PROPERTIES
    AddressIsKept
    ConstructorEnds
    AnswersDieOut
CHECK_DEADLOCK FALSE
