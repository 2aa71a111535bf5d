\* Nodes that are ready or closed have nothing more to do.
SPECIFICATION Spec
CONSTANTS
    None = None
    Nodes = {n1, n2}
    Desired <- AllZero
    MaxAddr = 2
    Held = {0}
    Refusing = {}
INVARIANT
    ReadyHasAddress
CHECK_DEADLOCK FALSE
