\* A client that is closed has nothing more to do.
SPECIFICATION Spec
CONSTANTS
    None = None
    root = root
    group = group
    fn = fn
    arg = arg
    setting = setting
    rec = rec
    field = field
    value = value
    Root <- WalkRoot
    Children <- DeviceChildren
    Type <- DeviceType
    Gets <- DeviceGets
    Kinds = {"tcp", "serial", "can", "async", "text"}
    MaxFaults = 2
    MaxLate = 3
INVARIANTS
    TypeOK
    TreeIsTheDevices
    OneLateMislabelsNothing
    OneLateMisplacesNothing
PROPERTY
    WalkEnds
CHECK_DEADLOCK FALSE
