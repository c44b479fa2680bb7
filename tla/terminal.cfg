CONSTANTS
    NULL = NULL
    c1 = c1
    c2 = c2
    Shifted <- MCShifted
    Keys <- MCKeys
    MaxKeys = 2
    Clients = {c1, c2}
    Scripts <- MCScripts
    Threshold = 1
SPECIFICATION Spec
INVARIANTS
    KeysHeardWhole
    EveryArrowOnce
    KeysAsPromised
PROPERTIES
    ArrowNotHeldForever
    WaiterLetGo
