SPECIFICATION Spec
CONSTANTS
    ServerIds = {1, 3}
    ClientIds = {1}
    DefaultWindow = 2
    MaxWindow = 3
    MaxFrame = 2
    InitialWindows = {3, 5}
    GoAwayIds = {6}
    Increments = {2}
    Sizes = {0, 3}
    MaxUnsent = 3
    MaxOpened = 2
    MaxResets = 2
CHECK_DEADLOCK FALSE
INVARIANTS
    StreamsConsistent
    WindowRespected
    HeldBackForWindow
    ResetStaysClosed
PROPERTIES
    FatalOnlyOnOwnReset
