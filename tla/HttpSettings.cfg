SPECIFICATION Spec
CONSTANTS
    ServerIds = {1}
    ClientIds = {1}
    DefaultWindow = 2
    MaxWindow = 3
    MaxFrame = 2
    InitialWindows = {0}
    GoAwayIds = {0}
    Increments = {2}
    Sizes = {0, 3}
    MaxUnsent = 3
    MaxOpened = 1
    MaxResets = 1
INVARIANT WindowRespected
CHECK_DEADLOCK FALSE
