CONSTANTS
    IoThread = {i1, i2}
    MaxPending = 2
    MaxMsgs = 7
    Habits = {}
SPECIFICATION LiveSpec
CHECK_DEADLOCK FALSE
INVARIANTS
    LogIInv
    LogKept
PROPERTIES
    LogSettles
