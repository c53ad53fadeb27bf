CONSTANTS
    MaxReads = 3
    MaxWrites = 3
    MaxResults = 2
    MaxWaiting = 3
    Habits = {}
SPECIFICATION LiveSpec
CHECK_DEADLOCK FALSE
INVARIANTS
    SocketConsistent
    DisconnectedOnce
    WaitingIsTold
PROPERTIES
    ClosedIsDeleted
