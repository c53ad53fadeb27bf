CONSTANTS
    Notifiers = {n1, n2, n3}
    Threads = {event, other}
    Event = event
    None = None
    Mark = Mark
    MaxDisk = 2
    MaxCalls = 1
    Habits = {}
SPECIFICATION LiveSpec
CHECK_DEADLOCK FALSE
INVARIANTS
    WalkConsistent
    ToldTheLatest
PROPERTIES
    CallsReturn
