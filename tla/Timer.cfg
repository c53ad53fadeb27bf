CONSTANTS
    a = a
    b = b
    c1 = c1
    Notify = {a, b}
    Client = {c1}
    Event = Event
    Owner <- OwnerOf
    SelfCalls <- NoSelfCalls
    None = None
    MaxWait = 1
    MaxNodes = 2
SPECIFICATION Spec
CHECK_DEADLOCK FALSE
INVARIANTS
    QueueConsistent
    DispatchNotLate
    ClosedIsQuiet
PROPERTIES
    ImplementsAlarm
