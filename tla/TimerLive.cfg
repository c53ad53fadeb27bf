CONSTANTS
    a = a
    b = b
    c1 = c1
    Notify = {b}
    Client = {c1}
    Event = Event
    Owner <- OwnerOf
    SelfCalls <- NoSelfCalls
    None = None
    MaxWait = 2
    MaxNodes = 2
SPECIFICATION FairSpec
CHECK_DEADLOCK FALSE
PROPERTIES
    DueFires
    WaitersReturn
