CONSTANTS
    Mgr = {m1, m2}
    Addr = {e1, e2}
    Link = {c1, c2}
    None = None
    Habits = {}
SPECIFICATION LiveSpec
CHECK_DEADLOCK FALSE
INVARIANTS
    AddressesOpen
    LinksConsistent
PROPERTIES
    ShutdownEnds
