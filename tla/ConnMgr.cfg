CONSTANTS
    Target = {a1, a2, a3}
    ConnHabits = {}
SPECIFICATION ConnLiveSpec
CHECK_DEADLOCK FALSE
INVARIANTS
    ConnIInv
    AddressesServed
PROPERTIES
    AttemptsAllowed
    ManagerStops
