CONSTANTS
    Queue = {ev, cp, u1}
    EventQ = ev
    ComputeQ = cp
    ComputeThreads = 2
    Task = {x1, x2}
    EndTask = {e1, e2, e3}
    Thread = {t1, t2, t3}
    Main = Main
    Null = Null
    MaxThreads = 2
    MaxBatch = 2
SYMMETRY Symmetry
SPECIFICATION Spec
CHECK_DEADLOCK FALSE
INVARIANTS
    ThreadCounts
    NoSleeperWhileBacklog
    NoUseAfterDelete
    IInv
PROPERTIES
    ImplementsFifo
