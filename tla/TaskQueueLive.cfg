CONSTANTS
    Queue = {ev, cp}
    EventQ = ev
    ComputeQ = cp
    ComputeThreads = 2
    Task = {x1, x2}
    EndTask = {e1, e2, e3}
    Thread = {t1, t2, t3}
    Main = Main
    Null = Null
    MaxThreads = 2
    MaxBatch = 2
SPECIFICATION FairSpec
CHECK_DEADLOCK FALSE
PROPERTIES
    TaskEventuallyStarts
    DestroyReturns
