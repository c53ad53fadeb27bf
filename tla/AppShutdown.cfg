CONSTANTS
    Handler <- AppHandler
    Use <- Resource
    MaxInUse = 3
    MaxRuns = 1
SPECIFICATION LiveSpec
CHECK_DEADLOCK FALSE
INVARIANTS
    ShutdownIInv
    LayersOutliveUse
    StoppedIsClean
PROPERTIES
    PhaseEndsComplete
    ShutdownEnds
