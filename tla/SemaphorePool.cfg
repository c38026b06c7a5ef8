CONSTANTS
    Tasks <- MCTasks
    N = 4
    Limit = 2
SPECIFICATION LiveSpec
INVARIANTS
    Bounded
    PeakExact
PROPERTIES
    ImplementsBoundedRun
    Returns
