CONSTANTS
    Workers = 3
    Jobs = 4
    Squares = 4
    Fetches = 2
    LeakyCalls = 3
    N = 4
    Tasks = {1, 2, 3, 4}
    Limit = 2
    Budget = 1
    Need = 5
    Hour = 6
SPECIFICATION LiveSpec
INVARIANTS
    ReturnsVerdict
    CountsAll
    CauseTold
PROPERTIES
    Returns
    CancelReturns
    ImplementsFanIn
    LeaksExactly
    GroupImplementsBoundedRun
    CountersImplementIncrements
