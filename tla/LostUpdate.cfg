CONSTANTS
    Goroutines = 4
    MaxConns = 2
    MaxFaults = 2
SPECIFICATION LiveSpec
INVARIANTS
    Exact
    Acknowledged
    Verdict
PROPERTY
    Returns
