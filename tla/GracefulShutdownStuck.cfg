CONSTANTS
    r1 = r1
    r2 = r2
    Requests <- MCRequests
SPECIFICATION Spec
INVARIANT
    StuckAreCancelled
