CONSTANTS
    NoId = none
    WebRequests = {r1, r2}
    WebIds = {id1}
    Clients = {r1, r2, r3}
    Numbers = {1, 2, 3}
    Mains = {r1, r2}
    Tests = {t1}
    MaxFaults = 2
    Callers = {r1, r2}
    Users = {u1, u2}
    Scrapes = 1
SYMMETRY Symmetry
SPECIFICATION Spec
INVARIANTS
    OneTrueLine
    Atomic
    PanicContained
    LogAgrees
    PoolOwned
    TracesComplete
    ScrapeTells
PROPERTY
    ImplementsItemStore
