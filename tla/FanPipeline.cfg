CONSTANTS
    In <- MCIn
    Workers = 3
SPECIFICATION LiveSpec
INVARIANTS
    ChannelsSafe
    Conserved
    ReturnsSquares
PROPERTIES
    ImplementsFanIn
    NoLeak
