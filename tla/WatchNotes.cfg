CONSTANTS
    w1 = w1
    w2 = w2
    work = work
    none = none
    Watchers <- MCWatchers
    Tags <- MCTags
    NoFilter <- MCNoFilter
    Stream = w1
    Cap = 2
    MaxNotes = 3
SPECIFICATION MCSpec
INVARIANTS
    Accounted
    Delivery
PROPERTIES
    ServiceAnswers
    Ends
