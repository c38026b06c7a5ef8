CONSTANTS
    w1 = w1
    w2 = w2
    work = work
    none = none
    Watchers <- MCWatchers
    Tags <- MCTags
    NoFilter <- MCNoFilter
    Stream = w1
    Cap = 1
    MaxNotes = 2
SPECIFICATION MCSpec
INVARIANT
    AllNotesSeen
