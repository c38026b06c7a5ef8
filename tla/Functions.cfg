SPECIFICATION MCSpec
CONSTANT MaxFields = 3
INVARIANTS
    RoundTrips
    FunctionsAgree
