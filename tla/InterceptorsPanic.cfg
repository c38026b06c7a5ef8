CONSTANTS
    c1 = c1
    c2 = c2
    Calls <- MCCalls
SPECIFICATION Spec
INVARIANT
    OneLinePerCall
