CONSTANT
    MaxRunes = 4
SPECIFICATION Spec
INVARIANT
    ErrorMeansNoWord
