SPECIFICATION Spec
CONSTANTS
    a = a
    b = b
    Garbage = Garbage
    Tokens <- TwoTokens
    MaxContext = 4
    Capacity <- FullAndSliding
INVARIANTS
    SelectsOnHistory
CHECK_DEADLOCK FALSE
