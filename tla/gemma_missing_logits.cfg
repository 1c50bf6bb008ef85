SPECIFICATION Spec
CONSTANTS
    a = a
    b = b
    Garbage = Garbage
    Tokens <- TwoTokens
    MaxContext = 4
    Capacity <- Unwrapped
INVARIANTS
    NeverMissingLogits
CHECK_DEADLOCK FALSE
