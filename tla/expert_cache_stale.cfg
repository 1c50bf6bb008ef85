SPECIFICATION Spec
CONSTANTS
    NoExpert = NoExpert
    Torn = Torn
    Failure = Failure
    Experts = {e1, e2, e3}
    SlotCount = 2
    MaxCalls = 4
PROPERTIES
    ServesRequested
CHECK_DEADLOCK FALSE
