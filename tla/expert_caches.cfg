SPECIFICATION EitherSpec
CONSTANTS
    e1 = e1
    e2 = e2
    e3 = e3
    l1 = l1
    l2 = l2
    NoExpert = NoExpert
    Failure = Failure
    Torn = Torn
    Experts <- ThreeExperts
    Layers <- TwoLayers
    Size <- Sizes
    SlotCount = 2
    MaxCalls = 5
INVARIANTS
    LabelsHonest
    ResidentBytesExact
    PinsReleased
    ResidentsMostRecent
PROPERTIES
    ServesRequested
CHECK_DEADLOCK FALSE
