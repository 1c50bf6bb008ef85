SPECIFICATION ConversationsSpec
CONSTANTS
    a = a
    b = b
    Garbage = Garbage
    Tokens <- TwoTokens
    MaxContext = 4
    Capacity <- Unwrapped
    TopK = 2
    Kinds <- FullSharedFull
    Recurrent <- ThreeLayers
    s1 = s1
    s2 = s2
    s3 = s3
    s4 = s4
    SessionIds <- FourSessions
    MaxSess = 2
    MaxRequests = 6
    Turns = {t1, t2, t3}
    Requests = {q1, q2}
    NoJob = NoJob
    MaxPieces = 2
INVARIANTS
    SelectsOnHistory
    SessionCoherent
    HeldTurnsServed
    ResidentsMostRecent
    WholeTurns
    AnswersFramed
    OnlyAttended
PROPERTIES
    ServerDrains
CHECK_DEADLOCK FALSE
