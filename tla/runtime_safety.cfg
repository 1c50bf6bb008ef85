SPECIFICATION Spec
CONSTANTS
    j1 = j1
    j2 = j2
    s1 = s1
    s2 = s2
    m1 = m1
    m2 = m2
    NoModel = NoModel
    NoSession = NoSession
    NoJob = NoJob
    Models <- TwoModels
    Jobs <- TwoJobs
    SessionIds <- TwoSessions
    MaxLoaded = 1
    QueueCap = 2
    TokenBuf = 1
    MaxSess = 1
    MaxTokens = 2
    StreamedExperts = TRUE
    Panics = TRUE
SYMMETRY AllSymmetry
INVARIANTS
    ResourcesBounded
    StreamWellFormed
    NoSilentClose
    DrainedAtShutdown
    FewLateTokens
    SerialInOrder
CHECK_DEADLOCK FALSE
