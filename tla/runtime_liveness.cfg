SPECIFICATION FairSpec
CONSTANTS
    j1 = j1
    j2 = j2
    s1 = s1
    s2 = s2
    m1 = m1
    m2 = m2
    NoModel = NoModel
    NoSession = NoSession
    NoJob = NoJob
    Models <- OneModel
    Jobs <- TwoJobs
    SessionIds <- NoSessions
    MaxLoaded = 1
    QueueCap = 1
    TokenBuf = 1
    MaxSess = 1
    MaxTokens = 1
    StreamedExperts = FALSE
    Panics = TRUE
INVARIANTS
    ResourcesBounded
PROPERTIES
    TicketEnds
    ShutdownJoins
    ImplementsTicket
CHECK_DEADLOCK FALSE
