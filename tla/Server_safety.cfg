SPECIFICATION ServerSpec
CONSTANTS
    m1 = m1
    m2 = m2
    c1 = c1
    u1 = u1
    u2 = u2
    d1 = d1
    x1 = x1
    x2 = x2
    h1 = h1
    h2 = h2
    none = none
    Missions <- MCMissions
    Ids <- MCIds
    Handlers <- MCHandlers
    Requests <- MCRequests
    NoId <- none
    p1 = p1
    p2 = p2
    Handsets <- TwoPhones
    MaxTokens = 3
    MaxSessions = 2
    MaxMishaps = 1
    MaxReminded = 2
    MaxSlots = 1
    MaxTurns = 3
    MaxBreakdowns = 1
SYMMETRY Alike
CHECK_DEADLOCK FALSE
INVARIANTS
    LogIsAuthoritative
    AppliedOnce
    NoLostUpdate
    SignedOutStaysOut
    OnlyLossSignsOut
    RemindersMatch
PROPERTIES
    AnswersAreTrue
    LedgerSpec
