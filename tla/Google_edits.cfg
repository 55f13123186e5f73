SPECIFICATION SyncSpec
CONSTANTS
    e1 = e1
    r1 = r1
    r2 = r2
    m1 = m1
    m2 = m2
    Events <- OneEvent
    Missions <- TwoMissions
    SyncRuns <- TwoRuns
    NoOne = NoOne
    MaxClock = 3
    MaxTroubles = 1
CHECK_DEADLOCK FALSE
PROPERTIES
    LatestEditWins
