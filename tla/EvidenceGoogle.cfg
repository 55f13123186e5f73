SPECIFICATION EvidenceGoogleSpec
CONSTANTS
    a1 = a1
    a2 = a2
    Assets <- TwoShots
    NoAsset = NoAsset
    Verifiers <- TwoRuns
    User = User
    Deleters <- AllDeleters
    AttemptLimit = 3
    ClaimLimit = 2
    MaxMishaps = 1
    e1 = e1
    r1 = r1
    r2 = r2
    m1 = m1
    m2 = m2
    Events <- OneEvent
    Missions <- TwoMissions
    SyncRuns <- TwoRuns
    NoOne = NoOne
    MaxClock = 3
    MaxTroubles = 1
SYMMETRY AllAlike
CHECK_DEADLOCK FALSE
INVARIANTS
    ProcessedIsGranted
    WinnerIsNotLoser
    SourcesAreReadable
    DeletedIsGone
    ImportsAreCurrent
    LinksAreLive
PROPERTIES
    DismissedStaysAway
