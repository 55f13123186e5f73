SPECIFICATION Spec
CONSTANTS
    m1 = m1
    d1 = d1
    d2 = d2
    h1 = h1
    h2 = h2
    none = none
    Missions <- OneMission
    Ids <- MCIds
    NoId <- none
    Devices <- OneDevice
    Home <- AtD1
    UserOps <- AllOps
    MaxIssued = 3
    BatchSize = 2
    Seeded <- NoMission
    Handlers <- TwoHandlers
    NoHandler <- none
    Rejections = TRUE
    MaxFaults = 2
INVARIANTS
    NothingIsLost
    AppliedInOrder
    DeletionSticks
