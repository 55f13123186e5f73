SPECIFICATION Spec
CONSTANTS
    m1 = m1
    d1 = d1
    d2 = d2
    h1 = h1
    h2 = h2
    none = none
    Missions <- OneMission
    Ids <- MCIds
    NoId <- none
    Devices <- TwoDevices
    Home <- AtD1
    UserOps <- EditDeleteComplete
    MaxIssued = 2
    BatchSize = 2
    Seeded <- OneMission
    Handlers <- OneHandler
    NoHandler <- none
    Rejections = TRUE
    MaxFaults = 0
SYMMETRY Alike
INVARIANTS
    DeletionSticks
    Converges
