SPECIFICATION FairSpec
CONSTANTS
    m1 = m1
    d1 = d1
    d2 = d2
    h1 = h1
    h2 = h2
    none = none
    Missions <- OneMission
    Ids <- MCIds
    NoId <- none
    Devices <- TwoDevices
    Home <- AtD1
    UserOps <- Edits
    MaxIssued = 1
    BatchSize = 1
    Seeded <- OneMission
    Handlers <- OneHandler
    NoHandler <- none
    Rejections = FALSE
    MaxFaults = 0
PROPERTIES
    QueueDrains
