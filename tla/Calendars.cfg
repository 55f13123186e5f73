SPECIFICATION CalendarsSpec
CONSTANTS
    a1 = a1
    a2 = a2
    b1 = b1
    b2 = b2
    m1 = m1
    Phones <- TwoActors
    AppleMissions <- OneMission
    AppleEvents <- TwoObjects
    Nobody = Nobody
    MaxAttempts = 2
    MaxTexts = 2
    MaxCommands = 3
    MaxUploads = 1
    MaxHitches = 1
    Channels <- TwoObjects
    Watchers <- TwoActors
    NoChannel = NoChannel
    MaxChanges = 2
    MaxSetbacks = 1
    Patterns <- SomePatterns
    RuleEnds <- SomeEnds
    Anchors <- SomeAnchors
    ImportNows <- SomeNows
    Horizon = 1000
    Materialized = 100
    Shifts <- SomeShifts
    MaxVisits = 3
    MaxSeries = 3
    MaxShifted = 1
SYMMETRY Alike
CHECK_DEADLOCK FALSE
INVARIANTS
    CalendarCatchesUp
    OneEventEach
    ChangesArePulled
    ProjectionIsTail
    SplitKeepsDates
