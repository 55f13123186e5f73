SPECIFICATION AccountSpec
CONSTANTS
    p1 = p1
    p2 = p2
    Editors <- TwoPhones
    MaxGenerations = 1
    MaxNow = 3
    MaxLosses = 1
    Planners <- TwoPhones
    MaxToday = 3
    MaxMisses = 1
    MaxEdits = 3
    MaxSends = 2
    MaxSlips = 2
SYMMETRY Alike
CHECK_DEADLOCK FALSE
INVARIANTS
    StoriesConverge
    GenerationBudget
    PlannersConverge
    ReportedOnce
    DraftKept
