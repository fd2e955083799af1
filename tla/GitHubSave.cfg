\* Two tabs of one workspace that share a branch with a colleague.
SPECIFICATION Spec
CONSTANTS
    t1 = t1  t2 = t2  dev = dev  source = source  env = env  x = x  y = y  gone = gone
    Absent = gone
    Start <- MCStart
    None = None
    Tabs <- MCTabs
    Environment <- MCEnvironment
    Files <- MCFiles
    Bridge <- MCBridge
    Contents <- MCContents
    MaxAttempts = 2
    MaxForeign = 1
    MaxLosses = 1
    MaxOthers = 1
    MaxRecords = 2
    Depth = 20
SYMMETRY Symmetry
CHECK_DEADLOCK FALSE
INVARIANTS TypeOK ToldTheTruth RefusedStaysOff CommitsAreAudited OverwritesOnlyReviewed
PROPERTIES DraftGoesOnlyWhenSaved
