\* Failures that end, and people who keep working: liveness.
SPECIFICATION FairSpec
CONSTANTS
    t1 = t1  t2 = t2  t3 = t3  f1 = f1  f2 = f2
    Nobody = Nobody
    Torn = Torn
    Txns = {t1, t2}
    Files = {f1}
    Plans <- OnlyContract
    MinimumPerTarget = 1
    MaxAge = 0
    Tearing = FALSE
    Failures = "end"
    Restorable = {t1}
    RowAfter <- AnyChange
PROPERTIES InterruptedWorkEnds
