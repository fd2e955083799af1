\* Two environments, two crashes, files cut while they were written, and
\* registry rows that change.
SPECIFICATION FairSpec
CONSTANTS
    e1 = e1  e2 = e2  e3 = e3
    Order <- Two
    Tearing = TRUE
    Changing = TRUE
    MaxCrashes = 2
CHECK_DEADLOCK FALSE
PROPERTIES OpensWithMarkedWork RestartMarksUndamagedWork
