\* Two browsers, two workspaces.
SPECIFICATION Spec
CONSTANTS
    b1 = b1  b2 = b2  e1 = e1  e2 = e2
    Browsers <- MCBrowsers
    Workspaces <- MCWorkspaces
    None = None
    MaxLosses = 0
    MaxResets = 0
    MaxRevision = 3
CHECK_DEADLOCK FALSE
INVARIANTS RemovedStaysRemoved
