\* Two tabs and a panel that overlap on the server, or one tab and its session manager:
\* one connection, two accounts, three tokens, room for two sessions.
SPECIFICATION Spec
CONSTANTS
    b1 = b1  b2 = b2  d1 = d1  p1 = p1  x1 = x1  x2 = x2  y1 = y1
    A = A  B = B
    None = None
    Settings <- Everyone
    Profiles = {p1}
    AccountOf <- Owners
    Sessions = {1, 2, 3, 4}
    MaxSessions = 2
SYMMETRY Symmetry
INVARIANTS TypeOK AccountBound SessionOnlyKeepsNothing RemovedIsForgotten ReplacedStaysOut ShownIsUsedUnmixed
