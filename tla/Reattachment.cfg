\* Two tabs of one browser, two connections, two reviews, two events.
SPECIFICATION FairSpec
CONSTANTS
    Tabs = {t1, t2}
    Profiles = {p1, p2}
    Former = p0
    None = None
    Absent = Absent
    MaxReviews = 2
    MaxEvents = 2
PROPERTIES CommitReplacesOnlyReviewed ConfirmedIsTrue PendingEnds
CHECK_DEADLOCK FALSE
