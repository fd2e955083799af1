\* Two transactions of one file through both age limits, crashes, failed writes
\* and torn files.
SPECIFICATION Spec
CONSTANTS
    t1 = t1  t2 = t2  t3 = t3  f1 = f1  f2 = f2
    Nobody = Nobody
    Torn = Torn
    Txns = {t1, t2}
    Files = {f1}
    Plans <- CrashPlans
    MinimumPerTarget = 1
    MaxAge = 2
    Tearing = TRUE
    Failures = "always"
    Restorable = {}
    RowAfter <- Removals
SYMMETRY Symmetry
INVARIANTS TypeOK LeaseGuardsOpenWork BackupsBeforeAuthority CredentialsBeforeJournal AuditMatchesOutcome
PROPERTIES OutcomeIsFinal RetentionIsSafe ImplementsSaveJournal
