\* Two backends of two applications, one of them with a threshold of its own;
\* a daemon whose clock is ahead, whose alerts may use up half of a poll's
\* budget each, and which may crash.
SPECIFICATION AlertsSpec
CONSTANTS
    p1 = p1
    p2 = p2
    p3 = p3
    PID <- TwoPids
    NoPid = NoPid
    NoClient = NoClient
    Client <- WebAndBatch
    Horizon = 4
    ExcludeApps <- NoApps
    ExcludeIPs <- NoIPs
    ProtectedApps <- BatchProtected
    MaxConnections = 100
    ReservedSuperuser = 3
    WarningPercent = 75
    CriticalPercent = 90
    Interval = 1
    PollTimeout = 2
    SendTimeout = 1
    IdleWarning = 2
    IdleCritical = 3
    Cooldown = 1
    AutoTermEnabled = TRUE
    After = 3
    DryRun = FALSE
    ClockSkew = 1
    Lossy = FALSE
    Faults <- CrashOnly
SYMMETRY PidSymmetry
INVARIANTS
    AlertsTypeOK
    KillRequestJustified
    ResolvedMeansGone
    OverdueIsFlagged
    CriticalFollowsWarning
    NoDuplicateAlert
    ResolvedAnswersAlert
PROPERTIES
    AlertsAsPromised
