\* Two backends, a reachable server, and alerts that may take a whole poll.
SPECIFICATION ReachableSpec
CONSTANTS
    p1 = p1
    p2 = p2
    p3 = p3
    PID <- TwoPids
    NoPid = NoPid
    NoClient = NoClient
    Client <- OneClient
    Horizon = 2
    ExcludeApps <- NoApps
    ExcludeIPs <- NoIPs
    ProtectedApps <- NoProtected
    MaxConnections = 100
    ReservedSuperuser = 3
    WarningPercent = 75
    CriticalPercent = 90
    Interval = 1
    PollTimeout = 1
    SendTimeout = 1
    IdleWarning = 1
    IdleCritical = 2
    Cooldown = 1
    AutoTermEnabled = FALSE
    After = 2
    DryRun = FALSE
    ClockSkew = 0
    Faults <- NoFaults
PROPERTIES
    LongIdleIsFlagged
    FlagsAreCleared
