\* Two backends, a reachable server that is full with them, and alerts that
\* return at once.
SPECIFICATION ReachableSpec
CONSTANTS
    p1 = p1
    p2 = p2
    p3 = p3
    PID <- TwoPids
    NoPid = NoPid
    NoClient = NoClient
    Client <- OneClient
    Horizon = 2
    ExcludeApps <- NoApps
    ExcludeIPs <- NoIPs
    ProtectedApps <- NoProtected
    MaxConnections = 2
    ReservedSuperuser = 0
    WarningPercent = 60
    CriticalPercent = 70
    Interval = 1
    PollTimeout = 1
    SendTimeout = 0
    IdleWarning = 0
    IdleCritical = 1
    Cooldown = 1
    AutoTermEnabled = TRUE
    After = 2
    DryRun = FALSE
    ClockSkew = 0
    Faults <- NoFaults
PROPERTIES
    StuckIsTerminated
    PoolPressureIsReported
