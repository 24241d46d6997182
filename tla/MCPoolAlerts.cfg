\* A server with two connections to give: one is a warning, two are critical.
SPECIFICATION PoolAlertsSpec
CONSTANTS
    p1 = p1
    p2 = p2
    p3 = p3
    PID <- TwoPids
    NoPid = NoPid
    NoClient = NoClient
    Client <- OneClient
    Horizon = 2
    ExcludeApps <- NoApps
    ExcludeIPs <- NoIPs
    ProtectedApps <- NoProtected
    MaxConnections = 2
    ReservedSuperuser = 0
    WarningPercent = 40
    CriticalPercent = 90
    Interval = 1
    PollTimeout = 1
    SendTimeout = 1
    IdleWarning = 2
    IdleCritical = 3
    Cooldown = 3
    AutoTermEnabled = FALSE
    After = 2
    DryRun = FALSE
    ClockSkew = 1
    Faults <- CrashOnly
SYMMETRY PidSymmetry
INVARIANTS
    PoolAlertsTypeOK
PROPERTIES
    PoolAlertsSpaced
    PoolAlertIsTrue
