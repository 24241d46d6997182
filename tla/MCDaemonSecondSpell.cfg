\* One backend that goes idle again between two polls; every alert arrives.
SPECIFICATION AlertsReachableSpec
CONSTANTS
    p1 = p1
    p2 = p2
    p3 = p3
    PID <- OnePid
    NoPid = NoPid
    NoClient = NoClient
    Client <- OneClient
    Horizon = 3
    ExcludeApps <- NoApps
    ExcludeIPs <- NoIPs
    ProtectedApps <- NoProtected
    MaxConnections = 100
    ReservedSuperuser = 3
    WarningPercent = 75
    CriticalPercent = 90
    Interval = 1
    PollTimeout = 1
    SendTimeout = 1
    IdleWarning = 1
    IdleCritical = 2
    Cooldown = 1
    AutoTermEnabled = FALSE
    After = 2
    DryRun = FALSE
    ClockSkew = 0
    Lossy = FALSE
    Faults <- NoFaults
PROPERTIES
    SpellIsAnnounced
