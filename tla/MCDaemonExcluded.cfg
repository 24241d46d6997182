\* One pid that changes hands while the daemon works on an old snapshot.
SPECIFICATION Spec
CONSTANTS
    p1 = p1
    p2 = p2
    p3 = p3
    PID <- OnePid
    NoPid = NoPid
    NoClient = NoClient
    Client <- WebAndBackup
    Horizon = 3
    ExcludeApps <- BackupOnly
    ExcludeIPs <- NoIPs
    ProtectedApps <- NoProtected
    MaxConnections = 100
    ReservedSuperuser = 3
    WarningPercent = 75
    CriticalPercent = 90
    Interval = 1
    PollTimeout = 1
    SendTimeout = 1
    IdleWarning = 1
    IdleCritical = 2
    Cooldown = 1
    AutoTermEnabled = TRUE
    After = 2
    DryRun = FALSE
    ClockSkew = 0
    Faults <- NoFaults
INVARIANTS
    ExcludedNeverKilled
