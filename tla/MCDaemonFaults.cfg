\* One backend, which alone fills the pool; stop signals, crashes, abandoned
\* requests and other people's; alerts that may take as long as a whole poll.
SPECIFICATION FairSpec
CONSTANTS
    p1 = p1
    p2 = p2
    p3 = p3
    PID <- OnePid
    NoPid = NoPid
    NoClient = NoClient
    Client <- OneClient
    Horizon = 3
    ExcludeApps <- NoApps
    ExcludeIPs <- NoIPs
    ProtectedApps <- NoProtected
    MaxConnections = 1
    ReservedSuperuser = 0
    WarningPercent = 75
    CriticalPercent = 90
    Interval = 2
    PollTimeout = 2
    SendTimeout = 2
    IdleWarning = 1
    IdleCritical = 2
    Cooldown = 1
    AutoTermEnabled = TRUE
    After = 2
    DryRun = FALSE
    ClockSkew = 0
    Faults <- AllFaults
INVARIANTS
    AnnouncedIsSignalled
PROPERTIES
    PollIsBounded
    StopIsBounded
    NoQueryAfterCancel
    PollAlwaysReturns
    ShutdownCompletes
    UsesClientAsPromised
