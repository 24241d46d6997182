\* Two backends, either of which makes the pool's usage a warning and both of
\* which make it critical; deadlines of one and two units.
SPECIFICATION OperatorSpec
CONSTANTS
    p1 = p1
    p2 = p2
    PID <- TwoPids
    NoPid = NoPid
    NoClient = NoClient
    Client <- OneClient
    Horizon = 2
    MaxConnections = 3
    ReservedSuperuser = 1
    WarningPercent = 40
    CriticalPercent = 90
    IdleWarning = 1
    IdleCritical = 2
    ClockSkew = 0
    StatusTimeout = 1
    KillTimeout = 1
    WatchInterval = 1
    WatchTimeout = 1
SYMMETRY PidSymmetry
INVARIANTS
    OperatorTypeOK
    OutputBearsOutCode
    CodeCoversReading
    ConfirmedIsFresh
PROPERTIES
    OnlyTheConfirmedDie
    WatchAsPromised
