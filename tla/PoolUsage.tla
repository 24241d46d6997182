----------------------------- MODULE PoolUsage ------------------------------
(***************************************************************************)
(* PoolStats.UsagePercent (internal/postgres/models.go) and the choice of  *)
(* a severity made from it (internal/cli/daemon.go).                       *)
(***************************************************************************)
EXTENDS Integers

CONSTANTS
    MaxConnections,     \* the server's max_connections
    ReservedSuperuser,  \* the server's superuser_reserved_connections
    WarningPercent,     \* thresholds.connection_pool.warning_percent
    CriticalPercent     \* thresholds.connection_pool.critical_percent

\* Config.Validate rejects warning_percent >= critical_percent.
ASSUME PoolAssumption ==
    /\ MaxConnections \in Nat
    /\ ReservedSuperuser \in Nat
    /\ WarningPercent \in Int
    /\ CriticalPercent \in Int
    /\ WarningPercent < CriticalPercent

Severity == {"warning", "critical"}

\* UsagePercent() >= percent.  The quotient is a float64: used/available*100
\* may come out just below an integer percentage it equals exactly
\* (29.0/100*100 < 29), so equality may be decided either way.
Reaches(used, percent) ==
    LET available == MaxConnections - ReservedSuperuser
    IN  CASE available <= 0                     -> {100 >= percent}
          [] available > 0
             /\ used * 100 = percent * available -> BOOLEAN
          [] OTHER                              -> {used * 100 > percent * available}

\* The severities a poll that counted used connections may see; "none" is
\* usage below both thresholds.  Critical wins over warning.
PoolSeverity(used) ==
    {s \in Severity \cup {"none"} :
        CASE s = "critical" -> TRUE \in Reaches(used, CriticalPercent)
          [] s = "warning"  -> /\ FALSE \in Reaches(used, CriticalPercent)
                               /\ TRUE \in Reaches(used, WarningPercent)
          [] OTHER          -> /\ FALSE \in Reaches(used, CriticalPercent)
                               /\ FALSE \in Reaches(used, WarningPercent)}
=============================================================================
