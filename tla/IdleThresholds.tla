--------------------------- MODULE IdleThresholds ---------------------------
(***************************************************************************)
(* The configuration by which idle transactions are graded, and the clock  *)
(* it is done by.                                                          *)
(***************************************************************************)
EXTENDS PgActivity

CONSTANTS
    IdleWarning,    \* thresholds.idle_transaction.warning
    IdleCritical,   \* thresholds.idle_transaction.critical
    ClockSkew       \* the clock of pguard's machine minus the server's

\* Horizon tells the thresholds apart.  Their order is what Validate demands
\* of a daemon; status and watch do not ask for it, and are modelled with it.
ASSUME ThresholdsAssumption ==
    /\ IdleWarning \in Int
    /\ IdleCritical \in Int
    /\ IdleWarning < IdleCritical
    /\ ClockSkew \in Int
    /\ IdleCritical - ClockSkew <= Horizon
=============================================================================
