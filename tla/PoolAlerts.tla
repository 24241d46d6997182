----------------------------- MODULE PoolAlerts -----------------------------
(***************************************************************************)
(* The daemon of module Daemon together with the people its connection     *)
(* pool alerts are for.  An alert that returns has reached them or not:    *)
(* SlackClient.send and WebhookClient.send report a failure, and the       *)
(* daemon only logs it.  The variables added here are what those people    *)
(* know; the daemon never reads them.                                      *)
(***************************************************************************)
EXTENDS Daemon

ASSUME PoolAlertsAssumption == Cooldown > 0

VARIABLES
    poolSending,    \* the severity of the pool alert being sent, as a set
    sinceHeard,     \* time since a pool alert of this process was received, up to Cooldown
    peak            \* the most connections there were while GetPoolStats lasts

poolAlertsVars == <<vars, poolSending, sinceHeard, peak>>

PoolAlertsTypeOK ==
    /\ DaemonTypeOK
    /\ poolSending \subseteq Severity
    /\ sinceHeard \in [Severity -> 0 .. Cooldown]
    /\ peak \in 0 .. Cardinality(PID)

PoolAlertsInit ==
    /\ Init
    /\ poolSending = {}
    /\ sinceHeard = [s \in Severity |-> Cooldown]
    /\ peak = 0

\* A pool alert of this severity is over, and has arrived.
Heard(severity, arrives) ==
    /\ pc = "sendPool"
    /\ pc' = "idle"
    /\ severity \in poolSending
    /\ arrives

Connections == Cardinality({p \in PID : Present(p)})

\* The send helpers return nothing: delivered, refused or timed out is one.
Observe(arrives) ==
    /\ poolSending' = CASE pc' # "sendPool" -> {}
                        [] pc = "sendPool" /\ pc' = "sendPool" -> poolSending
                        [] OTHER -> {s \in Severity : sincePool'[s] # sincePool[s]}
    /\ sinceHeard' = [s \in Severity |->
                        CASE pc' \in Exited    -> Cooldown
                          [] Heard(s, arrives) -> 0
                          [] OTHER             -> sinceHeard[s]]
    /\ peak' = IF pc' # "stats"            THEN 0
               ELSE IF Connections' >= peak THEN Connections'
               ELSE peak

TimePasses ==
    /\ Advance
    /\ sinceHeard' = [s \in Severity |-> IF sinceHeard[s] < Cooldown
                                         THEN sinceHeard[s] + 1 ELSE Cooldown]
    /\ UNCHANGED <<poolSending, peak>>

DaemonMoves ==
    /\ PollStep \/ ServerStep \/ Signal \/ Cancel \/ Crash \/ Restart
    /\ \E arrives \in BOOLEAN : Observe(arrives)

PoolAlertsNext == TimePasses \/ DaemonMoves

PoolAlertsSpec == PoolAlertsInit /\ [][PoolAlertsNext]_poolAlertsVars

\* README.md: "cooldown: 5m  # Prevent alert spam".  Two pool alerts of one
\* severity reach people no closer than the cooldown, less the time an alert
\* may take: the cooldown starts before the alert is sent.
PoolAlertsSpaced ==
    [][\A s \in Severity : Heard(s, sinceHeard'[s] = 0)
                               => sinceHeard[s] + SendTimeout >= Cooldown]_poolAlertsVars

Threshold(s) == IF s = "critical" THEN CriticalPercent ELSE WarningPercent

\* So many connections are a use of percent; none to give is full.
UseReaches(used, percent) ==
    LET available == MaxConnections - ReservedSuperuser
    IN  IF available <= 0 THEN percent <= 100 ELSE percent * available <= 100 * used

\* An alert does not exaggerate: however little of the statistics reaches the
\* client, and however late, at some moment since the poll asked for them the
\* server had as many connections as the severity says.  (By the time of the
\* alert they may be fewer.  It may also say too little, or nothing: that is
\* for PoolPressureIsReported.)
PoolAlertIsTrue ==
    [][pc = "stats" /\ pc' = "sendPool" =>
          \A s \in poolSending' : UseReaches(peak, Threshold(s))]_poolAlertsVars
=============================================================================
