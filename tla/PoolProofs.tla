----------------------------- MODULE PoolProofs -----------------------------
(***************************************************************************)
(* Proofs about the daemon's connection pool alerts, for every value of    *)
(* the constants: how close together they reach people, and that they are  *)
(* true.                                                                   *)
(***************************************************************************)
EXTENDS PoolAlerts, DaemonProofs

\* While an alert is sent, its cooldown has run no longer than the send, and
\* the alert before it was heard long enough ago; otherwise an alert was heard
\* at most a send later than its cooldown began.
SpacingInv ==
    /\ poolSending \subseteq Severity
    /\ sinceHeard \in [Severity -> 0 .. Cooldown]
    /\ \A s \in Severity : sincePool[s] <= sinceHeard[s] + SendTimeout
    /\ pc = "sendPool" => \A s \in poolSending :
            /\ sincePool[s] + sendLeft <= SendTimeout
            /\ Cooldown <= sinceHeard[s] + SendTimeout

-----------------------------------------------------------------------------
\* Outside of a send nothing is heard, and no cooldown moves.
LEMMA QuietStep ==
    ASSUME SpacingInv, NEW arrives \in BOOLEAN, Observe(arrives),
           pc # "sendPool", pc' # "sendPool", pc' \notin Exited, UNCHANGED sincePool
    PROVE  SpacingInv'
<1>1. poolSending' = {} /\ sinceHeard' = [s \in Severity |-> sinceHeard[s]]
  BY DEF Observe, Heard
<1> QED
  BY <1>1 DEF SpacingInv

\* A send goes on while the server, or a signal, does something.
LEMMA SendGoesOn ==
    ASSUME SpacingInv, NEW arrives \in BOOLEAN, Observe(arrives),
           pc = "sendPool", UNCHANGED <<pc, sincePool, sendLeft>>
    PROVE  SpacingInv'
<1>1. poolSending' = poolSending /\ sinceHeard' = [s \in Severity |-> sinceHeard[s]]
  BY DEF Observe, Heard, Exited
<1> QED
  BY <1>1 DEF SpacingInv

LEMMA SendBegins ==
    ASSUME DaemonTypeOK, SpacingInv, NEW arrives \in BOOLEAN, Observe(arrives),
           pc = "stats", NEW severity, StartPoolAlert(severity)
    PROVE  SpacingInv'
<1>1. /\ severity \in Severity /\ sincePool[severity] >= Cooldown
      /\ sincePool' = [sincePool EXCEPT ![severity] = 0]
      /\ pc' = "sendPool" /\ sendLeft' = SendTimeout
  BY DEF StartPoolAlert, canSendPoolAlert
<1>2. sinceHeard' = [s \in Severity |-> sinceHeard[s]]
  BY <1>1 DEF Observe, Heard, Exited
<1>3. poolSending' = {s \in Severity : sincePool'[s] # sincePool[s]}
  BY <1>1 DEF Observe
<1>4. sincePool \in [Severity -> 0 .. Cooldown] /\ poolSending' \subseteq {severity}
  BY <1>1, <1>3 DEF DaemonTypeOK
<1> QED
  BY <1>1, <1>2, <1>3, <1>4, DaemonAssumption, PoolAlertsAssumption DEF SpacingInv

\* An alert is over, heard or not.
LEMMA SendEnds ==
    ASSUME DaemonTypeOK, SpacingInv, NEW arrives \in BOOLEAN, Observe(arrives), PoolAlertReturns
    PROVE  SpacingInv'
<1>1. pc = "sendPool" /\ pc' = "idle" /\ sincePool' = sincePool
  BY DEF PoolAlertReturns, SendReturns, poolVars
<1>2. /\ poolSending' = {}
      /\ sinceHeard' = [s \in Severity |-> IF s \in poolSending /\ arrives THEN 0 ELSE sinceHeard[s]]
  BY <1>1 DEF Observe, Heard, Exited
<1>3. /\ sincePool \in [Severity -> 0 .. Cooldown] /\ sendLeft \in Nat
  BY DEF DaemonTypeOK
<1>4. sinceHeard' \in [Severity -> 0 .. Cooldown]
  BY <1>2, DaemonAssumption DEF SpacingInv
<1>5. ASSUME NEW s \in Severity
      PROVE  sincePool[s] <= sinceHeard'[s] + SendTimeout
  BY <1>1, <1>2, <1>3, <1>5, DaemonAssumption DEF SpacingInv
<1> QED
  BY <1>1, <1>2, <1>4, <1>5 DEF SpacingInv

LEMMA SendForgotten ==
    ASSUME NEW arrives \in BOOLEAN, Observe(arrives), NEW how \in Exited, Exit(how)
    PROVE  SpacingInv'
<1>1. /\ pc' \in Exited /\ pc' # "sendPool" /\ sincePool' = [s \in Severity |-> Cooldown]
  BY DEF Exit, Exited
<1>2. poolSending' = {} /\ sinceHeard' = [s \in Severity |-> Cooldown]
  BY <1>1 DEF Observe, Heard, Exited
<1> QED
  BY <1>1, <1>2, DaemonAssumption DEF SpacingInv

LEMMA SpacingMoves ==
    ASSUME DaemonTypeOK, SpacingInv, DaemonMoves
    PROVE  SpacingInv'
<1> USE DEF loopVars, memory, timers, budgets, poolVars, killVars, daemonVars
<1>0. PICK arrives \in BOOLEAN : Observe(arrives)
  BY DEF DaemonMoves
<1>1. CASE PoolStatsReturn
  <2>1. PICK severity : StartPoolAlert(severity) \/ NoPoolAlert(severity)
    BY <1>1 DEF PoolStatsReturn, PoolStatsRead
  <2>2. pc = "stats"
    BY <1>1 DEF PoolStatsReturn, PoolStatsRead
  <2>3. CASE StartPoolAlert(severity)
    BY <1>0, <2>2, <2>3, SendBegins
  <2>4. CASE NoPoolAlert(severity)
    BY <1>0, <2>2, <2>4, QuietStep DEF NoPoolAlert, Exited
  <2> QED
    BY <2>1, <2>3, <2>4
<1>2. CASE PoolAlertReturns
  BY <1>0, <1>2, SendEnds
<1>3. CASE StopLoop \/ Crash
  BY <1>0, <1>3, SendForgotten DEF StopLoop, Crash, Exited
<1>4. CASE ServerStep \/ Signal \/ Cancel
  <2>1. UNCHANGED <<pc, sincePool, sendLeft>>
    BY <1>4 DEF ServerStep, ServerCounts, ServerTerminates, OrphanTerminates, OthersTerminate,
       Signal,
       Cancel
  <2>2. CASE pc = "sendPool"
    BY <1>0, <2>1, <2>2, SendGoesOn
  <2>3. CASE pc \in Exited
    <3>1. poolSending' = {} /\ sinceHeard' = [s \in Severity |-> Cooldown]
      BY <1>0, <2>1, <2>3 DEF Observe, Heard, Exited
    <3>2. \A s \in Severity : sincePool'[s] <= Cooldown + SendTimeout
      BY <2>1, DaemonAssumption DEF DaemonTypeOK
    <3> QED
      BY <3>1, <3>2, DaemonAssumption DEF SpacingInv
  <2>4. CASE pc # "sendPool" /\ pc \notin Exited
    BY <1>0, <2>1, <2>4, QuietStep
  <2> QED
    BY <2>2, <2>3, <2>4
<1>5. CASE \/ StartPoll \/ StartPollInVain \/ QueryFails
           \/ IdleTransactionsReturn
           \/ \E r \in todo : BeginRow(r)
           \/ CheckWarning \/ WarningReturns \/ CheckCritical \/ CriticalReturns
           \/ SkipTermination \/ RequestTermination \/ TerminateReturns \/ TerminateFails
           \/ TerminationAlertReturns \/ EndRows
           \/ \E p \in PID : ResolveQuietly(p) \/ ResolveAnnounced(p)
           \/ ResolvedAlertReturns \/ EndPoll \/ Restart
  <2>1. pc # "sendPool" /\ pc' # "sendPool" /\ pc' \notin Exited /\ UNCHANGED sincePool
    BY <1>5 DEF StartPoll, StartPollInVain, QueryFails, IdleTransactionsReturn, BeginRow,
       CheckWarning, WarningReturns, CheckCritical, CriticalReturns, SendIfDue, SendReturns,
       SkipTermination, RequestTermination, TerminateReturns, TerminateFails, NextRow,
       TerminationAlertReturns, EndRows, ResolveQuietly, ResolveAnnounced, ResolvedAlertReturns,
       EndPoll, PollReturns, PollEnds, Restart, Exited
  <2> QED
    BY <1>0, <2>1, QuietStep
<1> QED
  BY <1>1, <1>2, <1>3, <1>4, <1>5 DEF DaemonMoves, PollStep

LEMMA SpacingTime ==
    ASSUME DaemonTypeOK, SpacingInv, TimePasses
    PROVE  SpacingInv'
<1>1. /\ UNCHANGED <<pc, poolSending>>
      /\ sinceHeard' = [s \in Severity |-> IF sinceHeard[s] < Cooldown
                                           THEN sinceHeard[s] + 1 ELSE Cooldown]
      /\ sincePool' = [s \in Severity |-> IF sincePool[s] < Cooldown
                                          THEN sincePool[s] + 1 ELSE Cooldown]
      /\ sendLeft' = IF sendLeft > 0 THEN sendLeft - 1 ELSE 0
  BY DEF TimePasses, Advance, CooldownAged, OneLess, loopVars
<1>2. pc = "sendPool" => sendLeft > 0
  BY DEF TimePasses, Advance, Waiting, Querying, Exited
<1>3. sincePool \in [Severity -> 0 .. Cooldown] /\ sendLeft \in Nat
  BY DaemonAssumption DEF DaemonTypeOK
<1>4. sinceHeard' \in [Severity -> 0 .. Cooldown]
  BY <1>1, DaemonAssumption DEF SpacingInv
<1>5. \A s \in Severity : sincePool'[s] <= sinceHeard'[s] + SendTimeout
  BY <1>1, <1>3, DaemonAssumption DEF SpacingInv
<1>6. pc' = "sendPool" => \A s \in poolSending' : /\ sincePool'[s] + sendLeft' <= SendTimeout
                                                   /\ Cooldown <= sinceHeard'[s] + SendTimeout
  BY <1>1, <1>2, <1>3, DaemonAssumption DEF SpacingInv
<1> QED
  BY <1>1, <1>4, <1>5, <1>6 DEF SpacingInv

LEMMA SpacingStep ==
    ASSUME DaemonTypeOK, SpacingInv, [PoolAlertsNext]_poolAlertsVars
    PROVE  SpacingInv'
<1>1. CASE UNCHANGED poolAlertsVars
  BY <1>1 DEF poolAlertsVars, vars, daemonVars, poolVars, loopVars, budgets, SpacingInv
<1> QED
  BY <1>1, SpacingMoves, SpacingTime DEF PoolAlertsNext

THEOREM SpacingCorrect == PoolAlertsSpec => [](DaemonTypeOK /\ SpacingInv)
<1>1. PoolAlertsInit => DaemonTypeOK /\ SpacingInv
  BY TypeInit, DaemonAssumption DEF PoolAlertsInit, Init, SpacingInv
<1>2. [PoolAlertsNext]_poolAlertsVars => [Next]_vars
  BY DEF PoolAlertsNext, TimePasses, DaemonMoves, Next, poolAlertsVars
<1>3. DaemonTypeOK /\ SpacingInv /\ [PoolAlertsNext]_poolAlertsVars => (DaemonTypeOK /\ SpacingInv)'
  BY <1>2, TypeStep, SpacingStep
<1> QED
  BY <1>1, <1>3, PTL DEF PoolAlertsSpec

-----------------------------------------------------------------------------
(* The most connections there were since the poll asked for them.          *)

\* No part of the answer on its way has counted more.
PeakInv ==
    /\ peak \in 0 .. Cardinality(PID)
    /\ \A read \in DOMAIN counts : counts[read] \in Nat /\ counts[read] <= peak

LEMMA ConnectionsType == Connections \in 0 .. Cardinality(PID)
<1> DEFINE present == {p \in PID : Present(p)}
<1>1. /\ Cardinality(PID) \in Nat /\ Cardinality(present) \in Nat
      /\ Cardinality(present) <= Cardinality(PID)
  BY PgAssumption, FS_Subset, FS_CardinalityType
<1> QED
  BY <1>1 DEF Connections

\* A part of an answer counts a part of the connections there are.
LEMMA CountIsPart ==
    ASSUME NEW read \in SUBSET BackendState
    PROVE  CountOf(read) \in Nat /\ CountOf(read) <= Connections
<1> DEFINE present == {p \in PID : Present(p)}
           counted == {p \in PID : activity[p].state \in read}
<1>1. counted \subseteq present
  BY DEF BackendState, Present
<1>2. IsFiniteSet(present)
  BY FS_Subset, PgAssumption
<1>3. IsFiniteSet(counted) /\ Cardinality(counted) <= Cardinality(present)
  BY <1>1, <1>2, FS_Subset
<1> QED
  BY <1>2, <1>3, FS_CardinalityType DEF CountOf, Connections

\* Only the server counts.
LEMMA CountsMove ==
    ASSUME DaemonMoves
    PROVE  counts' \in {counts, NoCounts} \/ ServerCounts
<1> USE DEF poolVars, daemonVars
<1>1. CASE PollStep
  BY <1>1 DEF PollStep, StartPoll, StartPollInVain, QueryFails, PollReturns, PollEnds,
     PoolStatsReturn, PoolStatsRead, PoolAlertReturns, IdleTransactionsReturn, BeginRow,
     CheckWarning, WarningReturns, CheckCritical, CriticalReturns, SendIfDue, SkipTermination,
     RequestTermination, TerminateReturns, TerminateFails, TerminationAlertReturns, EndRows,
     ResolveQuietly, ResolveAnnounced, ResolvedAlertReturns, EndPoll, StopLoop, Exit
<1>2. CASE ServerStep \/ Signal \/ Cancel \/ Crash \/ Restart
  BY <1>2 DEF ServerStep, ServerTerminates, OrphanTerminates, OthersTerminate, Signal, Cancel,
     Crash, Exit, PollEnds, Restart
<1> QED
  BY <1>1, <1>2 DEF DaemonMoves

LEMMA PeakStep ==
    ASSUME PeakInv, DaemonTypeOK', [PoolAlertsNext]_poolAlertsVars
    PROVE  PeakInv'
<1>1. CASE UNCHANGED <<peak, counts>>
  BY <1>1 DEF PeakInv
<1>2. CASE DaemonMoves
  <2>1. /\ Connections' \in 0 .. Cardinality(PID)
        /\ Cardinality(PID) \in Nat
    <3>1. (Connections \in 0 .. Cardinality(PID))'
      BY ConnectionsType, PTL
    <3> QED
      BY <3>1, FS_CardinalityType, PgAssumption
  <2>2. peak' = IF pc' # "stats"            THEN 0
                ELSE IF Connections' >= peak THEN Connections'
                ELSE peak
    BY <1>2 DEF DaemonMoves, Observe
  <2>3. peak' \in 0 .. Cardinality(PID)
    BY <2>1, <2>2 DEF PeakInv
  <2>4. counts' # NoCounts => pc' = "stats"
    BY DEF DaemonTypeOK
  <2>5. ASSUME counts' = NoCounts
        PROVE  PeakInv'
    BY <2>3, <2>5 DEF PeakInv, NoCounts
  <2>6. ASSUME counts' # NoCounts, counts' = counts
        PROVE  PeakInv'
    <3>1. peak <= peak'
      BY <2>1, <2>2, <2>4, <2>6 DEF PeakInv
    <3> QED
      BY <2>1, <2>3, <2>6, <3>1 DEF PeakInv
  <2>7. ASSUME counts' # NoCounts, ServerCounts
        PROVE  PeakInv'
    <3>1. Connections' = Connections /\ counts' = [read \in SUBSET BackendState |-> CountOf(read)]
      BY <2>7 DEF ServerCounts, pgVars, Connections, Present
    <3>2. Connections <= peak'
      BY <2>1, <2>2, <2>4, <2>7, <3>1 DEF PeakInv
    <3>3. ASSUME NEW read \in SUBSET BackendState
          PROVE  CountOf(read) \in Nat /\ CountOf(read) <= peak'
      BY <2>1, <2>3, <3>1, <3>2, CountIsPart
    <3> QED
      BY <2>3, <3>1, <3>3 DEF PeakInv
  <2> QED
    BY <1>2, <2>5, <2>6, <2>7, CountsMove
<1> QED
  BY <1>1, <1>2 DEF PoolAlertsNext, TimePasses, Advance, poolAlertsVars, vars, daemonVars, poolVars

THEOREM PeakCorrect == PoolAlertsSpec => []PeakInv
<1>1. PoolAlertsInit => PeakInv
  BY FS_CardinalityType, PgAssumption DEF PoolAlertsInit, Init, PeakInv, NoCounts
<1> QED
  BY <1>1, PeakStep, SpacingCorrect, PTL DEF PoolAlertsSpec

\* The history of the pool alerts has its type.
THEOREM PoolAlertsTypeCorrect == PoolAlertsSpec => []PoolAlertsTypeOK
<1>1. DaemonTypeOK /\ SpacingInv /\ PeakInv => PoolAlertsTypeOK
  BY DEF SpacingInv, PeakInv, PoolAlertsTypeOK
<1> QED
  BY <1>1, SpacingCorrect, PeakCorrect, PTL

\* Two pool alerts of one severity reach people no closer than the cooldown,
\* less the time a send may take, whatever else the daemon goes through.
THEOREM PoolAlertsKeepTheirDistance == PoolAlertsSpec => PoolAlertsSpaced
<1> DEFINE Spaced == \A s \in Severity : Heard(s, sinceHeard'[s] = 0)
                                             => sinceHeard[s] + SendTimeout >= Cooldown
<1>1. SpacingInv => Spaced
  <2>1. SpacingInv /\ pc = "sendPool" => \A s \in poolSending : Cooldown <= sinceHeard[s] + SendTimeout
    BY DEF SpacingInv
  <2>2. \A s \in Severity : SpacingInv => sinceHeard[s] \in Int
    BY DaemonAssumption DEF SpacingInv
  <2> QED
    BY <2>1, <2>2, DaemonAssumption DEF Heard
<1> QED
  BY <1>1, SpacingCorrect, PTL DEF PoolAlertsSpaced

-----------------------------------------------------------------------------
(* What a pool alert says.                                                 *)

Available == MaxConnections - ReservedSuperuser

\* The comparison may come out so, or so.
MayReach(used, percent) == TRUE \in Reaches(used, percent)
MayMiss(used, percent) == FALSE \in Reaches(used, percent)

LEMMA OneAnswer ==
    ASSUME NEW b \in BOOLEAN
    PROVE  (TRUE \in {b} <=> b) /\ (FALSE \in {b} <=> ~b)
<1>1. CASE b = TRUE
  BY <1>1
<1>2. CASE b = FALSE
  BY <1>2
<1> QED
  BY <1>1, <1>2

\* UsagePercent and >= decide something, in one way or, at equality, either.
LEMMA ReachesMeans ==
    ASSUME NEW used \in Int, NEW percent \in Int
    PROVE  /\ MayReach(used, percent)
                 <=> IF Available <= 0 THEN percent <= 100 ELSE percent * Available <= used * 100
           /\ MayMiss(used, percent)
                 <=> IF Available <= 0 THEN 100 < percent ELSE used * 100 <= percent * Available
<1> DEFINE line == percent * Available
           use == used * 100
<1>1. Available \in Int /\ line \in Int /\ use \in Int
  BY PoolAssumption DEF Available
<1>2. Reaches(used, percent) = CASE Available <= 0                -> {100 >= percent}
                                 [] Available > 0 /\ use = line   -> BOOLEAN
                                 [] OTHER                         -> {use > line}
  BY DEF Reaches, Available
<1> HIDE DEF line, use
<1>3. (100 >= percent) \in BOOLEAN /\ (use > line) \in BOOLEAN
  OBVIOUS
<1>4. CASE Available <= 0
  <2>1. Reaches(used, percent) = {100 >= percent}
    BY <1>1, <1>2, <1>4
  <2>2. /\ MayReach(used, percent) <=> 100 >= percent
        /\ MayMiss(used, percent) <=> ~(100 >= percent)
    BY <1>3, <2>1, OneAnswer, Zenon DEF MayReach, MayMiss
  <2> QED
    BY <1>4, <2>2
<1>5. CASE Available > 0 /\ use = line
  <2>1. Reaches(used, percent) = BOOLEAN
    BY <1>1, <1>2, <1>5
  <2>2. MayReach(used, percent) /\ MayMiss(used, percent)
    BY <2>1, Zenon DEF MayReach, MayMiss
  <2> QED
    BY <1>1, <1>5, <2>2 DEF line, use
<1>6. CASE Available > 0 /\ use # line
  <2>1. Reaches(used, percent) = {use > line}
    BY <1>1, <1>2, <1>6
  <2>2. /\ MayReach(used, percent) <=> use > line
        /\ MayMiss(used, percent) <=> ~(use > line)
    BY <1>3, <2>1, OneAnswer, Zenon DEF MayReach, MayMiss
  <2> QED
    BY <1>1, <1>6, <2>2 DEF line, use
<1> QED
  BY <1>1, <1>4, <1>5, <1>6

LEMMA ReachesDecides ==
    ASSUME NEW used \in Int, NEW percent \in Int
    PROVE  MayReach(used, percent) \/ MayMiss(used, percent)
<1>1. Available \in Int /\ percent * Available \in Int
  BY PoolAssumption DEF Available
<1> QED
  BY <1>1, ReachesMeans

\* More connections that come out above a threshold, or at it, are above it.
LEMMA MoreUseReaches ==
    ASSUME NEW a \in Int, NEW b \in Int, a < b, NEW percent \in Int,
           MayReach(a, percent)
    PROVE  ~MayMiss(b, percent)
<1>1. Available \in Int /\ percent * Available \in Int
  BY PoolAssumption DEF Available
<1> QED
  BY <1>1, ReachesMeans

Rank(s) == CASE s = "critical" -> 2 [] s = "warning" -> 1 [] OTHER -> 0

\* The choice of a severity in pollAndAlert and in status leaves no gap, and
\* more connections are never graded milder, however the comparison of the
\* float64 quotient comes out.
THEOREM MoreUseIsNoMilder ==
    /\ \A used \in Int : PoolSeverity(used) # {}
    /\ \A a, b \in Int : a < b =>
          \A s \in PoolSeverity(a), t \in PoolSeverity(b) : Rank(s) <= Rank(t)
<1> USE PoolAssumption DEF Severity
<1>1. ASSUME NEW used \in Int
      PROVE  PoolSeverity(used) # {}
  <2>1. CASE MayReach(used, CriticalPercent)
    <3>1. "critical" \in PoolSeverity(used)
      BY <2>1 DEF PoolSeverity, MayReach, MayMiss
    <3> QED
      BY <3>1
  <2>2. CASE ~MayReach(used, CriticalPercent)
    <3>1. MayMiss(used, CriticalPercent)
      BY <2>2, ReachesDecides
    <3>2. MayReach(used, WarningPercent) \/ MayMiss(used, WarningPercent)
      BY ReachesDecides
    <3>3. "warning" \in PoolSeverity(used) \/ "none" \in PoolSeverity(used)
      BY <3>1, <3>2 DEF PoolSeverity, MayReach, MayMiss
    <3> QED
      BY <3>3
  <2> QED
    BY <2>1, <2>2
<1>2. ASSUME NEW a \in Int, NEW b \in Int, a < b, NEW s \in PoolSeverity(a), NEW t \in PoolSeverity(b)
      PROVE  Rank(s) <= Rank(t)
  <2>1. s = "critical" => t = "critical"
    <3>1. s = "critical" => ~MayMiss(b, CriticalPercent)
      BY <1>2, MoreUseReaches DEF PoolSeverity, MayReach, MayMiss
    <3> QED
      BY <3>1 DEF PoolSeverity, MayReach, MayMiss
  <2>2. s = "warning" => t \in {"warning", "critical"}
    <3>1. s = "warning" => ~MayMiss(b, WarningPercent)
      BY <1>2, MoreUseReaches DEF PoolSeverity, MayReach, MayMiss
    <3> QED
      BY <3>1 DEF PoolSeverity, MayReach, MayMiss
  <2>3. s \in {"none", "warning", "critical"} /\ t \in {"none", "warning", "critical"}
    BY DEF PoolSeverity, MayReach, MayMiss
  <2> QED
    BY <2>1, <2>2, <2>3 DEF Rank
<1> QED
  BY <1>1, <1>2

\* A severity that a count may be graded is one that any greater use reaches.
LEMMA GradeIsReached ==
    ASSUME NEW count \in Nat, NEW used \in Nat, count <= used,
           NEW s \in Severity, s \in PoolSeverity(count)
    PROVE  UseReaches(used, Threshold(s))
<1> DEFINE line == Threshold(s) * Available
<1>1. Available \in Int /\ line \in Int /\ Threshold(s) \in Int
  BY PoolAssumption DEF Threshold, Available
<1>2. MayReach(count, Threshold(s))
  <2>1. CASE s = "critical"
    BY <2>1 DEF PoolSeverity, Threshold, MayReach
  <2>2. CASE s = "warning"
    BY <2>2 DEF PoolSeverity, Threshold, MayReach
  <2> QED
    BY <2>1, <2>2 DEF Severity
<1>3. UseReaches(used, Threshold(s))
         <=> IF Available <= 0 THEN Threshold(s) <= 100 ELSE line <= 100 * used
  BY DEF UseReaches, Available
<1>4. IF Available <= 0 THEN Threshold(s) <= 100 ELSE line <= count * 100
  BY <1>1, <1>2, ReachesMeans
<1> HIDE DEF line
<1> QED
  BY <1>1, <1>3, <1>4

\* A pool alert is sent only if, since the poll asked, the server has had as
\* many connections as it says, however late the answer is and also when
\* GetPoolStats takes a part of it for the whole.
THEOREM PoolAlertsAreTrue == PoolAlertsSpec => PoolAlertIsTrue
<1> DEFINE True == pc = "stats" /\ pc' = "sendPool" =>
                      \A s \in poolSending' : UseReaches(peak, Threshold(s))
<1>1. DaemonTypeOK /\ PeakInv /\ [PoolAlertsNext]_poolAlertsVars => [True]_poolAlertsVars
  <2> SUFFICES ASSUME DaemonTypeOK, PeakInv, PoolAlertsNext, pc = "stats", pc' = "sendPool",
                      NEW s \in poolSending'
               PROVE  UseReaches(peak, Threshold(s))
    OBVIOUS
  <2>1. DaemonMoves /\ PoolStatsReturn
    BY DEF PoolAlertsNext, TimePasses, Advance, loopVars, DaemonMoves, ServerStep, ServerCounts,
       ServerTerminates, OrphanTerminates, OthersTerminate, daemonVars, Signal, Cancel, Crash,
       Exit, Restart, Exited, PollStep, StartPoll, StartPollInVain, QueryFails, PollReturns,
       PoolAlertReturns, IdleTransactionsReturn, BeginRow, CheckWarning, WarningReturns,
       CheckCritical, CriticalReturns, SendIfDue, SendReturns, SkipTermination,
       RequestTermination, TerminateReturns, TerminateFails, NextRow, TerminationAlertReturns,
       EndRows, ResolveQuietly, ResolveAnnounced, ResolvedAlertReturns, EndPoll, StopLoop
  <2>2. PICK read \in DOMAIN counts :
               \E severity \in PoolSeverity(counts[read]) : StartPoolAlert(severity)
    BY <2>1 DEF PoolStatsReturn, PoolStatsRead, NoPoolAlert
  <2> PICK severity \in PoolSeverity(counts[read]) : StartPoolAlert(severity)
    BY <2>2
  <2>3. s = severity /\ s \in Severity
    <3>1. poolSending' = {x \in Severity : sincePool'[x] # sincePool[x]}
      BY <2>1 DEF DaemonMoves, Observe
    <3>2. /\ sincePool' = [sincePool EXCEPT ![severity] = 0]
          /\ sincePool \in [Severity -> 0 .. Cooldown]
      BY DEF StartPoolAlert, DaemonTypeOK
    <3> QED
      BY <3>1, <3>2
  <2>4. counts[read] \in Nat /\ peak \in Nat /\ counts[read] <= peak
    BY DEF PeakInv
  <2> QED
    BY <2>3, <2>4, GradeIsReached
<1> QED
  BY <1>1, SpacingCorrect, PeakCorrect, PTL DEF PoolAlertsSpec, PoolAlertIsTrue
=============================================================================
