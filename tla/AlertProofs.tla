---------------------------- MODULE AlertProofs -----------------------------
(***************************************************************************)
(* Proofs about what reaches the people the daemon's idle transaction      *)
(* alerts are for, for every value of the constants.                       *)
(***************************************************************************)
EXTENDS DaemonAlerts, RefinementProofs

\* Who was alerted of a spell is flagged for it, is still idle, and belongs
\* to the reading being worked through; an alert is sent for a flag that is
\* not set.
HeardInv ==
    /\ spellWarned \subseteq PID /\ spellCritical \subseteq PID /\ open \subseteq PID
    /\ spellWarned \subseteq warningSent /\ spellCritical \subseteq criticalSent
    /\ \A p \in spellWarned \cup spellCritical : IsIdleInTransaction(p)
    /\ pc \in Scanning => \A p \in spellWarned \cup spellCritical :
                              p \in seen \/ \E r \in todo : r.pid = p
    /\ pc = "sendWarning" => cur.pid \notin warningSent
    /\ pc = "sendCritical" => cur.pid \notin criticalSent

\* With channels that deliver, every flag was heard of and not resolved.
OpenInv ==
    /\ warningSent \cup criticalSent \subseteq open
    /\ pc = "sendResolved" => Announced(cur.pid)

DaemonInv == DaemonTypeOK /\ ScanInv /\ SayInv

-----------------------------------------------------------------------------
\* A step that alerts nobody and keeps the flags.
LEMMA NobodyHears ==
    ASSUME HeardInv, ObserveSpells, open' \subseteq PID, ~Returns("sendWarning"), ~Returns("sendCritical"),
           UNCHANGED <<warningSent, criticalSent>>,
           pc' \in Scanning => /\ pc \in Scanning
                               /\ \A p \in PID : p \in seen \/ (\E r \in todo : r.pid = p)
                                    => p \in seen' \/ \E r \in todo' : r.pid = p,
           pc' = "sendWarning" => cur'.pid \notin warningSent,
           pc' = "sendCritical" => cur'.pid \notin criticalSent
    PROVE  HeardInv'
<1>1. /\ spellWarned' \subseteq spellWarned /\ spellCritical' \subseteq spellCritical
      /\ \A p \in spellWarned' \cup spellCritical' : activity'[p].state = "idleInTx"
  BY DEF ObserveSpells, Spells
<1> QED
  BY <1>1 DEF HeardInv, IsIdleInTransaction

\* The process is gone, and with it what it said.
LEMMA NobodyLeft ==
    ASSUME HeardInv, ObserveSpells, open' \subseteq PID, pc' \in Exited
    PROVE  HeardInv'
<1>1. spellWarned' = {} /\ spellCritical' = {}
  BY DEF ObserveSpells, Spells, Alive
<1>2. pc' \notin Scanning /\ pc' # "sendWarning" /\ pc' # "sendCritical"
  BY DEF Exited, Scanning, InRow
<1> QED
  BY <1>1, <1>2 DEF HeardInv

LEMMA ReturnsHeard ==
    ASSUME DaemonInv, HeardInv, ObserveSpells, open' \subseteq PID, WarningReturns \/ CriticalReturns
    PROVE  HeardInv'
<1> USE DEF WarningReturns, CriticalReturns, SendReturns
<1>1. cur.pid \in PID /\ cur.pid \in seen /\ pc \in Scanning
  BY DEF DaemonInv, DaemonTypeOK, SayInv, InRow, Scanning
<1>2. UNCHANGED <<seen, todo, activity>>
  BY DEF pgVars
<1>3. CASE WarningReturns
  <2>1. /\ pc = "sendWarning" /\ pc' = "critical" /\ criticalSent' = criticalSent
        /\ warningSent' = warningSent \cup {cur.pid}
    BY <1>3
  <2>2. /\ spellWarned' \subseteq spellWarned \cup {cur.pid} /\ spellCritical' \subseteq spellCritical
        /\ \A p \in spellWarned' \cup spellCritical' : activity'[p].state = "idleInTx"
    BY <2>1 DEF ObserveSpells, Spells, Returns
  <2> QED
    BY <1>1, <1>2, <2>1, <2>2 DEF HeardInv, IsIdleInTransaction
<1>4. CASE CriticalReturns
  <2>1. /\ pc = "sendCritical" /\ pc' = "autoTerminate" /\ warningSent' = warningSent
        /\ criticalSent' = criticalSent \cup {cur.pid}
    BY <1>4
  <2>2. /\ spellWarned' \subseteq spellWarned /\ spellCritical' \subseteq spellCritical \cup {cur.pid}
        /\ \A p \in spellWarned' \cup spellCritical' : activity'[p].state = "idleInTx"
    BY <2>1 DEF ObserveSpells, Spells, Returns
  <2> QED
    BY <1>1, <1>2, <2>1, <2>2 DEF HeardInv, IsIdleInTransaction
<1> QED
  BY <1>3, <1>4

\* The flags of p go: nobody was alerted of a spell it is still in.
LEMMA ForgetHeard ==
    ASSUME HeardInv, ObserveSpells, open' \subseteq PID, NEW p \in PID, Forget(p),
           pc \in {"resolve", "sendResolved"}, pc' = "resolve", p \notin seen, todo = {},
           UNCHANGED <<seen, todo>>
    PROVE  HeardInv'
<1>1. /\ spellWarned' \subseteq spellWarned /\ spellCritical' \subseteq spellCritical
      /\ \A q \in spellWarned' \cup spellCritical' : activity'[q].state = "idleInTx"
  BY DEF ObserveSpells, Spells, Returns
<1>2. p \notin spellWarned \cup spellCritical
  BY DEF HeardInv, Scanning
<1> QED
  BY <1>1, <1>2 DEF HeardInv, Forget, IsIdleInTransaction, Scanning

LEMMA PollHeard ==
    ASSUME DaemonInv, HeardInv, ObserveSpells, open' \subseteq PID, PollStep
    PROVE  HeardInv'
<1> USE DEF loopVars, memory
<1>1. CASE StartPoll \/ StartPollInVain \/ QueryFails \/ PoolStatsReturn
           \/ PoolAlertReturns \/ EndPoll
  <2>1. /\ pc' \notin Scanning /\ pc \notin {"sendWarning", "sendCritical"}
        /\ pc' \notin {"sendWarning", "sendCritical"}
        /\ UNCHANGED <<warningSent, criticalSent>>
    BY <1>1 DEF StartPoll, StartPollInVain, QueryFails, PoolStatsReturn, PoolStatsRead,
       StartPoolAlert,
         NoPoolAlert, PoolAlertReturns, SendReturns, EndPoll, PollReturns, PollEnds,
         Scanning, InRow
  <2> QED
    BY <2>1, NobodyHears DEF Returns
<1>2. CASE IdleTransactionsReturn
  <2>1. /\ pc = "idle" /\ pc' = "rows" /\ todo' = IdleRows
        /\ UNCHANGED <<warningSent, criticalSent, activity>>
    BY <1>2 DEF IdleTransactionsReturn, pgVars
  <2>2. \A p \in PID : IsIdleInTransaction(p) => \E r \in todo' : r.pid = p
    <3>1. ASSUME NEW p \in PID, IsIdleInTransaction(p)
          PROVE  [pid |-> p, client |-> activity[p].client, idle |-> activity[p].age] \in IdleRows
      BY <3>1 DEF IdleRows
    <3> QED
      BY <2>1, <3>1
  <2>3. /\ spellWarned' \subseteq spellWarned /\ spellCritical' \subseteq spellCritical
    BY <2>1 DEF ObserveSpells, Spells, Returns
  <2> QED
    BY <2>1, <2>2, <2>3 DEF HeardInv, IsIdleInTransaction
<1>3. ASSUME NEW r \in todo, BeginRow(r)
      PROVE  HeardInv'
  <2>1. /\ pc = "rows" /\ pc' = "warning" /\ todo' = todo \ {r} /\ seen' = seen \cup {r.pid}
        /\ UNCHANGED <<warningSent, criticalSent>>
    BY <1>3 DEF BeginRow
  <2> QED
    BY <2>1, NobodyHears DEF Returns, Scanning, InRow
<1>4. CASE CheckWarning \/ CheckCritical
  <2>1. /\ pc \in {"warning", "critical"} /\ UNCHANGED <<seen, todo, cur, warningSent, criticalSent>>
        /\ pc' \in Scanning
        /\ pc' = "sendWarning" => cur.pid \notin warningSent
        /\ pc' = "sendCritical" => cur.pid \notin criticalSent
    BY <1>4 DEF CheckWarning, CheckCritical, SendIfDue, WarningDue, CriticalDue, Scanning, InRow
  <2> QED
    BY <2>1, NobodyHears DEF Returns, Scanning, InRow
<1>5. CASE WarningReturns \/ CriticalReturns
  BY <1>5, ReturnsHeard
<1>6. CASE \/ SkipTermination \/ RequestTermination \/ TerminateReturns \/ TerminateFails
           \/ TerminationAlertReturns \/ EndRows \/ \E p \in PID : ResolveAnnounced(p)
  <2>1. /\ pc \in Scanning /\ pc \notin {"sendWarning", "sendCritical"}
        /\ pc' \notin {"sendWarning", "sendCritical"}
        /\ UNCHANGED <<seen, todo, warningSent, criticalSent>>
    BY <1>6 DEF SkipTermination, RequestTermination, TerminateReturns, TerminateFails,
         TerminationAlertReturns, SendReturns, NextRow, EndRows, ResolveAnnounced, Scanning, InRow
  <2> QED
    BY <2>1, NobodyHears DEF Returns
<1>7. ASSUME NEW p \in PID, ResolveQuietly(p)
      PROVE  HeardInv'
  <2>1. /\ p \notin seen /\ todo = {} /\ pc = "resolve" /\ pc' = "resolve" /\ Forget(p)
        /\ UNCHANGED <<seen, todo>>
    BY <1>7 DEF ResolveQuietly, Vanished, DaemonInv, ScanInv, CoverInv
  <2> QED
    BY <2>1, ForgetHeard
<1>8. CASE ResolvedAlertReturns
  <2>1. PICK p \in PID : p = cur.pid
    BY <1>8 DEF ResolvedAlertReturns, SendReturns, DaemonInv, DaemonTypeOK
  <2>2. /\ p \notin seen /\ todo = {} /\ pc = "sendResolved" /\ pc' = "resolve" /\ Forget(p)
        /\ UNCHANGED <<seen, todo>>
    BY <1>8, <2>1 DEF ResolvedAlertReturns, SendReturns, DaemonInv, ScanInv, CoverInv, Forget
  <2> QED
    BY <2>2, ForgetHeard
<1>9. CASE StopLoop
  BY <1>9, NobodyLeft DEF StopLoop, Exit, Exited
<1> QED
  BY <1>1, <1>2, <1>3, <1>4, <1>5, <1>6, <1>7, <1>8, <1>9 DEF PollStep

LEMMA ObservedOpen ==
    ASSUME DaemonInv, HeardInv, NEW arrives \in Arrives, ObserveIdleAlert(arrives)
    PROVE  open' \subseteq PID
<1>1. pc \in InRow => cur.pid \in PID
  BY DEF DaemonInv, DaemonTypeOK
<1> QED
  BY <1>1 DEF ObserveIdleAlert, Returns, HeardInv, InRow

LEMMA HeardStep ==
    ASSUME DaemonInv, HeardInv, [AlertsNext]_alertsVars
    PROVE  HeardInv'
<1> USE DEF loopVars, memory, timers, budgets, poolVars, killVars, daemonVars
<1>1. CASE UNCHANGED alertsVars
  BY <1>1 DEF alertsVars, heardVars, vars, pgVars, HeardInv, IsIdleInTransaction
<1>2. CASE AlertsNext
  <2>1. Next /\ ObserveSpells /\ open' \subseteq PID
    BY <1>2, ObservedOpen DEF AlertsNext
  <2>2. CASE PollStep
    BY <2>1, <2>2, PollHeard
  <2>3. CASE Crash
    BY <2>1, <2>3, NobodyLeft DEF Crash, Exit, Exited
  <2>4. CASE Advance \/ ServerStep \/ Signal \/ Cancel
    <3>1. UNCHANGED <<pc, seen, todo, cur, warningSent, criticalSent>>
      BY <2>4 DEF Advance, ServerStep, ServerCounts, ServerTerminates, OrphanTerminates,
         OthersTerminate, Signal,
       Cancel
    <3> QED
      BY <2>1, <3>1, NobodyHears DEF Returns, HeardInv
  <2>5. CASE Restart
    <3>1. pc \in Exited /\ pc' = "select" /\ UNCHANGED <<warningSent, criticalSent>>
      BY <2>5 DEF Restart
    <3> QED
      BY <2>1, <3>1, NobodyHears DEF Returns, Exited, Scanning, InRow
  <2> QED
    BY <2>1, <2>2, <2>3, <2>4, <2>5 DEF Next
<1> QED
  BY <1>1, <1>2

\* The people alerted do not restrict the daemon.
LEMMA DaemonUnderneath == AlertsSpec => Spec
<1>1. AlertsInit => Init
  BY DEF AlertsInit
<1>2. [AlertsNext]_alertsVars => [Next]_vars
  BY DEF AlertsNext, alertsVars
<1> QED
  BY <1>1, <1>2, PTL DEF AlertsSpec, Spec

\* The invariant of the daemon and the people it alerts.
THEOREM HeardCorrect == AlertsSpec => [](DaemonInv /\ HeardInv)
<1>1. AlertsInit => HeardInv
  BY DEF AlertsInit, Init, HeardInv, Scanning, InRow
<1>2. DaemonInv /\ HeardInv /\ [AlertsNext]_alertsVars => HeardInv'
  BY HeardStep
<1>3. Spec => []DaemonInv
  <2>1. DaemonTypeOK /\ ScanInv /\ SayInv => DaemonInv
    BY DEF DaemonInv
  <2> QED
    BY <2>1, ScanCorrect, SayCorrect, PTL
<1> QED
  BY <1>1, <1>2, <1>3, DaemonUnderneath, PTL DEF AlertsSpec

\* What the people alerted know has its type.
THEOREM AlertsTypeCorrect == AlertsSpec => []AlertsTypeOK
<1>1. DaemonInv /\ HeardInv => AlertsTypeOK
  BY DEF DaemonInv, HeardInv, AlertsTypeOK
<1> QED
  BY <1>1, HeardCorrect, PTL

\* One spell of idleness gets at most one warning and one critical alert from
\* a process, whatever polls fail and whatever the server does meanwhile.
THEOREM NobodyIsAlertedTwice == AlertsSpec => []NoDuplicateAlert
<1>1. HeardInv => NoDuplicateAlert
  BY DEF HeardInv, NoDuplicateAlert
<1> QED
  BY <1>1, HeardCorrect, PTL

-----------------------------------------------------------------------------
\* Flags only come with an alert that arrives, and only go with a resolved
\* alert or with the process.
LEMMA OpenStep ==
    ASSUME Lossy = FALSE, DaemonInv, OpenInv, [AlertsNext]_alertsVars
    PROVE  OpenInv'
<1> USE DEF loopVars, memory, timers, budgets, poolVars, killVars, daemonVars
<1>1. CASE UNCHANGED alertsVars
  BY <1>1 DEF alertsVars, heardVars, vars, OpenInv, Announced
<1>2. CASE AlertsNext
  <2>1. Next /\ ObserveIdleAlert(TRUE)
    BY <1>2 DEF AlertsNext, Arrives
  <2>2. CASE WarningReturns \/ CriticalReturns
    <3>1. open' = open \cup {cur.pid}
      BY <2>1, <2>2 DEF ObserveIdleAlert, Returns, Alive, Exited, WarningReturns, CriticalReturns,
           SendReturns
    <3> QED
      BY <2>2, <3>1 DEF OpenInv, WarningReturns, CriticalReturns, SendReturns
  <2>3. CASE ResolvedAlertReturns
    <3>1. open' = open \ {cur.pid}
      BY <2>1, <2>3 DEF ObserveIdleAlert, Returns, Alive, Exited, ResolvedAlertReturns, SendReturns
    <3> QED
      BY <2>3, <3>1 DEF OpenInv, ResolvedAlertReturns, SendReturns, Forget
  <2>4. ASSUME NEW p \in PID, ResolveAnnounced(p)
        PROVE  OpenInv'
    <3>1. open' = open
      BY <2>1, <2>4 DEF ObserveIdleAlert, Returns, ResolveAnnounced
    <3>2. cur'.pid = p /\ Announced(p) /\ UNCHANGED <<warningSent, criticalSent>>
      BY <2>4 DEF ResolveAnnounced, NoRow
    <3> QED
      BY <3>1, <3>2 DEF OpenInv, Announced
  <2>5. ASSUME NEW p \in PID, ResolveQuietly(p)
        PROVE  OpenInv'
    <3>1. open' = open
      BY <2>1, <2>5 DEF ObserveIdleAlert, Returns, ResolveQuietly
    <3> QED
      BY <2>5, <3>1 DEF OpenInv, ResolveQuietly, Forget
  <2>6. CASE StopLoop \/ Crash
    BY <2>6 DEF StopLoop, Crash, Exit, OpenInv, Announced
  <2>7. CASE Advance \/ ServerStep \/ Signal \/ Cancel
    <3>1. UNCHANGED <<pc, cur, warningSent, criticalSent>>
      BY <2>7 DEF Advance, ServerStep, ServerCounts, ServerTerminates, OrphanTerminates,
         OthersTerminate, Signal,
       Cancel
    <3>2. open' = open
      BY <2>1, <3>1 DEF ObserveIdleAlert, Returns
    <3> QED
      BY <3>1, <3>2 DEF OpenInv, Announced
  <2>8. CASE \/ StartPoll \/ StartPollInVain \/ QueryFails \/ PoolStatsReturn
             \/ PoolAlertReturns \/ EndPoll \/ IdleTransactionsReturn
             \/ \E r \in todo : BeginRow(r)
             \/ CheckWarning \/ CheckCritical
             \/ SkipTermination \/ RequestTermination \/ TerminateReturns \/ TerminateFails
             \/ TerminationAlertReturns \/ EndRows \/ Restart
    <3>1. /\ pc \notin {"sendWarning", "sendCritical", "sendResolved"} /\ pc' # "sendResolved"
          /\ UNCHANGED <<warningSent, criticalSent>>
      BY <2>8 DEF StartPoll, StartPollInVain, QueryFails, PoolStatsReturn, PoolStatsRead,
         StartPoolAlert,
           NoPoolAlert, PoolAlertReturns, SendReturns, EndPoll, PollReturns, PollEnds,
           IdleTransactionsReturn, BeginRow, CheckWarning, CheckCritical, SendIfDue,
           SkipTermination, RequestTermination, TerminateReturns, TerminateFails, NextRow,
           TerminationAlertReturns, EndRows, Restart, Exited
    <3>2. open' = open
      BY <2>1, <3>1 DEF ObserveIdleAlert, Returns
    <3> QED
      BY <3>1, <3>2 DEF OpenInv
  <2> QED
    BY <2>1, <2>2, <2>3, <2>4, <2>5, <2>6, <2>7, <2>8 DEF Next, PollStep
<1> QED
  BY <1>1, <1>2

\* With channels that deliver, "resolved" is only said of a pid that people
\* were told about and not told to be resolved since.
THEOREM ResolvedAnswers ==
    ASSUME Lossy = FALSE
    PROVE  AlertsSpec => []ResolvedAnswersAlert
<1>1. AlertsInit => OpenInv
  BY DEF AlertsInit, Init, OpenInv
<1>2. DaemonInv /\ OpenInv /\ [AlertsNext]_alertsVars => OpenInv'
  BY OpenStep
<1>3. OpenInv => ResolvedAnswersAlert
  BY DEF OpenInv, ResolvedAnswersAlert, Announced
<1> QED
  BY <1>1, <1>2, <1>3, HeardCorrect, PTL DEF AlertsSpec
=============================================================================
