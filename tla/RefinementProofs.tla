-------------------------- MODULE RefinementProofs --------------------------
(***************************************************************************)
(* The daemon implements LoopUse and IdleAlerting, for every value of the  *)
(* constants: its initial states are theirs, and each of its steps is a    *)
(* step of theirs or leaves them alone.                                    *)
(***************************************************************************)
EXTENDS DaemonRefines, DaemonProofs

(***************************************************************************)
(* LoopUse.  Nothing need be known of the state.                           *)
(***************************************************************************)
UsingStep == [Using!Next]_<<Using!loopUseVars, nextTick>>

LEMMA UsePollStep ==
    ASSUME PollStep
    PROVE  UsingStep
<1> USE DEF UsingStep, Using!loopUseVars, Using!Next, LoopPlace,
        Querying, Sending, Exited, loopVars, memory, timers, budgets, poolVars, killVars
<1>1. CASE StartPoll
  BY <1>1 DEF StartPoll, Using!BeginPoll
<1>2. CASE QueryFails
  BY <1>2 DEF QueryFails, PollReturns, PollEnds, Using!EndPoll
<1>3. CASE EndPoll
  BY <1>3 DEF EndPoll, PollReturns, PollEnds, Using!EndPoll
<1>4. CASE PoolStatsReturn
  <2>1. UNCHANGED <<queryLeft, stop, nextTick>> /\ pc = "stats" /\ pc' \in {"sendPool", "idle"}
    BY <1>4 DEF PoolStatsReturn, PoolStatsRead, StartPoolAlert, NoPoolAlert
  <2> QED
    BY <2>1 DEF Using!BeginWork
<1>5. CASE PoolAlertReturns
  BY <1>5 DEF PoolAlertReturns, SendReturns, Using!AskAgain
<1>6. CASE IdleTransactionsReturn
  BY <1>6 DEF IdleTransactionsReturn, Using!BeginWork
<1>7. CASE RequestTermination
  BY <1>7 DEF RequestTermination, Using!AskAgain
<1>8. CASE TerminateReturns \/ TerminateFails
  BY <1>8 DEF TerminateReturns, TerminateFails, NextRow, Using!BeginWork
<1>9. CASE StopLoop
  BY <1>9 DEF StopLoop, Exit, PollEnds, Using!LeaveLoop, Using!LoopExits
<1>10. CASE StartPollInVain
  BY <1>10 DEF StartPollInVain
<1>11. ASSUME \/ \E r \in todo : BeginRow(r)
              \/ CheckWarning \/ WarningReturns \/ CheckCritical \/ CriticalReturns
              \/ SkipTermination \/ TerminationAlertReturns \/ EndRows
              \/ \E p \in PID : ResolveQuietly(p) \/ ResolveAnnounced(p)
              \/ ResolvedAlertReturns
       PROVE  UsingStep
  BY <1>11 DEF BeginRow, CheckWarning, WarningReturns, CheckCritical, CriticalReturns,
       SendIfDue, SendReturns, SkipTermination, NextRow, TerminationAlertReturns, EndRows,
       ResolveQuietly, ResolveAnnounced, ResolvedAlertReturns
<1> QED
  BY <1>1, <1>2, <1>3, <1>4, <1>5, <1>6, <1>7, <1>8, <1>9, <1>10, <1>11 DEF PollStep

LEMMA UseStep ==
    ASSUME [Next]_vars
    PROVE  UsingStep
<1> USE DEF UsingStep, Using!loopUseVars, Using!Next, LoopPlace,
        Querying, Sending, Exited, loopVars, memory, timers, budgets, poolVars, killVars, daemonVars
<1>1. CASE UNCHANGED vars
  BY <1>1 DEF vars
<1>2. CASE Advance
  BY <1>2 DEF Advance, Waiting, CtxLive, OneLess, Using!LoopTime, Using!LoopWaits,
       Using!LoopCtxLive, Using!LoopAges
<1>3. CASE PollStep
  BY <1>3, UsePollStep
<1>4. CASE ServerStep
  BY <1>4 DEF ServerStep, ServerCounts, ServerTerminates, OrphanTerminates, OthersTerminate
<1>5. CASE Signal \/ Cancel
  BY <1>5 DEF Signal, Cancel, Using!Signal, Using!Cancel
<1>6. CASE Crash
  BY <1>6 DEF Crash, Exit, PollEnds, Using!Crash, Using!LoopExits
<1>7. CASE Restart
  BY <1>7 DEF Restart, Using!Restart
<1> QED
  BY <1>1, <1>2, <1>3, <1>4, <1>5, <1>6, <1>7 DEF Next

\* The loop is to the rest of its process what LoopUse promises: it waits for
\* no call of the client past the deadline of the poll or past cancel(), and
\* leaves from select, after cancel() alone.
THEOREM DaemonUsesClientAsPromised == Spec => UsesClientAsPromised
<1>1. Init => Using!LoopInit
  BY DEF Init, Using!LoopInit, LoopPlace, Querying, Exited
<1>2. [Next]_vars => [Using!Next]_<<Using!loopUseVars, nextTick>>
  BY UseStep DEF UsingStep
<1> QED
  BY <1>1, <1>2, PTL DEF Spec, UsesClientAsPromised, Using!Spec

-----------------------------------------------------------------------------
(***************************************************************************)
(* IdleAlerting.  What ScanInv leaves open: the rows reached are tracked,  *)
(* the one being handled is among them, and a warning is sent when due.    *)
(***************************************************************************)
SayInv ==
    /\ pc \in Scanning => seen \subseteq tracked
    /\ pc \in InRow => cur.pid \in seen
    /\ pc = "sendWarning" => cur.dur >= IdleWarning

AlertingStep == [Alerting!Next]_<<pgVars, Alerting!alertingVars>>

LEMMA SayPollStep ==
    ASSUME DaemonTypeOK, ScanInv, SayInv, PollStep
    PROVE  SayInv'
<1> USE DEF SayInv, Scanning, InRow, loopVars, memory, timers, budgets, poolVars, killVars
<1>1. CASE StartPoll \/ StartPollInVain \/ QueryFails \/ PoolStatsReturn
           \/ PoolAlertReturns \/ EndPoll \/ StopLoop
  BY <1>1 DEF StartPoll, StartPollInVain, QueryFails, PoolStatsReturn, PoolStatsRead,
     StartPoolAlert,
       NoPoolAlert, PoolAlertReturns, SendReturns, EndPoll, StopLoop, Exit, PollReturns, PollEnds
<1>2. CASE IdleTransactionsReturn
  BY <1>2 DEF IdleTransactionsReturn, ScanInv, CoverInv
<1>3. ASSUME NEW r \in todo, BeginRow(r)
      PROVE  SayInv'
  BY <1>3 DEF BeginRow
<1>4. CASE CheckWarning \/ CheckCritical
  BY <1>4 DEF CheckWarning, CheckCritical, SendIfDue, WarningDue
<1>5. CASE WarningReturns \/ CriticalReturns
  BY <1>5 DEF WarningReturns, CriticalReturns, SendReturns
<1>6. CASE SkipTermination \/ RequestTermination \/ TerminateReturns \/ TerminateFails
  BY <1>6 DEF SkipTermination, RequestTermination, TerminateReturns, TerminateFails, NextRow
<1>7. CASE TerminationAlertReturns \/ EndRows
  BY <1>7 DEF TerminationAlertReturns, EndRows, SendReturns
<1>8. ASSUME NEW p \in PID, ResolveQuietly(p) \/ ResolveAnnounced(p)
      PROVE  SayInv'
  BY <1>8 DEF ResolveQuietly, ResolveAnnounced, Forget, Vanished
<1>9. CASE ResolvedAlertReturns
  BY <1>9 DEF ResolvedAlertReturns, SendReturns, Forget, ScanInv, CoverInv
<1> QED
  BY <1>1, <1>2, <1>3, <1>4, <1>5, <1>6, <1>7, <1>8, <1>9 DEF PollStep

LEMMA SayStep ==
    ASSUME DaemonTypeOK, ScanInv, SayInv, [Next]_vars
    PROVE  SayInv'
<1> USE DEF SayInv, loopVars, memory, timers, budgets, poolVars, killVars, daemonVars
<1>1. CASE UNCHANGED vars
  BY <1>1 DEF vars
<1>2. CASE Advance
  BY <1>2 DEF Advance
<1>3. CASE ServerStep
  BY <1>3 DEF ServerStep, ServerCounts, ServerTerminates, OrphanTerminates, OthersTerminate
<1>4. CASE Signal \/ Cancel \/ Crash \/ Restart
  BY <1>4 DEF Signal, Cancel, Crash, Exit, Restart, Scanning, InRow, Exited
<1> QED
  BY <1>1, <1>2, <1>3, <1>4, SayPollStep DEF Next

\* The rows that are reached are tracked, and keep their entry to the end of
\* the scan.
THEOREM SayCorrect == Spec => []SayInv
<1>1. Init => SayInv
  BY DEF Init, SayInv, Scanning, InRow
<1>2. DaemonTypeOK /\ ScanInv /\ SayInv /\ [Next]_vars => SayInv'
  BY SayStep
<1> QED
  BY <1>1, <1>2, ScanCorrect, PTL DEF Spec

-----------------------------------------------------------------------------
\* The reading of IdleAlerting is there as long as the loop scans.
LEMMA ReadingIs ==
    ASSUME DaemonTypeOK
    PROVE  /\ Snapshot = Alerting!NoReading <=> pc \notin Scanning
           /\ pc \in Scanning => Snapshot = seen \cup {r.pid : r \in todo}
BY PgAssumption DEF DaemonTypeOK, Snapshot, Alerting!NoReading, SnapshotRow

\* The words follow the flags.
LEMMA ToldIs ==
    ASSUME OrderInv, NEW p \in PID
    PROVE  /\ Told[p] = "none" <=> p \notin tracked
           /\ Told[p] \in {"none", "seen"} <=> p \notin warningSent
           /\ Told[p] = "critical" <=> p \in criticalSent
           /\ Told[p] \in {"none", "seen", "warning", "critical"}
BY DEF Told, LastWord, OrderInv

\* Only p's word may change.
LEMMA OneWord ==
    ASSUME NEW p \in PID, NEW word,
           LastWord(p)' = word,
           \A q \in PID \ {p} : LastWord(q)' = LastWord(q)
    PROVE  Told' = [Told EXCEPT ![p] = word]
BY DEF Told

LEMMA SayIsSay ==
    ASSUME NEW p \in PID, NEW word,
           LastWord(p)' = word,
           \A q \in PID \ {p} : LastWord(q)' = LastWord(q),
           UNCHANGED <<pgVars, elapsed>>, Snapshot' = Snapshot
    PROVE  Alerting!Say(p, word)
BY OneWord DEF Alerting!Say, Alerting!pgVars, pgVars

\* The steps that say nothing, and neither begin nor end a scan.
LEMMA SilentStep ==
    ASSUME UNCHANGED <<memory, elapsed>>, Snapshot' = Snapshot
    PROVE  AlertingStep
BY DEF AlertingStep, Alerting!Next, Alerting!ServerMoves, Alerting!alertingVars,
       Told, LastWord, memory

\* A scan begins: the snapshot is a reading.
LEMMA AlertingReads ==
    ASSUME DaemonTypeOK, ScanInv, IdleTransactionsReturn
    PROVE  AlertingStep
<1>1. pc \notin Scanning /\ pc' \in Scanning /\ elapsed = 0 /\ seen = {}
  BY DEF IdleTransactionsReturn, Scanning, InRow, ScanInv, BudgetInv, CoverInv
<1>2. {r.pid : r \in IdleRows} = {p \in PID : IsIdleInTransaction(p)}
  <2>1. \A r \in IdleRows : r.pid \in PID /\ IsIdleInTransaction(r.pid)
    BY DEF IdleRows
  <2>2. ASSUME NEW p \in PID, IsIdleInTransaction(p)
        PROVE  \E r \in IdleRows : r.pid = p
    <3>1. [pid |-> p, client |-> activity[p].client, idle |-> activity[p].age] \in IdleRows
      BY <2>2 DEF IdleRows
    <3> QED
      BY <3>1
  <2> QED
    BY <2>1, <2>2
<1>3. Snapshot = Alerting!NoReading
  BY <1>1, ReadingIs
<1>4. Snapshot' = {p \in PID : Alerting!IsIdleInTransaction(p)}
  BY <1>1, <1>2 DEF Snapshot, IdleTransactionsReturn, Alerting!IsIdleInTransaction,
       IsIdleInTransaction
<1>5. Told' = Told
  BY DEF Told, LastWord, IdleTransactionsReturn, memory
<1> QED
  BY <1>1, <1>3, <1>4, <1>5 DEF AlertingStep, Alerting!Next, Alerting!Read,
     IdleTransactionsReturn, pgVars, Alerting!pgVars, timers

\* A row is reached: its pid becomes known.
LEMMA AlertingSees ==
    ASSUME DaemonTypeOK, ScanInv, NEW r \in todo, BeginRow(r)
    PROVE  AlertingStep
<1>1. /\ pc \in Scanning /\ pc' \in Scanning
      /\ r.pid \in PID
      /\ UNCHANGED <<pgVars, elapsed, warningSent, criticalSent>>
      /\ tracked' = tracked \cup {r.pid}
      /\ seen' \cup {s.pid : s \in todo'} = seen \cup {s.pid : s \in todo}
  BY DEF BeginRow, Scanning, InRow, DaemonTypeOK, SnapshotRow, timers
<1>2. Snapshot' = Snapshot /\ r.pid \in Snapshot
  BY <1>1 DEF Snapshot
<1>3. CASE r.pid \in tracked
  BY <1>1, <1>2, <1>3, SilentStep DEF memory
<1>4. CASE r.pid \notin tracked
  <2>1. r.pid \notin warningSent /\ r.pid \notin criticalSent
    BY <1>4 DEF ScanInv, OrderInv
  <2>2. LastWord(r.pid)' = "seen" /\ \A q \in PID \ {r.pid} : LastWord(q)' = LastWord(q)
    BY <1>1, <2>1 DEF LastWord
  <2>3. Alerting!Say(r.pid, "seen")
    BY <1>1, <1>2, <2>2, SayIsSay
  <2>4. Told[r.pid] = "none"
    BY <1>1, <1>4, ToldIs DEF ScanInv
  <2> QED
    BY <1>1, <1>2, <2>3, <2>4 DEF AlertingStep, Alerting!Next, Alerting!See
<1> QED
  BY <1>3, <1>4

\* An alert returns, and its flag is set: what it said was due.
LEMMA AlertingWarns ==
    ASSUME DaemonTypeOK, ScanInv, SayInv, WarningReturns, NEW p \in PID, p = cur.pid
    PROVE  AlertingStep
<1>1. /\ pc = "sendWarning" /\ pc \in Scanning /\ pc' \in Scanning
      /\ cur.dur \in Int
      /\ UNCHANGED <<pgVars, elapsed, tracked, criticalSent, seen, todo>>
      /\ warningSent' = warningSent \cup {p}
      /\ cur.dur >= IdleWarning /\ p \in seen /\ p \in tracked
  BY DEF WarningReturns, SendReturns, Scanning, InRow, DaemonTypeOK, timers, SayInv, ScanInv,
     OrderInv
<1>2. Snapshot' = Snapshot /\ p \in Snapshot
  BY <1>1 DEF Snapshot
<1>3. CASE p \in warningSent
  BY <1>1, <1>2, <1>3, SilentStep DEF memory
<1>4. CASE p \notin warningSent
  <2>1. p \notin criticalSent
    BY <1>4 DEF ScanInv, OrderInv
  <2>2. /\ LastWord(p)' = "warning"
        /\ \A q \in PID \ {p} : LastWord(q)' = LastWord(q)
    BY <1>1, <2>1 DEF LastWord
  <2>3. Alerting!Say(p, "warning")
    BY <1>1, <1>2, <2>2, SayIsSay
  <2>4. Told[p] \in {"none", "seen"}
    BY <1>1, <1>4, ToldIs DEF ScanInv
  <2>5. Alerting!Overdue(p, IdleWarning)
    <3>1. SameSpell(p) => cur.dur <= activity[p].age + ClockSkew
      BY <1>1 DEF ScanInv, RowInv, InRow
    <3>2. activity[p].age \in Int
      BY <1>1 DEF DaemonTypeOK, PgTypeOK, Row, Age
    <3> QED
      BY <1>1, <3>1, <3>2, DaemonAssumption DEF Alerting!Overdue, Alerting!InSpell, SameSpell,
         IsIdleInTransaction, Alerting!IsIdleInTransaction
  <2> QED
    BY <1>1, <1>2, <2>3, <2>4, <2>5 DEF AlertingStep, Alerting!Next, Alerting!Warn
<1> QED
  BY <1>3, <1>4

LEMMA AlertingGoesCritical ==
    ASSUME DaemonTypeOK, ScanInv, SayInv, CriticalReturns, NEW p \in PID, p = cur.pid
    PROVE  AlertingStep
<1>1. /\ pc = "sendCritical" /\ pc \in Scanning /\ pc' \in Scanning
      /\ cur.dur \in Int
      /\ UNCHANGED <<pgVars, elapsed, tracked, warningSent, seen, todo>>
      /\ criticalSent' = criticalSent \cup {p}
      /\ cur.dur >= IdleCritical /\ p \in seen
      /\ p \in warningSent
  BY DaemonAssumption DEF CriticalReturns, SendReturns, Scanning, InRow, DaemonTypeOK, timers,
     SayInv, ScanInv, OrderInv
<1>2. Snapshot' = Snapshot /\ p \in Snapshot
  BY <1>1 DEF Snapshot
<1>3. CASE p \in criticalSent
  BY <1>1, <1>2, <1>3, SilentStep DEF memory
<1>4. CASE p \notin criticalSent
  <2>2. /\ LastWord(p)' = "critical"
        /\ \A q \in PID \ {p} : LastWord(q)' = LastWord(q)
    BY <1>1 DEF LastWord
  <2>3. Alerting!Say(p, "critical")
    BY <1>1, <1>2, <2>2, SayIsSay
  <2>4. Told[p] = "warning"
    BY <1>1, <1>4, ToldIs DEF ScanInv
  <2>5. Alerting!Overdue(p, IdleCritical)
    <3>1. SameSpell(p) => cur.dur <= activity[p].age + ClockSkew
      BY <1>1 DEF ScanInv, RowInv, InRow
    <3>2. activity[p].age \in Int
      BY <1>1 DEF DaemonTypeOK, PgTypeOK, Row, Age
    <3> QED
      BY <1>1, <3>1, <3>2, DaemonAssumption DEF Alerting!Overdue, Alerting!InSpell, SameSpell,
         IsIdleInTransaction, Alerting!IsIdleInTransaction
  <2> QED
    BY <1>1, <1>2, <2>3, <2>4, <2>5 DEF AlertingStep, Alerting!Next, Alerting!Critical
<1> QED
  BY <1>3, <1>4

\* An entry is dropped: its pid is not in the reading.
LEMMA AlertingResolves ==
    ASSUME DaemonTypeOK, ScanInv, NEW p \in PID, p \notin seen, todo = {},
           pc \in Scanning, pc' \in Scanning, Forget(p),
           UNCHANGED <<pgVars, elapsed, todo, seen>>
    PROVE  AlertingStep
<1>1. Snapshot = seen /\ Snapshot' = seen /\ Snapshot # Alerting!NoReading
  BY ReadingIs DEF Snapshot
<1>2. LastWord(p)' = "none" /\ \A q \in PID \ {p} : LastWord(q)' = LastWord(q)
  BY DEF LastWord, Forget
<1>3. CASE p \notin tracked
  BY <1>1, <1>3, SilentStep DEF Forget, memory, ScanInv, OrderInv
<1>4. CASE p \in tracked
  <2>1. Alerting!Say(p, "none")
    BY <1>1, <1>2, SayIsSay
  <2>2. Told[p] # "none"
    BY <1>4, ToldIs DEF ScanInv
  <2> QED
    BY <1>1, <2>1, <2>2 DEF AlertingStep, Alerting!Next, Alerting!Resolve
<1> QED
  BY <1>3, <1>4

\* The poll ends: what was read, and nothing else, is known, and what was
\* overdue is flagged.
LEMMA AlertingFinishes ==
    ASSUME DaemonTypeOK, ScanInv, SayInv, EndPoll
    PROVE  AlertingStep
<1>1. /\ pc \in Scanning /\ pc' \notin Scanning /\ pc \notin InRow
      /\ UNCHANGED <<pgVars, memory>>
      /\ seen \subseteq PID /\ tracked \subseteq PID
      /\ elapsed' = 0 /\ todo = {} /\ seen = tracked
  BY DEF EndPoll, PollReturns, PollEnds, Scanning, InRow, ScanInv, CoverInv, SayInv, Vanished,
     DaemonTypeOK
<1>2. Snapshot = seen
  BY <1>1 DEF Snapshot
<1>3. Snapshot' = Alerting!NoReading
  BY <1>1 DEF Snapshot, Alerting!NoReading
<1>4. Snapshot = {p \in PID : Told[p] # "none"}
  BY <1>1, <1>2, ToldIs DEF ScanInv
<1>5. ASSUME NEW p \in Snapshot, Alerting!InSpell(p)
      PROVE  LET then == activity[p].age - elapsed + ClockSkew
             IN  /\ then >= IdleWarning  => Told[p] \in {"warning", "critical"}
                 /\ then >= IdleCritical => Told[p] = "critical"
  <2>1. p \in seen /\ p \in PID /\ SameSpell(p)
    BY <1>1, <1>2, <1>5 DEF Alerting!InSpell, SameSpell, IsIdleInTransaction,
         Alerting!IsIdleInTransaction
  <2>2. /\ activity[p].age + ClockSkew >= IdleWarning + elapsed => p \in warningSent
        /\ activity[p].age + ClockSkew >= IdleCritical + elapsed => p \in criticalSent
    BY <1>1, <2>1 DEF ScanInv, FlagInv, InRow
  <2>3. elapsed \in Int /\ activity[p].age \in Int
    BY <2>1 DEF DaemonTypeOK, PgTypeOK, Row, Age
  <2>4. /\ p \in warningSent => Told[p] \in {"warning", "critical"}
        /\ p \in criticalSent => Told[p] = "critical"
    BY <2>1, ToldIs DEF ScanInv
  <2> QED
    BY <2>2, <2>3, <2>4, DaemonAssumption
<1>6. Told' = Told
  BY <1>1 DEF Told, LastWord, memory
<1> QED
  BY <1>1, <1>3, <1>4, <1>5, <1>6 DEF AlertingStep, Alerting!Next, Alerting!Finish, pgVars,
     Alerting!pgVars

\* The process is gone.
LEMMA AlertingLapses ==
    ASSUME NEW how \in Exited, Exit(how)
    PROVE  AlertingStep
<1>1. /\ tracked' = {} /\ warningSent' = {} /\ criticalSent' = {}
      /\ pc' \notin Scanning /\ elapsed' = 0 /\ UNCHANGED pgVars
  BY DEF Exit, PollEnds, Exited, Scanning, InRow
<1>2. Told' = Alerting!Untold
  BY <1>1 DEF Told, LastWord, Alerting!Untold
<1>3. Snapshot' = Alerting!NoReading
  BY <1>1 DEF Snapshot, Alerting!NoReading
<1> QED
  BY <1>1, <1>2, <1>3 DEF AlertingStep, Alerting!Next, Alerting!Lapse, pgVars, Alerting!pgVars

LEMMA AlertingTime ==
    ASSUME DaemonTypeOK, Advance
    PROVE  AlertingStep
<1>1. /\ UNCHANGED <<signalled, pc, todo, seen, tracked, warningSent, criticalSent>>
      /\ activity' = Aged
      /\ elapsed' = IF pc \in Scanning THEN Sat(elapsed + 1) ELSE 0
  BY DEF Advance, loopVars, memory
<1>2. Aged = Alerting!Aged /\ Sat(elapsed + 1) = Alerting!Sat(elapsed + 1)
  BY DEF Aged, Alerting!Aged, Sat, Alerting!Sat, IsIdleInTransaction,
     Alerting!IsIdleInTransaction
<1>3. Told' = Told /\ Snapshot' = Snapshot
  BY <1>1 DEF Told, LastWord, Snapshot
<1>4. Snapshot = Alerting!NoReading <=> pc \notin Scanning
  BY ReadingIs
<1> QED
  BY <1>1, <1>2, <1>3, <1>4 DEF AlertingStep, Alerting!Next, Alerting!TimePasses

LEMMA AlertingPollStep ==
    ASSUME DaemonTypeOK, ScanInv, SayInv, PollStep
    PROVE  AlertingStep
<1> USE DEF loopVars, memory, timers, budgets, poolVars, killVars
<1>1. CASE StartPoll \/ StartPollInVain \/ QueryFails \/ PoolStatsReturn \/ PoolAlertReturns
  <2>1. pc \notin Scanning /\ pc' \notin Scanning /\ UNCHANGED memory /\ elapsed' = elapsed
    BY <1>1 DEF StartPoll, StartPollInVain, QueryFails, PoolStatsReturn, PoolStatsRead,
       StartPoolAlert,
         NoPoolAlert, PoolAlertReturns, SendReturns, PollReturns, PollEnds, Scanning, InRow,
         ScanInv, BudgetInv
  <2>2. Snapshot' = Snapshot
    BY <2>1 DEF Snapshot
  <2> QED
    BY <2>1, <2>2, SilentStep
<1>2. CASE IdleTransactionsReturn
  BY <1>2, AlertingReads
<1>3. ASSUME NEW r \in todo, BeginRow(r)
      PROVE  AlertingStep
  BY <1>3, AlertingSees
<1>4. CASE \/ CheckWarning \/ CheckCritical
           \/ SkipTermination \/ RequestTermination \/ TerminateReturns \/ TerminateFails
           \/ TerminationAlertReturns \/ EndRows
           \/ \E p \in PID : ResolveAnnounced(p)
  <2>1. /\ pc \in Scanning /\ pc' \in Scanning
        /\ UNCHANGED <<memory, elapsed, todo, seen>>
    BY <1>4 DEF CheckWarning, CheckCritical, SendIfDue, SkipTermination, NextRow,
         RequestTermination, TerminateReturns, TerminateFails, TerminationAlertReturns,
         SendReturns, EndRows, ResolveAnnounced, Scanning, InRow
  <2>2. Snapshot' = Snapshot
    BY <2>1 DEF Snapshot
  <2> QED
    BY <2>1, <2>2, SilentStep
<1>5. CASE WarningReturns
  BY <1>5, AlertingWarns DEF WarningReturns, SendReturns, DaemonTypeOK, InRow
<1>6. CASE CriticalReturns
  BY <1>6, AlertingGoesCritical DEF CriticalReturns, SendReturns, DaemonTypeOK, InRow
<1>7. ASSUME NEW p \in PID, ResolveQuietly(p)
      PROVE  AlertingStep
  <2>1. /\ p \notin seen /\ todo = {} /\ pc \in Scanning /\ pc' \in Scanning /\ Forget(p)
        /\ UNCHANGED <<pgVars, elapsed, todo, seen>>
    BY <1>7 DEF ResolveQuietly, Vanished, Scanning, ScanInv, CoverInv
  <2> QED
    BY <2>1, AlertingResolves
<1>8. CASE ResolvedAlertReturns
  <2>1. PICK p \in PID : p = cur.pid
    BY <1>8 DEF ResolvedAlertReturns, SendReturns, DaemonTypeOK
  <2>2. /\ p \notin seen /\ todo = {} /\ pc \in Scanning /\ pc' \in Scanning /\ Forget(p)
        /\ UNCHANGED <<pgVars, elapsed, todo, seen>>
    BY <1>8, <2>1 DEF ResolvedAlertReturns, SendReturns, Scanning, ScanInv, CoverInv, Forget
  <2> QED
    BY <2>2, AlertingResolves
<1>9. CASE EndPoll
  BY <1>9, AlertingFinishes
<1>10. CASE StopLoop
  BY <1>10, AlertingLapses DEF StopLoop, Exited
<1> QED
  BY <1>1, <1>2, <1>3, <1>4, <1>5, <1>6, <1>7, <1>8, <1>9, <1>10 DEF PollStep

LEMMA AlertingNext ==
    ASSUME DaemonTypeOK, ScanInv, SayInv, [Next]_vars
    PROVE  AlertingStep
<1> USE DEF loopVars, memory, timers, budgets, poolVars, killVars, daemonVars
<1>1. CASE UNCHANGED vars \/ ServerStep \/ Signal \/ Cancel
  <2>1. UNCHANGED <<memory, elapsed, pc, todo, seen>>
    BY <1>1 DEF vars, ServerStep, ServerCounts, ServerTerminates, OrphanTerminates,
       OthersTerminate, Signal,
       Cancel
  <2>2. Snapshot' = Snapshot
    BY <2>1 DEF Snapshot
  <2> QED
    BY <2>1, <2>2, SilentStep
<1>2. CASE Restart
  <2>1. UNCHANGED <<memory, elapsed>> /\ pc \notin Scanning /\ pc' \notin Scanning
    BY <1>2 DEF Restart, Exited, Scanning, InRow
  <2>2. Snapshot' = Snapshot
    BY <2>1 DEF Snapshot
  <2> QED
    BY <2>1, <2>2, SilentStep
<1>3. CASE Advance
  BY <1>3, AlertingTime
<1>4. CASE PollStep
  BY <1>4, AlertingPollStep
<1>5. CASE Crash
  BY <1>5, AlertingLapses DEF Crash, Exited
<1> QED
  BY <1>1, <1>2, <1>3, <1>4, <1>5 DEF Next

\* What the daemon says of the server's transactions is what IdleAlerting
\* promises, whatever fails and however long its alerts take.
THEOREM DaemonAlertsAsPromised == Spec => AlertsAsPromised
<1>1. Init => Alerting!Init
  BY DEF Init, Alerting!Init, PgInit, Alerting!PgInit, Alerting!Untold, Alerting!NoReading,
     Absent, Alerting!Absent, Told, LastWord, Snapshot, Scanning, InRow
<1>2. DaemonTypeOK /\ ScanInv /\ SayInv /\ [Next]_vars
         => [Alerting!Next]_<<Alerting!pgVars, Alerting!alertingVars>>
  BY AlertingNext DEF AlertingStep, pgVars, Alerting!pgVars
<1> QED
  BY <1>1, <1>2, ScanCorrect, SayCorrect, PTL DEF Spec, AlertsAsPromised, Alerting!Spec
=============================================================================
