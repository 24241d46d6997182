---------------------------- MODULE DaemonProofs ----------------------------
(***************************************************************************)
(* Proofs about the daemon, for every value of the constants: its types;   *)
(* ScanInv, an inductive invariant relative to them; and the safety        *)
(* properties that follow from it, of what a scan gets right.              *)
(***************************************************************************)
EXTENDS Daemon, FiniteSetTheorems, TLAPS

\* No exclusion, protection or confirmation spares a client for having waited
\* longer: what the policy gives up at one age it gives up at every later one.
LEMMA LongerIsNoSafer ==
    ASSUME NEW c, NEW d \in Int, NEW e \in Int, d <= e, ShouldTerminate(c, d)
    PROVE  ShouldTerminate(c, e)
BY PolicyAssumption DEF ShouldTerminate

LEMMA SatType ==
    ASSUME NEW n \in Nat
    PROVE  Sat(n) \in Age
BY PgAssumption DEF Sat, Age

LEMMA TypeInit == Init => DaemonTypeOK
<1> SUFFICES ASSUME Init PROVE DaemonTypeOK
  OBVIOUS
<1>1. PgTypeOK
  BY PgAssumption DEF Init, PgInit, PgTypeOK, Row, Absent, Age
<1>2. cur \in [pid : PID \cup {NoPid}, client : Client \cup {NoClient}, dur : Int]
  BY DEF Init, NoRow
<1>3. sincePool \in [Severity -> 0 .. Cooldown]
  BY DaemonAssumption DEF Init
<1>4. /\ nextTick \in 1 .. Interval
      /\ queryLeft \in 0 .. PollTimeout
      /\ sendLeft \in 0 .. SendTimeout
      /\ elapsed \in Age
  BY PgAssumption, DaemonAssumption DEF Init, Age
<1> QED
  BY <1>1, <1>2, <1>3, <1>4 DEF Init, DaemonTypeOK, InRow

LEMMA AgedType ==
    ASSUME PgTypeOK
    PROVE  Aged \in [PID -> Row]
BY PgAssumption DEF PgTypeOK, Aged, Row, Age, Sat, IsIdleInTransaction

LEMMA TypeAdvance ==
    ASSUME DaemonTypeOK, Advance
    PROVE  DaemonTypeOK'
<1>1. PgTypeOK'
  BY AgedType DEF DaemonTypeOK, PgTypeOK, Advance
<1>2. nextTick' \in 1 .. Interval
  BY DaemonAssumption DEF DaemonTypeOK, Advance, TickerRuns
<1>6. tick' \in BOOLEAN
  BY Zenon DEF DaemonTypeOK, Advance, TickerRuns
<1>3. queryLeft' \in 0 .. PollTimeout /\ sendLeft' \in 0 .. SendTimeout
  BY DaemonAssumption DEF DaemonTypeOK, Advance, OneLess
<1>4. elapsed' \in Age
  BY PgAssumption DEF DaemonTypeOK, Advance, Sat, Age
<1>5. sincePool' \in [Severity -> 0 .. Cooldown]
  BY DaemonAssumption DEF DaemonTypeOK, Advance, CooldownAged
<1> QED
  BY <1>1, <1>2, <1>3, <1>4, <1>5, <1>6 DEF DaemonTypeOK, Advance, loopVars, memory, poolVars,
     killVars

LEMMA TypePg ==
    ASSUME PgTypeOK, PgNext
    PROVE  PgTypeOK'
<1> USE PgAssumption DEF PgTypeOK, Row, Age, BackendState
<1>1. ASSUME NEW p \in PID, NEW c \in Client, Connect(p, c)
      PROVE  PgTypeOK'
  BY <1>1 DEF Connect
<1>2. ASSUME NEW p \in PID, NEW c \in Client, Rename(p, c)
      PROVE  PgTypeOK'
  BY <1>2 DEF Rename
<1>3. ASSUME NEW p \in PID, GoIdle(p)
      PROVE  PgTypeOK'
  BY <1>3 DEF GoIdle
<1>4. ASSUME NEW p \in PID, Resume(p)
      PROVE  PgTypeOK'
  BY <1>4 DEF Resume
<1>5. ASSUME NEW p \in PID, BackendExits(p)
      PROVE  PgTypeOK'
  BY <1>5 DEF BackendExits, Absent
<1> QED
  BY <1>1, <1>2, <1>3, <1>4, <1>5 DEF PgNext

\* What is left of a process that has exited is well-typed.
LEMMA FreshType ==
    ASSUME DaemonTypeOK, NEW how \in Exited, Exit(how), kill' = "none", orphans' \subseteq PID
    PROVE  DaemonTypeOK'
<1> USE PgAssumption, DaemonAssumption DEF Exit, PollEnds, NoRow
<1>1. nextTick' \in 1 .. Interval /\ queryLeft' \in 0 .. PollTimeout /\ sendLeft' \in 0 .. SendTimeout
  OBVIOUS
<1>2. sincePool' \in [Severity -> 0 .. Cooldown]
  OBVIOUS
<1>3. PgTypeOK' /\ elapsed' \in Age
  BY DEF DaemonTypeOK, PgTypeOK, pgVars, Age
<1>4. pc' \in Exited /\ pc' \notin InRow \cup {"sendResolved"}
  BY DEF Exited, InRow
<1>5. cur' \in [pid : PID \cup {NoPid}, client : Client \cup {NoClient}, dur : Int]
  OBVIOUS
<1>6. /\ tick' = FALSE
      /\ todo' = {} /\ seen' = {}
      /\ tracked' = {} /\ warningSent' = {} /\ criticalSent' = {}
      /\ stop' = "running" /\ counts' = NoCounts
  OBVIOUS
<1> HIDE DEF Exit, PollEnds, NoRow
<1> QED
  BY <1>1, <1>2, <1>3, <1>4, <1>5, <1>6 DEF DaemonTypeOK

LEMMA TypePollStep ==
    ASSUME DaemonTypeOK, PollStep
    PROVE  DaemonTypeOK'
<1> USE PgAssumption, DaemonAssumption
    DEF DaemonTypeOK, PgTypeOK, pgVars, loopVars, memory, timers, budgets, poolVars, killVars,
        Querying, Sending, Scanning, InRow, Exited, Age
<1>1. CASE StartPoll
  <2>1. queryLeft' \in 0 .. PollTimeout /\ pc' = "stats" /\ tick' = FALSE
    BY <1>1 DEF StartPoll
  <2> QED
    BY <1>1, <2>1 DEF StartPoll
<1>2. CASE StartPollInVain
  BY <1>2 DEF StartPollInVain
<1>3. CASE QueryFails
  BY <1>3 DEF QueryFails, PollReturns, PollEnds, NoRow
<1>4. CASE PoolStatsReturn
  BY <1>4 DEF PoolStatsReturn, PoolStatsRead, StartPoolAlert, NoPoolAlert, canSendPoolAlert
<1>5. CASE PoolAlertReturns
  BY <1>5 DEF PoolAlertReturns, SendReturns
<1>6. CASE IdleTransactionsReturn
  BY <1>6 DEF IdleTransactionsReturn, IdleRows, SnapshotRow, Row
<1>7. ASSUME NEW r \in todo, BeginRow(r)
      PROVE  DaemonTypeOK'
  BY <1>7 DEF BeginRow, SnapshotRow, IdleDuration, Sat
<1>8. CASE CheckWarning
  BY <1>8 DEF CheckWarning, SendIfDue
<1>9. CASE WarningReturns
  BY <1>9 DEF WarningReturns, SendReturns
<1>10. CASE CheckCritical
  BY <1>10 DEF CheckCritical, SendIfDue
<1>11. CASE CriticalReturns
  BY <1>11 DEF CriticalReturns, SendReturns
<1>12. CASE SkipTermination
  BY <1>12 DEF SkipTermination, NextRow, NoRow
<1>13. CASE RequestTermination
  BY <1>13 DEF RequestTermination
<1>14. CASE TerminateReturns
  BY <1>14 DEF TerminateReturns, NextRow, NoRow
<1>15. CASE TerminateFails
  BY <1>15 DEF TerminateFails, Abandon, NextRow, NoRow
<1>16. CASE TerminationAlertReturns
  BY <1>16 DEF TerminationAlertReturns, SendReturns, NoRow
<1>17. CASE EndRows
  BY <1>17 DEF EndRows
<1>18. ASSUME NEW p \in PID, ResolveQuietly(p)
       PROVE  DaemonTypeOK'
  BY <1>18 DEF ResolveQuietly, Forget
<1>19. ASSUME NEW p \in PID, ResolveAnnounced(p)
       PROVE  DaemonTypeOK'
  BY <1>19 DEF ResolveAnnounced, NoRow
<1>20. CASE ResolvedAlertReturns
  BY <1>20 DEF ResolvedAlertReturns, SendReturns, Forget, NoRow
<1>21. CASE EndPoll
  BY <1>21 DEF EndPoll, PollReturns, PollEnds, NoRow
<1>22. CASE StopLoop
  BY <1>22, FreshType DEF StopLoop
<1> QED
  BY <1>1, <1>2, <1>3, <1>4, <1>5, <1>6, <1>7, <1>8, <1>9, <1>10, <1>11, <1>12,
     <1>13, <1>14, <1>15, <1>16, <1>17, <1>18, <1>19, <1>20, <1>21, <1>22 DEF PollStep

LEMMA TypeServerStep ==
    ASSUME DaemonTypeOK, ServerStep
    PROVE  DaemonTypeOK'
<1>1. CASE PgNext /\ UNCHANGED daemonVars
  BY <1>1, TypePg DEF DaemonTypeOK, daemonVars, loopVars, memory, timers, budgets, poolVars,
     killVars
<1> USE DEF DaemonTypeOK, PgTypeOK, PgTerminate, loopVars, memory, timers, budgets, poolVars,
        killVars
<1>2. CASE ServerTerminates
  BY <1>2 DEF ServerCounts, ServerTerminates, InRow
<1>3. ASSUME NEW p \in PID, OrphanTerminates(p) \/ OthersTerminate(p)
      PROVE  DaemonTypeOK'
  BY <1>3 DEF OrphanTerminates, OthersTerminate, daemonVars
<1>4. CASE ServerCounts
  <2>1. \A read \in SUBSET BackendState : CountOf(read) \in Nat
    BY PgAssumption, FS_Subset, FS_CardinalityType DEF CountOf
  <2>2. counts' \in [SUBSET BackendState -> Nat]
    BY <1>4, <2>1 DEF ServerCounts
  <2> QED
    BY <1>4, <2>2 DEF ServerCounts, pgVars
<1> QED
  BY <1>1, <1>2, <1>3, <1>4 DEF ServerStep

LEMMA TypeProcess ==
    ASSUME DaemonTypeOK, Signal \/ Cancel \/ Crash \/ Restart
    PROVE  DaemonTypeOK'
<1>1. CASE Crash
  <2>1. orphans' \subseteq PID
    BY <1>1 DEF Crash, Abandon, DaemonTypeOK, InRow
  <2> QED
    BY <1>1, <2>1, FreshType DEF Crash, Abandon, Exited
<1> USE DEF DaemonTypeOK, PgTypeOK, pgVars, loopVars, memory, timers, budgets, poolVars, killVars
<1>2. CASE Signal
  BY <1>2 DEF Signal
<1>3. CASE Cancel
  BY <1>3 DEF Cancel
<1>4. CASE Restart
  BY <1>4 DEF Restart, InRow, Exited
<1> QED
  BY <1>1, <1>2, <1>3, <1>4

LEMMA TypeStep == DaemonTypeOK /\ [Next]_vars => DaemonTypeOK'
<1>1. DaemonTypeOK /\ UNCHANGED vars => DaemonTypeOK'
  BY DEF DaemonTypeOK, PgTypeOK, vars, pgVars, daemonVars, loopVars, memory, timers,
         budgets, poolVars, killVars
<1> QED
  BY <1>1, TypeAdvance, TypePollStep, TypeServerStep, TypeProcess DEF Next

\* The variables keep their types, and a row's pid is a backend's: the pids
\* the daemon asks the server to terminate are pids the server reported.
THEOREM TypeCorrect == Spec => []DaemonTypeOK
BY TypeInit, TypeStep, PTL DEF Spec

-----------------------------------------------------------------------------
(* A scan.                                                                 *)

\* The snapshot's age and the budget left add up to at most the budget.
BudgetInv ==
    /\ pc \notin Scanning => elapsed = 0
    /\ pc \in Scanning /\ queryLeft > 0 => elapsed + queryLeft <= PollTimeout
    /\ pc = "terminate" => elapsed <= PollTimeout /\ TerminationDue

\* A row not reached yet, and the one being handled, tell who their backend
\* is and how long it has been idle if it still is in the spell they saw.
RowInv ==
    /\ pc \in Scanning =>
          \A r \in todo : SameSpell(r.pid) =>
              /\ activity[r.pid].client = r.client
              /\ Sat(r.idle + elapsed) <= activity[r.pid].age
              /\ activity[r.pid].age <= r.idle + elapsed
    /\ pc \in InRow =>
          (SameSpell(cur.pid) =>
              /\ activity[cur.pid].client = cur.client
              /\ cur.dur <= activity[cur.pid].age + ClockSkew
              /\ activity[cur.pid].age + ClockSkew <= cur.dur + elapsed)

\* No spell older than the snapshot is missed.
CoverInv ==
    /\ pc \in Scanning =>
          \A p \in PID : SameSpell(p) => p \in seen \/ \E r \in todo : r.pid = p
    /\ pc \in {"resolve", "sendResolved"} => todo = {}
    /\ pc = "sendResolved" => cur.pid \notin seen
    /\ pc \notin Scanning => seen = {}

\* The rows behind the loop have their flags.
FlagInv ==
    pc \in Scanning =>
        \A p \in seen : SameSpell(p) =>
            /\ activity[p].age + ClockSkew >= IdleWarning + elapsed =>
                  \/ p \in warningSent
                  \/ p = cur.pid /\ pc \in {"warning", "sendWarning"}
            /\ activity[p].age + ClockSkew >= IdleCritical + elapsed =>
                  \/ p \in criticalSent
                  \/ p = cur.pid /\ pc \in {"warning", "sendWarning", "critical", "sendCritical"}

\* Warning before critical, and both only for tracked pids.
OrderInv ==
    /\ criticalSent \subseteq warningSent
    /\ warningSent \subseteq tracked
    /\ pc \in InRow => cur.pid \in tracked
    /\ pc \in {"critical", "sendCritical"} /\ cur.dur >= IdleWarning => cur.pid \in warningSent
    /\ pc = "sendCritical" => cur.dur >= IdleCritical

ScanInv == BudgetInv /\ RowInv /\ CoverInv /\ FlagInv /\ OrderInv

-----------------------------------------------------------------------------
LEMMA ScanInit == Init => ScanInv
BY DEF Init, ScanInv, BudgetInv, RowInv, CoverInv, FlagInv, OrderInv, Scanning, InRow, NoRow

\* A step of the server's clients leaves a spell alone or ends it: it creates
\* none that is older than the snapshot.
LEMMA SpellsUnderPg ==
    ASSUME DaemonTypeOK, PgNext, UNCHANGED elapsed, NEW p \in PID, SameSpell(p)'
    PROVE  /\ SameSpell(p)
           /\ activity'[p].age = activity[p].age
           /\ activity'[p].client = activity[p].client
           /\ p \in signalled => p \in signalled'
<1> USE PgAssumption
    DEF DaemonTypeOK, PgTypeOK, SameSpell, IsIdleInTransaction, Age, Row, Absent
<1>1. ASSUME NEW q \in PID, NEW c \in Client, Connect(q, c) \/ Rename(q, c)
      PROVE  /\ SameSpell(p)
             /\ activity'[p].age = activity[p].age
             /\ activity'[p].client = activity[p].client
             /\ p \in signalled => p \in signalled'
  BY <1>1 DEF Connect, Rename
<1>2. ASSUME NEW q \in PID, GoIdle(q) \/ Resume(q) \/ BackendExits(q)
      PROVE  /\ SameSpell(p)
             /\ activity'[p].age = activity[p].age
             /\ activity'[p].client = activity[p].client
             /\ p \in signalled => p \in signalled'
  BY <1>2 DEF GoIdle, Resume, BackendExits
<1> QED
  BY <1>1, <1>2 DEF PgNext

\* Time keeps the distance between a spell's age and the snapshot's, until
\* the age saturates.
LEMMA SpellsUnderTime ==
    ASSUME DaemonTypeOK, Advance, pc \in Scanning, NEW p \in PID, SameSpell(p)'
    PROVE  /\ SameSpell(p)
           /\ elapsed' = elapsed + 1
           /\ activity[p].age \in Age
           /\ activity'[p].age = Sat(activity[p].age + 1)
           /\ activity'[p].client = activity[p].client
<1>1. /\ activity[p] \in Row
      /\ elapsed \in Age
      /\ activity' = Aged
      /\ elapsed' = Sat(elapsed + 1)
  BY DEF DaemonTypeOK, PgTypeOK, Advance
<1>2. activity[p].age \in Age
  BY <1>1 DEF Row
<1>3. IsIdleInTransaction(p)
  BY <1>1 DEF SameSpell, IsIdleInTransaction, Aged
<1>4. activity'[p].age = Sat(activity[p].age + 1) /\ activity'[p].client = activity[p].client
  BY <1>1, <1>3 DEF Aged, Row
<1> QED
  BY <1>1, <1>2, <1>3, <1>4, PgAssumption DEF SameSpell, Sat, Age

LEMMA ScanAdvance ==
    ASSUME DaemonTypeOK, ScanInv, Advance
    PROVE  ScanInv'
<1> USE PgAssumption, DaemonAssumption
<1>1. /\ UNCHANGED <<pc, todo, seen, cur, tracked, warningSent, criticalSent>>
      /\ elapsed \in Nat /\ queryLeft \in Nat
      /\ \A r \in todo : r.pid \in PID /\ r.idle \in Nat
      /\ pc \in InRow => cur.pid \in PID /\ cur.dur \in Int
      /\ seen \subseteq PID
  BY DEF DaemonTypeOK, Advance, loopVars, memory, SnapshotRow, Age
<1>2. BudgetInv'
  <2>1. queryLeft' = OneLess(queryLeft) /\ elapsed' = IF pc \in Scanning THEN Sat(elapsed + 1) ELSE 0
    BY DEF Advance
  <2>2. pc = "terminate" => queryLeft > 0
    BY DEF Advance, Waiting, CtxLive, Sending, Exited, Querying
  <2>3. "terminate" \in Scanning
    BY DEF Scanning, InRow
  <2> QED
    BY <1>1, <2>1, <2>2, <2>3 DEF ScanInv, BudgetInv, Sat, OneLess, TerminationDue
<1>3. RowInv'
  <2>1. ASSUME pc \in Scanning, NEW r \in todo, SameSpell(r.pid)'
        PROVE  /\ activity'[r.pid].client = r.client
               /\ Sat(r.idle + elapsed') <= activity'[r.pid].age
               /\ activity'[r.pid].age <= r.idle + elapsed'
    BY <1>1, <2>1, SpellsUnderTime DEF ScanInv, RowInv, Sat, Age
  <2>2. ASSUME pc \in InRow, SameSpell(cur.pid)'
        PROVE  /\ activity'[cur.pid].client = cur.client
               /\ cur.dur <= activity'[cur.pid].age + ClockSkew
               /\ activity'[cur.pid].age + ClockSkew <= cur.dur + elapsed'
    <3>1. pc \in Scanning
      BY <2>2 DEF Scanning
    <3>2. /\ SameSpell(cur.pid)
          /\ elapsed' = elapsed + 1
          /\ activity[cur.pid].age \in Age
          /\ activity'[cur.pid].age = Sat(activity[cur.pid].age + 1)
          /\ activity'[cur.pid].client = activity[cur.pid].client
      BY <1>1, <2>2, <3>1, SpellsUnderTime
    <3> QED
      BY <1>1, <2>2, <3>2 DEF ScanInv, RowInv, Sat, Age
  <2> QED
    BY <1>1, <2>1, <2>2 DEF RowInv
<1>4. CoverInv'
  BY <1>1, SpellsUnderTime DEF ScanInv, CoverInv
<1>5. FlagInv'
  <2>1. ASSUME pc \in Scanning, NEW p \in seen, SameSpell(p)'
        PROVE  /\ SameSpell(p)
               /\ activity'[p].age - elapsed' <= activity[p].age - elapsed
               /\ activity[p].age \in Int /\ activity'[p].age \in Int /\ elapsed' \in Int
    BY <1>1, <2>1, SpellsUnderTime DEF Sat, Age
  <2> QED
    BY <1>1, <2>1 DEF ScanInv, FlagInv
<1>6. OrderInv'
  BY <1>1 DEF ScanInv, OrderInv
<1> QED
  BY <1>2, <1>3, <1>4, <1>5, <1>6 DEF ScanInv

\* The steps outside a scan, and those that leave one, keep only OrderInv's
\* first half to be checked.
LEMMA ScanOutside ==
    ASSUME DaemonTypeOK, ScanInv, pc' \notin Scanning, elapsed' = 0, seen' = {},
           criticalSent' \subseteq warningSent', warningSent' \subseteq tracked'
    PROVE  ScanInv'
BY DEF ScanInv, BudgetInv, RowInv, CoverInv, FlagInv, OrderInv, Scanning, InRow

LEMMA ScanPollStep ==
    ASSUME DaemonTypeOK, ScanInv, PollStep
    PROVE  ScanInv'
<1> USE DEF pgVars, loopVars, memory, timers, budgets, poolVars, killVars
<1>1. CASE StartPoll \/ StartPollInVain \/ QueryFails \/ PoolStatsReturn
           \/ PoolAlertReturns \/ EndPoll \/ StopLoop
  <2>1. pc' \notin Scanning /\ elapsed' = 0 /\ seen' = {}
    BY <1>1 DEF StartPoll, StartPollInVain, QueryFails, PoolStatsReturn, PoolStatsRead,
       StartPoolAlert,
         NoPoolAlert, PoolAlertReturns, SendReturns, EndPoll, StopLoop, Exit, PollReturns,
         PollEnds, Scanning, InRow, ScanInv, BudgetInv, CoverInv
  <2>2. criticalSent' \subseteq warningSent' /\ warningSent' \subseteq tracked'
    BY <1>1 DEF StartPoll, StartPollInVain, QueryFails, PoolStatsReturn, PoolStatsRead,
         PoolAlertReturns, EndPoll, StopLoop, Exit, ScanInv, OrderInv
  <2> QED
    BY <2>1, <2>2, ScanOutside
<1> USE PgAssumption, DaemonAssumption
    DEF ScanInv, BudgetInv, RowInv, CoverInv, FlagInv, OrderInv, Scanning, InRow,
        SameSpell, IsIdleInTransaction, TerminationDue
<1>2. CASE IdleTransactionsReturn
  <2>1. /\ pc = "idle" /\ pc' = "rows" /\ elapsed = 0 /\ seen = {}
        /\ todo' = IdleRows
        /\ UNCHANGED <<activity, elapsed, seen, cur, tracked, warningSent, criticalSent, queryLeft>>
        /\ queryLeft \in 0 .. PollTimeout
        /\ \A p \in PID : activity[p].age \in Age
    BY <1>2 DEF IdleTransactionsReturn, DaemonTypeOK, PgTypeOK, Row
  <2>2. \A r \in todo' : /\ r.pid \in PID
                          /\ r.idle = activity[r.pid].age
                          /\ r.client = activity[r.pid].client
    BY <2>1 DEF IdleRows
  <2>3. ASSUME NEW p \in PID, IsIdleInTransaction(p)
        PROVE  \E r \in todo' : r.pid = p
    <3>1. [pid |-> p, client |-> activity[p].client, idle |-> activity[p].age] \in todo'
      BY <2>1, <2>3 DEF IdleRows
    <3> QED
      BY <3>1
  <2>4. \A r \in todo' : r.idle \in Age
    BY <2>1, <2>2
  <2>5. BudgetInv' /\ CoverInv' /\ OrderInv'
    BY <2>1, <2>3
  <2>6. RowInv'
    BY <2>1, <2>2, <2>4 DEF Sat, Age
  <2>7. FlagInv'
    BY <2>1
  <2> QED
    BY <2>5, <2>6, <2>7
<1>3. ASSUME NEW r \in todo, BeginRow(r)
      PROVE  ScanInv'
  <2>1. /\ pc = "rows" /\ pc' = "warning"
        /\ todo' = todo \ {r} /\ seen' = seen \cup {r.pid} /\ tracked' = tracked \cup {r.pid}
        /\ cur'.pid = r.pid /\ cur'.client = r.client
        /\ cur'.dur = Sat(r.idle + elapsed) + ClockSkew
        /\ UNCHANGED <<activity, elapsed, warningSent, criticalSent, queryLeft>>
        /\ r.pid \in PID /\ r.idle \in Nat /\ elapsed \in Nat /\ activity[r.pid].age \in Age
    BY <1>3 DEF BeginRow, IdleDuration, DaemonTypeOK, PgTypeOK, Row, SnapshotRow, Age
  <2>2. BudgetInv' /\ CoverInv' /\ OrderInv'
    BY <2>1
  <2>3. RowInv'
    BY <2>1 DEF Sat, Age
  <2>4. FlagInv'
    BY <2>1
  <2> QED
    BY <2>2, <2>3, <2>4
<1>4. CASE CheckWarning
  <2>1. /\ pc = "warning"
        /\ \/ pc' = "sendWarning"
           \/ pc' = "critical" /\ ~WarningDue
        /\ UNCHANGED <<activity, elapsed, todo, seen, cur, tracked, warningSent, criticalSent,
                       queryLeft>>
        /\ cur.pid \in PID /\ cur.dur \in Int /\ elapsed \in Nat /\ activity[cur.pid].age \in Nat
    BY <1>4 DEF CheckWarning, SendIfDue, DaemonTypeOK, PgTypeOK, Row, Age
  <2>2. BudgetInv' /\ RowInv' /\ CoverInv' /\ OrderInv'
    BY <2>1 DEF WarningDue
  <2>3. FlagInv'
    BY <2>1 DEF WarningDue
  <2> QED
    BY <2>2, <2>3
<1>5. CASE WarningReturns
  BY <1>5 DEF WarningReturns, SendReturns
<1>6. CASE CheckCritical
  <2>1. /\ pc = "critical"
        /\ \/ pc' = "sendCritical" /\ CriticalDue
           \/ pc' = "autoTerminate" /\ ~CriticalDue
        /\ UNCHANGED <<activity, elapsed, todo, seen, cur, tracked, warningSent, criticalSent,
                       queryLeft>>
        /\ cur.pid \in PID /\ cur.dur \in Int /\ elapsed \in Nat /\ activity[cur.pid].age \in Nat
    BY <1>6 DEF CheckCritical, SendIfDue, DaemonTypeOK, PgTypeOK, Row, Age
  <2>2. BudgetInv' /\ RowInv' /\ CoverInv' /\ OrderInv'
    BY <2>1 DEF CriticalDue
  <2>3. FlagInv'
    BY <2>1 DEF CriticalDue
  <2> QED
    BY <2>2, <2>3
<1>7. CASE CriticalReturns
  BY <1>7 DEF CriticalReturns, SendReturns, DaemonTypeOK
<1>8. CASE SkipTermination
  BY <1>8 DEF SkipTermination, NextRow, NoRow
<1>9. CASE RequestTermination
  BY <1>9 DEF RequestTermination, CtxLive, DaemonTypeOK, Age
<1>10. CASE TerminateReturns
  BY <1>10 DEF TerminateReturns, NextRow, NoRow
<1>11. CASE TerminateFails
  BY <1>11 DEF TerminateFails, NextRow, NoRow
<1>12. CASE TerminationAlertReturns
  BY <1>12 DEF TerminationAlertReturns, SendReturns, NoRow
<1>13. CASE EndRows
  BY <1>13 DEF EndRows
<1>14. ASSUME NEW p \in PID, ResolveQuietly(p)
       PROVE  ScanInv'
  BY <1>14 DEF ResolveQuietly, Forget, Vanished
<1>15. ASSUME NEW p \in PID, ResolveAnnounced(p)
       PROVE  ScanInv'
  BY <1>15 DEF ResolveAnnounced, Vanished, NoRow
<1>16. CASE ResolvedAlertReturns
  BY <1>16 DEF ResolvedAlertReturns, SendReturns, Forget, NoRow
<1> QED
  BY <1>1, <1>2, <1>3, <1>4, <1>5, <1>6, <1>7, <1>8, <1>9, <1>10, <1>11, <1>12,
     <1>13, <1>14, <1>15, <1>16 DEF PollStep

\* The server's own steps: none of them starts a spell older than the snapshot.
LEMMA ScanServerStep ==
    ASSUME DaemonTypeOK, ScanInv, ServerStep
    PROVE  ScanInv'
<1> USE DEF loopVars, memory, timers, budgets, poolVars, killVars, daemonVars
<1>1. CASE PgNext /\ UNCHANGED daemonVars
  <2>1. \A p \in PID : SameSpell(p)' =>
            /\ SameSpell(p)
            /\ activity'[p].age = activity[p].age
            /\ activity'[p].client = activity[p].client
    BY <1>1, SpellsUnderPg
  <2>2. /\ UNCHANGED <<pc, todo, seen, cur, elapsed, queryLeft, tracked, warningSent, criticalSent>>
        /\ \A r \in todo : r.pid \in PID
        /\ pc \in InRow => cur.pid \in PID
        /\ seen \subseteq PID
    BY <1>1 DEF DaemonTypeOK, SnapshotRow
  <2>3. BudgetInv' /\ OrderInv'
    BY <2>2 DEF ScanInv, BudgetInv, OrderInv, TerminationDue
  <2>4. RowInv'
    BY <2>1, <2>2 DEF ScanInv, RowInv
  <2>5. CoverInv'
    BY <2>1, <2>2 DEF ScanInv, CoverInv
  <2>6. FlagInv'
    BY <2>1, <2>2 DEF ScanInv, FlagInv
  <2> QED
    BY <2>3, <2>4, <2>5, <2>6 DEF ScanInv
<1>2. CASE \/ ServerCounts \/ ServerTerminates
          \/ \E p \in PID : OrphanTerminates(p) \/ OthersTerminate(p)
  BY <1>2 DEF ServerCounts, ServerTerminates, OrphanTerminates, OthersTerminate, PgTerminate,
     pgVars,
       ScanInv, BudgetInv, RowInv, CoverInv, FlagInv, OrderInv, SameSpell, IsIdleInTransaction, TerminationDue
<1> QED
  BY <1>1, <1>2 DEF ServerStep

LEMMA ScanProcess ==
    ASSUME DaemonTypeOK, ScanInv, Signal \/ Cancel \/ Crash \/ Restart
    PROVE  ScanInv'
<1> USE DEF pgVars, loopVars, memory, timers, budgets, poolVars, killVars
<1>1. CASE Signal \/ Cancel
  BY <1>1 DEF Signal, Cancel, ScanInv, BudgetInv, RowInv, CoverInv, FlagInv, OrderInv,
       SameSpell, IsIdleInTransaction, TerminationDue
<1>2. CASE Crash
  BY <1>2, ScanOutside DEF Crash, Exit, PollEnds, Scanning, InRow
<1>3. CASE Restart
  BY <1>3, ScanOutside DEF Restart, Exited, Scanning, InRow, ScanInv, BudgetInv, CoverInv, OrderInv
<1> QED
  BY <1>1, <1>2, <1>3

LEMMA ScanStep ==
    ASSUME DaemonTypeOK, ScanInv, [Next]_vars
    PROVE  ScanInv'
<1>1. CASE UNCHANGED vars
  BY <1>1 DEF vars, pgVars, daemonVars, loopVars, memory, timers, budgets, poolVars, killVars,
       ScanInv, BudgetInv, RowInv, CoverInv, FlagInv, OrderInv,
       SameSpell, IsIdleInTransaction, TerminationDue
<1> QED
  BY <1>1, ScanAdvance, ScanPollStep, ScanServerStep, ScanProcess DEF Next

\* ScanInv holds throughout, whatever the server, the alert channels, the
\* signals and the crashes do.
THEOREM ScanCorrect == Spec => [](DaemonTypeOK /\ ScanInv)
<1>1. Init => ScanInv
  BY ScanInit
<1>2. DaemonTypeOK /\ ScanInv /\ [Next]_vars => ScanInv'
  BY ScanStep
<1> QED
  BY <1>1, <1>2, TypeCorrect, PTL DEF Spec

-----------------------------------------------------------------------------
(* The properties.                                                         *)

\* Every terminate request pollAndAlert makes is allowed by the policy, rests
\* on a snapshot no older than the budget of the poll, and is aimed at a
\* backend that has really been idle for auto_terminate.after, or has left
\* the spell the snapshot saw.
THEOREM KillsAreJustified == Spec => []KillRequestJustified
<1>1. DaemonTypeOK /\ ScanInv => KillRequestJustified
  <2> SUFFICES ASSUME DaemonTypeOK, ScanInv, pc = "terminate"
               PROVE  KillRequestJustified
    BY DEF KillRequestJustified
  <2>1. elapsed <= PollTimeout /\ TerminationDue
    BY DEF ScanInv, BudgetInv
  <2>2. SameSpell(cur.pid) => /\ activity[cur.pid].client = cur.client
                              /\ cur.dur <= activity[cur.pid].age + ClockSkew
    BY DEF ScanInv, RowInv, InRow
  <2>3. cur.dur \in Int /\ cur.pid \in PID /\ \A p \in PID : activity[p].age \in Nat
    BY DEF DaemonTypeOK, InRow, PgTypeOK, Row, Age
  <2>4. SameSpell(cur.pid) => ShouldTerminate(cur.client, activity[cur.pid].age + ClockSkew)
    BY <2>1, <2>2, <2>3, LongerIsNoSafer, DaemonAssumption DEF TerminationDue
  <2> QED
    BY <2>1, <2>2, <2>3, <2>4, DaemonAssumption DEF KillRequestJustified, TerminationDue
<1> QED
  BY <1>1, ScanCorrect, PTL

\* The resolve loop announces the end only of spells that have ended.
THEOREM ResolvedIsTrue == Spec => []ResolvedMeansGone
<1>1. DaemonTypeOK /\ ScanInv => ResolvedMeansGone
  BY DEF ScanInv, CoverInv, ResolvedMeansGone, DaemonTypeOK, Scanning
<1> QED
  BY <1>1, ScanCorrect, PTL

\* When the loop over the rows is through, nothing overdue lacks its flag.
THEOREM NothingOverdueIsMissed == Spec => []OverdueIsFlagged
<1>1. DaemonTypeOK /\ ScanInv => OverdueIsFlagged
  <2> SUFFICES ASSUME DaemonTypeOK, ScanInv, pc \in {"resolve", "sendResolved"},
                      NEW p \in PID, SameSpell(p)
               PROVE
                  /\ activity[p].age - elapsed + ClockSkew >= IdleWarning => p \in warningSent
                  /\ activity[p].age - elapsed + ClockSkew >= IdleCritical => p \in criticalSent
    BY DEF OverdueIsFlagged
  <2>1. pc \in Scanning /\ pc \notin InRow
    BY DEF Scanning, InRow
  <2>2. p \in seen
    BY <2>1 DEF ScanInv, CoverInv
  <2>3. /\ activity[p].age + ClockSkew >= IdleWarning + elapsed => p \in warningSent
        /\ activity[p].age + ClockSkew >= IdleCritical + elapsed => p \in criticalSent
    BY <2>1, <2>2 DEF ScanInv, FlagInv, InRow
  <2>4. elapsed \in Int /\ activity[p].age \in Int
    BY DEF DaemonTypeOK, PgTypeOK, Row, Age
  <2> QED
    BY <2>3, <2>4, DaemonAssumption
<1> QED
  BY <1>1, ScanCorrect, PTL

\* The critical block never runs ahead of the warning block.
THEOREM WarningComesFirst == Spec => []CriticalFollowsWarning
<1>1. DaemonTypeOK /\ ScanInv => CriticalFollowsWarning
  BY DaemonAssumption DEF ScanInv, OrderInv, CriticalFollowsWarning, DaemonTypeOK
<1> QED
  BY <1>1, ScanCorrect, PTL

\* After cancel() the server is asked nothing new: no poll begins, no
\* snapshot is read, no terminate request is sent.
THEOREM CancelIsFinal == Spec => NoQueryAfterCancel
<1> DEFINE Quiet == stop = "cancelled" =>
                        /\ kill' = "sent" => kill = "sent"
                        /\ todo' \subseteq todo
                        /\ pc' = "stats" => pc = "stats"
<1> USE DEF pgVars, loopVars, memory, timers, budgets, poolVars, killVars
<1>1. DaemonTypeOK /\ [Next]_vars => [Quiet]_vars
  <2> SUFFICES ASSUME Next, stop = "cancelled"
               PROVE  /\ kill' = "sent" => kill = "sent"
                      /\ todo' \subseteq todo
                      /\ pc' = "stats" => pc = "stats"
    OBVIOUS
  <2>1. CASE Advance \/ Signal \/ Cancel \/ Crash \/ Restart
    BY <2>1 DEF Advance, Signal, Cancel, Crash, Exit, PollEnds, Abandon, Restart
  <2>2. CASE ServerStep
    BY <2>2 DEF ServerStep, daemonVars, ServerCounts, ServerTerminates, OrphanTerminates,
       OthersTerminate
  <2>3. CASE PollStep
    <3>1. CASE StartPoll \/ StartPollInVain \/ QueryFails \/ PoolStatsReturn
               \/ PoolAlertReturns \/ EndPoll \/ StopLoop
      BY <3>1 DEF StartPoll, StartPollInVain, QueryFails, PoolStatsReturn, PoolStatsRead,
         StartPoolAlert,
           NoPoolAlert, PoolAlertReturns, SendReturns, EndPoll, StopLoop, Exit, PollReturns,
           PollEnds
    <3>2. CASE \/ \E r \in todo : BeginRow(r)
               \/ \E p \in PID : ResolveQuietly(p) \/ ResolveAnnounced(p)
      BY <3>2 DEF BeginRow, ResolveQuietly, ResolveAnnounced
    <3>3. CASE \/ CheckWarning \/ WarningReturns \/ CheckCritical \/ CriticalReturns
               \/ TerminationAlertReturns \/ EndRows \/ ResolvedAlertReturns
      BY <3>3 DEF CheckWarning, CheckCritical, SendIfDue, WarningReturns, CriticalReturns,
           TerminationAlertReturns, EndRows, ResolvedAlertReturns, SendReturns
    <3>4. CASE \/ IdleTransactionsReturn \/ SkipTermination \/ RequestTermination
               \/ TerminateReturns \/ TerminateFails
      BY <3>4 DEF IdleTransactionsReturn, CtxLive, SkipTermination, RequestTermination,
           TerminateReturns, TerminateFails, NextRow, Abandon
    <3> QED
      BY <2>3, <3>1, <3>2, <3>3, <3>4 DEF PollStep
  <2> QED
    BY <2>1, <2>2, <2>3 DEF Next
<1> QED
  BY <1>1, TypeCorrect, PTL DEF Spec, NoQueryAfterCancel
-----------------------------------------------------------------------------
(* What is said of a termination.                                          *)

\* An answer "true" has the signal behind it as long as the spell lasts.
AnswerInv ==
    kill = "true" \/ pc = "sendTermination" => (SameSpell(cur.pid) => cur.pid \in signalled)

LEMMA AnswerPollStep ==
    ASSUME DaemonTypeOK, AnswerInv, PollStep
    PROVE  AnswerInv'
<1> USE DEF pgVars, loopVars, memory, timers, budgets, poolVars, killVars
<1>1. CASE TerminateReturns
  BY <1>1 DEF TerminateReturns, NextRow, AnswerInv, SameSpell, IsIdleInTransaction
<1>2. CASE RequestTermination
  BY <1>2 DEF RequestTermination, AnswerInv
<1>3. CASE ~TerminateReturns /\ ~RequestTermination
  <2>1. kill' # "true"
    BY <1>3 DEF PollStep, DaemonTypeOK, StartPoll, StartPollInVain, QueryFails, PoolStatsReturn,
       PoolStatsRead,
       PoolAlertReturns, IdleTransactionsReturn, BeginRow, CheckWarning, WarningReturns,
       CheckCritical, CriticalReturns, SendIfDue, SkipTermination, TerminateFails, Abandon,
       TerminationAlertReturns, EndRows, ResolveQuietly, ResolveAnnounced,
       ResolvedAlertReturns, SendReturns, EndPoll, StopLoop
  <2>2. pc' # "sendTermination"
    BY <1>3 DEF PollStep, StartPoll, StartPollInVain, QueryFails, PollReturns, PoolStatsReturn,
       PoolStatsRead,
       StartPoolAlert, NoPoolAlert, PoolAlertReturns, IdleTransactionsReturn, BeginRow,
       CheckWarning, WarningReturns, CheckCritical, CriticalReturns, SendIfDue, SkipTermination,
       TerminateFails, NextRow, TerminationAlertReturns, EndRows, ResolveQuietly,
       ResolveAnnounced, ResolvedAlertReturns, SendReturns, EndPoll, StopLoop, Exit
  <2> QED
    BY <2>1, <2>2 DEF AnswerInv
<1> QED
  BY <1>1, <1>2, <1>3

LEMMA AnswerStep == DaemonTypeOK /\ AnswerInv /\ [Next]_vars => AnswerInv'
<1> SUFFICES ASSUME DaemonTypeOK, AnswerInv, [Next]_vars PROVE AnswerInv'
  OBVIOUS
<1> USE DEF pgVars, loopVars, memory, timers, budgets, poolVars, killVars, daemonVars
<1>1. kill = "true" \/ pc = "sendTermination" => cur.pid \in PID /\ pc \in Scanning
  BY DEF DaemonTypeOK, InRow, Scanning
<1>2. CASE Advance
  BY <1>1, <1>2, SpellsUnderTime DEF Advance, AnswerInv
<1>3. CASE PgNext /\ UNCHANGED daemonVars
  BY <1>1, <1>3, SpellsUnderPg DEF AnswerInv
<1>4. CASE ServerTerminates
  BY <1>4 DEF ServerTerminates, PgTerminate, AnswerInv, DaemonTypeOK
<1>5. ASSUME NEW p \in PID, OrphanTerminates(p) \/ OthersTerminate(p)
      PROVE  AnswerInv'
  BY <1>5 DEF OrphanTerminates, OthersTerminate, PgTerminate, AnswerInv, SameSpell,
     IsIdleInTransaction
<1>6. CASE ServerCounts \/ Signal \/ Cancel \/ Restart \/ UNCHANGED vars
  BY <1>6 DEF ServerCounts, Signal, Cancel, Restart, vars, AnswerInv, SameSpell, IsIdleInTransaction
<1>7. CASE Crash
  BY <1>7 DEF Crash, Exit, Abandon, AnswerInv
<1> QED
  BY <1>2, <1>3, <1>4, <1>5, <1>6, <1>7, AnswerPollStep DEF Next, ServerStep

\* The daemon says it terminated a backend only if that backend has been sent
\* the signal, or has left the spell by itself.
THEOREM AnnouncedWasSignalled == Spec => []AnnouncedIsSignalled
<1>1. Init => AnswerInv
  BY DEF Init, AnswerInv
<1>2. AnswerInv => AnnouncedIsSignalled
  BY DEF AnswerInv, AnnouncedIsSignalled
<1> QED
  BY <1>1, <1>2, AnswerStep, TypeCorrect, PTL DEF Spec

-----------------------------------------------------------------------------
(* How long a poll lasts.                                                  *)

\* A scan works on finitely many rows; the row at hand is one of those seen,
\* outside a row and an alert no pid is at hand, and outside an alert no time
\* of one is left.  A process that is gone is not being stopped.
AtHandInv ==
    /\ IsFiniteSet(todo)
    /\ pc \notin Sending => sendLeft = 0
    /\ pc \in Exited => stop = "running"
    /\ pc \in InRow => cur.pid \in seen
    /\ pc \notin InRow \cup {"sendResolved"} => cur.pid = NoPid

\* A snapshot has no more rows than there are idle backends.
LEMMA SnapshotIsFinite ==
    ASSUME PgTypeOK
    PROVE  LET idle == {p \in PID : IsIdleInTransaction(p)}
           IN  /\ {r.pid : r \in IdleRows} = idle
               /\ IsFiniteSet(IdleRows)
               /\ Cardinality(IdleRows) <= Cardinality(idle)
<1> DEFINE idle == {p \in PID : IsIdleInTransaction(p)}
           f == [r \in IdleRows |-> r.pid]
<1>1. IsFiniteSet(idle)
  BY FS_Subset, PgAssumption
<1>2. {r.pid : r \in IdleRows} = idle
  <2>1. ASSUME NEW p \in idle
        PROVE  \E r \in IdleRows : r.pid = p
    <3>1. [pid |-> p, client |-> activity[p].client, idle |-> activity[p].age] \in IdleRows
      BY <2>1 DEF IdleRows
    <3> QED
      BY <3>1
  <2>2. \A r \in IdleRows : r.pid \in idle
    BY DEF IdleRows
  <2> QED
    BY <2>1, <2>2
<1>3. f \in Injection(IdleRows, idle)
  BY DEF IdleRows, Injection, IsInjective
<1> HIDE DEF f
<1>4. IsFiniteSet(IdleRows) /\ Cardinality(IdleRows) <= Cardinality(idle)
  BY <1>1, <1>3, FS_Injection
<1> QED
  BY <1>2, <1>4

LEMMA AtHandPollStep ==
    ASSUME DaemonTypeOK, AtHandInv, PollStep
    PROVE  AtHandInv'
<1> USE DEF pgVars, loopVars, memory, timers, budgets, poolVars, killVars, AtHandInv, InRow,
        Sending, Exited
<1>1. CASE \/ StartPoll \/ StartPollInVain \/ QueryFails \/ PoolStatsReturn \/ PoolAlertReturns
           \/ EndPoll \/ StopLoop
  <2>1. IsFiniteSet({})
    BY FS_EmptySet
  <2> QED
    BY <1>1, <2>1 DEF StartPoll, StartPollInVain, QueryFails, PoolStatsReturn, PoolStatsRead,
       StartPoolAlert,
         NoPoolAlert, PoolAlertReturns, SendReturns, EndPoll, StopLoop, Exit, PollReturns,
         PollEnds, NoRow
<1>2. CASE IdleTransactionsReturn
  <2>1. IsFiniteSet(IdleRows)
    BY SnapshotIsFinite DEF DaemonTypeOK
  <2> QED
    BY <1>2, <2>1 DEF IdleTransactionsReturn
<1>3. ASSUME NEW r \in todo, BeginRow(r)
      PROVE  AtHandInv'
  BY <1>3, FS_RemoveElement DEF BeginRow
<1>4. CASE CheckWarning \/ WarningReturns \/ CheckCritical \/ CriticalReturns \/ EndRows
  BY <1>4 DEF CheckWarning, WarningReturns, CheckCritical, CriticalReturns, SendIfDue,
     SendReturns, EndRows
<1>5. CASE \/ SkipTermination \/ RequestTermination \/ TerminateReturns \/ TerminateFails
           \/ TerminationAlertReturns
  BY <1>5 DEF SkipTermination, RequestTermination, TerminateReturns, TerminateFails,
     TerminationAlertReturns, SendReturns, NextRow, NoRow
<1>6. ASSUME NEW p \in PID, ResolveQuietly(p) \/ ResolveAnnounced(p)
      PROVE  AtHandInv'
  BY <1>6 DEF ResolveQuietly, ResolveAnnounced
<1>7. CASE ResolvedAlertReturns
  BY <1>7 DEF ResolvedAlertReturns, SendReturns, NoRow
<1> QED
  BY <1>1, <1>2, <1>3, <1>4, <1>5, <1>6, <1>7 DEF PollStep

LEMMA AtHandStep == DaemonTypeOK /\ AtHandInv /\ [Next]_vars => AtHandInv'
<1> SUFFICES ASSUME DaemonTypeOK, AtHandInv, [Next]_vars PROVE AtHandInv'
  OBVIOUS
<1> USE DEF vars, loopVars, budgets, daemonVars, AtHandInv, InRow, Sending, Exited
<1>1. CASE Advance \/ ServerStep \/ Signal \/ Cancel \/ UNCHANGED vars
  BY <1>1 DEF Advance, ServerStep, ServerCounts, ServerTerminates, OrphanTerminates,
     OthersTerminate, Signal,
     Cancel, OneLess
<1>2. CASE Crash \/ Restart
  BY <1>2, FS_EmptySet DEF Crash, Restart, Exit, PollEnds, NoRow, Exited
<1> QED
  BY <1>1, <1>2, AtHandPollStep DEF Next

\* One alert less takes one SendTimeout less.
LEMMA FewerAlertsAreShorter ==
    ASSUME NEW k \in Nat, NEW a \in Nat, NEW b \in Nat
    PROVE  /\ k * a \in Nat
           /\ a <= b => k * a <= k * b
           /\ a + 1 <= b => k * a + k <= k * b
<1>1. a <= b => \E d \in Nat : b = a + d
  <2> SUFFICES ASSUME a <= b PROVE b - a \in Nat /\ b = a + (b - a)
    OBVIOUS
  <2> QED
    OBVIOUS
<1>2. \A d \in Nat : k * d \in Nat /\ k * (a + d) = k * a + k * d
  OBVIOUS
<1>3. \A d \in Nat : k * (d + 1) = k * d + k /\ k * d \in Nat
  OBVIOUS
<1>4. a + 1 <= b => \E d \in Nat : b = (a + 1) + d
  <2> SUFFICES ASSUME a + 1 <= b PROVE b - (a + 1) \in Nat /\ b = (a + 1) + (b - (a + 1))
    OBVIOUS
  <2> QED
    OBVIOUS
<1>5. \A d \in Nat : k * ((a + 1) + d) = k * a + k + k * d
  OBVIOUS
<1> QED
  BY <1>1, <1>2, <1>3, <1>4, <1>5

LEMMA AlertsLeftType ==
    DaemonTypeOK /\ AtHandInv =>
        /\ IsFiniteSet(Going) /\ Cardinality(Going \ {cur.pid}) \in Nat
        /\ Cardinality(todo) \in Nat /\ Cardinality(PID) \in Nat
        /\ AlertsLeft \in Nat
<1> SUFFICES ASSUME DaemonTypeOK, AtHandInv
             PROVE  /\ IsFiniteSet(Going) /\ Cardinality(Going \ {cur.pid}) \in Nat
                    /\ Cardinality(todo) \in Nat /\ Cardinality(PID) \in Nat
                    /\ AlertsLeft \in Nat
  OBVIOUS
<1>1. IsFiniteSet(Going)
  BY FS_Subset, PgAssumption DEF DaemonTypeOK, Going
<1>2. Cardinality(Going \ {cur.pid}) \in Nat
  BY <1>1, FS_RemoveElement, FS_CardinalityType
<1>3. Cardinality(todo) \in Nat /\ Cardinality(PID) \in Nat
  BY FS_CardinalityType, PgAssumption DEF AtHandInv
<1>4. RowAlertsLeft \in 0 .. 3
  BY DEF RowAlertsLeft
<1>5. AlertsLeft \in Nat
  BY <1>2, <1>3, <1>4 DEF AlertsLeft
<1> QED
  BY <1>1, <1>2, <1>3, <1>5

\* What a step takes from TimeLeft: nothing is prolonged, and a new alert is
\* one of those that were left.
Spends ==
    /\ queryLeft' <= queryLeft
    /\ \/ sendLeft' <= sendLeft /\ AlertsLeft' <= AlertsLeft
       \/ sendLeft' = SendTimeout /\ AlertsLeft' + 1 <= AlertsLeft

LEMMA SpendingIsBounded ==
    ASSUME DaemonTypeOK, AtHandInv, DaemonTypeOK', AtHandInv', pc \in Polling, Spends
    PROVE  TimeLeft' <= TimeLeft
<1>1. AlertsLeft \in Nat /\ AlertsLeft' \in Nat
  <2>1. (AlertsLeft \in Nat)'
    BY AlertsLeftType, PTL
  <2> QED
    BY <2>1, AlertsLeftType
<1>2. /\ queryLeft \in Nat /\ queryLeft' \in Nat /\ sendLeft \in Nat /\ sendLeft' \in Nat
      /\ SendTimeout \in Nat
  BY DaemonAssumption DEF DaemonTypeOK
<1>3. /\ SendTimeout * AlertsLeft \in Nat /\ SendTimeout * AlertsLeft' \in Nat
      /\ AlertsLeft' <= AlertsLeft => SendTimeout * AlertsLeft' <= SendTimeout * AlertsLeft
      /\ AlertsLeft' + 1 <= AlertsLeft =>
            SendTimeout * AlertsLeft' + SendTimeout <= SendTimeout * AlertsLeft
  BY <1>1, <1>2, FewerAlertsAreShorter
<1> QED
  BY <1>2, <1>3 DEF Spends, TimeLeft

\* The tracked pids that a scan will not meet are at most as many as before
\* when the set has not grown.
LEMMA GoingShrinks ==
    ASSUME DaemonTypeOK, AtHandInv, Going' \ {cur'.pid} \subseteq Going \ {cur.pid}
    PROVE  Cardinality(Going' \ {cur'.pid}) <= Cardinality(Going \ {cur.pid})
<1>1. IsFiniteSet(Going \ {cur.pid})
  BY AlertsLeftType, FS_RemoveElement
<1> QED
  BY <1>1, FS_Subset

\* The reading: three alerts for a row it has, one for a tracked pid it has not.
LEMMA ReadingSpends ==
    ASSUME DaemonTypeOK, AtHandInv, IdleTransactionsReturn
    PROVE  Spends
<1> DEFINE idle == {p \in PID : IsIdleInTransaction(p)}
<1>1. /\ pc = "idle" /\ pc' = "rows" /\ todo' = IdleRows
      /\ UNCHANGED <<tracked, cur, queryLeft, sendLeft>>
      /\ cur.pid = NoPid /\ tracked \subseteq PID
      /\ queryLeft \in Nat /\ sendLeft \in Nat
  BY DEF IdleTransactionsReturn, memory, budgets, AtHandInv, InRow, DaemonTypeOK
<1>2. {r.pid : r \in todo'} = idle /\ IsFiniteSet(todo') /\ Cardinality(todo') <= Cardinality(idle)
  BY <1>1, SnapshotIsFinite DEF DaemonTypeOK
<1>3. IsFiniteSet(idle) /\ IsFiniteSet(PID \ idle) /\ IsFiniteSet(PID) /\ idle \subseteq PID
  BY FS_Subset, PgAssumption
<1> HIDE DEF idle
<1>4. Cardinality(PID) = Cardinality(idle) + Cardinality(PID \ idle)
  <2>1. PID = idle \cup (PID \ idle) /\ idle \cap (PID \ idle) = {}
    BY <1>3
  <2>2. Cardinality(idle \cup (PID \ idle)) =
            Cardinality(idle) + Cardinality(PID \ idle) - Cardinality(idle \cap (PID \ idle))
    BY <1>3, FS_Union
  <2>3. Cardinality(idle) \in Nat /\ Cardinality(PID \ idle) \in Nat
    BY <1>3, FS_CardinalityType
  <2>4. Cardinality(idle \cup (PID \ idle)) = Cardinality(PID)
    BY <2>1, Zenon
  <2>5. Cardinality(idle \cap (PID \ idle)) = 0
    BY <2>1, FS_EmptySet, Zenon
  <2> HIDE <2>1
  <2> QED
    BY <2>2, <2>3, <2>4, <2>5
<1>5. Going' \ {cur'.pid} \subseteq PID \ idle
  BY <1>1, <1>2 DEF Going
<1>6. Cardinality(Going' \ {cur'.pid}) <= Cardinality(PID \ idle)
  BY <1>3, <1>5, FS_Subset
<1>7. /\ IsFiniteSet(Going' \ {cur'.pid})
      /\ Cardinality(Going' \ {cur'.pid}) \in Nat /\ Cardinality(todo') \in Nat
      /\ Cardinality(idle) \in Nat /\ Cardinality(PID \ idle) \in Nat
  BY <1>2, <1>3, <1>5, FS_Subset, FS_CardinalityType
<1>8. 3 * Cardinality(todo') + Cardinality(Going' \ {cur'.pid}) <= 3 * Cardinality(PID)
  BY <1>2, <1>4, <1>6, <1>7
<1>9. AlertsLeft = 3 * Cardinality(PID)
  BY <1>1 DEF AlertsLeft
<1>10. AlertsLeft' = 3 * Cardinality(todo') + 0 + Cardinality(Going' \ {cur'.pid})
  BY <1>1 DEF AlertsLeft, RowAlertsLeft
<1> QED
  BY <1>1, <1>7, <1>8, <1>9, <1>10 DEF Spends

LEMMA RowSpends ==
    ASSUME DaemonTypeOK, AtHandInv,
           \/ CheckWarning \/ WarningReturns \/ CheckCritical \/ CriticalReturns
           \/ RequestTermination
           \/ TerminateReturns /\ pc' = "sendTermination"
    PROVE  Spends
<1>1. /\ UNCHANGED <<todo, seen, tracked, cur, queryLeft>>
      /\ pc \in InRow /\ pc' \in InRow /\ queryLeft \in Nat
  BY DEF CheckWarning, WarningReturns, CheckCritical, CriticalReturns, SendIfDue, SendReturns,
     RequestTermination, TerminateReturns, NextRow, memory, budgets, InRow, DaemonTypeOK
<1>2. Going' = Going
  BY <1>1 DEF Going
<1>3. Cardinality(todo) \in Nat /\ Cardinality(Going \ {cur.pid}) \in Nat
  BY AlertsLeftType
<1>4. PICK before \in 0 .. 3, after \in 0 .. 3 :
            RowAlertsLeft = before /\ RowAlertsLeft' = after
  BY DEF RowAlertsLeft
<1>5. \/ sendLeft' <= sendLeft /\ after <= before
      \/ sendLeft' = SendTimeout /\ after + 1 <= before
  BY <1>4 DEF CheckWarning, WarningReturns, CheckCritical, CriticalReturns, SendIfDue, SendReturns,
     RequestTermination, TerminateReturns, NextRow, budgets, RowAlertsLeft, DaemonTypeOK
<1>6. AlertsLeft = 3 * Cardinality(todo) + before + Cardinality(Going \ {cur.pid})
  BY <1>1, <1>4 DEF AlertsLeft, InRow
<1>7. AlertsLeft' = 3 * Cardinality(todo) + after + Cardinality(Going \ {cur.pid})
  BY <1>1, <1>2, <1>4 DEF AlertsLeft, InRow
<1> QED
  BY <1>1, <1>3, <1>5, <1>6, <1>7 DEF Spends

\* A row is left behind.
LEMMA RowEndSpends ==
    ASSUME DaemonTypeOK, AtHandInv,
           \/ SkipTermination \/ TerminateFails \/ TerminationAlertReturns
           \/ TerminateReturns /\ pc' = "rows"
    PROVE  Spends
<1>1. /\ UNCHANGED <<todo, seen, tracked, queryLeft>>
      /\ cur'.pid = NoPid /\ pc \in InRow /\ pc' = "rows"
      /\ sendLeft' <= sendLeft /\ queryLeft \in Nat
  BY DEF SkipTermination, TerminateReturns, TerminateFails, TerminationAlertReturns, SendReturns,
     NextRow, NoRow, memory, budgets, InRow, DaemonTypeOK
<1>2. cur.pid \notin Going /\ Going' = Going
  BY <1>1 DEF Going, AtHandInv
<1>3. Cardinality(Going' \ {cur'.pid}) <= Cardinality(Going \ {cur.pid})
  BY <1>2, GoingShrinks
<1>4. /\ Cardinality(todo) \in Nat /\ Cardinality(Going \ {cur.pid}) \in Nat
      /\ Cardinality(Going' \ {cur'.pid}) \in Nat
  <2>1. IsFiniteSet(Going' \ {cur'.pid})
    BY <1>2, AlertsLeftType, FS_RemoveElement
  <2> QED
    BY <2>1, AlertsLeftType, FS_CardinalityType
<1>5. AlertsLeft = 3 * Cardinality(todo) + RowAlertsLeft + Cardinality(Going \ {cur.pid})
  BY <1>1 DEF AlertsLeft, InRow
<1>6. AlertsLeft' = 3 * Cardinality(todo) + 0 + Cardinality(Going' \ {cur'.pid})
  BY <1>1 DEF AlertsLeft, RowAlertsLeft
<1>7. RowAlertsLeft \in 0 .. 3
  BY DEF RowAlertsLeft
<1> QED
  BY <1>1, <1>3, <1>4, <1>5, <1>6, <1>7 DEF Spends

\* A row that is begun costs three alerts, which were counted.
LEMMA BeginRowSpends ==
    ASSUME DaemonTypeOK, AtHandInv, NEW r \in todo, BeginRow(r)
    PROVE  Spends
<1>1. /\ pc = "rows" /\ pc' = "warning"
      /\ todo' = todo \ {r} /\ seen' = seen \cup {r.pid} /\ tracked' = tracked \cup {r.pid}
      /\ cur'.pid = r.pid /\ cur.pid = NoPid
      /\ UNCHANGED <<queryLeft, sendLeft>>
      /\ queryLeft \in Nat /\ sendLeft \in Nat /\ tracked \subseteq PID
  BY DEF BeginRow, budgets, AtHandInv, InRow, DaemonTypeOK
<1>2. Going' \ {cur'.pid} \subseteq Going \ {cur.pid}
  BY <1>1, PgAssumption DEF Going
<1>3. Cardinality(Going' \ {cur'.pid}) <= Cardinality(Going \ {cur.pid})
  BY <1>2, GoingShrinks
<1>4. Cardinality(todo') = Cardinality(todo) - 1
  BY <1>1, FS_RemoveElement DEF AtHandInv
<1>5. /\ Cardinality(todo) \in Nat /\ Cardinality(Going \ {cur.pid}) \in Nat
      /\ Cardinality(Going' \ {cur'.pid}) \in Nat
  <2>1. IsFiniteSet(Going' \ {cur'.pid})
    BY <1>2, AlertsLeftType, FS_RemoveElement, FS_Subset
  <2> QED
    BY <2>1, AlertsLeftType, FS_CardinalityType
<1>6. AlertsLeft = 3 * Cardinality(todo) + 0 + Cardinality(Going \ {cur.pid})
  BY <1>1 DEF AlertsLeft, RowAlertsLeft
<1>7. AlertsLeft' = 3 * Cardinality(todo') + 3 + Cardinality(Going' \ {cur'.pid})
  BY <1>1 DEF AlertsLeft, RowAlertsLeft
<1> QED
  BY <1>1, <1>3, <1>4, <1>5, <1>6, <1>7 DEF Spends

\* The resolve loop: an alert for a pid that was to go, or none.
LEMMA ResolveSpends ==
    ASSUME DaemonTypeOK, ScanInv, AtHandInv,
           \/ EndRows \/ ResolvedAlertReturns
           \/ \E p \in PID : ResolveQuietly(p) \/ ResolveAnnounced(p)
    PROVE  Spends
<1>1. /\ todo' = todo /\ UNCHANGED <<seen, queryLeft>> /\ queryLeft \in Nat /\ sendLeft \in Nat
      /\ pc \in {"rows", "resolve", "sendResolved"} /\ pc' \in {"resolve", "sendResolved"}
      /\ tracked \subseteq PID
  BY DEF EndRows, ResolvedAlertReturns, SendReturns, ResolveQuietly, ResolveAnnounced, loopVars,
     budgets, DaemonTypeOK
<1>2. /\ Cardinality(todo) \in Nat /\ Cardinality(Going \ {cur.pid}) \in Nat
      /\ IsFiniteSet(Going \ {cur.pid})
  BY AlertsLeftType, FS_RemoveElement
<1>3. /\ AlertsLeft = 3 * Cardinality(todo) + 0 + Cardinality(Going \ {cur.pid})
      /\ AlertsLeft' = 3 * Cardinality(todo) + 0 + Cardinality(Going' \ {cur'.pid})
  BY <1>1 DEF AlertsLeft, RowAlertsLeft
<1>4. CASE EndRows \/ ResolvedAlertReturns \/ \E p \in PID : ResolveQuietly(p)
  <2>1. sendLeft' <= sendLeft
    BY <1>1, <1>4 DEF EndRows, ResolvedAlertReturns, SendReturns, ResolveQuietly, budgets
  <2>2. Going' \ {cur'.pid} \subseteq Going \ {cur.pid}
    BY <1>1, <1>4, PgAssumption DEF EndRows, ResolvedAlertReturns, ResolveQuietly, Forget, NoRow,
       Going, memory, loopVars
  <2>3. Cardinality(Going' \ {cur'.pid}) <= Cardinality(Going \ {cur.pid})
    BY <2>2, GoingShrinks
  <2>4. Cardinality(Going' \ {cur'.pid}) \in Nat
    BY <1>2, <2>2, FS_Subset, FS_CardinalityType
  <2> QED
    BY <1>1, <1>2, <1>3, <2>1, <2>3, <2>4 DEF Spends
<1>5. ASSUME NEW p \in PID, ResolveAnnounced(p)
      PROVE  Spends
  <2>1. /\ pc = "resolve" /\ p \in tracked \ seen /\ tracked' = tracked /\ cur'.pid = p
        /\ sendLeft' = SendTimeout /\ cur.pid = NoPid
    BY <1>5 DEF ResolveAnnounced, Vanished, NoRow, memory, AtHandInv, InRow
  <2>2. todo = {}
    BY <2>1 DEF ScanInv, CoverInv
  <2>3. Going' = Going /\ p \in Going \ {cur.pid}
    BY <1>1, <2>1, <2>2, PgAssumption DEF Going
  <2>4. Going' \ {cur'.pid} = (Going \ {cur.pid}) \ {p}
    BY <1>1, <2>1, <2>3, PgAssumption DEF Going
  <2>5. Cardinality((Going \ {cur.pid}) \ {p}) = Cardinality(Going \ {cur.pid}) - 1
    BY <1>2, <2>3, FS_RemoveElement
  <2>6. Cardinality(Going' \ {cur'.pid}) = Cardinality(Going \ {cur.pid}) - 1
    BY <2>4, <2>5, Zenon
  <2>7. AlertsLeft' = 3 * Cardinality(todo) + Cardinality(Going \ {cur.pid}) - 1
    BY <1>2, <1>3, <2>6
  <2> QED
    BY <1>1, <1>2, <1>3, <2>1, <2>7 DEF Spends
<1> QED
  BY <1>4, <1>5

LEMMA PollStepSpends ==
    ASSUME DaemonTypeOK, ScanInv, AtHandInv, pc \in Polling, PollStep
    PROVE  pc' \notin Polling \/ Spends
<1> USE DEF Polling, Querying, Sending, Scanning, InRow
<1>1. CASE StartPoll \/ StartPollInVain \/ StopLoop
  BY <1>1 DEF StartPoll, StartPollInVain, StopLoop
<1>2. CASE QueryFails \/ EndPoll
  BY <1>2 DEF QueryFails, EndPoll, PollReturns
<1>3. CASE PoolStatsReturn \/ PoolAlertReturns
  <2>1. Cardinality(PID) \in Nat
    BY AlertsLeftType
  <2>2. queryLeft' = queryLeft /\ queryLeft \in Nat /\ sendLeft \in Nat
    BY <1>3 DEF PoolStatsReturn, PoolStatsRead, PoolAlertReturns, DaemonTypeOK
  <2>3. CASE PoolStatsReturn
    BY <2>1, <2>2, <2>3 DEF PoolStatsReturn, PoolStatsRead, StartPoolAlert, NoPoolAlert,
       AlertsLeft, Spends
  <2>4. CASE PoolAlertReturns
    BY <2>1, <2>2, <2>4 DEF PoolAlertReturns, SendReturns, AlertsLeft, Spends
  <2> QED
    BY <1>3, <2>3, <2>4
<1>4. TerminateReturns => pc' \in {"sendTermination", "rows"}
  BY DEF TerminateReturns, NextRow
<1> QED
  BY <1>1, <1>2, <1>3, <1>4, ReadingSpends, RowSpends, RowEndSpends, BeginRowSpends, ResolveSpends
     DEF PollStep

\* While the loop waits nothing but its clocks moves, and one of them runs.
LEMMA WaitingSpends ==
    ASSUME DaemonTypeOK, AtHandInv, pc \in Polling, Advance
    PROVE  TimeLeft' < TimeLeft
<1>1. /\ UNCHANGED <<pc, todo, seen, cur, tracked>>
      /\ queryLeft' = OneLess(queryLeft) /\ sendLeft' = OneLess(sendLeft)
      /\ queryLeft > 0 \/ sendLeft > 0
      /\ queryLeft \in Nat /\ sendLeft \in Nat
  BY DEF Advance, Waiting, CtxLive, loopVars, memory, Polling, Querying, Sending, Scanning, InRow,
     Exited, DaemonTypeOK
<1>2. AlertsLeft' = AlertsLeft
  BY <1>1 DEF AlertsLeft, RowAlertsLeft, Going
<1>3. SendTimeout * AlertsLeft \in Nat
  BY AlertsLeftType, FewerAlertsAreShorter, DaemonAssumption
<1> QED
  BY <1>1, <1>2, <1>3 DEF TimeLeft, OneLess

\* A step of a poll does not prolong it, and a step of time shortens it.
LEMMA PollingStep ==
    ASSUME DaemonTypeOK, ScanInv, AtHandInv, DaemonTypeOK', AtHandInv', [Next]_vars, pc \in Polling
    PROVE  TimeLeft' <= TimeLeft /\ (Advance => TimeLeft' < TimeLeft)
<1>1. TimeLeft \in Nat
  <2>1. SendTimeout * AlertsLeft \in Nat
    BY AlertsLeftType, FewerAlertsAreShorter, DaemonAssumption
  <2> QED
    BY <2>1 DEF TimeLeft, DaemonTypeOK
<1>2. Advance => TimeLeft' < TimeLeft /\ TimeLeft' <= TimeLeft
  <2> SUFFICES ASSUME Advance PROVE TimeLeft' < TimeLeft /\ TimeLeft' <= TimeLeft
    OBVIOUS
  <2>1. TimeLeft' < TimeLeft
    BY WaitingSpends
  <2>2. TimeLeft' \in Nat
    <3>1. (AlertsLeft \in Nat)'
      BY AlertsLeftType, PTL
    <3>2. SendTimeout * AlertsLeft' \in Nat
      BY <3>1, FewerAlertsAreShorter, DaemonAssumption
    <3> QED
      BY <3>2 DEF TimeLeft, DaemonTypeOK
  <2> QED
    BY <1>1, <2>1, <2>2
<1>3. pc' \notin Polling => TimeLeft' <= TimeLeft
  BY <1>1 DEF TimeLeft
<1>4. CASE PollStep
  BY <1>3, <1>4, <1>2, PollStepSpends, SpendingIsBounded
<1>5. CASE ServerStep \/ Signal \/ Cancel \/ UNCHANGED vars
  <2>1. UNCHANGED <<pc, todo, seen, cur, tracked, queryLeft, sendLeft>>
    BY <1>5 DEF ServerStep, ServerCounts, ServerTerminates, OrphanTerminates, OthersTerminate,
       Signal, Cancel,
       vars, daemonVars, loopVars, memory, budgets
  <2>2. TimeLeft' = TimeLeft
    BY <2>1 DEF TimeLeft, AlertsLeft, RowAlertsLeft, Going
  <2> QED
    BY <1>1, <1>2, <2>2
<1>6. CASE Crash \/ Restart
  <2>1. pc' \notin Polling
    BY <1>6 DEF Crash, Restart, Exit, Exited, Polling, Querying, Sending, Scanning, InRow
  <2> QED
    BY <1>2, <1>3, <2>1
<1> QED
  BY <1>2, <1>4, <1>5, <1>6 DEF Next

\* A poll begins with StartPoll.
LEMMA PollBegins ==
    ASSUME [Next]_vars, pc \notin Polling
    PROVE  StartPoll \/ pc' \notin Polling
<1> USE DEF Polling, Querying, Sending, Scanning, InRow
<1>1. CASE PollStep
  BY <1>1 DEF PollStep, StartPollInVain, QueryFails, PoolStatsReturn, PoolStatsRead,
     PoolAlertReturns,
     IdleTransactionsReturn, BeginRow, CheckWarning, WarningReturns, CheckCritical,
     CriticalReturns, SendIfDue, SendReturns, SkipTermination, RequestTermination,
     TerminateReturns, TerminateFails, TerminationAlertReturns, EndRows, ResolveQuietly,
     ResolveAnnounced, ResolvedAlertReturns, EndPoll, StopLoop, Exit, loopVars
<1>2. CASE Advance \/ ServerStep \/ Signal \/ Cancel \/ Crash \/ Restart \/ UNCHANGED vars
  BY <1>2 DEF Advance, ServerStep, ServerCounts, ServerTerminates, OrphanTerminates,
     OthersTerminate, Signal,
     Cancel, Crash, Restart, Exit, Exited, vars, daemonVars, loopVars
<1> QED
  BY <1>1, <1>2 DEF Next

\* What a poll begins with.
LEMMA NotPollingStep ==
    ASSUME DaemonTypeOK, AtHandInv, [Next]_vars, pc \notin Polling
    PROVE  TimeLeft' <= PollTimeout + SendTimeout * (1 + 3 * Cardinality(PID))
<1> USE DEF Polling, Querying, Sending, Scanning, InRow
<1> DEFINE most == 1 + 3 * Cardinality(PID)
<1>1. /\ most \in Nat /\ SendTimeout * most \in Nat /\ PollTimeout \in Nat
  <2>1. Cardinality(PID) \in Nat
    BY AlertsLeftType
  <2>2. most \in Nat
    BY <2>1
  <2> HIDE DEF most
  <2> QED
    BY <2>2, FewerAlertsAreShorter, DaemonAssumption
<1> HIDE DEF most
<1>2. CASE StartPoll
  <2>1. pc' = "stats" /\ queryLeft' = PollTimeout /\ sendLeft' = 0
    BY <1>2 DEF StartPoll, AtHandInv
  <2>2. AlertsLeft' = most
    BY <2>1 DEF AlertsLeft, most
  <2>3. TimeLeft' = PollTimeout + 0 + SendTimeout * most
    BY <2>1, <2>2 DEF TimeLeft
  <2> QED
    BY <1>1, <2>3 DEF most
<1>3. CASE pc' \notin Polling
  BY <1>1, <1>3 DEF TimeLeft, most
<1> QED
  BY <1>2, <1>3, PollBegins DEF most

LEMMA HandCorrect == Spec => [](DaemonTypeOK /\ ScanInv /\ AtHandInv)
<1>1. Init => AtHandInv
  BY FS_EmptySet DEF Init, AtHandInv, NoRow, InRow, Sending, Exited
<1> QED
  BY <1>1, AtHandStep, TypeCorrect, ScanCorrect, PTL DEF Spec

\* However the server and the channels behave, a poll is over within its
\* queries' deadline and three alerts per backend.
THEOREM PollLengthIsBounded == Spec => PollIsBounded
<1>1. DaemonTypeOK /\ ScanInv /\ AtHandInv /\ DaemonTypeOK' /\ AtHandInv' /\ [Next]_vars =>
        [IF pc \in Polling
         THEN TimeLeft' <= TimeLeft /\ (Advance => TimeLeft' < TimeLeft)
         ELSE TimeLeft' <= PollTimeout + SendTimeout * (1 + 3 * Cardinality(PID))]_vars
  BY PollingStep, NotPollingStep
<1> QED
  BY <1>1, HandCorrect, PTL DEF Spec, PollIsBounded

\* Once cancel() was called the process is gone within the time that the poll
\* under way has left.
THEOREM StopTakesNoLonger == Spec => StopIsBounded
<1> DEFINE Shrinks == TimeLeft' <= TimeLeft /\ (Advance => TimeLeft' < TimeLeft)
<1>1. ASSUME DaemonTypeOK, ScanInv, AtHandInv, DaemonTypeOK', AtHandInv', [Next]_vars,
             stop = "cancelled"
      PROVE  Shrinks
  <2>1. CASE pc \in Polling
    BY <1>1, <2>1, PollingStep
  <2>2. CASE pc \notin Polling
    <3>1. pc = "select"
      BY <1>1, <2>2 DEF AtHandInv, DaemonTypeOK, Polling, Scanning
    <3>2. ~Advance /\ ~StartPoll
      BY <1>1, <3>1 DEF Advance, Waiting, StartPoll, Querying, Sending, Exited
    <3>3. TimeLeft = 0 /\ TimeLeft' = 0
      BY <1>1, <2>2, <3>2, PollBegins DEF TimeLeft
    <3> QED
      BY <3>2, <3>3
  <2> QED
    BY <2>1, <2>2
<1> HIDE DEF Shrinks
<1>2. DaemonTypeOK /\ ScanInv /\ AtHandInv /\ DaemonTypeOK' /\ AtHandInv' /\ [Next]_vars =>
        [stop = "cancelled" => Shrinks]_vars
  BY <1>1
<1> QED
  BY <1>2, HandCorrect, PTL DEF Spec, StopIsBounded, Shrinks
=============================================================================
