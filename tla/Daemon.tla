------------------------------- MODULE Daemon -------------------------------
(***************************************************************************)
(* pguard daemon (internal/cli/daemon.go) next to the PostgreSQL server it *)
(* watches: monitorLoop and pollAndAlert, one action per blocking call or  *)
(* branch, with the context deadline the calls of a poll share, the time   *)
(* the alert channels take, the signal goroutine, and the crash and        *)
(* restart of the process.                                                 *)
(*                                                                         *)
(* Time is discrete.  Advance moves every clock at once, and only while    *)
(* the loop's goroutine waits: in select, on a reply of the server, or on  *)
(* an alert channel.  Code between two waits takes no time.                *)
(***************************************************************************)
EXTENDS PgActivity, TerminationPolicy, PoolUsage

CONSTANTS
    Interval,           \* polling.interval
    PollTimeout,        \* polling.timeout: the budget of a poll's queries
    SendTimeout,        \* the longest one alert blocks: 10s a channel, in turn
    IdleWarning,        \* thresholds.idle_transaction.warning
    IdleCritical,       \* thresholds.idle_transaction.critical
    Cooldown,           \* alerts.cooldown
    AutoTermEnabled,    \* auto_terminate.enabled
    After,              \* auto_terminate.after
    DryRun,             \* auto_terminate.dry_run
    ClockSkew,          \* the daemon's clock minus the server's
    Faults              \* bound: which of "signal" (SIGTERM), "crash", "orphan" (an
                        \* abandoned statement runs later) and "others" (somebody
                        \* else terminates backends) may happen

\* NewTicker panics at interval <= 0; Validate rejects warning >= critical
\* and bounds nothing else.  Horizon must tell the thresholds apart.
ASSUME DaemonAssumption ==
    /\ Interval \in Nat \ {0}
    /\ PollTimeout \in Nat
    /\ SendTimeout \in Nat
    /\ Cooldown \in Nat
    /\ IdleWarning \in Int
    /\ IdleCritical \in Int
    /\ IdleWarning < IdleCritical
    /\ After \in Int
    /\ ClockSkew \in Int
    /\ AutoTermEnabled \in BOOLEAN
    /\ DryRun \in BOOLEAN
    /\ \A t \in {IdleWarning, IdleCritical, After}
                \cup {ProtectedApps[i].min : i \in DOMAIN ProtectedApps} :
          t - ClockSkew <= Horizon
    /\ PollTimeout < Horizon
    /\ Faults \subseteq {"signal", "crash", "orphan", "others"}

VARIABLES
    pc,             \* where the loop's goroutine is (see Querying, Sending)
    tick,           \* ticker.C holds a tick (its buffer is one)
    nextTick,       \* time until the ticker fires
    queryLeft,      \* time until the deadline of queryCtx; 0 outside a poll
    sendLeft,       \* time until the alert being sent times out
    todo,           \* rows of the snapshot the loop has not reached
    seen,           \* seenPIDs
    elapsed,        \* time since the snapshot was taken, up to Horizon
    cur,            \* the row, or in the resolve loop the pid, being handled
    tracked,        \* the keys of tracked
    warningSent,    \* pids whose entry has warningSent
    criticalSent,   \* pids whose entry has criticalSent
    sincePool,      \* time since the last pool alert, per severity, up to Cooldown
    counts,         \* what the server counted for GetPoolStats, or NoCounts
    kill,           \* the terminate request: "none", "sent", or the server's answer
    orphans,        \* pids of given-up terminate requests the server may still run
    stop            \* "running", "draining" (Shutdown), "cancelled" (cancel called)

loopVars   == <<pc, todo, seen, cur>>
memory     == <<tracked, warningSent, criticalSent>>
timers     == <<tick, nextTick, elapsed>>
budgets    == <<queryLeft, sendLeft>>
poolVars   == <<sincePool, counts>>
killVars   == <<kill, orphans>>
daemonVars == <<loopVars, memory, timers, budgets, poolVars, killVars, stop>>
vars       == <<pgVars, daemonVars>>

Querying == {"stats", "idle", "terminate"}
Sending  == {"sendPool", "sendWarning", "sendCritical", "sendTermination", "sendResolved"}
InRow    == {"warning", "sendWarning", "critical", "sendCritical",
             "autoTerminate", "terminate", "sendTermination"}
Scanning == InRow \cup {"rows", "resolve", "sendResolved"}
Exited   == {"stopped", "down"}

NoRow == [pid |-> NoPid, client |-> NoClient, dur |-> 0]

\* The server has not counted: no group has been read.
NoCounts == [read \in {{}} |-> 0]

SnapshotRow == [pid : PID, client : Client \cup {NoClient}, idle : Age]

DaemonTypeOK ==
    /\ PgTypeOK
    /\ pc \in {"select"} \cup Querying \cup Sending \cup Scanning \cup Exited
    /\ tick \in BOOLEAN
    /\ nextTick \in 1 .. Interval
    /\ queryLeft \in 0 .. PollTimeout
    /\ sendLeft \in 0 .. SendTimeout
    /\ todo \subseteq SnapshotRow
    /\ seen \subseteq PID
    /\ elapsed \in Age
    /\ cur \in [pid : PID \cup {NoPid}, client : Client \cup {NoClient}, dur : Int]
    /\ tracked \subseteq PID
    /\ warningSent \subseteq PID
    /\ criticalSent \subseteq PID
    /\ sincePool \in [Severity -> 0 .. Cooldown]
    /\ counts \in {NoCounts} \cup [SUBSET BackendState -> Nat]
    /\ kill \in {"none", "sent", "true", "false"}
    /\ orphans \subseteq PID
    /\ stop \in {"running", "draining", "cancelled"}
    /\ pc \in InRow \cup {"sendResolved"} => cur.pid \in PID
    /\ kill # "none" => pc = "terminate"
    /\ counts # NoCounts => pc = "stats"

\* A new process: the zero times of alertCooldown are long ago.
Init ==
    /\ PgInit
    /\ pc = "select"
    /\ tick = FALSE
    /\ nextTick = Interval
    /\ queryLeft = 0
    /\ sendLeft = 0
    /\ todo = {}
    /\ seen = {}
    /\ elapsed = 0
    /\ cur = NoRow
    /\ tracked = {}
    /\ warningSent = {}
    /\ criticalSent = {}
    /\ sincePool = [s \in Severity |-> Cooldown]
    /\ counts = NoCounts
    /\ kill = "none"
    /\ orphans = {}
    /\ stop = "running"

-----------------------------------------------------------------------------
(* Time.                                                                   *)

\* Faulty: queryCtx derived from context.Background().
CtxLive_Detached == queryLeft > 0

\* Faulty: the queries run in the parent context, without a deadline.
CtxLive_NoDeadline == stop # "cancelled"

\* queryCtx.Err() = nil: neither its deadline nor cancel() has come.
CtxLive == queryLeft > 0 /\ stop # "cancelled"

\* The goroutine waits, and may go on waiting.
Waiting ==
    \/ pc = "select" /\ ~tick /\ stop # "cancelled"
    \/ pc \in Querying /\ CtxLive
    \/ pc \in Sending /\ sendLeft > 0
    \/ pc \in Exited

\* Faulty: a deadline that has passed keeps counting.
OneLess_Unbounded(n) == n - 1

OneLess(n) == IF n > 0 THEN n - 1 ELSE 0

TickerRuns ==
    IF pc \in Exited
    THEN UNCHANGED <<tick, nextTick>>
    ELSE /\ nextTick' = IF nextTick = 1 THEN Interval ELSE nextTick - 1
         /\ tick' = (tick \/ nextTick = 1)

\* Faulty: one unit too many.
CooldownAged_OffByOne ==
    [s \in Severity |-> IF sincePool[s] <= Cooldown THEN sincePool[s] + 1 ELSE Cooldown]

CooldownAged ==
    [s \in Severity |-> IF sincePool[s] < Cooldown THEN sincePool[s] + 1 ELSE Cooldown]

Advance ==
    /\ Waiting
    /\ activity' = Aged
    /\ TickerRuns
    /\ queryLeft' = OneLess(queryLeft)
    /\ sendLeft' = OneLess(sendLeft)
    /\ elapsed' = IF pc \in Scanning THEN Sat(elapsed + 1) ELSE 0
    /\ sincePool' = CooldownAged
    /\ UNCHANGED <<signalled, loopVars, memory, counts, killVars, stop>>

-----------------------------------------------------------------------------
(* monitorLoop and the pool half of pollAndAlert.                          *)

\* The locals of pollAndAlert are gone.
PollEnds ==
    /\ queryLeft' = 0
    /\ todo' = {}
    /\ seen' = {}
    /\ elapsed' = 0
    /\ cur' = NoRow
    /\ counts' = NoCounts

\* The poll returns; the loop goes back to select.
PollReturns == pc' = "select" /\ PollEnds

\* Faulty: select does not look at Done.
StartPoll_Late ==
    /\ pc = "select"
    /\ tick
    /\ tick' = FALSE
    /\ pc' = "stats"
    /\ queryLeft' = PollTimeout
    /\ UNCHANGED <<pgVars, todo, seen, cur, memory, nextTick, elapsed, sendLeft,
                   poolVars, killVars, stop>>

\* A tick is taken from the ticker and queryCtx starts.
StartPoll ==
    /\ pc = "select"
    /\ tick
    /\ tick' = FALSE
    /\ stop # "cancelled"
    /\ PollTimeout > 0
    /\ pc' = "stats"
    /\ queryLeft' = PollTimeout
    /\ UNCHANGED <<pgVars, todo, seen, cur, memory, nextTick, elapsed, sendLeft,
                   poolVars, killVars, stop>>

\* select may also take a tick after cancel(): the first query then fails.
StartPollInVain ==
    /\ pc = "select"
    /\ tick
    /\ tick' = FALSE
    /\ stop = "cancelled" \/ PollTimeout = 0
    /\ UNCHANGED <<pgVars, loopVars, memory, nextTick, elapsed, budgets,
                   poolVars, killVars, stop>>

\* Faulty: the error of GetIdleTransactions is dropped, and no rows are no
\* transactions.
QueryFails_Ignored ==
    /\ pc = "idle"
    /\ pc' = "rows"
    /\ UNCHANGED <<pgVars, todo, seen, cur, memory, timers, budgets, poolVars, killVars, stop>>

\* Faulty: a failed poll starts over with an empty map.
QueryFails_Forgets ==
    /\ pc \in {"stats", "idle"}
    /\ PollReturns
    /\ tracked' = {}
    /\ warningSent' = {}
    /\ criticalSent' = {}
    /\ UNCHANGED <<pgVars, tick, nextTick, sendLeft, sincePool, killVars, stop>>

\* GetPoolStats or GetIdleTransactions fails, for whatever reason: the poll
\* is given up and tracked stays as it is.
QueryFails ==
    /\ pc \in {"stats", "idle"}
    /\ PollReturns
    /\ UNCHANGED <<pgVars, memory, tick, nextTick, sendLeft, sincePool, killVars, stop>>

\* Faulty: an alert may follow before the cooldown is over.
canSendPoolAlert_Early(severity) ==
    severity \in Severity /\ sincePool[severity] + SendTimeout + 1 >= Cooldown

canSendPoolAlert(severity) == severity \in Severity /\ sincePool[severity] >= Cooldown

\* canSendPoolAlert records the time before the alert is sent.
StartPoolAlert(severity) ==
    /\ canSendPoolAlert(severity)
    /\ sincePool' = [sincePool EXCEPT ![severity] = 0]
    /\ pc' = "sendPool"
    /\ sendLeft' = SendTimeout

NoPoolAlert(severity) ==
    /\ ~canSendPoolAlert(severity)
    /\ pc' = "idle"
    /\ UNCHANGED <<sincePool, sendLeft>>

\* The server runs the last statement of GetPoolStats: what each part of the
\* answer adds up to is settled, and the answer is on its way.
ServerCounts ==
    /\ pc = "stats"
    /\ CtxLive
    /\ counts = NoCounts
    /\ counts' = [read \in SUBSET BackendState |-> CountOf(read)]
    /\ UNCHANGED <<pgVars, loopVars, memory, timers, budgets, sincePool, killVars, stop>>

\* Faulty: the pool is graded by the connections at work.
PoolStatsRead_Busy(read) ==
    /\ pc = "stats"
    /\ read \in DOMAIN counts
    /\ \E severity \in PoolSeverity(counts[read \ {"idleInTx"}]) :
          StartPoolAlert(severity) \/ NoPoolAlert(severity)
    /\ counts' = NoCounts
    /\ UNCHANGED <<pgVars, todo, seen, cur, memory, timers, queryLeft, killVars, stop>>

\* GetPoolStats returns without error what it has read.
PoolStatsRead(read) ==
    /\ pc = "stats"
    /\ read \in DOMAIN counts
    /\ \E severity \in PoolSeverity(counts[read]) :
          StartPoolAlert(severity) \/ NoPoolAlert(severity)
    /\ counts' = NoCounts
    /\ UNCHANGED <<pgVars, todo, seen, cur, memory, timers, queryLeft, killVars, stop>>

\* That is all of it only in time.  The result is read with rows.Next and no
\* rows.Err: when reading breaks off, the groups read so far are taken for it.
PoolStatsReturn ==
    \E read \in SUBSET BackendState : (CtxLive \/ read # BackendState) /\ PoolStatsRead(read)

\* Faulty: an alert that timed out is sent once more, again and again.
SendReturns_Retried(at, next) ==
    /\ pc = at
    /\ \/ pc' = next /\ sendLeft' = 0
       \/ UNCHANGED pc /\ sendLeft = 0 /\ sendLeft' = SendTimeout

\* Faulty: no Timeout on the HTTP client.
SendReturns_NoTimeout(at, next) ==
    /\ pc = at
    /\ sendLeft > 0
    /\ pc' = next
    /\ sendLeft' = 0

\* An alert ends: delivered, refused or timed out, which only the log tells.
SendReturns(at, next) ==
    /\ pc = at
    /\ pc' = next
    /\ sendLeft' = 0

PoolAlertReturns ==
    /\ SendReturns("sendPool", "idle")
    /\ UNCHANGED <<pgVars, todo, seen, cur, memory, timers, queryLeft, poolVars,
                   killVars, stop>>

-----------------------------------------------------------------------------
(* The idle-transaction half of pollAndAlert.                              *)

IdleTransactionsReturn ==
    /\ pc = "idle"
    /\ CtxLive
    /\ todo' = IdleRows
    /\ pc' = "rows"
    /\ UNCHANGED <<pgVars, seen, cur, memory, timers, budgets, poolVars, killVars, stop>>

\* ORDER BY state_change DESC: the youngest spell comes first.
Youngest(r) == \A s \in todo : r.idle <= s.idle

\* Time the daemon's clock, at this row's turn, is past the server's
\* state_change.
IdleDuration(r) == Sat(r.idle + elapsed) + ClockSkew

BeginRow(r) ==
    /\ pc = "rows"
    /\ Youngest(r)
    /\ todo' = todo \ {r}
    /\ seen' = seen \cup {r.pid}
    /\ tracked' = tracked \cup {r.pid}
    /\ cur' = [pid |-> r.pid, client |-> r.client, dur |-> IdleDuration(r)]
    /\ pc' = "warning"
    /\ UNCHANGED <<pgVars, warningSent, criticalSent, timers, budgets, poolVars,
                   killVars, stop>>

\* Faulty: > for >=.
WarningDue_Strict == cur.pid \notin warningSent /\ cur.dur > IdleWarning

\* Faulty: only at the threshold, not past it.
WarningDue_Exact == cur.pid \notin warningSent /\ cur.dur = IdleWarning

\* Faulty: critical else warning, as for the pool.
WarningDue_Else == /\ cur.pid \notin warningSent
                   /\ cur.dur >= IdleWarning
                   /\ cur.dur < IdleCritical

WarningDue  == cur.pid \notin warningSent /\ cur.dur >= IdleWarning
CriticalDue == cur.pid \notin criticalSent /\ cur.dur >= IdleCritical

\* if due then send, and go to the next block of the row.
SendIfDue(due, at, send, next) ==
    /\ pc = at
    /\ \/ due /\ pc' = send /\ sendLeft' = SendTimeout
       \/ ~due /\ pc' = next /\ UNCHANGED sendLeft
    /\ UNCHANGED <<pgVars, todo, seen, cur, memory, timers, queryLeft, poolVars,
                   killVars, stop>>

CheckWarning  == SendIfDue(WarningDue, "warning", "sendWarning", "critical")
CheckCritical == SendIfDue(CriticalDue, "critical", "sendCritical", "autoTerminate")

\* The flag is set whether or not the alert got through.
WarningReturns ==
    /\ SendReturns("sendWarning", "critical")
    /\ warningSent' = warningSent \cup {cur.pid}
    /\ UNCHANGED <<pgVars, todo, seen, cur, tracked, criticalSent, timers, queryLeft,
                   poolVars, killVars, stop>>

CriticalReturns ==
    /\ SendReturns("sendCritical", "autoTerminate")
    /\ criticalSent' = criticalSent \cup {cur.pid}
    /\ UNCHANGED <<pgVars, todo, seen, cur, tracked, warningSent, timers, queryLeft,
                   poolVars, killVars, stop>>

\* Faulty: only in the poll that first finds it critical.
TerminationDue_Once ==
    /\ AutoTermEnabled
    /\ cur.dur >= After
    /\ cur.pid \notin criticalSent
    /\ ShouldTerminate(cur.client, cur.dur)
    /\ ~DryRun

TerminationDue ==
    /\ AutoTermEnabled
    /\ cur.dur >= After
    /\ ShouldTerminate(cur.client, cur.dur)
    /\ ~DryRun

NextRow ==
    /\ pc' = "rows"
    /\ cur' = NoRow

\* No termination, or one that fails before it is sent: queryCtx is done.
SkipTermination ==
    /\ pc = "autoTerminate"
    /\ TerminationDue => ~CtxLive
    /\ NextRow
    /\ UNCHANGED <<pgVars, todo, seen, memory, timers, budgets, poolVars, killVars, stop>>

RequestTermination ==
    /\ pc = "autoTerminate"
    /\ TerminationDue
    /\ CtxLive
    /\ pc' = "terminate"
    /\ kill' = "sent"
    /\ UNCHANGED <<pgVars, todo, seen, cur, memory, timers, budgets, poolVars, orphans, stop>>

\* The server runs the statement; the reply is on its way.
ServerTerminates ==
    /\ kill = "sent"
    /\ PgTerminate(cur.pid)
    /\ kill' = IF Present(cur.pid) THEN "true" ELSE "false"
    /\ UNCHANGED <<loopVars, memory, timers, budgets, poolVars, orphans, stop>>

TerminateReturns ==
    /\ pc = "terminate"
    /\ CtxLive
    /\ kill' = "none"
    /\ \/ kill = "true" /\ pc' = "sendTermination" /\ sendLeft' = SendTimeout /\ UNCHANGED cur
       \/ kill = "false" /\ NextRow /\ UNCHANGED sendLeft
    /\ UNCHANGED <<pgVars, todo, seen, memory, timers, queryLeft, poolVars, orphans, stop>>

\* What becomes of a request nobody waits for any more.
Abandon ==
    /\ kill' = "none"
    /\ \/ UNCHANGED orphans
       \/ "orphan" \in Faults /\ kill = "sent" /\ orphans' = orphans \cup {cur.pid}

\* Faulty: the error is logged, and the result not looked at.
TerminateFails_Announced ==
    /\ pc = "terminate"
    /\ Abandon
    /\ pc' = "sendTermination"
    /\ sendLeft' = SendTimeout
    /\ UNCHANGED <<pgVars, todo, seen, cur, memory, timers, queryLeft, poolVars, stop>>

\* The deadline, cancel() or a broken connection ends the wait; the error is
\* logged and the loop goes on.
TerminateFails ==
    /\ pc = "terminate"
    /\ Abandon
    /\ NextRow
    /\ UNCHANGED <<pgVars, todo, seen, memory, timers, budgets, poolVars, stop>>

TerminationAlertReturns ==
    /\ SendReturns("sendTermination", "rows")
    /\ cur' = NoRow
    /\ UNCHANGED <<pgVars, todo, seen, memory, timers, queryLeft, poolVars, killVars, stop>>

-----------------------------------------------------------------------------
(* The resolve loop of pollAndAlert; a map is iterated in any order.       *)

EndRows ==
    /\ pc = "rows"
    /\ todo = {}
    /\ pc' = "resolve"
    /\ UNCHANGED <<pgVars, todo, seen, cur, memory, timers, budgets, poolVars, killVars, stop>>

\* Faulty: an entry that was alerted is never dropped.
Vanished_Quiet == tracked \ (seen \cup warningSent)

Vanished == tracked \ seen

\* Faulty: every entry that goes is reported.
Announced_Always(p) == TRUE

Announced(p) == p \in warningSent \cup criticalSent

Forget(p) ==
    /\ tracked' = tracked \ {p}
    /\ warningSent' = warningSent \ {p}
    /\ criticalSent' = criticalSent \ {p}

ResolveQuietly(p) ==
    /\ pc = "resolve"
    /\ p \in Vanished
    /\ ~Announced(p)
    /\ Forget(p)
    /\ UNCHANGED <<pgVars, loopVars, timers, budgets, poolVars, killVars, stop>>

ResolveAnnounced(p) ==
    /\ pc = "resolve"
    /\ p \in Vanished
    /\ Announced(p)
    /\ pc' = "sendResolved"
    /\ sendLeft' = SendTimeout
    /\ cur' = [NoRow EXCEPT !.pid = p]
    /\ UNCHANGED <<pgVars, todo, seen, memory, timers, queryLeft, poolVars, killVars, stop>>

ResolvedAlertReturns ==
    /\ SendReturns("sendResolved", "resolve")
    /\ Forget(cur.pid)
    /\ cur' = NoRow
    /\ UNCHANGED <<pgVars, todo, seen, timers, queryLeft, poolVars, killVars, stop>>

\* Faulty: the poll ends before everything is resolved.
EndPoll_Leaves ==
    /\ pc = "resolve"
    /\ PollReturns
    /\ UNCHANGED <<pgVars, memory, tick, nextTick, sendLeft, sincePool, killVars, stop>>

EndPoll ==
    /\ pc = "resolve"
    /\ Vanished = {}
    /\ PollReturns
    /\ UNCHANGED <<pgVars, memory, tick, nextTick, sendLeft, sincePool, killVars, stop>>

-----------------------------------------------------------------------------
(* The signal goroutine, and the life of the process.                      *)

Signal ==
    /\ "signal" \in Faults
    /\ stop = "running"
    /\ pc \notin Exited
    /\ stop' = "draining"
    /\ UNCHANGED <<pgVars, loopVars, memory, timers, budgets, poolVars, killVars>>

\* Faulty: cancel() is not called.
Cancel_Missing ==
    /\ stop = "draining"
    /\ UNCHANGED vars

\* httpServer.Shutdown returned, at the latest after its 5s: cancel().
Cancel ==
    /\ stop = "draining"
    /\ stop' = "cancelled"
    /\ UNCHANGED <<pgVars, loopVars, memory, timers, budgets, poolVars, killVars>>

\* The process is gone, and its memory with it.
Exit(how) ==
    /\ pc' = how
    /\ PollEnds
    /\ tick' = FALSE
    /\ nextTick' = Interval
    /\ sendLeft' = 0
    /\ tracked' = {}
    /\ warningSent' = {}
    /\ criticalSent' = {}
    /\ sincePool' = [s \in Severity |-> Cooldown]
    /\ stop' = "running"
    /\ UNCHANGED pgVars

StopLoop ==
    /\ pc = "select"
    /\ stop = "cancelled"
    /\ Exit("stopped")
    /\ UNCHANGED killVars

Crash ==
    /\ "crash" \in Faults
    /\ pc \notin Exited
    /\ Exit("down")
    /\ Abandon

\* The service manager starts the process again.
Restart ==
    /\ pc \in Exited
    /\ pc' = "select"
    /\ UNCHANGED <<pgVars, todo, seen, cur, memory, timers, budgets, poolVars,
                   killVars, stop>>

\* An abandoned request is executed after all.
OrphanTerminates(p) ==
    /\ p \in orphans
    /\ PgTerminate(p)
    /\ orphans' = orphans \ {p}
    /\ UNCHANGED <<loopVars, memory, timers, budgets, poolVars, kill, stop>>

\* pguard kill beside the daemon, or anybody's pg_terminate_backend.
OthersTerminate(p) ==
    /\ "others" \in Faults
    /\ PgTerminate(p)
    /\ UNCHANGED daemonVars

-----------------------------------------------------------------------------
PollStep ==
    \/ StartPoll \/ StartPollInVain \/ QueryFails
    \/ PoolStatsReturn \/ PoolAlertReturns
    \/ IdleTransactionsReturn
    \/ \E r \in todo : BeginRow(r)
    \/ CheckWarning \/ WarningReturns
    \/ CheckCritical \/ CriticalReturns
    \/ SkipTermination \/ RequestTermination \/ TerminateReturns \/ TerminateFails
    \/ TerminationAlertReturns
    \/ EndRows
    \/ \E p \in PID : ResolveQuietly(p) \/ ResolveAnnounced(p)
    \/ ResolvedAlertReturns
    \/ EndPoll
    \/ StopLoop

ServerStep ==
    \/ PgNext /\ UNCHANGED daemonVars
    \/ ServerCounts \/ ServerTerminates
    \/ \E p \in PID : OrphanTerminates(p) \/ OthersTerminate(p)

Next == Advance \/ PollStep \/ ServerStep \/ Signal \/ Cancel \/ Crash \/ Restart

Spec == Init /\ [][Next]_vars

(***************************************************************************)
(* Fairness.  The goroutine is scheduled and its clocks run; Shutdown      *)
(* returns.  Nothing is assumed of the server: a reply that does not come  *)
(* ends in the deadline, which PollStep includes.                          *)
(***************************************************************************)
Fairness == WF_vars(Advance) /\ WF_vars(PollStep) /\ WF_vars(Cancel)

FairSpec == Spec /\ Fairness

\* In addition the server is reachable: queries asked again and again in
\* time are at some point answered, and a signalled backend exits.
ServerFairness ==
    /\ SF_vars(ServerCounts)
    /\ SF_vars(CtxLive /\ PoolStatsRead(BackendState))
    /\ SF_vars(IdleTransactionsReturn)
    /\ \A p \in PID :
          /\ SF_vars(CtxLive /\ cur.pid = p /\ ServerTerminates)
          /\ SF_vars(cur.pid = p /\ TerminateReturns)
          /\ WF_vars(p \in signalled /\ BackendExits(p) /\ UNCHANGED daemonVars)

ReachableSpec == FairSpec /\ ServerFairness

-----------------------------------------------------------------------------
(* Properties.                                                             *)

\* p has been idle in transaction, without a break, since before the
\* snapshot the poll works from.  (Meaningful while pc \in Scanning.)
SameSpell(p) == IsIdleInTransaction(p) /\ activity[p].age > elapsed

\* A terminate request rests on a policy that allows it and on a snapshot at
\* most PollTimeout old, however long the alerts before it took; and if the
\* backend is still in the spell the snapshot saw, it has really been idle
\* for auto_terminate.after by the server's clock, and the policy, applied to
\* the client and the age it has by now, does not spare it.
KillRequestJustified ==
    pc = "terminate" =>
        /\ AutoTermEnabled /\ ~DryRun
        /\ ShouldTerminate(cur.client, cur.dur)
        /\ elapsed <= PollTimeout
        /\ SameSpell(cur.pid) =>
              LET now == activity[cur.pid] IN
              now.age + ClockSkew >= After /\ ShouldTerminate(now.client, now.age + ClockSkew)

\* A backend that is said to be terminated has been signalled, or is no longer
\* in the spell the snapshot saw: no answer is not taken for a yes.
AnnouncedIsSignalled ==
    pc = "sendTermination" /\ SameSpell(cur.pid) => cur.pid \in signalled

\* "Resolved" is never said of a transaction that has been idle since before
\* the snapshot, whatever queries failed and however late it is said.
ResolvedMeansGone == pc = "sendResolved" => ~SameSpell(cur.pid)

\* A scan that gets to its end has raised every alert that was due: what was
\* past a threshold at the snapshot and is still idle has its flag set.
OverdueIsFlagged ==
    pc \in {"resolve", "sendResolved"} =>
        \A p \in PID : SameSpell(p) =>
            /\ activity[p].age - elapsed + ClockSkew >= IdleWarning => p \in warningSent
            /\ activity[p].age - elapsed + ClockSkew >= IdleCritical => p \in criticalSent

\* A critical alert is never the first word on a pid: the daemon tracks the
\* pid and has sent its warning.
CriticalFollowsWarning ==
    /\ criticalSent \subseteq warningSent
    /\ warningSent \subseteq tracked
    /\ pc = "sendCritical" => cur.pid \in warningSent

\* deploy/README.md: "exclude_apps: # Never kill these".
ExcludedNeverKilled == \A p \in signalled : ~Excluded(activity[p].client)

\* The server never sees a statement of a poll after cancel(): rows already
\* read are still handled, but nothing new is asked.
NoQueryAfterCancel ==
    [][stop = "cancelled" => /\ kill' = "sent" => kill = "sent"
                             /\ todo' \subseteq todo
                             /\ pc' = "stats" => pc = "stats"]_vars

Polling == Querying \cup Sending \cup Scanning

\* Tracked pids that the rest of the scan will not meet.
Going == tracked \ (seen \cup {r.pid : r \in todo})

\* The alerts the row at hand may still send.
RowAlertsLeft ==
    CASE pc = "warning"                                      -> 3
      [] pc \in {"sendWarning", "critical"}                  -> 2
      [] pc \in {"sendCritical", "autoTerminate", "terminate"} -> 1
      [] OTHER                                               -> 0

\* The alerts the poll may still send: one for the pool, three for a row, and
\* one for a pid that is gone.
AlertsLeft ==
    CASE pc = "stats"                -> 1 + 3 * Cardinality(PID)
      [] pc \in {"sendPool", "idle"} -> 3 * Cardinality(PID)
      [] OTHER -> 3 * Cardinality(todo) + RowAlertsLeft + Cardinality(Going \ {cur.pid})

\* How long the poll may still last: its queries share one deadline, and each
\* alert has its own.
TimeLeft ==
    IF pc \in Polling THEN queryLeft + sendLeft + SendTimeout * AlertsLeft ELSE 0

\* A poll takes no longer than its queries and three alerts per backend may,
\* whatever the server and the channels do: that is what it begins with,
\* TimeLeft is never prolonged, and every unit of time uses some of it up.
PollIsBounded ==
    [][IF pc \in Polling
       THEN TimeLeft' <= TimeLeft /\ (Advance => TimeLeft' < TimeLeft)
       ELSE TimeLeft' <= PollTimeout + SendTimeout * (1 + 3 * Cardinality(PID))]_vars

\* After cancel() no poll begins and nothing is prolonged: the process is gone
\* when the poll under way, if there is one, has used up what it had left.
StopIsBounded ==
    [][stop = "cancelled" => TimeLeft' <= TimeLeft /\ (Advance => TimeLeft' < TimeLeft)]_vars

\* Whatever the server and the alert channels do, a poll ends: the loop is
\* back at select again and again.
PollAlwaysReturns == []<>(pc \in {"select"} \cup Exited)

\* A stop signal ends the process, from wherever the loop is.
ShutdownCompletes == stop # "running" ~> pc \in Exited

\* A transaction that stays idle past the warning threshold is flagged.
LongIdleIsFlagged ==
    \A p \in PID : IsIdleInTransaction(p) ~> (p \in warningSent \/ ~IsIdleInTransaction(p))

\* A flagged pid that is no longer idle is forgotten, unless it goes idle again.
FlagsAreCleared ==
    \A p \in PID : Announced(p) ~> (~Announced(p) \/ IsIdleInTransaction(p))

PoolIsCritical ==
    \E n \in 0 .. Cardinality(PID) :
        n = CountOf(BackendState) /\ FALSE \notin Reaches(n, CriticalPercent)

\* A pool that stays critical is reported as that, although statistics may be cut
\* off or late and the cooldown refuses alerts in between.
PoolPressureIsReported ==
    PoolIsCritical ~> (~PoolIsCritical \/ (pc = "sendPool" /\ sincePool["critical"] = 0))

\* deploy/README.md: "after: 5m # Kill after 5 minutes".
StuckIsTerminated ==
    \A p \in PID : IsIdleInTransaction(p) ~> ~IsIdleInTransaction(p)
=============================================================================
