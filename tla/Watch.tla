-------------------------------- MODULE Watch -------------------------------
(***************************************************************************)
(* pguard watch (internal/cli/watch.go): a polling loop of its own, with a *)
(* first poll before the first tick, events printed instead of sent, and   *)
(* no configuration but the thresholds.                                    *)
(***************************************************************************)
EXTENDS IdleThresholds

CONSTANTS
    WatchInterval,  \* --interval
    WatchTimeout    \* the budget of a poll's queries: 5s

\* NewTicker panics at an interval that is not positive.
ASSUME WatchAssumption ==
    /\ WatchInterval \in Nat \ {0}
    /\ WatchTimeout \in Nat

VARIABLES
    wpc,        \* "none", "connect", "stats", "idle", "rows", "warning", "critical",
                \* "resolve", "select", "stopped"
    wtick,      \* ticker.C holds a tick
    wnext,      \* time until the ticker fires
    wleft,      \* time until the deadline of queryCtx
    wcancelled, \* cancel was called
    wtodo,      \* rows of the reading not reached yet
    wseen,      \* seenPIDs
    wsince,     \* time since the reading, up to Horizon
    wcur,       \* the row at hand: its pid and its idle time
    wtracked,   \* the keys of tracked
    wwarned,    \* pids whose entry has warningSent
    wcritical   \* pids whose entry has criticalSent

wclock    == <<wtick, wnext>>
wreading  == <<wtodo, wseen, wsince>>
wmemory   == <<wtracked, wwarned, wcritical>>
watchVars == <<wpc, wclock, wleft, wcancelled, wreading, wcur, wmemory>>

NoWatchRow == [pid |-> NoPid, dur |-> 0]

InWatchRow == {"warning", "critical"}

\* A reading is being worked through.
WatchScanning == InWatchRow \cup {"rows", "resolve"}

WatchTypeOK ==
    /\ wpc \in {"none", "connect", "stats", "idle", "rows", "resolve", "select", "stopped"}
                \cup InWatchRow
    /\ wtick \in BOOLEAN
    /\ wnext \in 1 .. WatchInterval
    /\ wleft \in 0 .. WatchTimeout
    /\ wcancelled \in BOOLEAN
    /\ wtodo \subseteq [pid : PID, idle : Age]
    /\ wseen \subseteq PID
    /\ wsince \in Age
    /\ wcur \in [pid : PID \cup {NoPid}, dur : Int]
    /\ wtracked \subseteq PID
    /\ wcritical \subseteq wwarned
    /\ wwarned \subseteq wtracked

WatchInit ==
    /\ wpc = "none"
    /\ wtick = FALSE
    /\ wnext = WatchInterval
    /\ wleft = 0
    /\ wcancelled = FALSE
    /\ wtodo = {}
    /\ wseen = {}
    /\ wsince = 0
    /\ wcur = NoWatchRow
    /\ wtracked = {}
    /\ wwarned = {}
    /\ wcritical = {}

-----------------------------------------------------------------------------
RunWatch ==
    /\ wpc = "none"
    /\ wpc' = "connect"
    /\ UNCHANGED <<wclock, wleft, wcancelled, wreading, wcur, wmemory>>

\* pollOnce is entered: with a context that is already done, it only fails.
BeginWatchPoll ==
    /\ wpc' = "stats"
    /\ wleft' = IF wcancelled THEN 0 ELSE WatchTimeout

\* NewClient succeeds: the ticker is made, and the first poll does not wait
\* for it.
WatchConnects ==
    /\ wpc = "connect"
    /\ BeginWatchPoll
    /\ UNCHANGED <<wclock, wcancelled, wreading, wcur, wmemory>>

\* The process is over; what it printed is still on the screen.
WatchEnds(at) ==
    /\ wpc = at
    /\ wpc' = "stopped"
    /\ wtick' = FALSE
    /\ wnext' = WatchInterval
    /\ wcancelled' = FALSE
    /\ UNCHANGED <<wleft, wreading, wcur, wmemory>>

WatchConnectFails == WatchEnds("connect")

\* The poll returns to select.
WatchPollReturns ==
    /\ wpc' = "select"
    /\ wleft' = 0
    /\ wtodo' = {}
    /\ wseen' = {}
    /\ wsince' = 0
    /\ wcur' = NoWatchRow

\* Faulty: after an error of GetIdleTransactions the poll goes on, without
\* rows.
WatchQueryFails_GoesOn ==
    /\ wpc \in {"stats", "idle"}
    /\ wpc' = "rows"
    /\ wleft' = 0
    /\ UNCHANGED <<wclock, wcancelled, wreading, wcur, wmemory>>

\* Either query fails, for whatever reason: pollOnce returns the error, which
\* is printed.
WatchQueryFails ==
    /\ wpc \in {"stats", "idle"}
    /\ WatchPollReturns
    /\ UNCHANGED <<wclock, wcancelled, wmemory>>

\* GetPoolStats returns, perhaps with a last result that was cut off.
WatchStatsReturn ==
    /\ wpc = "stats"
    /\ wpc' = "idle"
    /\ UNCHANGED <<wclock, wleft, wcancelled, wreading, wcur, wmemory>>

WatchRowsReturn ==
    /\ wpc = "idle"
    /\ wleft > 0
    /\ ~wcancelled
    /\ wtodo' = {[pid |-> r.pid, idle |-> r.idle] : r \in IdleRows}
    /\ wsince' = 0
    /\ wleft' = 0
    /\ wpc' = "rows"
    /\ UNCHANGED <<wclock, wcancelled, wseen, wcur, wmemory>>

\* The next row, the youngest spell first; it gets its idle time now.
TakeWatchRow(r) ==
    /\ wpc = "rows"
    /\ \A s \in wtodo : r.idle <= s.idle
    /\ wtodo' = wtodo \ {r}
    /\ wseen' = wseen \cup {r.pid}
    /\ wcur' = [pid |-> r.pid, dur |-> Sat(r.idle + wsince) + ClockSkew]
    /\ wpc' = "warning"
    /\ UNCHANGED <<wclock, wleft, wcancelled, wsince>>

\* A pid that is new to watch: "New idle transaction", if it is overdue.
FirstSight(r) ==
    /\ r.pid \notin wtracked
    /\ TakeWatchRow(r)
    /\ wtracked' = wtracked \cup {r.pid}
    /\ wwarned' = IF wcur'.dur >= IdleWarning THEN wwarned \cup {r.pid} ELSE wwarned
    /\ UNCHANGED wcritical

SeenAgain(r) ==
    /\ r.pid \in wtracked
    /\ TakeWatchRow(r)
    /\ UNCHANGED wmemory

CheckWatchWarning ==
    /\ wpc = "warning"
    /\ wwarned' = IF wcur.dur >= IdleWarning THEN wwarned \cup {wcur.pid} ELSE wwarned
    /\ wpc' = "critical"
    /\ UNCHANGED <<wclock, wleft, wcancelled, wreading, wcur, wtracked, wcritical>>

CheckWatchCritical ==
    /\ wpc = "critical"
    /\ wcritical' = IF wcur.dur >= IdleCritical THEN wcritical \cup {wcur.pid} ELSE wcritical
    /\ wpc' = "rows"
    /\ wcur' = NoWatchRow
    /\ UNCHANGED <<wclock, wleft, wcancelled, wreading, wtracked, wwarned>>

EndWatchRows ==
    /\ wpc = "rows"
    /\ wtodo = {}
    /\ wpc' = "resolve"
    /\ UNCHANGED <<wclock, wleft, wcancelled, wreading, wcur, wmemory>>

\* "Resolved", also of a pid that was never warned of.
WatchResolves(p) ==
    /\ wpc = "resolve"
    /\ p \in wtracked \ wseen
    /\ wtracked' = wtracked \ {p}
    /\ wwarned' = wwarned \ {p}
    /\ wcritical' = wcritical \ {p}
    /\ UNCHANGED <<wpc, wclock, wleft, wcancelled, wreading, wcur>>

\* The pool's pressure is printed last, and the poll is over.
EndWatchPoll ==
    /\ wpc = "resolve"
    /\ wtracked \subseteq wseen
    /\ WatchPollReturns
    /\ UNCHANGED <<wclock, wcancelled, wmemory>>

\* A tick, which select may prefer to a cancelled context.
WatchTicks ==
    /\ wpc = "select"
    /\ wtick
    /\ wtick' = FALSE
    /\ BeginWatchPoll
    /\ UNCHANGED <<wnext, wcancelled, wreading, wcur, wmemory>>

\* Ctrl+C: "Stopping...".  Before signal.Notify it ends the process.
Interrupt ==
    /\ wpc \notin {"none", "connect", "stopped"}
    /\ wcancelled' = TRUE
    /\ UNCHANGED <<wpc, wclock, wleft, wreading, wcur, wmemory>>

WatchStops == wcancelled /\ WatchEnds("select")

\* The screen is cleared.
LeaveWatch ==
    /\ wpc = "stopped"
    /\ wpc' = "none"
    /\ wtracked' = {}
    /\ wwarned' = {}
    /\ wcritical' = {}
    /\ UNCHANGED <<wclock, wleft, wcancelled, wreading, wcur>>

WatchStep ==
    \/ RunWatch \/ WatchConnects \/ WatchConnectFails
    \/ WatchQueryFails \/ WatchStatsReturn \/ WatchRowsReturn
    \/ \E r \in wtodo : FirstSight(r) \/ SeenAgain(r)
    \/ CheckWatchWarning \/ CheckWatchCritical
    \/ EndWatchRows
    \/ \E p \in PID : WatchResolves(p)
    \/ EndWatchPoll
    \/ WatchTicks \/ Interrupt \/ WatchStops \/ LeaveWatch

\* What a unit of time does to the process.
WatchAges ==
    /\ wleft' = IF wleft > 0 THEN wleft - 1 ELSE 0
    /\ wsince' = IF wpc \in WatchScanning THEN Sat(wsince + 1) ELSE 0
    /\ IF wpc \in {"none", "connect", "stopped"}
       THEN UNCHANGED wclock
       ELSE /\ wnext' = IF wnext = 1 THEN WatchInterval ELSE wnext - 1
            /\ wtick' = (wtick \/ wnext = 1)
    /\ UNCHANGED <<wpc, wcancelled, wtodo, wseen, wcur, wmemory>>

-----------------------------------------------------------------------------
(* watch implements IdleAlerting, until its process ends.                  *)

LastLine(p) ==
    IF wpc = "stopped" THEN "none"
    ELSE CASE p \in wcritical                         -> "critical"
           [] p \in wwarned \ wcritical               -> "warning"
           [] p \in wtracked \ (wwarned \cup wcritical) -> "seen"
           [] OTHER                                   -> "none"

LastLines == [p \in PID |-> LastLine(p)]

Watched == IF wpc \in WatchScanning
           THEN wseen \cup {r.pid : r \in wtodo}
           ELSE {NoPid}

Watching == INSTANCE IdleAlerting
            WITH told <- LastLines, reading <- Watched, since <- wsince

\* What watch prints is what the daemon would have sent: from every reading,
\* whatever polls fail in between, each pid is warned of before it is called
\* critical, never before it is due, and resolved when the reading lacks it.
WatchAsPromised == Watching!Spec
=============================================================================
