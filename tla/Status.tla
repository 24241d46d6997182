------------------------------- MODULE Status -------------------------------
(***************************************************************************)
(* pguard status (internal/cli/status.go): one reading of the server, a    *)
(* grade that becomes the exit code, and an output that grades every row   *)
(* again, by a later reading of the clock.                                 *)
(***************************************************************************)
EXTENDS IdleThresholds, PoolUsage

CONSTANT StatusTimeout      \* the budget of the two queries: 10s

ASSUME StatusAssumption == StatusTimeout \in Nat

VARIABLES
    spc,        \* "none", "connect", "stats", "rows", "grade", "print", "exited"
    quiet,      \* --quiet
    sleft,      \* time until the deadline of ctx
    pool,       \* the severity of the pool's usage
    idle,       \* idleConns
    graded,     \* the rows graded so far
    since,      \* time since idleConns was read, up to Horizon
    code,       \* exitCode
    shown,      \* the rows printed, each with its severity
    failed      \* runStatus returned an error

statusInput == <<quiet, pool, idle>>
statusWork  == <<graded, code, shown, failed>>
statusVars  == <<spc, sleft, since, statusInput, statusWork>>

IdleRow == [pid : PID, client : Client \cup {NoClient}, idle : Age]

StatusTypeOK ==
    /\ spc \in {"none", "connect", "stats", "rows", "grade", "print", "exited"}
    /\ quiet \in BOOLEAN
    /\ sleft \in 0 .. StatusTimeout
    /\ pool \in Severity \cup {"none"}
    /\ idle \subseteq IdleRow
    /\ graded \subseteq idle
    /\ since \in Age
    /\ code \in 0 .. 2
    /\ shown \subseteq [row : idle, severity : Severity \cup {"none"}]
    /\ failed \in BOOLEAN

StatusInit ==
    /\ spc = "none"
    /\ quiet = FALSE
    /\ sleft = 0
    /\ pool = "none"
    /\ idle = {}
    /\ graded = {}
    /\ since = 0
    /\ code = 0
    /\ shown = {}
    /\ failed = FALSE

-----------------------------------------------------------------------------
\* A new process.
RunStatus ==
    /\ spc = "none"
    /\ spc' = "connect"
    /\ quiet' \in BOOLEAN
    /\ UNCHANGED <<sleft, since, pool, idle, statusWork>>

\* NewClient succeeds, and ctx is made.
StatusConnects ==
    /\ spc = "connect"
    /\ spc' = "stats"
    /\ sleft' = StatusTimeout
    /\ UNCHANGED <<since, statusInput, statusWork>>

\* NewClient or a query fails: the error goes up to main, which exits with 1.
StatusFails ==
    /\ spc \in {"connect", "stats", "rows"}
    /\ spc' = "exited"
    /\ code' = 1
    /\ failed' = TRUE
    /\ sleft' = 0
    /\ UNCHANGED <<since, statusInput, graded, shown>>

\* GetPoolStats, whose last result may be cut off unnoticed.
StatusStatsReturn ==
    /\ spc = "stats"
    /\ \E read \in SUBSET BackendState :
          /\ sleft > 0 \/ read # BackendState
          /\ pool' \in PoolSeverity(CountOf(read))
    /\ spc' = "rows"
    /\ UNCHANGED <<quiet, idle, sleft, since, statusWork>>

PoolCode == CASE pool = "critical" -> 2
              [] pool = "warning"  -> 1
              [] OTHER             -> 0

\* GetConnections; the pool is graded first.
StatusRowsReturn ==
    /\ spc = "rows"
    /\ sleft > 0
    /\ idle' = IdleRows
    /\ since' = 0
    /\ code' = PoolCode
    /\ spc' = "grade"
    /\ sleft' = 0
    /\ UNCHANGED <<quiet, pool, graded, shown, failed>>

\* The row's age by the present reading of the clock.
Duration(r) == Sat(r.idle + since) + ClockSkew

\* The severity of a row for the exit code, and again for the output.
Grade(r) ==
    CASE Duration(r) >= IdleCritical -> "critical"
      [] Duration(r) >= IdleWarning /\ Duration(r) < IdleCritical -> "warning"
      [] OTHER -> "none"

\* Faulty: > for >=.
Printed_Strict(r) ==
    CASE Duration(r) > IdleCritical -> "critical"
      [] Duration(r) > IdleWarning /\ Duration(r) <= IdleCritical -> "warning"
      [] OTHER -> "none"

Printed(r) ==
    CASE Duration(r) >= IdleCritical -> "critical"
      [] Duration(r) >= IdleWarning /\ Duration(r) < IdleCritical -> "warning"
      [] OTHER -> "none"

\* The rows come youngest first.
NextIn(r, done) ==
    /\ r \in idle \ done
    /\ \A s \in idle \ done : r.idle <= s.idle

\* Faulty: a warning after a critical pool lowers the code.
GradeRow_Lowers(r) ==
    /\ spc = "grade"
    /\ NextIn(r, graded)
    /\ graded' = IF Grade(r) = "critical" THEN idle ELSE graded \cup {r}
    /\ code' = CASE Grade(r) = "critical" -> 2
                 [] Grade(r) = "warning"  -> 1
                 [] OTHER                 -> code
    /\ UNCHANGED <<spc, sleft, since, statusInput, shown, failed>>

\* One turn of the loop: a critical row ends it.
GradeRow(r) ==
    /\ spc = "grade"
    /\ NextIn(r, graded)
    /\ graded' = IF Grade(r) = "critical" THEN idle ELSE graded \cup {r}
    /\ code' = CASE Grade(r) = "critical"            -> 2
                 [] Grade(r) = "warning" /\ code < 1 -> 1
                 [] OTHER                            -> code
    /\ UNCHANGED <<spc, sleft, since, statusInput, shown, failed>>

EndGrade ==
    /\ spc = "grade"
    /\ graded = idle
    /\ spc' = IF quiet THEN "exited" ELSE "print"
    /\ UNCHANGED <<sleft, since, statusInput, statusWork>>

\* buildStatusOutput or printHumanStatus, one row.
PrintRow(r) ==
    /\ spc = "print"
    /\ NextIn(r, {s.row : s \in shown})
    /\ shown' = shown \cup {[row |-> r, severity |-> Printed(r)]}
    /\ UNCHANGED <<spc, sleft, since, statusInput, graded, code, failed>>

EndPrint ==
    /\ spc = "print"
    /\ {s.row : s \in shown} = idle
    /\ spc' = "exited"
    /\ UNCHANGED <<sleft, since, statusInput, statusWork>>

\* The output is read; nothing of the process is left.
LeaveStatus ==
    /\ spc = "exited"
    /\ spc' = "none"
    /\ quiet' = FALSE
    /\ pool' = "none"
    /\ idle' = {}
    /\ graded' = {}
    /\ since' = 0
    /\ code' = 0
    /\ shown' = {}
    /\ failed' = FALSE
    /\ UNCHANGED sleft

StatusStep ==
    \/ RunStatus \/ StatusConnects \/ StatusFails \/ StatusStatsReturn \/ StatusRowsReturn
    \/ \E r \in idle : GradeRow(r) \/ PrintRow(r)
    \/ EndGrade \/ EndPrint \/ LeaveStatus

\* Faulty: a deadline that has passed keeps counting.
Remaining_Unbounded(n) == n - 1

Remaining(n) == IF n > 0 THEN n - 1 ELSE 0

\* What a unit of time does to the process.
StatusAges ==
    /\ sleft' = Remaining(sleft)
    /\ since' = IF spc \in {"grade", "print", "exited"} THEN Sat(since + 1) ELSE 0
    /\ UNCHANGED <<spc, statusInput, statusWork>>

-----------------------------------------------------------------------------
(* Properties.                                                             *)

Severities == {s.severity : s \in shown}

\* The exit code never overstates the output that goes with it: whatever it
\* reports is visible in the pool line or in some row, although the rows are
\* graded again later.
OutputBearsOutCode ==
    spc = "exited" /\ ~quiet /\ ~failed =>
        /\ code = 2 => pool = "critical" \/ "critical" \in Severities
        /\ code = 1 => pool = "warning" \/ Severities \cap {"warning", "critical"} # {}

\* The exit code is no milder than what was read: a critical pool is a 2
\* whatever the rows are, and so is a transaction that was past the critical
\* threshold and still is in that spell; with 0 there is no warning either.
CodeCoversReading ==
    spc = "exited" /\ ~failed =>
        /\ code >= PoolCode
        /\ \A p \in PID : IsIdleInTransaction(p) /\ activity[p].age > since =>
              LET then == activity[p].age - since + ClockSkew
              IN  /\ then >= IdleCritical => code = 2
                  /\ then >= IdleWarning  => code >= 1
=============================================================================
