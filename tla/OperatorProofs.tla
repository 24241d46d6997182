--------------------------- MODULE OperatorProofs ---------------------------
(***************************************************************************)
(* Proofs about the commands at a terminal, for every value of the         *)
(* constants: types, kill's look-up and confirmation, what the exit code   *)
(* of status has to do with its reading and its output, and, by            *)
(* WatchProofs, what watch says.                                           *)
(***************************************************************************)
EXTENDS Operator, WatchProofs

LEMMA ServerType ==
    ASSUME PgTypeOK, PgNext
    PROVE  PgTypeOK' /\ signalled' \subseteq signalled
<1> USE PgAssumption DEF PgTypeOK, Row, Age, BackendState
<1>1. ASSUME NEW p \in PID, NEW c \in Client, Connect(p, c) \/ Rename(p, c)
      PROVE  PgTypeOK' /\ signalled' \subseteq signalled
  BY <1>1 DEF Connect, Rename
<1>2. ASSUME NEW p \in PID, GoIdle(p) \/ Resume(p)
      PROVE  PgTypeOK' /\ signalled' \subseteq signalled
  BY <1>2 DEF GoIdle, Resume
<1>3. ASSUME NEW p \in PID, BackendExits(p)
      PROVE  PgTypeOK' /\ signalled' \subseteq signalled
  BY <1>3 DEF BackendExits, Absent
<1> QED
  BY <1>1, <1>2, <1>3 DEF PgNext

LEMMA TimeType ==
    ASSUME PgTypeOK, activity' = Aged, UNCHANGED signalled
    PROVE  PgTypeOK'
BY PgAssumption DEF PgTypeOK, Aged, Row, Age, Sat, IsIdleInTransaction

-----------------------------------------------------------------------------
(* kill.                                                                   *)

\* A pid that is worked on is a backend's; a request is under way only in its
\* place; and the time since the look-up and the time left are bounded
\* together as long as any is left.
KillInv ==
    /\ KillTypeOK
    /\ kpc \in {"lookup", "prompt", "execute"} => target \in PID
    /\ request # "none" => kpc = "execute"
    /\ kpc # "done" => result = "none"
    /\ kpc \in {"prompt", "execute"} /\ kleft > 0 => sinceShown + kleft <= KillTimeout

\* However it ends, the process leaves nothing behind.
LEMMA KillEndsInv ==
    ASSUME KillInv, NEW how \in {"terminated", "cancelled", "gone", "declined", "error"}, Ends(how),
           request' = "none", late' \subseteq PID
    PROVE  KillInv'
<1>1. force' \in BOOLEAN /\ cancelOnly' \in BOOLEAN
  BY Zenon DEF Ends
<1>2. kleft' \in 0 .. KillTimeout /\ sinceShown' \in 0 .. KillTimeout + 1
  BY KillAssumption DEF Ends
<1>3. target' \in PID \cup {NoPid} /\ kpc' = "done" /\ result' = how
  BY DEF Ends
<1> QED
  BY <1>1, <1>2, <1>3 DEF KillInv, KillTypeOK

LEMMA KillMovesInv ==
    ASSUME KillInv, KillStep
    PROVE  KillInv'
<1> USE KillAssumption DEF KillInv, KillTypeOK, killArgs
<1>1. CASE LookUp
  BY <1>1 DEF LookUp
<1>2. CASE NotFound \/ LookUpFails \/ Decline \/ PromptFails
  <2>1. \E how \in {"error", "declined"} : Ends(how)
    BY <1>2 DEF NotFound, LookUpFails, Decline, PromptFails
  <2>2. request' = "none" /\ late' \subseteq PID
    BY <1>2 DEF NotFound, LookUpFails, Decline, PromptFails
  <2> QED
    BY <2>1, <2>2, KillEndsInv
<1>3. CASE Confirm
  BY <1>3 DEF Confirm
<1>5. CASE SendRequest
  BY <1>5 DEF SendRequest
<1>6. CASE Answered \/ RequestFails
  <2>1. \E how \in {"terminated", "cancelled", "gone", "error"} : Ends(how)
    BY <1>6 DEF Answered, RequestFails
  <2>2. request' = "none" /\ late' \subseteq PID
    BY <1>6 DEF Answered, RequestFails
  <2> QED
    BY <2>1, <2>2, KillEndsInv
<1>8. CASE LeaveKill
  BY <1>8 DEF LeaveKill
<1> QED
  BY <1>1, <1>2, <1>3, <1>5, <1>6, <1>8 DEF KillStep

LEMMA KillServerInv ==
    ASSUME KillInv, PgTypeOK, KillServerStep
    PROVE  KillInv' /\ PgTypeOK'
<1> USE DEF KillInv, KillTypeOK, PgTypeOK, killArgs, pgVars
<1>1. CASE ServerRuns
  BY <1>1 DEF ServerRuns, PgTerminate
<1>2. ASSUME NEW p \in PID, RunsLate(p)
      PROVE  KillInv' /\ PgTypeOK'
  BY <1>2 DEF RunsLate, PgTerminate
<1> QED
  BY <1>1, <1>2 DEF KillServerStep

LEMMA KillTimeInv ==
    ASSUME KillInv, KillAges
    PROVE  KillInv'
BY KillAssumption DEF KillInv, KillTypeOK, KillAges, killArgs

LEMMA KillBegins ==
    ASSUME KillInv, NEW p \in PID, RunKill(p)
    PROVE  KillInv'
BY KillAssumption DEF KillInv, KillTypeOK, RunKill

-----------------------------------------------------------------------------
(* status.                                                                 *)

Reported == {"grade", "print", "exited"}

Rows == {s.row : s \in shown}

\* Row r is at least as old as threshold, and the output says so or is still
\* to come to it.
Visible(r, threshold, severities) ==
    /\ Duration(r) >= threshold
    /\ r \in Rows => \E s \in shown : s.row = r /\ s.severity \in severities

\* What bears out the code: the pool, or a row.
BornOut ==
    /\ code = 2 => \/ pool = "critical"
                   \/ \E r \in idle : Visible(r, IdleCritical, {"critical"})
    /\ code = 1 => \/ pool = "warning"
                   \/ \E r \in idle : Visible(r, IdleWarning, {"warning", "critical"})

\* What the rows graded so far, and the pool, make of the code at least.
Covered ==
    /\ code >= PoolCode
    /\ \A r \in graded : /\ r.idle + ClockSkew >= IdleCritical => code = 2
                         /\ r.idle + ClockSkew >= IdleWarning  => code >= 1

\* The rows are what was read, and old enough for every spell that lasts.
ReadingInv ==
    \A p \in PID : IsIdleInTransaction(p) /\ activity[p].age > since =>
        \E r \in idle : r.pid = p /\ activity[p].age <= r.idle + since

StatusInv ==
    /\ StatusTypeOK
    /\ spc \in {"none", "connect", "stats", "rows"} => graded = {} /\ shown = {} /\ ~failed
    /\ spc = "grade" => shown = {}
    /\ spc \in {"print", "exited"} /\ ~failed => graded = idle
    /\ spc = "exited" /\ ~failed /\ ~quiet => Rows = idle
    /\ failed => spc = "exited"
    /\ spc \in Reported /\ ~failed => BornOut /\ Covered /\ ReadingInv

LEMMA DurationType ==
    ASSUME StatusTypeOK, NEW r \in idle
    PROVE  /\ Duration(r) \in Int
           /\ r.idle \in Nat /\ r.idle <= Horizon
           /\ Duration(r) >= r.idle + ClockSkew
BY PgAssumption, ThresholdsAssumption DEF StatusTypeOK, IdleRow, Duration, Sat, Age

LEMMA StatusBegins ==
    ASSUME StatusInv, RunStatus \/ StatusConnects
    PROVE  StatusInv'
<1>1. quiet' \in BOOLEAN /\ sleft' \in 0 .. StatusTimeout /\ spc' \in {"connect", "stats"}
  BY StatusAssumption DEF RunStatus, StatusConnects, StatusInv, StatusTypeOK, statusInput
<1>2. /\ UNCHANGED <<pool, idle, graded, since, code, shown, failed>>
      /\ spc \in {"none", "connect"}
  BY DEF RunStatus, StatusConnects, statusInput, statusWork
<1> QED
  BY <1>1, <1>2 DEF StatusInv, StatusTypeOK, Reported

LEMMA StatusFailsInv ==
    ASSUME StatusInv, StatusFails
    PROVE  StatusInv'
<1>1. /\ spc' = "exited" /\ code' = 1 /\ failed' = TRUE /\ sleft' = 0
      /\ UNCHANGED <<since, quiet, pool, idle, graded, shown>>
  BY DEF StatusFails, statusInput
<1> QED
  BY <1>1, StatusAssumption DEF StatusInv, StatusTypeOK

LEMMA StatusReads ==
    ASSUME StatusInv, PgTypeOK, StatusStatsReturn \/ StatusRowsReturn, UNCHANGED pgVars
    PROVE  StatusInv'
<1>1. CASE StatusStatsReturn
  <2>1. pool' \in Severity \cup {"none"}
    BY <1>1 DEF StatusStatsReturn, PoolSeverity
  <2> QED
    BY <1>1, <2>1 DEF StatusStatsReturn, StatusInv, StatusTypeOK, statusWork, Reported
<1>2. CASE StatusRowsReturn
  <2>1. /\ spc = "rows" /\ spc' = "grade" /\ idle' = IdleRows /\ since' = 0
        /\ sleft' = 0 /\ code' = PoolCode
        /\ UNCHANGED <<quiet, pool, graded, shown, failed, activity>>
        /\ graded = {} /\ shown = {} /\ ~failed
    BY <1>2 DEF StatusRowsReturn, StatusInv, pgVars
  <2>2. IdleRows \subseteq IdleRow
    BY DEF IdleRows, IdleRow, PgTypeOK, Row
  <2>3. code' \in 0 .. 2 /\ (code' = 2 => pool = "critical") /\ (code' = 1 => pool = "warning")
    BY <2>1 DEF PoolCode
  <2>4. PoolCode' = PoolCode
    BY <2>1 DEF PoolCode
  <2>5. ReadingInv'
    <3>1. SUFFICES ASSUME NEW p \in PID, IsIdleInTransaction(p)
                   PROVE  \E r \in IdleRows : r.pid = p /\ activity[p].age <= r.idle + 0
      BY <2>1 DEF ReadingInv, IsIdleInTransaction
    <3>2. [pid |-> p, client |-> activity[p].client, idle |-> activity[p].age] \in IdleRows
      BY <3>1 DEF IdleRows
    <3>3. activity[p].age \in Nat
      BY DEF PgTypeOK, Row, Age
    <3> QED
      BY <3>2, <3>3
  <2>6. BornOut' /\ Covered'
    BY <2>1, <2>3, <2>4 DEF BornOut, Covered
  <2>7. StatusTypeOK'
    BY <2>1, <2>2, <2>3, PgAssumption, StatusAssumption DEF StatusInv, StatusTypeOK, Age
  <2> QED
    BY <2>1, <2>5, <2>6, <2>7 DEF StatusInv
<1> QED
  BY <1>1, <1>2

LEMMA StatusGrades ==
    ASSUME StatusInv, NEW r \in idle, GradeRow(r), UNCHANGED pgVars
    PROVE  StatusInv'
<1>1. /\ spc = "grade" /\ ~failed /\ shown = {}
      /\ UNCHANGED <<spc, sleft, since, quiet, pool, idle, shown, failed, activity>>
      /\ graded' = IF Grade(r) = "critical" THEN idle ELSE graded \cup {r}
  BY DEF GradeRow, statusInput, StatusInv, pgVars
<1>2. /\ Duration(r) \in Int /\ r.idle \in Nat /\ Duration(r) >= r.idle + ClockSkew
      /\ code \in 0 .. 2
  BY DurationType DEF StatusInv, StatusTypeOK
<1>3. CASE Grade(r) = "critical"
  <2>1. Duration(r) >= IdleCritical /\ code' = 2
    BY <1>3 DEF Grade, GradeRow
  <2>2. BornOut'
    BY <1>1, <2>1 DEF BornOut, Visible, Rows, Duration
  <2>3. Covered'
    BY <1>1, <2>1 DEF Covered, PoolCode
  <2> QED
    BY <1>1, <1>3, <2>1, <2>2, <2>3 DEF StatusInv, StatusTypeOK, ReadingInv,
       IsIdleInTransaction, Reported
<1>4. CASE Grade(r) = "warning"
  <2>1. /\ Duration(r) >= IdleWarning /\ Duration(r) < IdleCritical
        /\ code' = IF code < 1 THEN 1 ELSE code
    BY <1>4 DEF Grade, GradeRow
  <2>2. BornOut'
    BY <1>1, <1>2, <2>1 DEF BornOut, Visible, Rows, Duration, StatusInv, Reported
  <2>3. Covered'
    BY <1>1, <1>2, <1>4, <2>1, ThresholdsAssumption DEF Covered, PoolCode, StatusInv, Reported
  <2> QED
    BY <1>1, <1>2, <1>4, <2>1, <2>2, <2>3 DEF StatusInv, StatusTypeOK, ReadingInv,
       IsIdleInTransaction, Reported
<1>5. CASE Grade(r) = "none"
  <2>1. /\ Duration(r) < IdleWarning /\ code' = code
    BY <1>2, <1>5, ThresholdsAssumption DEF Grade, GradeRow
  <2>2. BornOut'
    BY <1>1, <2>1 DEF BornOut, Visible, Rows, Duration, StatusInv, Reported
  <2>3. Covered'
    BY <1>1, <1>2, <1>5, <2>1, ThresholdsAssumption DEF Covered, PoolCode, StatusInv, Reported
  <2> QED
    BY <1>1, <1>2, <1>5, <2>1, <2>2, <2>3 DEF StatusInv, StatusTypeOK, ReadingInv,
       IsIdleInTransaction, Reported
<1> QED
  BY <1>3, <1>4, <1>5 DEF Grade

LEMMA StatusPrints ==
    ASSUME StatusInv, NEW r \in idle, PrintRow(r), UNCHANGED pgVars
    PROVE  StatusInv'
<1> DEFINE row == [row |-> r, severity |-> Printed(r)]
<1>1. /\ spc = "print" /\ ~failed
      /\ UNCHANGED <<spc, sleft, since, quiet, pool, idle, graded, code, failed, activity>>
      /\ shown' = shown \cup {row}
      /\ r \notin Rows
  BY DEF PrintRow, NextIn, Rows, statusInput, StatusInv, pgVars
<1>2. Printed(r) \in Severity \cup {"none"} /\ Duration(r) \in Int
  BY DurationType DEF Printed, Severity, StatusInv
<1>3. row \in [row : idle, severity : Severity \cup {"none"}]
  BY <1>2
<1>4. row.row = r /\ row.severity = Printed(r)
  OBVIOUS
<1> HIDE DEF row
<1>5. Rows' = Rows \cup {r}
  BY <1>1, <1>4 DEF Rows
<1>6. ASSUME NEW t \in idle, NEW threshold, NEW severities,
             Visible(t, threshold, severities),
             t = r => Printed(r) \in severities
      PROVE  Visible(t, threshold, severities)'
  BY <1>1, <1>4, <1>5, <1>6 DEF Visible, Duration
<1>7. BornOut'
  <2>1. BornOut
    BY <1>1 DEF StatusInv, Reported
  <2>2. Visible(r, IdleCritical, {"critical"}) => Printed(r) \in {"critical"}
    <3>1. Duration(r) >= IdleCritical => Printed(r) = "critical"
      BY <1>2, ThresholdsAssumption DEF Printed
    <3> QED
      BY <3>1, Zenon DEF Visible
  <2>3. Visible(r, IdleWarning, {"warning", "critical"}) => Printed(r) \in {"warning", "critical"}
    BY <1>2, ThresholdsAssumption DEF Visible, Printed
  <2>4. \A t \in idle : Visible(t, IdleCritical, {"critical"})
                           => Visible(t, IdleCritical, {"critical"})'
    BY <1>6, <2>2
  <2>5. \A t \in idle : Visible(t, IdleWarning, {"warning", "critical"})
                           => Visible(t, IdleWarning, {"warning", "critical"})'
    BY <1>6, <2>3
  <2> QED
    BY <1>1, <2>1, <2>4, <2>5 DEF BornOut
<1>8. Covered' /\ ReadingInv'
  BY <1>1 DEF StatusInv, Reported, Covered, PoolCode, ReadingInv, IsIdleInTransaction
<1>9. StatusTypeOK'
  BY <1>1, <1>3 DEF StatusInv, StatusTypeOK
<1> QED
  BY <1>1, <1>7, <1>8, <1>9 DEF StatusInv, Reported

LEMMA StatusEnds ==
    ASSUME StatusInv, EndGrade \/ EndPrint, UNCHANGED pgVars
    PROVE  StatusInv'
<1>1. /\ spc \in {"grade", "print"} /\ spc' \in {"print", "exited"} /\ graded = idle /\ ~failed
      /\ UNCHANGED <<sleft, since, quiet, pool, idle, graded, code, shown, failed, activity>>
      /\ spc' = "exited" /\ ~quiet => Rows = idle
  BY DEF EndGrade, EndPrint, Rows, statusInput, statusWork, StatusInv, pgVars
<1>2. BornOut' /\ Covered' /\ ReadingInv'
  BY <1>1 DEF StatusInv, Reported, BornOut, Visible, Rows, Duration, Covered, PoolCode, ReadingInv,
     IsIdleInTransaction
<1> QED
  BY <1>1, <1>2 DEF StatusInv, StatusTypeOK, Rows

LEMMA StatusLeaves ==
    ASSUME StatusInv, LeaveStatus
    PROVE  StatusInv'
<1>1. /\ spc' = "none" /\ pool' = "none" /\ idle' = {} /\ graded' = {} /\ since' = 0
      /\ code' = 0 /\ shown' = {} /\ failed' = FALSE /\ quiet' = FALSE /\ sleft' = sleft
  BY DEF LeaveStatus
<1>2. StatusTypeOK'
  <2>1. since' \in Age /\ code' \in 0 .. 2 /\ sleft' \in 0 .. StatusTimeout
    BY <1>1, PgAssumption DEF Age, StatusInv, StatusTypeOK
  <2>2. quiet' \in BOOLEAN /\ failed' \in BOOLEAN
    BY <1>1, Zenon
  <2> QED
    BY <1>1, <2>1, <2>2 DEF StatusTypeOK
<1> QED
  BY <1>1, <1>2 DEF StatusInv, Reported

\* The rows get older, and with them the spells, but no spell becomes older
\* than its row.
LEMMA StatusTimeInv ==
    ASSUME StatusInv, PgTypeOK, StatusAges, activity' = Aged
    PROVE  StatusInv'
<1>1. /\ UNCHANGED <<spc, quiet, pool, idle, graded, code, shown, failed>>
      /\ sleft' = Remaining(sleft)
      /\ since' = IF spc \in Reported THEN Sat(since + 1) ELSE 0
  BY DEF StatusAges, statusInput, statusWork, Reported
<1>2. StatusTypeOK'
  <2>1. since' \in Age
    BY <1>1, PgAssumption DEF StatusInv, StatusTypeOK, Age, Sat
  <2>2. sleft' \in 0 .. StatusTimeout
    BY <1>1, StatusAssumption DEF StatusInv, StatusTypeOK, Remaining
  <2> QED
    BY <1>1, <2>1, <2>2 DEF StatusInv, StatusTypeOK
<1>3. ASSUME spc \in Reported, ~failed
      PROVE  BornOut' /\ Covered' /\ ReadingInv'
  <2>1. since' = Sat(since + 1) /\ since \in Nat
    BY <1>1, <1>3 DEF StatusInv, StatusTypeOK, Age
  <2>2. \A r \in idle : r.idle \in Nat /\ Duration(r)' >= Duration(r) /\ Duration(r) \in Int
                        /\ Duration(r)' \in Int
    BY <1>1, <2>1, PgAssumption, ThresholdsAssumption DEF StatusInv, StatusTypeOK, IdleRow, Age,
       Duration, Sat
  <2>3. ASSUME NEW r \in idle, NEW threshold \in Int, NEW severities,
               Visible(r, threshold, severities)
        PROVE  Visible(r, threshold, severities)'
    BY <1>1, <2>2, <2>3 DEF Visible, Rows
  <2>4. BornOut'
    <3>1. \A r \in idle : Visible(r, IdleCritical, {"critical"})
                             => Visible(r, IdleCritical, {"critical"})'
      BY <2>3, ThresholdsAssumption
    <3>2. \A r \in idle : Visible(r, IdleWarning, {"warning", "critical"})
                             => Visible(r, IdleWarning, {"warning", "critical"})'
      BY <2>3, ThresholdsAssumption
    <3> QED
      BY <1>1, <1>3, <3>1, <3>2 DEF StatusInv, BornOut
  <2>5. Covered'
    BY <1>1, <1>3 DEF StatusInv, Covered, PoolCode
  <2>6. ReadingInv'
    <3> SUFFICES ASSUME NEW p \in PID, activity'[p].state = "idleInTx", activity'[p].age > since'
                 PROVE  \E r \in idle : r.pid = p /\ activity'[p].age <= r.idle + since'
      BY <1>1 DEF ReadingInv, IsIdleInTransaction
    <3>1. IsIdleInTransaction(p) /\ activity[p].age \in Age
      BY DEF Aged, PgTypeOK, Row, IsIdleInTransaction
    <3>2. activity'[p].age = Sat(activity[p].age + 1)
      BY <3>1 DEF Aged, PgTypeOK, Row
    <3>3. activity[p].age > since /\ since' = since + 1
      BY <2>1, <3>1, <3>2, PgAssumption DEF Sat, Age
    <3>4. PICK r \in idle : r.pid = p /\ activity[p].age <= r.idle + since
      BY <1>3, <3>1, <3>3 DEF StatusInv, ReadingInv
    <3> QED
      BY <2>1, <2>2, <3>1, <3>2, <3>3, <3>4, PgAssumption DEF Sat, Age
  <2> QED
    BY <2>4, <2>5, <2>6
<1> QED
  BY <1>1, <1>2, <1>3 DEF StatusInv, Rows

LEMMA StatusStepInv ==
    ASSUME StatusInv, PgTypeOK, StatusStep, UNCHANGED pgVars
    PROVE  StatusInv'
BY StatusBegins, StatusFailsInv, StatusReads, StatusGrades, StatusPrints, StatusEnds,
   StatusLeaves DEF StatusStep

\* The server goes on: a new spell is younger than the reading.
LEMMA StatusServerInv ==
    ASSUME StatusInv, PgTypeOK, UNCHANGED statusVars, PgNext \/ UNCHANGED activity
    PROVE  StatusInv'
<1>1. UNCHANGED <<spc, sleft, quiet, pool, idle, graded, since, code, shown, failed>>
  BY DEF statusVars, statusInput, statusWork
<1>2. \A p \in PID : activity'[p].state = "idleInTx" /\ activity'[p].age > since =>
          activity[p].state = "idleInTx" /\ activity'[p].age = activity[p].age
  <2> SUFFICES ASSUME PgNext, NEW p \in PID, activity'[p].state = "idleInTx",
                      activity'[p].age > since
               PROVE  activity[p].state = "idleInTx" /\ activity'[p].age = activity[p].age
    BY DEF pgVars
  <2> USE DEF PgTypeOK, Row, StatusInv, StatusTypeOK, Age
  <2>1. ASSUME NEW q \in PID, NEW c \in Client, Connect(q, c) \/ Rename(q, c)
        PROVE  activity[p].state = "idleInTx" /\ activity'[p].age = activity[p].age
    BY <2>1 DEF Connect, Rename
  <2>2. ASSUME NEW q \in PID, GoIdle(q) \/ Resume(q) \/ BackendExits(q)
        PROVE  activity[p].state = "idleInTx" /\ activity'[p].age = activity[p].age
    BY <2>2 DEF GoIdle, Resume, BackendExits, Absent
  <2> QED
    BY <2>1, <2>2 DEF PgNext
<1>3. ReadingInv => ReadingInv'
  BY <1>1, <1>2 DEF ReadingInv, IsIdleInTransaction
<1> QED
  BY <1>1, <1>3 DEF StatusInv, StatusTypeOK, Rows, BornOut, Visible, Rows, Duration, Covered,
     PoolCode

-----------------------------------------------------------------------------
(* The commands together.                                                  *)

OperatorInv == PgTypeOK /\ StatusInv /\ WatchInv /\ KillInv

LEMMA OperatorBegins ==
    ASSUME OperatorInit
    PROVE  OperatorInv
<1> USE DEF OperatorInit
<1>1. PgTypeOK
  <2>1. Absent \in Row
    BY PgAssumption DEF Row, Absent, Age
  <2> QED
    BY <2>1 DEF PgInit, PgTypeOK
<1>2. StatusInv
  <2>1. quiet \in BOOLEAN /\ failed \in BOOLEAN
    BY Zenon DEF StatusInit
  <2>2. StatusTypeOK
    BY <2>1, PgAssumption, StatusAssumption DEF StatusInit, StatusTypeOK, Age
  <2>3. spc = "none" /\ graded = {} /\ shown = {}
    BY DEF StatusInit
  <2>4. ~failed
    BY Zenon DEF StatusInit
  <2> QED
    BY <2>2, <2>3, <2>4 DEF StatusInv, Reported
<1>3. PlaceInv
  <2>1. wtick \in BOOLEAN /\ wcancelled \in BOOLEAN
    BY Zenon DEF WatchInit
  <2>2. WatchTypeOK
    BY <2>1, PgAssumption, WatchAssumption DEF WatchInit, WatchTypeOK, NoWatchRow, Age
  <2> QED
    BY <2>2 DEF WatchInit, PlaceInv, WatchScanning, InWatchRow
<1>4. WatchInv
  <2>1. wpc = "none" /\ wtodo = {} /\ wseen = {}
    BY DEF WatchInit
  <2>2. RowsInv
    BY <2>1 DEF RowsInv
  <2>3. CurInv
    BY <2>1 DEF CurInv, InWatchRow
  <2>4. FlagsInv
    BY <2>1 DEF FlagsInv
  <2> QED
    BY <1>3, <2>2, <2>3, <2>4 DEF WatchInv
<1>5. KillInv
  <2>1. force \in BOOLEAN /\ cancelOnly \in BOOLEAN
    BY Zenon DEF KillInit
  <2>2. KillTypeOK
    BY <2>1, KillAssumption DEF KillInit, KillTypeOK
  <2> QED
    BY <2>2 DEF KillInit, KillInv
<1> QED
  BY <1>1, <1>2, <1>4, <1>5 DEF OperatorInv

LEMMA KillStays ==
    ASSUME KillInv, UNCHANGED killVars
    PROVE  KillInv'
BY DEF KillInv, KillTypeOK, killVars, killArgs

\* The pid given to kill is one that status or watch showed.
LEMMA ChoiceInv ==
    ASSUME OperatorInv, ChooseVictim
    PROVE  OperatorInv'
<1>1. UNCHANGED pgVars /\ PgTypeOK'
  BY DEF ChooseVictim, OperatorInv, pgVars, PgTypeOK
<1>2. \E p \in PID : RunKill(p)
  <2>1. \A s \in shown : s.row.pid \in PID
    BY DEF OperatorInv, StatusInv, StatusTypeOK, IdleRow
  <2>2. wwarned \subseteq PID
    BY DEF OperatorInv, WatchInv, PlaceInv, WatchTypeOK
  <2> QED
    BY <2>1, <2>2 DEF ChooseVictim
<1>3. KillInv'
  BY <1>2, KillBegins DEF OperatorInv
<1>4. StatusInv'
  BY <1>1, StatusLeaves, StatusServerInv DEF ChooseVictim, OperatorInv, pgVars
<1>5. WatchInv'
  BY <1>1, WatchStepInv, WatchServerInv DEF ChooseVictim, OperatorInv, WatchStep, pgVars
<1> QED
  BY <1>1, <1>3, <1>4, <1>5 DEF OperatorInv

LEMMA OperatorStepInv ==
    ASSUME OperatorInv, [OperatorNext]_operatorVars
    PROVE  OperatorInv'
<1> USE DEF OperatorInv
<1>1. CASE TimePasses
  BY <1>1, TimeType, StatusTimeInv, WatchTimeInv, KillTimeInv DEF TimePasses
<1>2. CASE StatusMoves
  BY <1>2, StatusStepInv, WatchServerInv, KillStays DEF StatusMoves, pgVars, PgTypeOK
<1>3. CASE WatchMoves
  BY <1>3, WatchStepInv, StatusServerInv, KillStays DEF WatchMoves, pgVars, PgTypeOK
<1>4. CASE ChooseVictim
  BY <1>4, ChoiceInv
<1>5. CASE KillMoves
  BY <1>5, KillMovesInv, StatusServerInv, WatchServerInv DEF KillMoves, pgVars, PgTypeOK
<1>6. CASE ServerMoves
  <2>1. PgTypeOK' /\ KillInv'
    BY <1>6, ServerType, KillServerInv, KillStays DEF ServerMoves
  <2>2. PgNext \/ UNCHANGED activity
    BY <1>6 DEF ServerMoves, KillServerStep, ServerRuns, RunsLate, PgTerminate, pgVars
  <2>3. UNCHANGED statusVars /\ UNCHANGED watchVars
    BY <1>6 DEF ServerMoves
  <2> QED
    BY <2>1, <2>2, <2>3, StatusServerInv, WatchServerInv
<1>7. CASE UNCHANGED operatorVars
  BY <1>7, StatusServerInv, WatchServerInv, KillStays DEF operatorVars, pgVars, PgTypeOK
<1> QED
  BY <1>1, <1>2, <1>3, <1>4, <1>5, <1>6, <1>7 DEF OperatorNext

\* The invariant of the three commands and the server.
THEOREM OperatorCorrect == OperatorSpec => []OperatorInv
<1>1. OperatorInit => OperatorInv
  BY OperatorBegins
<1>2. OperatorInv /\ [OperatorNext]_operatorVars => OperatorInv'
  BY OperatorStepInv
<1> QED
  BY <1>1, <1>2, PTL DEF OperatorSpec

\* The variables of the three commands have their types; among them, watch
\* has a critical line only where it has a warning, and a warning only of a
\* pid that it tracks.
THEOREM OperatorTypeCorrect == OperatorSpec => []OperatorTypeOK
<1>1. OperatorInv => OperatorTypeOK
  BY DEF OperatorInv, OperatorTypeOK, StatusInv, WatchInv, PlaceInv, KillInv
<1> QED
  BY <1>1, OperatorCorrect, PTL

\* While its deadline runs, a statement that kill waits for rests on a look-up at
\* most KillTimeout old, however long the operator took to answer.
THEOREM LookUpIsFresh == OperatorSpec => []ConfirmedIsFresh
<1>1. OperatorInv => ConfirmedIsFresh
  BY KillAssumption DEF OperatorInv, KillInv, KillTypeOK, ConfirmedIsFresh
<1> QED
  BY <1>1, OperatorCorrect, PTL

\* kill signals nobody but the backend it was confirmed for, and none when
\* it was declined or only cancels.
THEOREM KillHitsTheConfirmed == OperatorSpec => OnlyTheConfirmedDie
<1> DEFINE Confirmed == \A p \in signalled' \ signalled :
                            \/ p = target /\ ~cancelOnly /\ kpc = "execute" /\ result # "declined"
                            \/ p \in late
<1>1. ASSUME OperatorInv, [OperatorNext]_operatorVars
      PROVE  [Confirmed]_<<pgVars, killVars>>
  <2>1. CASE ServerRuns
    BY <1>1, <2>1 DEF ServerRuns, PgTerminate, pgVars, OperatorInv, KillInv
  <2>2. CASE \E p \in PID : RunsLate(p)
    BY <2>2 DEF RunsLate, PgTerminate
  <2>3. CASE PgNext
    BY <1>1, <2>3, ServerType DEF OperatorInv
  <2>4. CASE UNCHANGED signalled
    BY <2>4
  <2>5. \/ UNCHANGED signalled \/ PgNext \/ ServerRuns
        \/ \E p \in PID : RunsLate(p)
    BY <1>1 DEF OperatorNext, TimePasses, StatusMoves, WatchMoves, ChooseVictim, KillMoves,
         ServerMoves, KillServerStep, operatorVars, pgVars
  <2> QED
    BY <2>1, <2>2, <2>3, <2>4, <2>5
<1>2. OperatorInv /\ [OperatorNext]_operatorVars => [Confirmed]_<<pgVars, killVars>>
  BY <1>1
<1> QED
  BY <1>2, OperatorCorrect, PTL DEF OperatorSpec, OnlyTheConfirmedDie

\* The exit code of status never overstates its output.
THEOREM OutputBearsOut == OperatorSpec => []OutputBearsOutCode
<1>1. ASSUME StatusInv, spc = "exited", ~quiet, ~failed
      PROVE  /\ code = 2 => pool = "critical" \/ "critical" \in Severities
             /\ code = 1 => pool = "warning" \/ Severities \cap {"warning", "critical"} # {}
  <2>1. BornOut /\ Rows = idle
    BY <1>1 DEF StatusInv, Reported
  <2>2. ASSUME NEW r \in idle, NEW threshold, NEW severities, Visible(r, threshold, severities)
        PROVE  Severities \cap severities # {}
    BY <2>1, <2>2 DEF Visible, Severities
  <2> QED
    BY <2>1, <2>2 DEF BornOut
<1>2. OperatorInv => OutputBearsOutCode
  BY <1>1 DEF OperatorInv, OutputBearsOutCode
<1> QED
  BY <1>2, OperatorCorrect, PTL

\* The exit code of status is no milder than the reading it comes from.
THEOREM CodeCovers == OperatorSpec => []CodeCoversReading
<1>1. ASSUME PgTypeOK, StatusInv, spc = "exited", ~failed,
             NEW p \in PID, IsIdleInTransaction(p), activity[p].age > since
      PROVE  LET then == activity[p].age - since + ClockSkew
             IN  /\ then >= IdleCritical => code = 2
                 /\ then >= IdleWarning  => code >= 1
  <2>1. PICK r \in idle : r.pid = p /\ activity[p].age <= r.idle + since
    BY <1>1 DEF StatusInv, ReadingInv, Reported
  <2>2. /\ r.idle + ClockSkew >= IdleCritical => code = 2
        /\ r.idle + ClockSkew >= IdleWarning  => code >= 1
    BY <1>1, <2>1 DEF StatusInv, Covered, Reported
  <2>3. r.idle \in Int /\ since \in Int /\ activity[p].age \in Int
    BY <1>1, <2>1 DEF StatusInv, StatusTypeOK, IdleRow, PgTypeOK, Row, Age
  <2> QED
    BY <2>1, <2>2, <2>3, ThresholdsAssumption
<1>2. StatusInv /\ spc = "exited" /\ ~failed => code >= PoolCode
  BY DEF StatusInv, Covered, Reported
<1>3. OperatorInv => CodeCoversReading
  BY <1>1, <1>2 DEF OperatorInv, CodeCoversReading
<1> QED
  BY <1>3, OperatorCorrect, PTL

\* What watch prints is what IdleAlerting promises.
THEOREM WatchKeepsPromise == OperatorSpec => WatchAsPromised
<1>1. OperatorInit => Watching!Init
  BY PgAssumption DEF OperatorInit, WatchInit, PgInit, Watching!Init, Watching!PgInit,
     Watching!Untold, Watching!NoReading, Absent, Watching!Absent, LastLines, LastLine, Watched,
     WatchScanning, InWatchRow
<1>2. ASSUME OperatorInv, [OperatorNext]_operatorVars
      PROVE  WatchingStep
  <2>1. CASE UNCHANGED watchVars
    BY <2>1, SilentWatch DEF watchVars, wmemory, wreading, Watched
  <2>2. CASE TimePasses
    BY <1>2, <2>2, WatchingTime DEF TimePasses, OperatorInv
  <2>3. CASE WatchMoves
    BY <1>2, <2>3, WatchImplements DEF WatchMoves, OperatorInv
  <2>4. CASE ChooseVictim
    <3>1. CASE LeaveWatch
      BY <1>2, <2>4, <3>1, WatchImplements DEF ChooseVictim, WatchStep, OperatorInv
    <3> QED
      BY <2>1, <2>4, <3>1 DEF ChooseVictim
  <2> QED
    BY <1>2, <2>1, <2>2, <2>3, <2>4 DEF OperatorNext, StatusMoves, KillMoves, ServerMoves,
       operatorVars
<1>3. OperatorInv /\ [OperatorNext]_operatorVars
         => [Watching!Next]_<<Watching!pgVars, Watching!alertingVars>>
  BY <1>2 DEF WatchingStep, pgVars, Watching!pgVars
<1> QED
  BY <1>1, <1>3, OperatorCorrect, PTL DEF OperatorSpec, WatchAsPromised, Watching!Spec
=============================================================================
