---------------------------- MODULE WatchProofs -----------------------------
(***************************************************************************)
(* watch implements IdleAlerting, for every value of the constants: what   *)
(* its variables say of the reading it works through, and the step of      *)
(* IdleAlerting that each step of watch is.                                *)
(***************************************************************************)
EXTENDS Watch, TLAPS

WatchSpell(p) == IsIdleInTransaction(p) /\ activity[p].age > wsince

\* The rows reached are tracked, the one at hand is one of them, and outside
\* of a poll nothing is left of the reading.
PlaceInv ==
    /\ WatchTypeOK
    /\ wpc \in WatchScanning => wseen \subseteq wtracked
    /\ wpc \notin WatchScanning => wtodo = {} /\ wseen = {} /\ wsince = 0
    /\ wpc = "resolve" => wtodo = {}
    /\ wpc \in InWatchRow => wcur.pid \in wseen
    /\ wpc = "critical" /\ wcur.dur >= IdleWarning => wcur.pid \in wwarned

\* A row's idle time lies between the spell's at the reading and the spell's
\* now, as long as the spell lasts.
RowsInv ==
    \A r \in wtodo : WatchSpell(r.pid) =>
        /\ activity[r.pid].age <= r.idle + wsince
        /\ Sat(r.idle + wsince) <= activity[r.pid].age

CurInv ==
    wpc \in InWatchRow /\ WatchSpell(wcur.pid) =>
        /\ activity[wcur.pid].age + ClockSkew <= wcur.dur + wsince
        /\ wcur.dur <= activity[wcur.pid].age + ClockSkew

\* What was overdue at the reading is flagged once its row is done with.
FlagsInv ==
    \A p \in wseen : WatchSpell(p) =>
        /\ \/ activity[p].age + ClockSkew >= IdleWarning + wsince => p \in wwarned
           \/ wpc = "warning" /\ p = wcur.pid
        /\ \/ activity[p].age + ClockSkew >= IdleCritical + wsince => p \in wcritical
           \/ wpc \in InWatchRow /\ p = wcur.pid

WatchInv == PlaceInv /\ RowsInv /\ CurInv /\ FlagsInv

-----------------------------------------------------------------------------
\* Steps that leave the reading and the server alone.
LEMMA ReadingStays ==
    ASSUME WatchInv, PlaceInv', UNCHANGED <<activity, wseen, wsince, wcur>>,
           wtodo' \subseteq wtodo, wwarned \cap wseen \subseteq wwarned',
           wcritical \cap wseen \subseteq wcritical',
           wpc' \notin InWatchRow, wpc \notin InWatchRow
    PROVE  WatchInv'
<1>1. RowsInv'
  BY DEF WatchInv, RowsInv, WatchSpell, IsIdleInTransaction
<1>2. CurInv'
  BY DEF CurInv
<1>3. FlagsInv'
  BY DEF WatchInv, FlagsInv, WatchSpell, IsIdleInTransaction, InWatchRow
<1> QED
  BY <1>1, <1>2, <1>3 DEF WatchInv

\* Nothing is read: there is nothing to say of it.
LEMMA NoReadingInv ==
    ASSUME PlaceInv', wpc' \notin WatchScanning
    PROVE  WatchInv'
BY DEF WatchInv, PlaceInv, RowsInv, CurInv, FlagsInv, WatchScanning

LEMMA WatchTakes ==
    ASSUME WatchInv, PgTypeOK, NEW r \in wtodo, FirstSight(r) \/ SeenAgain(r), UNCHANGED pgVars
    PROVE  WatchInv'
<1>1. /\ wpc = "rows" /\ wpc' = "warning"
      /\ UNCHANGED <<wclock, wleft, wcancelled, wsince, wcritical, activity>>
      /\ wtodo' = wtodo \ {r} /\ wseen' = wseen \cup {r.pid}
      /\ wcur' = [pid |-> r.pid, dur |-> Sat(r.idle + wsince) + ClockSkew]
      /\ wtracked' = wtracked \cup {r.pid}
      /\ wwarned \subseteq wwarned' /\ wwarned' \subseteq wtracked'
  BY DEF FirstSight, SeenAgain, TakeWatchRow, wmemory, pgVars, WatchInv, PlaceInv, WatchTypeOK
<1>2. r.pid \in PID /\ r.idle \in Age /\ wsince \in Age /\ activity[r.pid].age \in Age
  BY DEF WatchInv, PlaceInv, WatchTypeOK, PgTypeOK, Row
<1>3. wcur'.pid = r.pid /\ wcur'.dur = Sat(r.idle + wsince) + ClockSkew /\ wcur'.dur \in Int
  BY <1>1, <1>2, PgAssumption, ThresholdsAssumption DEF Sat, Age
<1>4. PlaceInv'
  <2>1. WatchTypeOK'
    BY <1>1, <1>2, <1>3 DEF WatchInv, PlaceInv, WatchTypeOK, InWatchRow, wclock
  <2> QED
    BY <1>1, <1>3, <2>1 DEF WatchInv, PlaceInv, WatchScanning, InWatchRow
<1>5. RowsInv'
  BY <1>1 DEF WatchInv, RowsInv, WatchSpell, IsIdleInTransaction
<1>6. CurInv'
  <2>1. r.idle + wsince <= Horizon => Sat(r.idle + wsince) = r.idle + wsince
    BY <1>2, PgAssumption DEF Sat, Age
  <2>2. r.idle <= Sat(r.idle + wsince)
    BY <1>2, PgAssumption DEF Sat, Age
  <2>3. WatchSpell(r.pid) => /\ activity[r.pid].age <= r.idle + wsince
                             /\ Sat(r.idle + wsince) <= activity[r.pid].age
    BY DEF WatchInv, RowsInv
  <2>4. Sat(r.idle + wsince) \in Int
    BY <1>2, PgAssumption DEF Sat, Age
  <2>5. WatchSpell(r.pid) =>
            /\ activity[r.pid].age + ClockSkew <= wcur'.dur + wsince
            /\ wcur'.dur <= activity[r.pid].age + ClockSkew
    BY <1>2, <1>3, <2>2, <2>3, <2>4, PgAssumption, ThresholdsAssumption DEF Age
  <2> QED
    BY <1>1, <1>3, <2>5 DEF CurInv, WatchSpell, IsIdleInTransaction
<1>7. FlagsInv'
  BY <1>1, <1>3 DEF WatchInv, FlagsInv, WatchSpell, IsIdleInTransaction, InWatchRow
<1> QED
  BY <1>4, <1>5, <1>6, <1>7 DEF WatchInv

\* A flag is set when the row's idle time reaches the threshold, which is no
\* less than the spell's at the reading.
LEMMA WatchChecks ==
    ASSUME WatchInv, PgTypeOK, CheckWatchWarning \/ CheckWatchCritical, UNCHANGED pgVars
    PROVE  WatchInv'
<1>1. /\ wcur.pid \in wseen /\ wcur.pid \in wtracked /\ wcur.pid \in PID /\ wcur.dur \in Int
      /\ wsince \in Int /\ activity[wcur.pid].age \in Int
  BY DEF CheckWatchWarning, CheckWatchCritical, WatchInv, PlaceInv, WatchTypeOK, InWatchRow,
     WatchScanning, PgTypeOK, Row, Age
<1>2. WatchSpell(wcur.pid) => activity[wcur.pid].age + ClockSkew <= wcur.dur + wsince
  BY DEF CheckWatchWarning, CheckWatchCritical, WatchInv, CurInv, InWatchRow
<1>3. CASE CheckWatchWarning
  <2>1. /\ wpc = "warning" /\ wpc' = "critical"
        /\ wwarned' = IF wcur.dur >= IdleWarning THEN wwarned \cup {wcur.pid} ELSE wwarned
        /\ UNCHANGED <<wclock, wleft, wcancelled, wtodo, wseen, wsince, wcur, wtracked,
                       wcritical, activity>>
    BY <1>3 DEF CheckWatchWarning, wreading, pgVars
  <2>2. PlaceInv'
    BY <1>1, <2>1 DEF WatchInv, PlaceInv, WatchTypeOK, wclock, WatchScanning, InWatchRow
  <2>3. RowsInv' /\ CurInv'
    BY <2>1 DEF WatchInv, RowsInv, CurInv, WatchSpell, IsIdleInTransaction, InWatchRow
  <2>4. WatchSpell(wcur.pid) /\ activity[wcur.pid].age + ClockSkew >= IdleWarning + wsince
          => wcur.pid \in wwarned'
    BY <1>1, <1>2, <2>1, ThresholdsAssumption
  <2>5. FlagsInv'
    BY <2>1, <2>4 DEF WatchInv, FlagsInv, WatchSpell, IsIdleInTransaction, InWatchRow
  <2> QED
    BY <2>2, <2>3, <2>5 DEF WatchInv
<1>4. CASE CheckWatchCritical
  <2>1. /\ wpc = "critical" /\ wpc' = "rows" /\ wcur' = NoWatchRow
        /\ wcritical' = IF wcur.dur >= IdleCritical THEN wcritical \cup {wcur.pid} ELSE wcritical
        /\ UNCHANGED <<wclock, wleft, wcancelled, wtodo, wseen, wsince, wtracked, wwarned,
                       activity>>
    BY <1>4 DEF CheckWatchCritical, wreading, pgVars
  <2>2. wcur.dur >= IdleCritical => wcur.pid \in wwarned
    BY <1>1, <2>1, ThresholdsAssumption DEF WatchInv, PlaceInv
  <2>3. PlaceInv'
    BY <1>1, <2>1, <2>2 DEF WatchInv, PlaceInv, WatchTypeOK, wclock, WatchScanning, InWatchRow,
       NoWatchRow
  <2>4. RowsInv' /\ CurInv'
    BY <2>1 DEF WatchInv, RowsInv, CurInv, WatchSpell, IsIdleInTransaction, InWatchRow
  <2>5. WatchSpell(wcur.pid) /\ activity[wcur.pid].age + ClockSkew >= IdleCritical + wsince
          => wcur.pid \in wcritical'
    BY <1>1, <1>2, <2>1, ThresholdsAssumption
  <2>6. FlagsInv'
    BY <2>1, <2>5 DEF WatchInv, FlagsInv, WatchSpell, IsIdleInTransaction, InWatchRow
  <2> QED
    BY <2>3, <2>4, <2>6 DEF WatchInv
<1> QED
  BY <1>3, <1>4

\* The rows of the reading are the server's, all fresh.
LEMMA WatchReads ==
    ASSUME WatchInv, PgTypeOK, WatchRowsReturn, UNCHANGED pgVars
    PROVE  WatchInv'
<1>1. /\ wpc = "idle" /\ wpc' = "rows" /\ wsince' = 0 /\ wleft' = 0
      /\ wtodo' = {[pid |-> r.pid, idle |-> r.idle] : r \in IdleRows}
      /\ UNCHANGED <<wclock, wcancelled, wseen, wcur, wmemory, activity>>
      /\ wseen = {}
  BY DEF WatchRowsReturn, pgVars, WatchInv, PlaceInv, WatchScanning, InWatchRow
<1>2. \A r \in wtodo' : r \in [pid : PID, idle : Age] /\ r.idle = activity[r.pid].age
  BY <1>1 DEF IdleRows, PgTypeOK, Row
<1>3. PlaceInv'
  BY <1>1, <1>2, PgAssumption, WatchAssumption DEF WatchInv, PlaceInv, WatchTypeOK, Age, wclock,
     wmemory, WatchScanning, InWatchRow
<1>4. RowsInv'
  <2>1. \A r \in wtodo' : r.idle + 0 = activity'[r.pid].age /\ Sat(r.idle + 0) = activity'[r.pid].age
    BY <1>1, <1>2, PgAssumption DEF Sat, Age
  <2>2. \A r \in wtodo' : activity'[r.pid].age \in Int
    BY <1>1, <1>2 DEF PgTypeOK, Row, Age
  <2> QED
    BY <1>1, <2>1, <2>2 DEF RowsInv
<1>5. CurInv' /\ FlagsInv'
  BY <1>1 DEF CurInv, FlagsInv, InWatchRow
<1> QED
  BY <1>3, <1>4, <1>5 DEF WatchInv

LEMMA WatchStepInv ==
    ASSUME WatchInv, PgTypeOK, WatchStep, UNCHANGED pgVars
    PROVE  WatchInv'
<1> USE WatchAssumption DEF wclock, wreading, wmemory, NoWatchRow
<1>1. ASSUME \/ RunWatch \/ WatchConnects \/ WatchConnectFails
             \/ WatchQueryFails \/ WatchStatsReturn \/ EndWatchPoll
             \/ WatchTicks \/ WatchStops \/ LeaveWatch
      PROVE  WatchInv'
  <2>1. wpc' \notin WatchScanning
    BY <1>1 DEF RunWatch, WatchConnects, WatchConnectFails, WatchEnds, WatchQueryFails,
       WatchPollReturns, WatchStatsReturn, EndWatchPoll, WatchTicks, BeginWatchPoll, WatchStops,
       LeaveWatch, WatchScanning, InWatchRow
  <2>2. WatchTypeOK'
    <3>1. wcancelled' \in BOOLEAN /\ wtick' \in BOOLEAN
      BY <1>1, Zenon DEF RunWatch, WatchConnects, WatchConnectFails, WatchEnds, WatchQueryFails,
         WatchPollReturns, WatchStatsReturn, EndWatchPoll, WatchTicks, BeginWatchPoll, WatchStops,
         LeaveWatch, WatchInv, PlaceInv, WatchTypeOK
    <3>2. 0 \in Age /\ NoWatchRow \in [pid : PID \cup {NoPid}, dur : Int]
      BY PgAssumption DEF Age
    <3> QED
      BY <1>1, <3>1, <3>2 DEF RunWatch, WatchConnects, WatchConnectFails, WatchEnds,
         WatchQueryFails, WatchPollReturns, WatchStatsReturn, EndWatchPoll, WatchTicks,
         BeginWatchPoll, WatchStops, LeaveWatch, WatchInv, PlaceInv, WatchTypeOK
  <2>3. wtodo' = {} /\ wseen' = {} /\ wsince' = 0
    BY <1>1 DEF RunWatch, WatchConnects, WatchConnectFails, WatchEnds, WatchQueryFails,
       WatchPollReturns, WatchStatsReturn, EndWatchPoll, WatchTicks, BeginWatchPoll, WatchStops,
       LeaveWatch, WatchInv, PlaceInv, WatchScanning, InWatchRow
  <2>4. PlaceInv'
    BY <2>1, <2>2, <2>3 DEF PlaceInv, WatchScanning, InWatchRow
  <2> QED
    BY <2>1, <2>4, NoReadingInv
<1>2. CASE WatchRowsReturn
  BY <1>2, WatchReads
<1>3. ASSUME NEW r \in wtodo, FirstSight(r) \/ SeenAgain(r)
      PROVE  WatchInv'
  BY <1>3, WatchTakes
<1>4. CASE CheckWatchWarning \/ CheckWatchCritical
  BY <1>4, WatchChecks
<1>5. CASE EndWatchRows \/ \E p \in PID : WatchResolves(p)
  <2>1. PlaceInv'
    BY <1>5 DEF EndWatchRows, WatchResolves, WatchInv, PlaceInv, WatchTypeOK, WatchScanning,
       InWatchRow
  <2> QED
    BY <1>5, <2>1, ReadingStays DEF EndWatchRows, WatchResolves, pgVars, InWatchRow
<1>6. CASE Interrupt
  <2>1. PlaceInv'
    BY <1>6 DEF Interrupt, WatchInv, PlaceInv, WatchTypeOK, WatchScanning, InWatchRow
  <2>2. RowsInv' /\ CurInv' /\ FlagsInv'
    BY <1>6 DEF Interrupt, WatchInv, RowsInv, CurInv, FlagsInv, WatchSpell, IsIdleInTransaction,
       pgVars
  <2> QED
    BY <2>1, <2>2 DEF WatchInv
<1> QED
  BY <1>1, <1>2, <1>3, <1>4, <1>5, <1>6 DEF WatchStep

\* Idle times grow with the clock, and nothing of the reading changes.
LEMMA WatchTimeInv ==
    ASSUME WatchInv, PgTypeOK, WatchAges, activity' = Aged
    PROVE  WatchInv'
<1>1. /\ UNCHANGED <<wpc, wcancelled, wtodo, wseen, wcur, wtracked, wwarned, wcritical>>
      /\ wsince' = IF wpc \in WatchScanning THEN Sat(wsince + 1) ELSE 0
      /\ wsince \in Age /\ wsince' \in Age
  BY PgAssumption DEF WatchAges, wmemory, WatchInv, PlaceInv, WatchTypeOK, Age, Sat
<1>2. ASSUME NEW p \in PID, WatchSpell(p)', wpc \in WatchScanning
      PROVE  /\ WatchSpell(p)
             /\ wsince' = wsince + 1
             /\ activity'[p].age = Sat(activity[p].age + 1)
             /\ activity[p].age \in Age
  <2>1. IsIdleInTransaction(p) /\ activity[p].age \in Age
    BY <1>2 DEF WatchSpell, Aged, PgTypeOK, Row, IsIdleInTransaction
  <2>2. activity'[p].age = Sat(activity[p].age + 1)
    BY <2>1 DEF Aged, PgTypeOK, Row
  <2>3. activity[p].age > wsince /\ wsince' = wsince + 1
    BY <1>1, <1>2, <2>1, <2>2, PgAssumption DEF WatchSpell, Sat, Age
  <2> QED
    BY <2>1, <2>2, <2>3 DEF WatchSpell
<1>3. PlaceInv'
  <2>1. wleft' \in 0 .. WatchTimeout /\ wnext' \in 1 .. WatchInterval
    BY WatchAssumption DEF WatchAges, WatchInv, PlaceInv, WatchTypeOK, wclock
  <2>2. wtick' \in BOOLEAN
    BY Zenon DEF WatchAges, WatchInv, PlaceInv, WatchTypeOK, wclock
  <2> QED
    BY <1>1, <2>1, <2>2 DEF WatchInv, PlaceInv, WatchTypeOK, WatchScanning
<1>4. RowsInv'
  <2> SUFFICES ASSUME NEW r \in wtodo, WatchSpell(r.pid)'
               PROVE  /\ activity'[r.pid].age <= r.idle + wsince'
                      /\ Sat(r.idle + wsince') <= activity'[r.pid].age
    BY <1>1 DEF RowsInv, WatchSpell, IsIdleInTransaction
  <2>1. r.pid \in PID /\ r.idle \in Age /\ wpc \in WatchScanning
    BY DEF WatchInv, PlaceInv, WatchTypeOK
  <2>2. /\ wsince' = wsince + 1 /\ activity[r.pid].age \in Age
        /\ activity'[r.pid].age = Sat(activity[r.pid].age + 1)
        /\ activity[r.pid].age <= r.idle + wsince
        /\ Sat(r.idle + wsince) <= activity[r.pid].age
    BY <1>2, <2>1 DEF WatchInv, RowsInv
  <2> QED
    BY <1>1, <2>1, <2>2, PgAssumption DEF Sat, Age
<1>5. CurInv'
  <2> SUFFICES ASSUME NEW p \in PID, p = wcur.pid, wpc \in InWatchRow, WatchSpell(p)'
               PROVE  /\ activity'[p].age + ClockSkew <= wcur.dur + wsince'
                      /\ wcur.dur <= activity'[p].age + ClockSkew
    BY <1>1 DEF CurInv, WatchSpell, IsIdleInTransaction, WatchInv, PlaceInv, WatchTypeOK
  <2>1. wcur.dur \in Int /\ wpc \in WatchScanning
    BY DEF WatchInv, PlaceInv, WatchTypeOK, WatchScanning
  <2>2. /\ wsince' = wsince + 1 /\ activity[p].age \in Age
        /\ activity'[p].age = Sat(activity[p].age + 1)
        /\ activity[p].age + ClockSkew <= wcur.dur + wsince
        /\ wcur.dur <= activity[p].age + ClockSkew
    BY <1>2, <2>1 DEF WatchInv, CurInv
  <2> QED
    BY <1>1, <2>1, <2>2, PgAssumption, ThresholdsAssumption DEF Sat, Age
<1>6. FlagsInv'
  <2> SUFFICES ASSUME NEW p \in wseen, WatchSpell(p)'
               PROVE  /\ \/ activity'[p].age + ClockSkew >= IdleWarning + wsince' => p \in wwarned
                         \/ wpc = "warning" /\ p = wcur.pid
                      /\ \/ activity'[p].age + ClockSkew >= IdleCritical + wsince'
                               => p \in wcritical
                         \/ wpc \in InWatchRow /\ p = wcur.pid
    BY <1>1 DEF FlagsInv, WatchSpell, IsIdleInTransaction
  <2>1. p \in PID /\ wpc \in WatchScanning
    BY DEF WatchInv, PlaceInv, WatchTypeOK
  <2>2. /\ wsince' = wsince + 1 /\ activity[p].age \in Age /\ WatchSpell(p)
        /\ activity'[p].age = Sat(activity[p].age + 1)
    BY <1>2, <2>1
  <2>3. \A threshold \in Int : activity'[p].age + ClockSkew >= threshold + wsince'
                                => activity[p].age + ClockSkew >= threshold + wsince
    BY <1>1, <2>2, PgAssumption, ThresholdsAssumption DEF Sat, Age
  <2> QED
    BY <2>2, <2>3, ThresholdsAssumption DEF WatchInv, FlagsInv
<1> QED
  BY <1>3, <1>4, <1>5, <1>6 DEF WatchInv

\* The server goes on: a spell that is older than the reading was there.
LEMMA WatchServerInv ==
    ASSUME WatchInv, PgTypeOK, UNCHANGED watchVars, PgNext \/ UNCHANGED activity
    PROVE  WatchInv'
<1>1. UNCHANGED <<wpc, wtick, wnext, wleft, wcancelled, wtodo, wseen, wsince, wcur,
                  wtracked, wwarned, wcritical>>
  BY DEF watchVars, wclock, wreading, wmemory
<1>2. \A p \in PID : WatchSpell(p)' => WatchSpell(p) /\ activity'[p].age = activity[p].age
  <2>1. CASE UNCHANGED activity
    BY <1>1, <2>1 DEF WatchSpell, IsIdleInTransaction
  <2>2. CASE PgNext
    <3> SUFFICES ASSUME NEW p \in PID, activity'[p].state = "idleInTx", activity'[p].age > wsince
                 PROVE  activity[p].state = "idleInTx" /\ activity'[p].age = activity[p].age
      BY <1>1 DEF WatchSpell, IsIdleInTransaction
    <3> USE DEF PgTypeOK, Row, WatchInv, PlaceInv, WatchTypeOK, Age
    <3>1. ASSUME NEW q \in PID, NEW c \in Client, Connect(q, c) \/ Rename(q, c)
          PROVE  activity[p].state = "idleInTx" /\ activity'[p].age = activity[p].age
      BY <3>1 DEF Connect, Rename
    <3>2. ASSUME NEW q \in PID, GoIdle(q) \/ Resume(q) \/ BackendExits(q)
          PROVE  activity[p].state = "idleInTx" /\ activity'[p].age = activity[p].age
      BY <3>2 DEF GoIdle, Resume, BackendExits, Absent
    <3> QED
      BY <2>2, <3>1, <3>2 DEF PgNext
  <2> QED
    BY <2>1, <2>2
<1>3. PlaceInv'
  BY <1>1 DEF WatchInv, PlaceInv, WatchTypeOK, WatchScanning
<1>4. RowsInv'
  BY <1>1, <1>2 DEF WatchInv, RowsInv, PlaceInv, WatchTypeOK
<1>5. CurInv'
  BY <1>1, <1>2 DEF WatchInv, CurInv, PlaceInv, WatchTypeOK
<1>6. FlagsInv'
  BY <1>1, <1>2 DEF WatchInv, FlagsInv, PlaceInv, WatchTypeOK
<1> QED
  BY <1>3, <1>4, <1>5, <1>6 DEF WatchInv

-----------------------------------------------------------------------------
(* The steps, as steps of IdleAlerting.                                    *)

WatchingStep == [Watching!Next]_<<pgVars, Watching!alertingVars>>

LEMMA LineIs ==
    ASSUME WatchTypeOK, wpc # "stopped", NEW p \in PID
    PROVE  /\ LastLines[p] = "none" <=> p \notin wtracked
           /\ LastLines[p] \in {"none", "seen"} <=> p \notin wwarned
           /\ LastLines[p] = "critical" <=> p \in wcritical
           /\ LastLines[p] \in {"none", "seen", "warning", "critical"}
BY DEF LastLines, LastLine, WatchTypeOK

LEMMA WatchedIs ==
    ASSUME WatchTypeOK
    PROVE  /\ Watched = Watching!NoReading <=> wpc \notin WatchScanning
           /\ wpc \in WatchScanning => Watched = wseen \cup {r.pid : r \in wtodo}
BY PgAssumption DEF WatchTypeOK, Watched, Watching!NoReading

LEMMA LineIsSaid ==
    ASSUME NEW p \in PID, NEW word,
           LastLine(p)' = word,
           \A q \in PID \ {p} : LastLine(q)' = LastLine(q),
           UNCHANGED <<pgVars, wsince>>, Watched' = Watched
    PROVE  Watching!Say(p, word)
<1>1. LastLines' = [LastLines EXCEPT ![p] = word]
  BY DEF LastLines
<1> QED
  BY <1>1 DEF Watching!Say, Watching!pgVars, pgVars

LEMMA SilentWatch ==
    ASSUME UNCHANGED <<wmemory, wsince>>, Watched' = Watched,
           wpc = "stopped" <=> wpc' = "stopped"
    PROVE  WatchingStep
BY DEF WatchingStep, Watching!Next, Watching!ServerMoves, Watching!alertingVars,
       LastLines, LastLine, wmemory

\* A poll has read the rows: a reading.
LEMMA WatchingReads ==
    ASSUME WatchInv, WatchRowsReturn, UNCHANGED pgVars
    PROVE  WatchingStep
<1>1. /\ wpc = "idle" /\ wpc' = "rows" /\ wsince' = 0 /\ wseen' = {}
      /\ wtodo' = {[pid |-> r.pid, idle |-> r.idle] : r \in IdleRows}
      /\ UNCHANGED wmemory
  BY DEF WatchRowsReturn, WatchInv, PlaceInv, WatchScanning, InWatchRow
<1>2. {r.pid : r \in wtodo'} = {p \in PID : IsIdleInTransaction(p)}
  <2>1. \A r \in wtodo' : r.pid \in PID /\ IsIdleInTransaction(r.pid)
    BY <1>1 DEF IdleRows
  <2>2. ASSUME NEW p \in PID, IsIdleInTransaction(p)
        PROVE  \E r \in wtodo' : r.pid = p
    <3>1. [pid |-> p, client |-> activity[p].client, idle |-> activity[p].age] \in IdleRows
      BY <2>2 DEF IdleRows
    <3>2. [pid |-> p, idle |-> activity[p].age] \in wtodo'
      BY <1>1, <3>1
    <3> QED
      BY <3>2
  <2> QED
    BY <2>1, <2>2
<1>3. Watched = Watching!NoReading
  BY <1>1, WatchedIs DEF WatchInv, PlaceInv, WatchScanning, InWatchRow
<1>4. Watched' = {p \in PID : Watching!IsIdleInTransaction(p)}
  BY <1>1, <1>2 DEF Watched, WatchScanning, InWatchRow, Watching!IsIdleInTransaction,
     IsIdleInTransaction
<1>5. LastLines' = LastLines
  BY <1>1 DEF LastLines, LastLine, wmemory
<1> QED
  BY <1>1, <1>3, <1>4, <1>5 DEF WatchingStep, Watching!Next, Watching!Read, pgVars,
     Watching!pgVars

\* A row is reached, and if it is new, it is seen or warned of.
LEMMA WatchingTakes ==
    ASSUME WatchInv, PgTypeOK, NEW r \in wtodo, FirstSight(r) \/ SeenAgain(r), UNCHANGED pgVars
    PROVE  WatchingStep
<1>1. /\ wpc = "rows" /\ wpc' = "warning"
      /\ UNCHANGED <<wsince, wcritical>>
      /\ r.pid \in PID /\ r \in wtodo
      /\ wtodo' = wtodo \ {r} /\ wseen' = wseen \cup {r.pid}
  BY DEF FirstSight, SeenAgain, TakeWatchRow, wmemory, WatchInv, PlaceInv, WatchTypeOK
<1>2. Watched' = Watched /\ r.pid \in Watched
  BY <1>1 DEF Watched, WatchScanning, InWatchRow
<1>3. CASE SeenAgain(r)
  BY <1>1, <1>2, <1>3, SilentWatch DEF SeenAgain
<1>4. CASE FirstSight(r)
  <2>1. /\ r.pid \notin wtracked /\ r.pid \notin wwarned /\ r.pid \notin wcritical
        /\ wtracked' = wtracked \cup {r.pid}
        /\ wwarned' = IF wcur'.dur >= IdleWarning THEN wwarned \cup {r.pid} ELSE wwarned
    BY <1>4 DEF FirstSight, WatchInv, PlaceInv, WatchTypeOK
  <2>2. LastLines[r.pid] = "none"
    BY <1>1, <2>1, LineIs DEF WatchInv, PlaceInv
  <2>3. \A q \in PID \ {r.pid} : LastLine(q)' = LastLine(q)
    BY <1>1, <2>1 DEF LastLine
  <2>4. CASE wcur'.dur >= IdleWarning
    <3>1. LastLine(r.pid)' = "warning"
      BY <1>1, <2>1, <2>4 DEF LastLine
    <3>2. Watching!Say(r.pid, "warning")
      BY <1>1, <1>2, <2>3, <3>1, LineIsSaid
    <3>3. Watching!Overdue(r.pid, IdleWarning)
      <4>1. WatchSpell(r.pid) => Sat(r.idle + wsince) <= activity[r.pid].age
        BY DEF WatchInv, RowsInv
      <4>2. wcur'.dur = Sat(r.idle + wsince) + ClockSkew
        BY <1>4 DEF FirstSight, TakeWatchRow
      <4>3. activity[r.pid].age \in Int /\ Sat(r.idle + wsince) \in Int
        BY <1>1, PgAssumption DEF PgTypeOK, Row, Age, Sat, WatchInv, PlaceInv, WatchTypeOK
      <4> QED
        BY <2>4, <4>1, <4>2, <4>3, ThresholdsAssumption DEF Watching!Overdue, Watching!InSpell,
           WatchSpell, IsIdleInTransaction, Watching!IsIdleInTransaction
    <3> QED
      BY <1>1, <1>2, <2>2, <3>2, <3>3 DEF WatchingStep, Watching!Next, Watching!Warn
  <2>5. CASE ~(wcur'.dur >= IdleWarning)
    <3>1. LastLine(r.pid)' = "seen"
      BY <1>1, <2>1, <2>5 DEF LastLine
    <3>2. Watching!Say(r.pid, "seen")
      BY <1>1, <1>2, <2>3, <3>1, LineIsSaid
    <3> QED
      BY <1>1, <1>2, <2>2, <3>2 DEF WatchingStep, Watching!Next, Watching!See
  <2> QED
    BY <2>4, <2>5
<1> QED
  BY <1>3, <1>4

\* A threshold is reached for the first time: it is said, and it is so.
LEMMA WatchingChecks ==
    ASSUME WatchInv, PgTypeOK, CheckWatchWarning \/ CheckWatchCritical, UNCHANGED pgVars,
           NEW p \in PID, p = wcur.pid
    PROVE  WatchingStep
<1>1. /\ wpc \in InWatchRow /\ wpc' \in {"critical", "rows"}
      /\ UNCHANGED <<wsince, wseen, wtodo, wtracked>>
      /\ p \in wseen /\ p \in wtracked /\ wcur.dur \in Int
  BY DEF CheckWatchWarning, CheckWatchCritical, InWatchRow, wreading, WatchInv, PlaceInv,
     WatchTypeOK, WatchScanning
<1>2. Watched' = Watched /\ p \in Watched
  BY <1>1 DEF Watched, WatchScanning, InWatchRow
<1>3. WatchSpell(p) => wcur.dur <= activity[p].age + ClockSkew
  BY <1>1 DEF WatchInv, CurInv
<1>4. \A threshold \in Int : wcur.dur >= threshold => Watching!Overdue(p, threshold)
  <2>1. activity[p].age \in Int
    BY DEF PgTypeOK, Row, Age
  <2> QED
    BY <1>1, <1>3, <2>1, ThresholdsAssumption DEF Watching!Overdue, Watching!InSpell,
       WatchSpell, IsIdleInTransaction, Watching!IsIdleInTransaction
<1>5. CASE UNCHANGED wmemory
  BY <1>1, <1>2, <1>5, SilentWatch DEF InWatchRow
<1>6. CASE CheckWatchWarning /\ ~UNCHANGED wmemory
  <2>1. /\ p \notin wwarned /\ p \notin wcritical /\ wcur.dur >= IdleWarning
        /\ wwarned' = wwarned \cup {p} /\ UNCHANGED wcritical
    BY <1>1, <1>6 DEF CheckWatchWarning, wmemory, WatchInv, PlaceInv, WatchTypeOK
  <2>2. /\ LastLine(p)' = "warning"
        /\ \A q \in PID \ {p} : LastLine(q)' = LastLine(q)
    BY <1>1, <2>1 DEF LastLine, InWatchRow
  <2>3. Watching!Say(p, "warning")
    BY <1>1, <1>2, <2>2, LineIsSaid
  <2>4. LastLines[p] \in {"none", "seen"}
    BY <1>1, <2>1, LineIs DEF WatchInv, PlaceInv, InWatchRow
  <2> QED
    BY <1>1, <1>2, <1>4, <2>1, <2>3, <2>4, ThresholdsAssumption DEF WatchingStep, Watching!Next,
       Watching!Warn
<1>7. CASE CheckWatchCritical /\ ~UNCHANGED wmemory
  <2>1. /\ p \notin wcritical /\ wcur.dur >= IdleCritical /\ p \in wwarned
        /\ wcritical' = wcritical \cup {p} /\ UNCHANGED wwarned
    BY <1>1, <1>7, ThresholdsAssumption DEF CheckWatchCritical, wmemory, WatchInv, PlaceInv
  <2>2. /\ LastLine(p)' = "critical"
        /\ \A q \in PID \ {p} : LastLine(q)' = LastLine(q)
    BY <1>1, <2>1 DEF LastLine, InWatchRow
  <2>3. Watching!Say(p, "critical")
    BY <1>1, <1>2, <2>2, LineIsSaid
  <2>4. LastLines[p] = "warning"
    BY <1>1, <2>1, LineIs DEF WatchInv, PlaceInv, InWatchRow
  <2> QED
    BY <1>1, <1>2, <1>4, <2>1, <2>3, <2>4, ThresholdsAssumption DEF WatchingStep, Watching!Next,
       Watching!Critical
<1> QED
  BY <1>5, <1>6, <1>7

LEMMA WatchingResolves ==
    ASSUME WatchInv, NEW p \in PID, WatchResolves(p), UNCHANGED pgVars
    PROVE  WatchingStep
<1>1. /\ wpc = "resolve" /\ wpc' = "resolve" /\ wtodo = {} /\ p \in wtracked /\ p \notin wseen
      /\ UNCHANGED <<wsince, wseen, wtodo>>
  BY DEF WatchResolves, wreading, WatchInv, PlaceInv
<1>2. Watched' = Watched /\ Watched = wseen /\ Watched # Watching!NoReading
  BY <1>1, WatchedIs DEF Watched, WatchScanning, WatchInv, PlaceInv
<1>3. LastLine(p)' = "none" /\ \A q \in PID \ {p} : LastLine(q)' = LastLine(q)
  BY <1>1 DEF LastLine, WatchResolves
<1>4. Watching!Say(p, "none") /\ LastLines[p] # "none"
  BY <1>1, <1>2, <1>3, LineIsSaid, LineIs DEF WatchInv, PlaceInv
<1> QED
  BY <1>1, <1>2, <1>4 DEF WatchingStep, Watching!Next, Watching!Resolve

\* The poll is over: everything has been said.
LEMMA WatchingFinishes ==
    ASSUME WatchInv, PgTypeOK, EndWatchPoll, UNCHANGED pgVars
    PROVE  WatchingStep
<1>1. /\ wpc = "resolve" /\ wpc' = "select" /\ wsince' = 0 /\ wtodo = {}
      /\ wtracked = wseen /\ wseen \subseteq PID /\ UNCHANGED wmemory
  BY DEF EndWatchPoll, WatchPollReturns, WatchInv, PlaceInv, WatchTypeOK, WatchScanning
<1>2. Watched = wseen /\ Watched' = Watching!NoReading
  BY <1>1 DEF Watched, WatchScanning, InWatchRow, Watching!NoReading
<1>3. Watched = {p \in PID : LastLines[p] # "none"}
  BY <1>1, <1>2, LineIs DEF WatchInv, PlaceInv
<1>4. ASSUME NEW p \in Watched, Watching!InSpell(p)
      PROVE  LET then == activity[p].age - wsince + ClockSkew
             IN  /\ then >= IdleWarning  => LastLines[p] \in {"warning", "critical"}
                 /\ then >= IdleCritical => LastLines[p] = "critical"
  <2>1. p \in wseen /\ p \in PID /\ WatchSpell(p)
    BY <1>1, <1>2, <1>4 DEF Watching!InSpell, WatchSpell, IsIdleInTransaction,
         Watching!IsIdleInTransaction
  <2>2. /\ activity[p].age + ClockSkew >= IdleWarning + wsince => p \in wwarned
        /\ activity[p].age + ClockSkew >= IdleCritical + wsince => p \in wcritical
    BY <1>1, <2>1 DEF WatchInv, FlagsInv, InWatchRow
  <2>3. wsince \in Int /\ activity[p].age \in Int
    BY <2>1 DEF WatchInv, PlaceInv, WatchTypeOK, PgTypeOK, Row, Age
  <2>4. /\ p \in wwarned => LastLines[p] \in {"warning", "critical"}
        /\ p \in wcritical => LastLines[p] = "critical"
    BY <1>1, <2>1, LineIs DEF WatchInv, PlaceInv
  <2> QED
    BY <2>2, <2>3, <2>4, ThresholdsAssumption
<1>5. LastLines' = LastLines
  BY <1>1 DEF LastLines, LastLine, wmemory
<1> QED
  BY <1>1, <1>2, <1>3, <1>4, <1>5 DEF WatchingStep, Watching!Next, Watching!Finish, pgVars,
     Watching!pgVars

\* The process is gone, and with it what it knew.
LEMMA WatchingLapses ==
    ASSUME WatchInv, NEW at \in {"connect", "select"}, WatchEnds(at), UNCHANGED pgVars
    PROVE  WatchingStep
<1>1. /\ wpc = at /\ wpc' = "stopped" /\ UNCHANGED <<wsince, wseen, wtodo>> /\ wsince = 0
  BY DEF WatchEnds, wreading, WatchInv, PlaceInv, WatchScanning, InWatchRow
<1>2. LastLines' = Watching!Untold
  BY <1>1 DEF LastLines, LastLine, Watching!Untold
<1>3. Watched' = Watching!NoReading
  BY <1>1 DEF Watched, Watching!NoReading, WatchScanning, InWatchRow
<1> QED
  BY <1>1, <1>2, <1>3 DEF WatchingStep, Watching!Next, Watching!Lapse, pgVars, Watching!pgVars

LEMMA WatchingTime ==
    ASSUME WatchInv, WatchAges, activity' = Aged, UNCHANGED signalled
    PROVE  WatchingStep
<1>1. /\ UNCHANGED <<wpc, wtodo, wseen, wtracked, wwarned, wcritical>>
      /\ wsince' = IF wpc \in WatchScanning THEN Sat(wsince + 1) ELSE 0
  BY DEF WatchAges, wmemory
<1>2. Aged = Watching!Aged /\ Sat(wsince + 1) = Watching!Sat(wsince + 1)
  BY DEF Aged, Watching!Aged, Sat, Watching!Sat, IsIdleInTransaction,
     Watching!IsIdleInTransaction
<1>3. LastLines' = LastLines /\ Watched' = Watched
  BY <1>1 DEF LastLines, LastLine, Watched
<1>4. Watched = Watching!NoReading <=> wpc \notin WatchScanning
  BY WatchedIs DEF WatchInv, PlaceInv
<1> QED
  BY <1>1, <1>2, <1>3, <1>4 DEF WatchingStep, Watching!Next, Watching!TimePasses

LEMMA WatchImplements ==
    ASSUME WatchInv, PgTypeOK, WatchStep, UNCHANGED pgVars
    PROVE  WatchingStep
<1>1. ASSUME RunWatch \/ WatchConnects \/ WatchQueryFails \/ WatchStatsReturn \/ WatchTicks
      PROVE  WatchingStep
  <2>1. /\ wpc \notin WatchScanning \cup {"stopped"} /\ wpc' \notin WatchScanning \cup {"stopped"}
        /\ UNCHANGED wmemory
        /\ wsince' = wsince
    BY <1>1 DEF RunWatch, WatchConnects, WatchQueryFails, WatchPollReturns, WatchStatsReturn,
       WatchTicks, BeginWatchPoll, WatchScanning, InWatchRow, wreading, WatchInv, PlaceInv
  <2>2. Watched' = Watched
    BY <2>1 DEF Watched
  <2> QED
    BY <2>1, <2>2, SilentWatch
<1>2. CASE EndWatchRows \/ Interrupt
  <2>1. /\ wpc # "stopped" /\ wpc' # "stopped" /\ (wpc \in WatchScanning <=> wpc' \in WatchScanning)
        /\ UNCHANGED <<wmemory, wsince, wseen, wtodo>>
    BY <1>2 DEF EndWatchRows, Interrupt, WatchScanning, wreading
  <2>2. Watched' = Watched
    BY <2>1 DEF Watched
  <2> QED
    BY <2>1, <2>2, SilentWatch
<1>3. CASE LeaveWatch
  <2>1. /\ wpc = "stopped" /\ wpc' = "none" /\ UNCHANGED wsince
        /\ wtracked' = {} /\ wwarned' = {} /\ wcritical' = {}
    BY <1>3 DEF LeaveWatch, wreading
  <2>2. LastLines' = LastLines /\ Watched' = Watched
    BY <2>1 DEF LastLines, LastLine, Watched, WatchScanning, InWatchRow
  <2> QED
    BY <2>1, <2>2 DEF WatchingStep, Watching!Next, Watching!ServerMoves, Watching!alertingVars
<1>4. CASE WatchRowsReturn
  BY <1>4, WatchingReads
<1>5. ASSUME NEW r \in wtodo, FirstSight(r) \/ SeenAgain(r)
      PROVE  WatchingStep
  BY <1>5, WatchingTakes
<1>6. CASE CheckWatchWarning \/ CheckWatchCritical
  <2>1. PICK p \in PID : p = wcur.pid
    BY <1>6 DEF CheckWatchWarning, CheckWatchCritical, WatchInv, PlaceInv, WatchTypeOK,
       InWatchRow, WatchScanning
  <2> QED
    BY <1>6, <2>1, WatchingChecks
<1>7. ASSUME NEW p \in PID, WatchResolves(p)
      PROVE  WatchingStep
  BY <1>7, WatchingResolves
<1>8. CASE EndWatchPoll
  BY <1>8, WatchingFinishes
<1>9. CASE WatchConnectFails \/ WatchStops
  BY <1>9, WatchingLapses DEF WatchConnectFails, WatchStops
<1> QED
  BY <1>1, <1>2, <1>3, <1>4, <1>5, <1>6, <1>7, <1>8, <1>9 DEF WatchStep
=============================================================================
