---------------------------- MODULE IdleAlerting ----------------------------
(***************************************************************************)
(* What a watcher of idle transactions promises, however its loop is       *)
(* written: it works through one reading of the server after the other,    *)
(* and what it says of a pid follows from what it said before, from that   *)
(* reading, and from what is so at the moment it speaks.  The daemon and   *)
(* watch are both shown to implement this.                                 *)
(***************************************************************************)
EXTENDS PgActivity

CONSTANTS IdleWarning, IdleCritical, ClockSkew

VARIABLES
    told,       \* the last word on each pid
    reading,    \* the pids of the reading being worked through, or NoReading
    since       \* time since that reading, up to Horizon

alertingVars == <<told, reading, since>>

NoReading == {NoPid}

Untold == [p \in PID |-> "none"]

Init ==
    /\ PgInit
    /\ told = Untold
    /\ reading = NoReading
    /\ since = 0

-----------------------------------------------------------------------------
\* A reading is of everything that is idle in transaction at one moment.
Read ==
    /\ reading = NoReading
    /\ reading' = {p \in PID : IsIdleInTransaction(p)}
    /\ since' = 0
    /\ UNCHANGED <<pgVars, told>>

\* p is still in the spell that was read.
InSpell(p) == IsIdleInTransaction(p) /\ activity[p].age > since

\* Who is reported past a threshold has been idle that long, unless the
\* spell is over.
Overdue(p, threshold) == InSpell(p) => activity[p].age + ClockSkew >= threshold

Say(p, word) ==
    /\ told' = [told EXCEPT ![p] = word]
    /\ UNCHANGED <<pgVars, reading, since>>

See(p) == p \in reading /\ told[p] = "none" /\ Say(p, "seen")

Warn(p) ==
    /\ p \in reading
    /\ told[p] \in {"none", "seen"}
    /\ Overdue(p, IdleWarning)
    /\ Say(p, "warning")

\* Only after a warning, and once.
Critical(p) ==
    /\ p \in reading
    /\ told[p] = "warning"
    /\ Overdue(p, IdleCritical)
    /\ Say(p, "critical")

\* Only of a pid that the reading does not have.
Resolve(p) ==
    /\ reading # NoReading
    /\ p \notin reading
    /\ told[p] # "none"
    /\ Say(p, "none")

\* At the end of a reading everything has been said: its pids, and no other,
\* are known, and what was overdue in it and lasts has been reported.
Finish ==
    /\ reading = {p \in PID : told[p] # "none"}
    /\ \A p \in reading : InSpell(p) =>
          LET then == activity[p].age - since + ClockSkew
          IN  /\ then >= IdleWarning  => told[p] \in {"warning", "critical"}
              /\ then >= IdleCritical => told[p] = "critical"
    /\ reading' = NoReading
    /\ since' = 0
    /\ UNCHANGED <<pgVars, told>>

\* The process ends or crashes: all it knew is forgotten without a word.
Lapse ==
    /\ told' = Untold
    /\ reading' = NoReading
    /\ since' = 0
    /\ UNCHANGED pgVars

TimePasses ==
    /\ activity' = Aged
    /\ since' = IF reading = NoReading THEN 0 ELSE Sat(since + 1)
    /\ UNCHANGED <<signalled, told, reading>>

\* The server does as it likes, and so do those who terminate its backends.
ServerMoves == UNCHANGED alertingVars

Next ==
    \/ ServerMoves \/ TimePasses \/ Read \/ Finish \/ Lapse
    \/ \E p \in PID : See(p) \/ Warn(p) \/ Critical(p) \/ Resolve(p)

Spec == Init /\ [][Next]_<<pgVars, alertingVars>>
=============================================================================
