---------------------------- MODULE DaemonRefines ---------------------------
(***************************************************************************)
(* The daemon implements IdleAlerting, in what it says, and LoopUse, in    *)
(* how it uses the client.                                                 *)
(***************************************************************************)
EXTENDS Daemon

\* The last word on a pid, from its entry in tracked.
LastWord(p) == CASE p \in criticalSent                             -> "critical"
                 [] p \in warningSent \ criticalSent               -> "warning"
                 [] p \in tracked \ (warningSent \cup criticalSent) -> "seen"
                 [] OTHER                                           -> "none"

\* The snapshot pollAndAlert works from.
Snapshot == IF pc \in Scanning
            THEN seen \cup {r.pid : r \in todo}
            ELSE {NoPid}

Told == [p \in PID |-> LastWord(p)]

Alerting == INSTANCE IdleAlerting WITH told <- Told, reading <- Snapshot, since <- elapsed

\* Polls that fail, alerts that block, crashes and all: the daemon tracks
\* what it read, warns before it reports critical, each once and not before
\* it is due, resolves what the reading lacks and nothing else, and ends a
\* poll with nothing left to say.
AlertsAsPromised == Alerting!Spec

-----------------------------------------------------------------------------
LoopPlace == CASE pc = "select"   -> "select"
               [] pc \in Querying -> "asking"
               [] pc \in Exited   -> "exited"
               [] OTHER           -> "working"

Using == INSTANCE LoopUse WITH lpc <- LoopPlace, lleft <- queryLeft, clock <- nextTick

\* No call of the client is waited for past the deadline or past cancel(),
\* although alerts in between take their time; only a poll that begins sets
\* a deadline; and the loop is left from select, after cancel() alone.
UsesClientAsPromised == Using!Spec
=============================================================================
