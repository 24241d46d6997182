-------------------------------- MODULE Kill --------------------------------
(***************************************************************************)
(* pguard kill (internal/cli/kill.go): the connection with a pid is looked *)
(* up and shown, the operator is asked, and the backend is terminated (or  *)
(* its query cancelled) by pid, all under one deadline.                    *)
(***************************************************************************)
EXTENDS PgActivity

CONSTANT KillTimeout    \* the budget of the whole command: 10s

ASSUME KillAssumption == KillTimeout \in Nat

VARIABLES
    kpc,        \* "none", "lookup", "prompt", "execute", "done"
    target,     \* the pid given
    force,      \* --force
    cancelOnly, \* --cancel
    kleft,      \* time until the deadline of ctx
    sinceShown, \* time since the connection was looked up
    request,    \* "none", "sent", or the server's answer "true" or "false"
    late,       \* given-up requests the server may still run: pids
    result      \* "none", "terminated", "cancelled", "gone", "declined", "error"

killArgs == <<target, force, cancelOnly>>
killVars == <<kpc, killArgs, kleft, sinceShown, request, late, result>>

KillTypeOK ==
    /\ kpc \in {"none", "lookup", "prompt", "execute", "done"}
    /\ target \in PID \cup {NoPid}
    /\ force \in BOOLEAN
    /\ cancelOnly \in BOOLEAN
    /\ kleft \in 0 .. KillTimeout
    /\ sinceShown \in 0 .. KillTimeout + 1
    /\ request \in {"none", "sent", "true", "false"}
    /\ late \subseteq PID
    /\ result \in {"none", "terminated", "cancelled", "gone", "declined", "error"}

KillInit ==
    /\ kpc = "none"
    /\ target = NoPid
    /\ force = FALSE
    /\ cancelOnly = FALSE
    /\ kleft = 0
    /\ sinceShown = 0
    /\ request = "none"
    /\ late = {}
    /\ result = "none"

-----------------------------------------------------------------------------
\* pguard kill p, after NewClient: ctx starts.  (When NewClient fails,
\* nothing happens.)
RunKill(p) ==
    /\ kpc = "none"
    /\ kpc' = "lookup"
    /\ target' = p
    /\ force' \in BOOLEAN
    /\ cancelOnly' \in BOOLEAN
    /\ kleft' = KillTimeout
    /\ UNCHANGED <<sinceShown, request, late, result>>

\* The process prints how it ended and is gone.
Ends(how) ==
    /\ kpc' = "done"
    /\ result' = how
    /\ target' = NoPid
    /\ force' = FALSE
    /\ cancelOnly' = FALSE
    /\ kleft' = 0
    /\ sinceShown' = 0

\* GetConnections shows the pid; without --force the operator is asked.
LookUp ==
    /\ kpc = "lookup"
    /\ kleft > 0
    /\ Present(target)
    /\ kpc' = IF force THEN "execute" ELSE "prompt"
    /\ sinceShown' = 0
    /\ UNCHANGED <<killArgs, kleft, request, late, result>>

NotFound ==
    /\ kpc = "lookup"
    /\ kleft > 0
    /\ ~Present(target)
    /\ Ends("error")
    /\ UNCHANGED <<request, late>>

LookUpFails ==
    /\ kpc = "lookup"
    /\ Ends("error")
    /\ UNCHANGED <<request, late>>

\* The prompt has no deadline of its own.
Confirm ==
    /\ kpc = "prompt"
    /\ kpc' = "execute"
    /\ UNCHANGED <<killArgs, kleft, sinceShown, request, late, result>>

\* Faulty: "Canceled." is printed, and the command goes on.
Decline_GoesOn ==
    /\ kpc = "prompt"
    /\ kpc' = "execute"
    /\ result' = "declined"
    /\ UNCHANGED <<killArgs, kleft, sinceShown, request, late>>

\* Anything but y or yes.
Decline ==
    /\ kpc = "prompt"
    /\ Ends("declined")
    /\ UNCHANGED <<request, late>>

\* The answer cannot be read: the input ends.
PromptFails ==
    /\ kpc = "prompt"
    /\ Ends("error")
    /\ UNCHANGED <<request, late>>

\* Faulty: the statement has a deadline of its own.
SendRequest_FreshDeadline ==
    /\ kpc = "execute"
    /\ request = "none"
    /\ request' = "sent"
    /\ kleft' = KillTimeout
    /\ UNCHANGED <<kpc, killArgs, sinceShown, late, result>>

\* TerminateBackend or CancelBackend, unless ctx is done already.
SendRequest ==
    /\ kpc = "execute"
    /\ request = "none"
    /\ kleft > 0
    /\ request' = "sent"
    /\ UNCHANGED <<kpc, killArgs, kleft, sinceShown, late, result>>

\* pg_cancel_backend interrupts a statement: no transaction goes idle by it,
\* and an idle one does not notice.
ServerRuns ==
    /\ request = "sent"
    /\ IF cancelOnly THEN UNCHANGED pgVars ELSE PgTerminate(target)
    /\ request' = IF Present(target) THEN "true" ELSE "false"
    /\ UNCHANGED <<kpc, killArgs, kleft, sinceShown, late, result>>

Answered ==
    /\ kpc = "execute"
    /\ kleft > 0
    /\ \/ request = "true" /\ Ends(IF cancelOnly THEN "cancelled" ELSE "terminated")
       \/ request = "false" /\ Ends("gone")
    /\ request' = "none"
    /\ UNCHANGED late

\* The deadline or the connection ends the wait; the statement may run later.
RequestFails ==
    /\ kpc = "execute"
    /\ Ends("error")
    /\ request' = "none"
    /\ \/ UNCHANGED late
       \/ request = "sent" /\ ~cancelOnly /\ late' = late \cup {target}

RunsLate(p) ==
    /\ p \in late
    /\ PgTerminate(p)
    /\ late' = late \ {p}
    /\ UNCHANGED <<kpc, killArgs, kleft, sinceShown, request, result>>

\* The output is read.
LeaveKill ==
    /\ kpc = "done"
    /\ kpc' = "none"
    /\ result' = "none"
    /\ UNCHANGED <<killArgs, kleft, sinceShown, request, late>>

\* The steps of the command, and those of the server on its behalf.
KillStep ==
    \/ LookUp \/ NotFound \/ LookUpFails
    \/ Confirm \/ Decline \/ PromptFails
    \/ SendRequest \/ Answered \/ RequestFails
    \/ LeaveKill

KillServerStep == ServerRuns \/ \E p \in PID : RunsLate(p)

\* What a unit of time does to the process.
KillAges ==
    /\ kleft' = IF kleft > 0 THEN kleft - 1 ELSE 0
    /\ sinceShown' = IF kpc \notin {"prompt", "execute"} THEN 0
                     ELSE IF sinceShown > KillTimeout THEN sinceShown ELSE sinceShown + 1
    /\ UNCHANGED <<kpc, killArgs, request, late, result>>

-----------------------------------------------------------------------------
(* Properties.                                                             *)

\* While its deadline runs, a statement rests on a look-up at most KillTimeout
\* ago, however long the operator thought about it: an answer to the prompt that
\* comes after the deadline sends nothing.  (A statement that was given up may
\* still run later; of that OnlyTheConfirmedDie says whom it can hit.)
ConfirmedIsFresh == kpc = "execute" /\ request = "sent" /\ kleft > 0 => sinceShown <= KillTimeout

\* Whoever is signalled was named to the command by the operator, and neither
\* declined nor only to be cancelled.
OnlyTheConfirmedDie ==
    [][\A p \in signalled' \ signalled :
          \/ p = target /\ ~cancelOnly /\ kpc = "execute" /\ result # "declined"
          \/ p \in late]_<<pgVars, killVars>>
=============================================================================
