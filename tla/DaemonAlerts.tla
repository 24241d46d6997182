---------------------------- MODULE DaemonAlerts ----------------------------
(***************************************************************************)
(* The daemon of module Daemon together with the people its idle           *)
(* transaction alerts are for.  An alert that returns has reached them or  *)
(* not: SlackClient.send and WebhookClient.send report a failure, and the  *)
(* daemon only logs it.  The variables added here are what those people    *)
(* know; the daemon never reads them.                                      *)
(***************************************************************************)
EXTENDS Daemon

CONSTANT Lossy      \* alerts may fail to arrive

ASSUME AlertsAssumption == Lossy \in BOOLEAN

VARIABLES
    spellWarned,    \* pids whose present idle spell got a warning alert from this process
    spellCritical,  \* the same for critical alerts
    open            \* pids with a warning or critical received and no resolved since

heardVars  == <<spellWarned, spellCritical, open>>
alertsVars == <<vars, heardVars>>

AlertsTypeOK ==
    /\ DaemonTypeOK
    /\ spellWarned \subseteq PID
    /\ spellCritical \subseteq PID
    /\ open \subseteq PID

AlertsInit ==
    /\ Init
    /\ spellWarned = {}
    /\ spellCritical = {}
    /\ open = {}

Arrives == IF Lossy THEN BOOLEAN ELSE {TRUE}

-----------------------------------------------------------------------------
(* The daemon's steps, as seen by the people alerted.                      *)

Alive == pc' \notin Exited

\* The step ends the sending of the alert at (and does not crash the daemon).
Returns(at) == pc = at /\ pc' # at /\ Alive

\* p is idle in the spell the snapshot saw.
OfThisSpell(p) == IsIdleInTransaction(p) /\ activity[p].age >= elapsed

Spells(known, at) ==
    IF ~Alive THEN {}
    ELSE {p \in known \cup {q \in {cur.pid} : Returns(at) /\ OfThisSpell(q)} :
             activity'[p].state = "idleInTx"}

ObserveSpells ==
    /\ spellWarned' = Spells(spellWarned, "sendWarning")
    /\ spellCritical' = Spells(spellCritical, "sendCritical")

ObserveIdleAlert(arrives) ==
    open' = CASE (Returns("sendWarning") \/ Returns("sendCritical")) /\ arrives
                    -> open \cup {cur.pid}
              [] Returns("sendResolved") /\ arrives -> open \ {cur.pid}
              [] OTHER -> open

AlertsNext ==
    /\ Next
    /\ ObserveSpells
    /\ \E arrives \in Arrives : ObserveIdleAlert(arrives)

AlertsSpec == AlertsInit /\ [][AlertsNext]_alertsVars

\* The fairness of ReachableSpec; the history variables do not restrict the
\* daemon's steps.
AlertsReachableSpec == AlertsSpec /\ Fairness /\ ServerFairness

-----------------------------------------------------------------------------
(* Properties.                                                             *)

\* Whatever polls fail in between, one idle spell gets at most one warning
\* and one critical alert from a process.
NoDuplicateAlert ==
    /\ pc = "sendWarning" /\ SameSpell(cur.pid) => cur.pid \notin spellWarned
    /\ pc = "sendCritical" /\ SameSpell(cur.pid) => cur.pid \notin spellCritical

\* With channels that deliver, people hear "resolved" only of a pid they
\* were told about; daemon.go: "Send resolved alert if we had sent
\* warning/critical alerts".
ResolvedAnswersAlert == pc = "sendResolved" => cur.pid \in open

\* deploy/README.md: "warning: 30s    # Alert after 30s idle".  A spell that
\* lasts is announced.
SpellIsAnnounced ==
    \A p \in PID :
        IsIdleInTransaction(p) ~> (p \in spellWarned \/ ~IsIdleInTransaction(p))
=============================================================================
