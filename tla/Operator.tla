------------------------------ MODULE Operator ------------------------------
(***************************************************************************)
(* An operator at one terminal (test/README.md: "status   # note a PID",   *)
(* then "kill"): pguard status or pguard watch, then perhaps pguard kill   *)
(* on a pid that the output showed, and so on, next to a server that goes  *)
(* on meanwhile.                                                           *)
(***************************************************************************)
EXTENDS Status, Watch, Kill

operatorVars == <<pgVars, statusVars, watchVars, killVars>>

OperatorTypeOK == PgTypeOK /\ StatusTypeOK /\ WatchTypeOK /\ KillTypeOK

OperatorInit == PgInit /\ StatusInit /\ WatchInit /\ KillInit

\* Time passes at any point of any command.
TimePasses ==
    /\ activity' = Aged
    /\ StatusAges
    /\ WatchAges
    /\ KillAges
    /\ UNCHANGED signalled

\* One command at a time.
StatusMoves ==
    /\ kpc = "none"
    /\ wpc = "none"
    /\ StatusStep
    /\ UNCHANGED <<pgVars, watchVars, killVars>>

WatchMoves ==
    /\ kpc = "none"
    /\ spc = "none"
    /\ WatchStep
    /\ UNCHANGED <<pgVars, statusVars, killVars>>

\* A row of the status, or a warning of watch that was not resolved.
ChooseVictim ==
    /\ \/ /\ spc = "exited"
          /\ \E s \in shown : RunKill(s.row.pid)
          /\ LeaveStatus
          /\ UNCHANGED watchVars
       \/ /\ wpc = "stopped"
          /\ \E p \in wwarned : RunKill(p)
          /\ LeaveWatch
          /\ UNCHANGED statusVars
    /\ UNCHANGED pgVars

KillMoves == KillStep /\ UNCHANGED <<pgVars, statusVars, watchVars>>

ServerMoves ==
    \/ PgNext /\ UNCHANGED <<statusVars, watchVars, killVars>>
    \/ KillServerStep /\ UNCHANGED <<statusVars, watchVars>>

OperatorNext ==
    \/ TimePasses \/ StatusMoves \/ WatchMoves \/ ChooseVictim \/ KillMoves \/ ServerMoves

OperatorSpec == OperatorInit /\ [][OperatorNext]_operatorVars
=============================================================================
