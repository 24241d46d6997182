----------------------------- MODULE MCOperator -----------------------------
(***************************************************************************)
(* Small instances of Operator for TLC.                                    *)
(***************************************************************************)
EXTENDS Operator, TLC

CONSTANTS p1, p2

OnePid == {p1}
TwoPids == {p1, p2}

OneClient == {[app |-> "web", addr |-> "10.0.0.1"]}

PidSymmetry == Permutations(PID)
=============================================================================
