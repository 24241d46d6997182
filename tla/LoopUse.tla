------------------------------- MODULE LoopUse ------------------------------
(***************************************************************************)
(* What the daemon's loop promises to the rest of its process.             *)
(***************************************************************************)
EXTENDS LoopSteps

VARIABLE clock  \* what the ticker shows: it tells time that passes from a stutter

\* The clock stands still while the loop goes from one thing to the next,
\* and the process that leaves or crashes takes it along.
Next ==
    \/ LoopTime
    \/ LeaveLoop \/ Crash
    \/ /\ BeginPoll \/ BeginWork \/ AskAgain \/ EndPoll \/ Restart \/ Signal \/ Cancel
       /\ UNCHANGED clock

Spec == LoopInit /\ [][Next]_<<loopUseVars, clock>>
=============================================================================
