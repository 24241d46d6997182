------------------------------ MODULE LoopSteps -----------------------------
(***************************************************************************)
(* The daemon's loop as far as the rest of its process depends on it: when *)
(* it uses the client and until which deadline, and how it comes to leave. *)
(* LoopUse makes a specification of these steps, which Daemon implements;  *)
(* HttpApi puts them next to the HTTP handlers.                            *)
(***************************************************************************)
EXTENDS Naturals

CONSTANT PollTimeout    \* polling.timeout

VARIABLES
    lpc,    \* "select", "asking" (inside a call of the client), "working", "exited"
    lleft,  \* time until the deadline of queryCtx; 0 outside a poll
    stop    \* "running", "draining" (Shutdown), "cancelled" (cancel called)

loopUseVars == <<lpc, lleft, stop>>

LoopInit ==
    /\ lpc = "select"
    /\ lleft = 0
    /\ stop = "running"

\* A call of the client can succeed, or be waited for.
LoopCtxLive == lleft > 0 /\ stop # "cancelled"

\* The loop's goroutine lets time pass: never in a call whose context is
\* done, and not in select when that would return.
LoopWaits ==
    /\ lpc = "asking" => LoopCtxLive
    /\ lpc = "select" => stop # "cancelled"

LoopAges == lleft' = IF lleft > 0 THEN lleft - 1 ELSE 0

LoopTime ==
    /\ LoopWaits
    /\ LoopAges
    /\ UNCHANGED <<lpc, stop>>

BeginPoll ==
    /\ lpc = "select"
    /\ stop # "cancelled"
    /\ lpc' = "asking"
    /\ lleft' = PollTimeout
    /\ UNCHANGED stop

\* The calls of the client are over for now: alerts, rows.
BeginWork ==
    /\ lpc = "asking"
    /\ lpc' = "working"
    /\ UNCHANGED <<lleft, stop>>

AskAgain ==
    /\ lpc = "working"
    /\ lpc' = "asking"
    /\ UNCHANGED <<lleft, stop>>

\* At its end, or after a query that failed.
EndPoll ==
    /\ lpc \in {"asking", "working"}
    /\ lpc' = "select"
    /\ lleft' = 0
    /\ UNCHANGED stop

LoopExits ==
    /\ lpc' = "exited"
    /\ lleft' = 0
    /\ stop' = "running"

LeaveLoop ==
    /\ lpc = "select"
    /\ stop = "cancelled"
    /\ LoopExits

Crash == lpc # "exited" /\ LoopExits

Restart ==
    /\ lpc = "exited"
    /\ lpc' = "select"
    /\ UNCHANGED <<lleft, stop>>

Signal ==
    /\ stop = "running"
    /\ lpc # "exited"
    /\ stop' = "draining"
    /\ UNCHANGED <<lpc, lleft>>

Cancel ==
    /\ stop = "draining"
    /\ stop' = "cancelled"
    /\ UNCHANGED <<lpc, lleft>>
=============================================================================
