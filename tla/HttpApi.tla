------------------------------- MODULE HttpApi ------------------------------
(***************************************************************************)
(* The daemon's process with its HTTP API (runDaemon and startHTTPServer   *)
(* in internal/cli/daemon.go): the handlers of /health and /status and the *)
(* loop share the connections of one client, and a stop signal drains the  *)
(* server, cancels the loop and closes the client.                         *)
(*                                                                         *)
(* The loop is LoopSteps.  pgxpool is external: a call of the client waits *)
(* first come first served for a slot of the pool and returns without      *)
(* waiting for what then becomes of it.  A connection that broke, was      *)
(* given up or is too old is closed after that, and one that was being     *)
(* dialled is dialled on; until then the slot is taken.  The health check  *)
(* dials and closes too, while nobody waits.  A closed pool refuses those  *)
(* who wait, and Close waits for every slot.                               *)
(***************************************************************************)
EXTENDS LoopSteps, FiniteSets

CONSTANTS
    Request,        \* requests that may be in flight together
    Loop,           \* the loop, as a user of the pool
    Nobody,         \* the user of a slot that nobody uses
    Conn,           \* the slots of the pool: poolCfg.MaxConns = 3
    HandlerTimeout, \* the deadline of a handler's context: 5s
    LingerTimeout,  \* the longest a slot is taken by no call: 15s to close a connection,
                    \* connect_timeout or 2min to dial one
    DrainTimeout    \* the deadline of Shutdown: 5s

ASSUME HttpAssumption ==
    /\ Loop \notin Request
    /\ Nobody \notin Request \cup {Loop}
    /\ Conn # {}
    /\ PollTimeout \in Nat
    /\ HandlerTimeout \in Nat
    /\ LingerTimeout \in Nat
    /\ DrainTimeout \in Nat
    /\ HandlerTimeout <= DrainTimeout

VARIABLES
    asks,       \* per request: the calls its handler has yet to finish, 0 if there is none
    hleft,      \* per request: time until the deadline of its context
    latecomers, \* the requests that came after the stop signal
    queue,      \* per user that waits for a slot: who is before it
    user,       \* per slot of the pool: whose call has it, or Nobody
    lingers,    \* per slot: how long it is taken although no call has it
    rested,     \* the slots whose connection was idle for a while before it was given out
    lwait,      \* how long the loop has been waiting for a slot
    drainLeft,  \* time until the deadline of Shutdown
    proc        \* "up", "closing" (runDaemon's deferred Close), "gone"

handlers == <<asks, hleft, latecomers>>
slots    == <<user, lingers, rested>>
pool     == <<queue, slots, lwait>>
httpVars == <<loopUseVars, handlers, pool, drainLeft, proc>>

InFlight == {r \in Request : asks[r] > 0}

Waiting == DOMAIN queue

holders == {user[c] : c \in Conn} \ {Nobody}

Users == Waiting \cup holders

IsFree(c) == user[c] = Nobody /\ lingers[c] = 0

Empty == [u \in {} |-> {}]

\* Ping, or the three queries of GetPoolStats and that of GetIdleTransactions.
Calls == {1, 4}

\* The queue has an order, nobody in it has a slot, nobody has two, and every
\* handler is at one of its calls.
HttpTypeOK ==
    /\ lpc \in {"select", "asking", "working", "exited"}
    /\ lleft \in 0 .. PollTimeout
    /\ stop \in {"running", "draining", "cancelled"}
    /\ asks \in [Request -> 0 .. 4]
    /\ hleft \in [Request -> 0 .. HandlerTimeout]
    /\ latecomers \subseteq Request
    /\ lwait \in 0 .. PollTimeout
    /\ drainLeft \in 0 .. DrainTimeout
    /\ proc \in {"up", "closing", "gone"}
    /\ user \in [Conn -> Request \cup {Loop, Nobody}]
    /\ lingers \in [Conn -> 0 .. LingerTimeout]
    /\ rested \subseteq Conn
    /\ \A c, d \in Conn : user[c] = user[d] => c = d \/ user[c] = Nobody
    /\ \A c \in Conn : user[c] # Nobody => lingers[c] = 0
    /\ queue \in [Waiting -> SUBSET Waiting]
    /\ \A u, v \in Waiting : u # v => (u \in queue[v] <=> v \notin queue[u])
    /\ \A u \in Waiting : u \notin queue[u] /\ \A v \in queue[u] : queue[v] \subseteq queue[u]
    /\ Waiting \cap holders = {}
    /\ Users \ {Loop} = InFlight
    /\ Loop \in Users => lpc = "asking"

HttpInit ==
    /\ LoopInit
    /\ asks = [r \in Request |-> 0]
    /\ hleft = [r \in Request |-> 0]
    /\ latecomers = {}
    /\ queue = Empty
    /\ user = [c \in Conn |-> Nobody]
    /\ lingers = [c \in Conn |-> 0]
    /\ rested = {}
    /\ lwait = 0
    /\ drainLeft = 0
    /\ proc = "up"

-----------------------------------------------------------------------------
(* The pool.                                                               *)

WaitsFor(u) == queue' = [v \in Waiting \cup {u} |-> IF v = u THEN Waiting ELSE queue[v]]

Leaves(u) == queue' = [v \in Waiting \ {u} |-> queue[v] \ {u}]

\* u has no slot any more.  The one it had may be taken for as long as its
\* connection is being closed or dialled.
LetsGo(u) ==
    /\ user' = [c \in Conn |-> IF user[c] = u THEN Nobody ELSE user[c]]
    /\ \E t \in 0 .. LingerTimeout :
          lingers' = [c \in Conn |-> IF user[c] = u THEN t ELSE lingers[c]]
    /\ rested' = {c \in rested : user[c] # u}

\* Faulty: rows are not closed when a call fails.
GivesBack_NotClosed(u) ==
    /\ Leaves(u)
    /\ UNCHANGED slots

\* The call of u is over, whether it had a slot or waited for one.
GivesBack(u) == Leaves(u) /\ LetsGo(u)

CanGrant == Waiting # {} /\ proc = "up" /\ \E c \in Conn : IsFree(c)

Grant ==
    /\ CanGrant
    /\ \E u \in Waiting, c \in Conn :
          /\ queue[u] = {}
          /\ IsFree(c)
          /\ Leaves(u)
          /\ user' = [user EXCEPT ![c] = u]
          /\ lwait' = IF u = Loop THEN 0 ELSE lwait
    /\ UNCHANGED <<loopUseVars, handlers, lingers, rested, drainLeft, proc>>

\* The health check closes a connection that was idle for too long, or dials
\* one up to MinConns.
HealthCheck ==
    /\ proc = "up"
    /\ Waiting = {}
    /\ \E c \in Conn, t \in 1 .. LingerTimeout :
          /\ IsFree(c)
          /\ lingers' = [lingers EXCEPT ![c] = t]
          /\ rested' = rested \ {c}
    /\ UNCHANGED <<loopUseVars, handlers, queue, user, lwait, drainLeft, proc>>

-----------------------------------------------------------------------------
(* The handlers.                                                           *)

\* A request has been read.  After the stop signal this happens once on a
\* connection that had been accepted before.
BeginHandler(r) ==
    /\ proc = "up"
    /\ asks[r] = 0
    /\ r \notin latecomers
    /\ \E calls \in Calls : asks' = [asks EXCEPT ![r] = calls]
    /\ hleft' = [hleft EXCEPT ![r] = HandlerTimeout]
    /\ latecomers' = IF stop = "running" THEN latecomers ELSE latecomers \cup {r}
    /\ WaitsFor(r)
    /\ UNCHANGED <<loopUseVars, slots, lwait, drainLeft, proc>>

HandlerEnds(r) ==
    /\ asks' = [asks EXCEPT ![r] = 0]
    /\ hleft' = [hleft EXCEPT ![r] = 0]
    /\ UNCHANGED latecomers

\* A call is over, with or without an error, and the handler's next one begins.
NextCall(r) ==
    /\ asks' = [asks EXCEPT ![r] = asks[r] - 1]
    /\ WaitsFor(r)
    /\ LetsGo(r)
    /\ UNCHANGED <<hleft, latecomers>>

\* A connection that was idle turns out to be dead, and the call waits for
\* another one, at the end of the queue.
FindsDead(r) ==
    /\ \E c \in rested : user[c] = r
    /\ WaitsFor(r)
    /\ LetsGo(r)
    /\ UNCHANGED <<loopUseVars, handlers, lwait, drainLeft, proc>>

Answered(r) ==
    /\ r \in holders
    /\ hleft[r] > 0
    /\ \/ asks[r] > 1 /\ NextCall(r)
       \/ asks[r] = 1 /\ HandlerEnds(r) /\ GivesBack(r)
    /\ UNCHANGED <<loopUseVars, lwait, drainLeft, proc>>

\* GetPoolStats takes a third result that is cut off for a whole one.
CutOff(r) ==
    /\ r \in holders
    /\ asks[r] = 2
    /\ NextCall(r)
    /\ UNCHANGED <<loopUseVars, lwait, drainLeft, proc>>

\* A call fails (the server, the deadline, the requester hanging up) and the
\* answer is an error; an error of GetIdleTransactions is ignored, and the
\* answer is an empty list.
BreaksOff(r) ==
    /\ r \in InFlight
    /\ HandlerEnds(r)
    /\ GivesBack(r)
    /\ UNCHANGED <<loopUseVars, lwait, drainLeft, proc>>

\* Faulty: the calls do not get the handler's context.
Expired_Waiting(r) == r \in Waiting /\ hleft[r] = 0

Expired(r) == r \in InFlight /\ hleft[r] = 0

HandlerStep(r) ==
    BeginHandler(r) \/ FindsDead(r) \/ Answered(r) \/ CutOff(r) \/ BreaksOff(r)

-----------------------------------------------------------------------------
(* The loop: each call of the client is one wait and one slot, or more of  *)
(* them, one after the other, if it finds dead connections.                *)

LoopAsks ==
    /\ lpc = "asking"
    /\ LoopCtxLive
    /\ Loop \notin Users
    /\ WaitsFor(Loop)
    /\ UNCHANGED <<loopUseVars, handlers, slots, lwait, drainLeft, proc>>

\* A call of the loop succeeds or fails, or has to ask again.
LoopCallEnds ==
    /\ Loop \in Users
    /\ GivesBack(Loop)
    /\ lwait' = 0
    /\ UNCHANGED <<loopUseVars, handlers, drainLeft, proc>>

\* Between its calls it goes on as it likes.
LoopMoves ==
    /\ Loop \notin Users
    /\ BeginPoll \/ BeginWork \/ AskAgain \/ EndPoll
    /\ UNCHANGED <<handlers, pool, drainLeft, proc>>

-----------------------------------------------------------------------------
(* Stopping.                                                               *)

\* The signal goroutine calls Shutdown.
SignalArrives ==
    /\ Signal
    /\ drainLeft' = DrainTimeout
    /\ UNCHANGED <<handlers, pool, proc>>

\* Faulty: nobody waits for Shutdown.
Drained_AtOnce == TRUE

\* Shutdown returns: no handler is left, or its deadline is over.
Drained == InFlight = {} \/ drainLeft = 0

CancelLoop ==
    /\ Drained
    /\ Cancel
    /\ drainLeft' = 0
    /\ UNCHANGED <<handlers, pool, proc>>

\* monitorLoop returns, and the deferred client.Close() begins: no connection
\* is dialled any more, and those that nobody uses are closed.
LoopReturns ==
    /\ LeaveLoop
    /\ proc' = "closing"
    /\ \E t \in [Conn -> 0 .. LingerTimeout] :
          lingers' = [c \in Conn |-> IF user[c] = Nobody THEN t[c] ELSE 0]
    /\ rested' = {c \in rested : user[c] # Nobody}
    /\ UNCHANGED <<handlers, queue, user, lwait, drainLeft>>

\* A closed pool gives out nothing.
Refuse ==
    /\ proc = "closing"
    /\ \E r \in Waiting : HandlerEnds(r) /\ Leaves(r)
    /\ UNCHANGED <<loopUseVars, slots, lwait, drainLeft, proc>>

\* Close returns, and so does main: what handlers are left is gone.
ProcessEnds ==
    /\ proc = "closing"
    /\ \A c \in Conn : IsFree(c)
    /\ proc' = "gone"
    /\ asks' = [r \in Request |-> 0]
    /\ hleft' = [r \in Request |-> 0]
    /\ latecomers' = {}
    /\ queue' = Empty
    /\ UNCHANGED <<loopUseVars, slots, lwait, drainLeft>>

\* The service manager starts the process again.
ProcessRestarts ==
    /\ proc = "gone"
    /\ proc' = "up"
    /\ Restart
    /\ UNCHANGED <<handlers, pool, drainLeft>>

-----------------------------------------------------------------------------
\* Faulty: the handlers' contexts have no deadline.
HandlersAge_Not == UNCHANGED hleft

HandlersAge == hleft' = [r \in Request |-> IF hleft[r] > 0 THEN hleft[r] - 1 ELSE 0]

\* Faulty: a deadline that has passed keeps counting.
DrainAges_Unbounded == drainLeft' = drainLeft - 1

DrainAges == drainLeft' = IF drainLeft > 0 THEN drainLeft - 1 ELSE 0

SlotsSettle == lingers' = [c \in Conn |-> IF lingers[c] > 0 THEN lingers[c] - 1 ELSE 0]

\* Time passes while everybody waits: nobody past a deadline, and nobody for
\* a slot that is free.
HttpTime ==
    /\ LoopTime
    /\ lpc = "asking" => Loop \in Users
    /\ \A r \in Request : ~Expired(r)
    /\ ~CanGrant
    /\ stop = "draining" => drainLeft > 0
    /\ proc = "closing" => \E c \in Conn : ~IsFree(c)
    /\ HandlersAge
    /\ DrainAges
    /\ SlotsSettle
    /\ rested' = rested \cup {c \in Conn : IsFree(c)}
    /\ lwait' = IF Loop \in Waiting /\ lwait < PollTimeout THEN lwait + 1 ELSE lwait
    /\ UNCHANGED <<asks, latecomers, queue, user, proc>>

HttpNext ==
    \/ HttpTime
    \/ Grant
    \/ HealthCheck
    \/ \E r \in Request : HandlerStep(r)
    \/ LoopAsks \/ LoopCallEnds \/ LoopMoves
    \/ SignalArrives \/ CancelLoop \/ LoopReturns
    \/ Refuse \/ ProcessEnds \/ ProcessRestarts

Begins == (\E r \in Request : BeginHandler(r)) \/ (LoopMoves /\ BeginPoll)

(***************************************************************************)
(* Fairness.  Contexts and clocks work, the pool serves its queue, and the *)
(* goroutines are scheduled; no infinity of requests and polls comes       *)
(* before the next unit of time.  The server need not answer anything.     *)
(* That a poll comes to its end is what Daemon's PollAlwaysReturns says.   *)
(***************************************************************************)
HttpFairness ==
    /\ WF_httpVars(HttpTime)
    /\ []<><<Begins>>_httpVars => []<><<HttpTime>>_httpVars
    /\ WF_httpVars(Grant)
    /\ \A r \in Request : WF_httpVars(Expired(r) /\ BreaksOff(r))
    /\ WF_httpVars(LoopAsks)
    /\ WF_httpVars(~LoopCtxLive /\ LoopCallEnds)
    /\ SF_httpVars(LoopMoves /\ EndPoll)
    /\ WF_httpVars(CancelLoop)
    /\ WF_httpVars(LoopReturns)
    /\ WF_httpVars(Refuse)
    /\ WF_httpVars(ProcessEnds)

HttpSpec == HttpInit /\ [][HttpNext]_httpVars /\ HttpFairness

-----------------------------------------------------------------------------
(* Properties.                                                             *)

\* Requests delay the loop for no longer than one handler's deadline, however
\* many there are and whatever they ask for: by then all that was before the
\* loop's call has given up, and nothing overtakes it.  What they leave behind,
\* connections being closed or dialled, delays it for no longer than one of
\* these takes.
LoopWaitsBounded ==
    /\ lwait <= HandlerTimeout + LingerTimeout
    /\ Loop \in Waiting /\ lwait > HandlerTimeout => queue[Loop] = {} /\ holders = {}

\* The process that stops cuts off no request that was being served when the
\* signal came, unless it is past its own deadline.
CutOffOnlyOverdue ==
    proc = "closing" => \A r \in InFlight \ latecomers : hleft[r] = 0

\* Every request is answered or given up.
RequestsEnd == \A r \in Request : r \in InFlight ~> r \notin InFlight

\* A stop signal ends the process, though Close waits for every connection
\* that a handler or the loop has out.
ProcessExits == stop # "running" ~> proc = "gone"
=============================================================================
