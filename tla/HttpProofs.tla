----------------------------- MODULE HttpProofs -----------------------------
(***************************************************************************)
(* The HTTP API next to the loop, for any number of requests and of slots  *)
(* of the pool and any deadlines: how long requests and broken connections *)
(* hold up the loop, and what a stop cuts off.                             *)
(***************************************************************************)
EXTENDS HttpApi, FiniteSetTheorems, WellFoundedInduction, TLAPS

\* The queue is a line.
Line ==
    /\ queue \in [Waiting -> SUBSET Waiting]
    /\ \A u, v \in Waiting : u # v => (u \in queue[v] <=> v \notin queue[u])
    /\ \A u \in Waiting : u \notin queue[u] /\ \A v \in queue[u] : queue[v] \subseteq queue[u]

\* Nobody has two slots, and a slot that a call has does not linger.
Slots ==
    /\ user \in [Conn -> Request \cup {Loop, Nobody}]
    /\ lingers \in [Conn -> 0 .. LingerTimeout]
    /\ rested \subseteq Conn
    /\ \A c, d \in Conn : user[c] = user[d] => c = d \/ user[c] = Nobody
    /\ \A c \in Conn : user[c] # Nobody => lingers[c] = 0

\* The loop is there while the process is up, and waits only in its place; only
\* so many requests have come.
LoopInv ==
    /\ proc = "up" <=> lpc # "exited"
    /\ Loop \notin Waiting => lwait = 0
    /\ IsFiniteSet(Waiting)

\* From the signal on, what is not a latecomer is over before Shutdown is.
StopInv ==
    /\ stop = "draining" => \A r \in InFlight \ latecomers : hleft[r] <= drainLeft
    /\ stop = "cancelled" \/ proc = "closing" => \A r \in InFlight \ latecomers : hleft[r] = 0

\* All who come before the loop have been there since it began to wait, and what
\* lingers was left by one of them, or was there before.
AheadInv ==
    /\ lwait <= HandlerTimeout + LingerTimeout
    /\ Loop \in Waiting =>
          /\ \A u \in queue[Loop] \cup holders : hleft[u] + lwait <= HandlerTimeout
          /\ \A c \in Conn : lingers[c] + lwait <= HandlerTimeout + LingerTimeout

HttpInv == HttpTypeOK /\ LoopInv /\ StopInv /\ AheadInv

-----------------------------------------------------------------------------
(* The queue.                                                              *)

LEMMA JoinsLine ==
    ASSUME Line, NEW u, u \notin Waiting, WaitsFor(u)
    PROVE  /\ Line'
           /\ Waiting' = Waiting \cup {u}
           /\ \A v \in Waiting : queue'[v] = queue[v]
           /\ IsFiniteSet(Waiting) => IsFiniteSet(Waiting')
<1>1. Waiting' = Waiting \cup {u}
  BY DEF WaitsFor, Waiting
<1>2. queue'[u] = Waiting /\ \A v \in Waiting : queue'[v] = queue[v]
  BY DEF WaitsFor
<1>3. queue' \in [Waiting' -> SUBSET Waiting']
  BY <1>1 DEF WaitsFor, Line
<1> QED
  BY <1>1, <1>2, <1>3, FS_AddElement, FS_RemoveElement DEF Line

LEMMA LeavesLine ==
    ASSUME Line, NEW u, Leaves(u)
    PROVE  /\ Line'
           /\ Waiting' = Waiting \ {u}
           /\ \A v \in Waiting' : queue'[v] = queue[v] \ {u}
           /\ IsFiniteSet(Waiting) => IsFiniteSet(Waiting')
<1>1. Waiting' = Waiting \ {u}
  BY DEF Leaves, Waiting
<1>2. \A v \in Waiting' : queue'[v] = queue[v] \ {u}
  BY <1>1 DEF Leaves
<1>3. queue' \in [Waiting' -> SUBSET Waiting']
  BY <1>1 DEF Leaves, Line
<1> QED
  BY <1>1, <1>2, <1>3, FS_AddElement, FS_RemoveElement DEF Line

\* Whoever has fewest before it has nobody before it, and is before the others.
LEMMA LineHasHead ==
    ASSUME Line, IsFiniteSet(Waiting), Waiting # {}
    PROVE  \E u \in Waiting : queue[u] = {} /\ \A v \in Waiting \ {u} : u \in queue[v]
<1> DEFINE before == {queue[u] : u \in Waiting}
<1>1. before \subseteq FiniteSubsetsOf(Waiting) /\ before # {}
  <2>1. \A u \in Waiting : queue[u] \in SUBSET Waiting
    BY DEF Line
  <2> QED
    BY <2>1, FS_FiniteSubsetsOfFinite
<1>2. PICK least \in before : \A b \in before : ~(<<b, least>> \in StrictSubsetOrdering(Waiting))
  BY <1>1, FS_StrictSubsetOrderingWellFounded, WFMin
<1>3. PICK u \in Waiting : queue[u] = least
  OBVIOUS
<1>4. ASSUME NEW v \in queue[u]
      PROVE  FALSE
  <2>1. v \in Waiting /\ queue[u] \in SUBSET Waiting /\ queue[v] \in SUBSET Waiting
    BY DEF Line
  <2>2. queue[v] \subseteq queue[u] /\ v \notin queue[v]
    BY <2>1 DEF Line
  <2>3. <<queue[v], queue[u]>> \in StrictSubsetOrdering(Waiting)
    BY <2>1, <2>2 DEF StrictSubsetOrdering
  <2> QED
    BY <1>2, <1>3, <2>1, <2>3
<1> QED
  BY <1>4 DEF Line

LEMMA TypeHasLine == HttpTypeOK => Line /\ Slots
BY DEF HttpTypeOK, Line, Slots

LEMMA LineStays == Line /\ UNCHANGED queue => Line' /\ Waiting' = Waiting
BY DEF Line, Waiting

LEMMA UsersKnown ==
    ASSUME HttpTypeOK
    PROVE  /\ Waiting \subseteq Request \cup {Loop}
           /\ holders \subseteq Request \cup {Loop}
           /\ \A r \in Request : r \in Users <=> asks[r] > 0
BY HttpAssumption DEF HttpTypeOK, Users, InFlight

\* Whoever lets go has no slot any more, and no other slot changes.
LEMMA SlotIsLeft ==
    ASSUME HttpTypeOK, NEW u \in Request \cup {Loop}, LetsGo(u)
    PROVE  /\ Slots'
           /\ holders' = holders \ {u}
           /\ u \notin holders => lingers' = lingers
<1>1. u # Nobody
  BY HttpAssumption
<1>2. Slots
  BY TypeHasLine
<1>3. \A c \in Conn : user'[c] = IF user[c] = u THEN Nobody ELSE user[c]
  BY <1>2 DEF LetsGo, Slots
<1>4. PICK t \in 0 .. LingerTimeout :
         lingers' = [c \in Conn |-> IF user[c] = u THEN t ELSE lingers[c]]
  BY DEF LetsGo
<1>5. Slots'
  BY <1>1, <1>2, <1>3, <1>4 DEF Slots, LetsGo
<1>6. holders' = holders \ {u}
  BY <1>1, <1>3 DEF holders
<1>7. u \notin holders => \A c \in Conn : user[c] # u
  BY <1>1 DEF holders
<1>8. u \notin holders => lingers' = lingers
  BY <1>2, <1>4, <1>7 DEF Slots
<1> QED
  BY <1>5, <1>6, <1>8

\* What a request before the loop leaves behind is over in time.
LEMMA LeftInTime ==
    ASSUME HttpInv, NEW r \in Request, LetsGo(r), Loop \in Waiting
    PROVE  \A c \in Conn : lingers'[c] + lwait <= HandlerTimeout + LingerTimeout
<1>1. Slots' /\ (r \notin holders => lingers' = lingers)
  BY SlotIsLeft DEF HttpInv
<1>2. CASE r \notin holders
  BY <1>1, <1>2 DEF HttpInv, AheadInv
<1>3. CASE r \in holders
  <2>1. lwait <= HandlerTimeout
    BY <1>3, HttpAssumption DEF HttpInv, AheadInv, HttpTypeOK
  <2>2. \A c \in Conn : lingers'[c] \in 0 .. LingerTimeout
    BY <1>1 DEF Slots
  <2> QED
    BY <2>1, <2>2, HttpAssumption DEF HttpInv, HttpTypeOK
<1> QED
  BY <1>2, <1>3

-----------------------------------------------------------------------------
(* The handlers.                                                           *)

\* A handler is over: its user is nowhere in the pool.
LEMMA EndsInv ==
    ASSUME HttpInv, NEW r \in Request, HandlerEnds(r), Leaves(r), LetsGo(r),
           UNCHANGED <<loopUseVars, lwait, drainLeft, proc>>
    PROVE  HttpInv'
<1> USE DEF HttpInv, loopUseVars
<1>1. /\ Line' /\ IsFiniteSet(Waiting') /\ Waiting' = Waiting \ {r}
      /\ \A v \in Waiting' : queue'[v] = queue[v] \ {r}
  BY LeavesLine, TypeHasLine DEF LoopInv
<1>2. Slots' /\ holders' = holders \ {r}
  BY SlotIsLeft
<1>3. /\ asks' \in [Request -> 0 .. 4] /\ hleft' \in [Request -> 0 .. HandlerTimeout]
      /\ InFlight' = InFlight \ {r}
      /\ \A s \in Request \ {r} : hleft'[s] = hleft[s]
  BY HttpAssumption DEF HandlerEnds, HttpTypeOK, InFlight
<1>4. Users' = Users \ {r} /\ (Waiting \cap holders)' = {}
  BY <1>1, <1>2 DEF Users, HttpTypeOK
<1>5. HttpTypeOK'
  BY <1>1, <1>2, <1>3, <1>4, HttpAssumption DEF HttpTypeOK, HandlerEnds, Line, Slots
<1>6. LoopInv'
  BY <1>1, <1>2, HttpAssumption DEF LoopInv
<1>7. StopInv'
  BY <1>3 DEF StopInv, HandlerEnds, InFlight
<1>8. AheadInv'
  BY <1>1, <1>2, <1>3, UsersKnown, LeftInTime, HttpAssumption DEF AheadInv, HttpTypeOK
<1> QED
  BY <1>5, <1>6, <1>7, <1>8

LEMMA BeginHandlerInv ==
    ASSUME HttpInv, NEW r \in Request, BeginHandler(r)
    PROVE  HttpInv'
<1> USE DEF HttpInv, loopUseVars, slots
<1>1. r \notin Waiting /\ r \notin holders /\ holders' = holders
  BY UsersKnown DEF BeginHandler, Users, holders
<1>2. /\ Line' /\ IsFiniteSet(Waiting') /\ Waiting' = Waiting \cup {r}
      /\ \A v \in Waiting : queue'[v] = queue[v]
  BY <1>1, JoinsLine, TypeHasLine DEF BeginHandler, LoopInv
<1>3. /\ asks' \in [Request -> 0 .. 4] /\ hleft' \in [Request -> 0 .. HandlerTimeout]
      /\ InFlight' = InFlight \cup {r}
      /\ \A s \in Request \ {r} : hleft'[s] = hleft[s]
  BY HttpAssumption DEF BeginHandler, HttpTypeOK, InFlight, Calls
<1>4. Users' = Users \cup {r} /\ (Waiting \cap holders)' = {}
  BY <1>1, <1>2 DEF Users, HttpTypeOK, BeginHandler
<1>5. HttpTypeOK'
  BY <1>2, <1>3, <1>4, HttpAssumption DEF HttpTypeOK, BeginHandler, Line
<1>6. LoopInv'
  BY <1>2, HttpAssumption DEF LoopInv, BeginHandler
<1>7. StopInv'
  BY <1>3 DEF StopInv, BeginHandler, InFlight, HttpTypeOK
<1>8. AheadInv'
  <2>1. Loop \in Waiting => queue[Loop] \subseteq Waiting
    BY TypeHasLine DEF Line
  <2> QED
    BY <1>1, <1>2, <1>3, <2>1, UsersKnown, HttpAssumption DEF AheadInv, BeginHandler
<1> QED
  BY <1>5, <1>6, <1>7, <1>8

LEMMA NextCallInv ==
    ASSUME HttpInv, NEW r \in Request, r \in holders, WaitsFor(r), LetsGo(r),
           asks' \in [Request -> 0 .. 4], InFlight' = InFlight,
           UNCHANGED <<hleft, latecomers, loopUseVars, lwait, drainLeft, proc>>
    PROVE  HttpInv'
<1> USE DEF HttpInv, loopUseVars
<1>1. r \notin Waiting
  BY DEF HttpTypeOK
<1>2. /\ Line' /\ IsFiniteSet(Waiting') /\ Waiting' = Waiting \cup {r}
      /\ \A v \in Waiting : queue'[v] = queue[v]
  BY <1>1, JoinsLine, TypeHasLine DEF LoopInv
<1>3. Slots' /\ holders' = holders \ {r}
  BY SlotIsLeft
<1>4. Users' = Users /\ (Waiting \cap holders)' = {}
  BY <1>1, <1>2, <1>3 DEF Users, HttpTypeOK
<1>5. HttpTypeOK'
  BY <1>2, <1>3, <1>4 DEF HttpTypeOK, Line, Slots
<1>6. LoopInv' /\ StopInv'
  BY <1>2, <1>3, HttpAssumption DEF LoopInv, StopInv
<1>7. AheadInv'
  BY <1>2, <1>3, LeftInTime, HttpAssumption DEF AheadInv
<1> QED
  BY <1>5, <1>6, <1>7

LEMMA HandlerStepInv ==
    ASSUME HttpInv, NEW r \in Request, HandlerStep(r)
    PROVE  HttpInv'
<1>1. CASE BeginHandler(r)
  BY <1>1, BeginHandlerInv
<1>2. ASSUME asks[r] > 1, NextCall(r)
      PROVE  asks' \in [Request -> 0 .. 4] /\ InFlight' = InFlight
  BY <1>2 DEF NextCall, HttpInv, HttpTypeOK, InFlight
<1>3. CASE Answered(r)
  BY <1>2, <1>3, EndsInv, NextCallInv DEF Answered, GivesBack, NextCall
<1>4. CASE CutOff(r)
  BY <1>2, <1>4, NextCallInv DEF CutOff, NextCall
<1>5. CASE BreaksOff(r)
  BY <1>5, EndsInv DEF BreaksOff, GivesBack
<1>6. CASE FindsDead(r)
  <2>1. r \in holders
    BY <1>6, HttpAssumption DEF FindsDead, holders, HttpInv, HttpTypeOK
  <2> QED
    BY <1>6, <2>1, NextCallInv DEF FindsDead, handlers, InFlight, HttpInv, HttpTypeOK
<1> QED
  BY <1>1, <1>3, <1>4, <1>5, <1>6 DEF HandlerStep

-----------------------------------------------------------------------------
(* The pool and the loop.                                                  *)

\* The user whose turn it is was before the loop, or is the loop.
LEMMA GrantInv ==
    ASSUME HttpInv, Grant
    PROVE  HttpInv'
<1> USE DEF HttpInv, loopUseVars, handlers
<1> PICK u \in Waiting, d \in Conn : /\ queue[u] = {}
                                     /\ IsFree(d)
                                     /\ Leaves(u)
                                     /\ user' = [user EXCEPT ![d] = u]
                                     /\ lwait' = IF u = Loop THEN 0 ELSE lwait
  BY DEF Grant
<1>1. /\ Line' /\ IsFiniteSet(Waiting') /\ Waiting' = Waiting \ {u}
      /\ \A v \in Waiting' : queue'[v] = queue[v] \ {u}
  BY LeavesLine, TypeHasLine DEF LoopInv
<1>2. Slots' /\ holders' = holders \cup {u}
  <2>1. u \in Request \cup {Loop} /\ u \notin holders /\ Slots
    BY UsersKnown, TypeHasLine DEF HttpTypeOK
  <2>2. u # Nobody /\ \A c \in Conn : user[c] # u
    BY <2>1, HttpAssumption DEF holders
  <2>3. \A c \in Conn : user'[c] = IF c = d THEN u ELSE user[c]
    BY <2>1 DEF Slots
  <2>4. holders' = holders \cup {u}
    BY <2>2, <2>3 DEF holders, IsFree
  <2>5. Slots'
    BY <2>1, <2>2, <2>3 DEF Slots, IsFree, Grant
  <2> QED
    BY <2>4, <2>5
<1>3. Users' = Users /\ (Waiting \cap holders)' = {} /\ InFlight' = InFlight
  BY <1>1, <1>2 DEF Users, HttpTypeOK, Grant, InFlight
<1>4. HttpTypeOK'
  BY <1>1, <1>2, <1>3, HttpAssumption DEF HttpTypeOK, Grant, Line, Slots
<1>5. LoopInv' /\ StopInv'
  BY <1>1, <1>2, <1>3 DEF LoopInv, StopInv, Grant
<1>6. AheadInv'
  <2>1. Loop \in Waiting /\ u # Loop => u \in queue[Loop]
    BY DEF HttpTypeOK
  <2>2. UNCHANGED <<hleft, lingers>>
    BY DEF Grant
  <2>3. CASE u = Loop
    BY <1>1, <2>3, HttpAssumption DEF AheadInv
  <2>4. CASE u # Loop
    BY <1>1, <1>2, <2>1, <2>2, <2>4 DEF AheadInv
  <2> QED
    BY <2>3, <2>4
<1> QED
  BY <1>4, <1>5, <1>6

LEMMA HealthCheckInv ==
    ASSUME HttpInv, HealthCheck
    PROVE  HttpInv'
<1> USE DEF HttpInv, loopUseVars, handlers
<1>1. /\ Waiting' = Waiting /\ holders' = holders /\ Users' = Users /\ InFlight' = InFlight
      /\ Waiting = {}
  BY DEF HealthCheck, Waiting, holders, Users, InFlight
<1>2. Slots'
  BY TypeHasLine, HttpAssumption DEF HealthCheck, Slots, IsFree
<1>3. HttpTypeOK'
  BY <1>1, <1>2 DEF HttpTypeOK, HealthCheck, Slots
<1> QED
  BY <1>1, <1>3 DEF LoopInv, StopInv, AheadInv, HealthCheck

LEMMA LoopAsksInv ==
    ASSUME HttpInv, LoopAsks
    PROVE  HttpInv'
<1> USE DEF HttpInv, loopUseVars, handlers, slots
<1>1. Loop \notin Waiting /\ Loop \notin holders /\ lwait = 0 /\ holders' = holders
  BY DEF LoopAsks, Users, LoopInv, holders
<1>2. /\ Line' /\ IsFiniteSet(Waiting') /\ Waiting' = Waiting \cup {Loop}
      /\ \A v \in Waiting : queue'[v] = queue[v]
  BY <1>1, JoinsLine, TypeHasLine DEF LoopAsks, LoopInv
<1>3. queue'[Loop] = Waiting
  BY DEF LoopAsks, WaitsFor
<1>4. Users' = Users \cup {Loop} /\ (Waiting \cap holders)' = {} /\ InFlight' = InFlight
  BY <1>1, <1>2 DEF Users, HttpTypeOK, LoopAsks, InFlight
<1>5. HttpTypeOK'
  BY <1>2, <1>4 DEF HttpTypeOK, LoopAsks, Line
<1>6. LoopInv' /\ StopInv'
  BY <1>1, <1>2, <1>4 DEF LoopInv, StopInv, LoopAsks
<1>7. AheadInv'
  <2>1. /\ \A r \in Request : hleft[r] \in 0 .. HandlerTimeout
        /\ \A c \in Conn : lingers[c] \in 0 .. LingerTimeout
    BY DEF HttpTypeOK
  <2> QED
    BY <1>1, <1>3, <2>1, UsersKnown, HttpAssumption DEF AheadInv, LoopAsks
<1> QED
  BY <1>5, <1>6, <1>7

LEMMA LoopCallEndsInv ==
    ASSUME HttpInv, LoopCallEnds
    PROVE  HttpInv'
<1> USE DEF HttpInv, loopUseVars, handlers
<1>1. Line' /\ IsFiniteSet(Waiting') /\ Waiting' = Waiting \ {Loop}
  BY LeavesLine, TypeHasLine DEF LoopCallEnds, GivesBack, LoopInv
<1>2. Slots' /\ holders' = holders \ {Loop}
  BY SlotIsLeft DEF LoopCallEnds, GivesBack
<1>3. Users' = Users \ {Loop} /\ (Waiting \cap holders)' = {} /\ InFlight' = InFlight
  BY <1>1, <1>2 DEF Users, HttpTypeOK, LoopCallEnds, InFlight
<1>4. HttpTypeOK'
  BY <1>1, <1>2, <1>3, HttpAssumption DEF HttpTypeOK, LoopCallEnds, Line, Slots
<1>5. LoopInv' /\ StopInv'
  BY <1>1, <1>2, <1>3 DEF LoopInv, StopInv, LoopCallEnds
<1> QED
  BY <1>1, <1>4, <1>5, HttpAssumption DEF AheadInv, LoopCallEnds

LEMMA LoopMovesInv ==
    ASSUME HttpInv, LoopMoves
    PROVE  HttpInv'
<1> USE DEF HttpInv, handlers, pool, slots
<1>1. /\ Waiting' = Waiting /\ holders' = holders /\ Users' = Users /\ InFlight' = InFlight
      /\ Loop \notin Users
  BY DEF LoopMoves, Waiting, holders, Users, InFlight
<1>2. /\ stop' = stop /\ lpc \in {"select", "asking", "working"}
      /\ lpc' \in {"select", "asking", "working"} /\ lleft' \in 0 .. PollTimeout
  BY HttpAssumption DEF LoopMoves, BeginPoll, BeginWork, AskAgain, EndPoll, HttpTypeOK
<1>3. HttpTypeOK'
  BY <1>1, <1>2 DEF HttpTypeOK, LoopMoves
<1>4. LoopInv' /\ StopInv' /\ AheadInv'
  BY <1>1, <1>2 DEF LoopInv, StopInv, AheadInv, LoopMoves
<1> QED
  BY <1>3, <1>4

-----------------------------------------------------------------------------
(* The stop.                                                               *)

LEMMA StoppingInv ==
    ASSUME HttpInv, SignalArrives \/ CancelLoop \/ LoopReturns \/ ProcessRestarts
    PROVE  HttpInv'
<1> USE DEF HttpInv, handlers, pool, slots
<1>1. /\ UNCHANGED <<asks, hleft, latecomers, queue, user, lwait>>
      /\ lpc # "select" => UNCHANGED lingers
  BY DEF SignalArrives, CancelLoop, LoopReturns, ProcessRestarts, LeaveLoop
<1>2. Waiting' = Waiting /\ holders' = holders /\ Users' = Users /\ InFlight' = InFlight
  BY <1>1 DEF Waiting, holders, Users, InFlight
<1>3. Slots'
  <2>1. CASE LoopReturns
    BY <2>1, TypeHasLine, HttpAssumption DEF LoopReturns, Slots
  <2>2. CASE SignalArrives \/ CancelLoop \/ ProcessRestarts
    BY <2>2, TypeHasLine DEF SignalArrives, CancelLoop, ProcessRestarts, Slots
  <2> QED
    BY <2>1, <2>2
<1>4. /\ lpc' \in {"select", "asking", "working", "exited"} /\ lleft' \in 0 .. PollTimeout
      /\ stop' \in {"running", "draining", "cancelled"}
      /\ drainLeft' \in 0 .. DrainTimeout /\ proc' \in {"up", "closing", "gone"}
  BY HttpAssumption DEF SignalArrives, CancelLoop, LoopReturns, ProcessRestarts, Signal, Cancel,
     LeaveLoop, LoopExits, Restart, HttpTypeOK
<1>5. lpc' # lpc => Loop \notin Users
  BY DEF SignalArrives, CancelLoop, LoopReturns, ProcessRestarts, Signal, Cancel,
     LeaveLoop, LoopExits, Restart, HttpTypeOK
<1>6. HttpTypeOK'
  BY <1>1, <1>2, <1>4, <1>5, <1>3 DEF HttpTypeOK, Slots
<1>7. LoopInv'
  BY <1>1, <1>2 DEF LoopInv, SignalArrives, CancelLoop, LoopReturns, ProcessRestarts, Signal,
     Cancel, LeaveLoop, LoopExits, Restart
<1>8. StopInv'
  <2>1. \A r \in InFlight : hleft[r] \in 0 .. HandlerTimeout
    BY DEF HttpTypeOK, InFlight
  <2>2. CASE SignalArrives
    BY <1>1, <1>2, <2>1, <2>2, HttpAssumption DEF StopInv, SignalArrives, Signal, LoopInv
  <2>3. CASE CancelLoop
    BY <1>1, <1>2, <2>1, <2>3, HttpAssumption DEF StopInv, CancelLoop, Cancel, Drained
  <2>4. CASE LoopReturns \/ ProcessRestarts
    BY <1>1, <1>2, <2>4 DEF StopInv, LoopReturns, ProcessRestarts, LeaveLoop, LoopExits, Restart
  <2> QED
    BY <2>2, <2>3, <2>4
<1>9. Loop \in Waiting => lpc = "asking"
  BY DEF HttpTypeOK, Users
<1> QED
  BY <1>1, <1>2, <1>6, <1>7, <1>8, <1>9 DEF AheadInv

LEMMA RefuseInv ==
    ASSUME HttpInv, Refuse
    PROVE  HttpInv'
<1> PICK r \in Waiting : HandlerEnds(r) /\ Leaves(r)
  BY DEF Refuse
<1>1. r \in Request /\ r \notin holders
  BY UsersKnown DEF HttpInv, HttpTypeOK, Refuse, LoopInv, Users
<1>2. \A c \in Conn : user[c] # r
  BY <1>1, HttpAssumption DEF holders
<1>3. LetsGo(r)
  BY <1>2, HttpAssumption DEF LetsGo, Refuse, slots, HttpInv, HttpTypeOK
<1> QED
  BY <1>1, <1>3, EndsInv DEF Refuse

LEMMA ProcessEndsInv ==
    ASSUME HttpInv, ProcessEnds
    PROVE  HttpInv'
<1> USE DEF HttpInv, loopUseVars
<1>1. Waiting' = {} /\ queue' \in [Waiting' -> SUBSET Waiting']
  BY DEF ProcessEnds, Empty, Waiting
<1>2. holders' = {} /\ Loop \notin Waiting /\ UNCHANGED <<user, lingers, rested>>
  BY DEF ProcessEnds, LoopInv, HttpTypeOK, Users, holders, IsFree, slots
<1>3. InFlight' = {} /\ Users' = {}
  BY <1>1, <1>2 DEF ProcessEnds, InFlight, Users
<1>4. HttpTypeOK'
  BY <1>1, <1>2, <1>3, HttpAssumption DEF HttpTypeOK, ProcessEnds
<1> QED
  BY <1>1, <1>2, <1>3, <1>4, FS_EmptySet DEF LoopInv, StopInv, AheadInv, ProcessEnds

-----------------------------------------------------------------------------
\* While the loop waits, every slot is somebody's whose deadline comes nearer, or
\* lingers for a shorter and shorter time.
LEMMA HttpTimeInv ==
    ASSUME HttpInv, HttpTime
    PROVE  HttpInv'
<1> USE DEF HttpInv
<1>1. /\ Waiting' = Waiting /\ holders' = holders /\ Users' = Users /\ InFlight' = InFlight
  BY DEF HttpTime, Waiting, holders, Users, InFlight
<1>2. /\ hleft' \in [Request -> 0 .. HandlerTimeout]
      /\ \A r \in Request : hleft'[r] = IF hleft[r] > 0 THEN hleft[r] - 1 ELSE 0
  BY HttpAssumption DEF HttpTime, HandlersAge, HttpTypeOK
<1>3. \A r \in InFlight : hleft[r] > 0 /\ hleft'[r] = hleft[r] - 1
  BY <1>2, HttpAssumption DEF HttpTime, Expired, HttpTypeOK, InFlight
<1>4. /\ Slots'
      /\ \A c \in Conn : lingers'[c] = IF lingers[c] > 0 THEN lingers[c] - 1 ELSE 0
  BY TypeHasLine, HttpAssumption DEF HttpTime, SlotsSettle, Slots
<1>5. HttpTypeOK'
  BY <1>1, <1>2, <1>4, HttpAssumption
     DEF HttpTypeOK, HttpTime, LoopTime, LoopAges, DrainAges, Slots
<1>6. LoopInv'
  BY <1>1 DEF LoopInv, HttpTime, LoopTime
<1>7. StopInv'
  BY <1>1, <1>3, HttpAssumption DEF StopInv, HttpTime, LoopTime, DrainAges, HttpTypeOK, InFlight
<1>8. ASSUME Loop \in Waiting
      PROVE  /\ lwait + 1 <= HandlerTimeout + LingerTimeout
             /\ \A u \in queue[Loop] \cup holders : hleft'[u] + lwait + 1 <= HandlerTimeout
             /\ \A c \in Conn : lingers'[c] + lwait + 1 <= HandlerTimeout + LingerTimeout
  <2>1. queue[Loop] \cup holders \subseteq InFlight
    BY <1>8, UsersKnown DEF HttpTypeOK, Users, InFlight
  <2>2. \A u \in queue[Loop] \cup holders : hleft'[u] + lwait + 1 <= HandlerTimeout
    BY <1>3, <1>8, <2>1, HttpAssumption DEF AheadInv, HttpTypeOK, InFlight
  <2>3. ~\E c \in Conn : IsFree(c)
    BY <1>8 DEF HttpTime, CanGrant, LoopInv, HttpTypeOK, Users
  <2>4. ASSUME NEW c \in Conn, user[c] # Nobody
        PROVE  lwait + 1 <= HandlerTimeout
    <3>1. user[c] \in holders
      BY <2>4 DEF holders
    <3>2. hleft[user[c]] > 0 /\ hleft[user[c]] \in Nat
      BY <1>3, <2>1, <3>1 DEF HttpTypeOK, InFlight
    <3> QED
      BY <1>8, <3>1, <3>2, HttpAssumption DEF AheadInv, HttpTypeOK
  <2>5. ASSUME NEW c \in Conn
        PROVE  /\ lwait + 1 <= HandlerTimeout + LingerTimeout
               /\ lingers'[c] + lwait + 1 <= HandlerTimeout + LingerTimeout
    <3>1. lingers[c] \in 0 .. LingerTimeout /\ lwait \in Nat
      BY HttpAssumption DEF HttpTypeOK
    <3>2. lingers[c] + lwait <= HandlerTimeout + LingerTimeout
      BY <1>8 DEF AheadInv
    <3>3. CASE lingers[c] > 0
      BY <1>4, <3>1, <3>2, <3>3, HttpAssumption
    <3>4. CASE lingers[c] = 0
      BY <1>4, <2>3, <2>4, <3>1, <3>4, HttpAssumption DEF IsFree
    <3> QED
      BY <3>1, <3>3, <3>4, HttpAssumption
  <2> QED
    BY <2>2, <2>5, HttpAssumption
<1>9. AheadInv'
  <2>1. lwait' = IF Loop \in Waiting /\ lwait < PollTimeout THEN lwait + 1 ELSE lwait
    BY DEF HttpTime
  <2>2. queue' = queue
    BY DEF HttpTime
  <2>3. lwait \in Nat /\ PollTimeout \in Nat
    BY HttpAssumption DEF HttpTypeOK
  <2>4. /\ \A c \in Conn : lingers'[c] \in 0 .. LingerTimeout
        /\ Loop \in Waiting => \A u \in queue[Loop] \cup holders : hleft'[u] \in 0 .. HandlerTimeout
    BY <1>2, <1>4, UsersKnown DEF Slots, HttpTypeOK, Users, InFlight
  <2> QED
    BY <1>1, <1>8, <2>1, <2>2, <2>3, <2>4, HttpAssumption DEF AheadInv
<1> QED
  BY <1>5, <1>6, <1>7, <1>9

LEMMA HttpStep == HttpInv /\ [HttpNext]_httpVars => HttpInv'
<1> SUFFICES ASSUME HttpInv, [HttpNext]_httpVars PROVE HttpInv'
  OBVIOUS
<1>1. CASE UNCHANGED httpVars
  BY <1>1 DEF httpVars, loopUseVars, handlers, pool, slots, HttpInv, HttpTypeOK, LoopInv,
     StopInv, AheadInv, Waiting, holders, Users, InFlight
<1>2. CASE HttpNext
  BY <1>2, HttpTimeInv, GrantInv, HealthCheckInv, HandlerStepInv, LoopAsksInv, LoopCallEndsInv, LoopMovesInv,
     StoppingInv, RefuseInv, ProcessEndsInv DEF HttpNext
<1> QED
  BY <1>1, <1>2

\* The invariant of the process: pool, handlers, loop and stop.
THEOREM HttpCorrect == HttpSpec => []HttpInv
<1>1. HttpInit => HttpInv
  <2>1. Empty \in [{} -> SUBSET {}] /\ DOMAIN Empty = {}
    BY DEF Empty
  <2> QED
    BY <2>1, FS_EmptySet, HttpAssumption DEF HttpInit, LoopInit, HttpInv, HttpTypeOK, LoopInv,
       StopInv, AheadInv, Waiting, holders, Users, InFlight
<1> QED
  BY <1>1, HttpStep, PTL DEF HttpSpec

\* The queue of the pool is a line of users without a connection, and every
\* handler is at one of its calls.
THEOREM HttpTypeCorrect == HttpSpec => []HttpTypeOK
<1>1. HttpInv => HttpTypeOK
  BY DEF HttpInv
<1> QED
  BY <1>1, HttpCorrect, PTL

\* A call of the loop waits for a slot no longer than the deadline of a handler
\* and the time a slot lingers, however many requests there are for however few
\* slots; and when the first of the two is over, nothing is before it but slots
\* that linger.
THEOREM LoopWaitIsBounded == HttpSpec => []LoopWaitsBounded
<1>1. HttpInv => LoopWaitsBounded
  <2> SUFFICES ASSUME HttpInv, Loop \in Waiting, lwait > HandlerTimeout
               PROVE  queue[Loop] \cup holders = {}
    BY DEF LoopWaitsBounded, HttpInv, AheadInv
  <2>1. \A u \in queue[Loop] \cup holders : hleft[u] \in Nat
    BY UsersKnown DEF HttpInv, HttpTypeOK, Users, InFlight
  <2> QED
    BY <2>1, HttpAssumption DEF HttpInv, AheadInv, HttpTypeOK
<1> QED
  BY <1>1, HttpCorrect, PTL

\* A stop abandons no request that was being served when the signal came and
\* is in time.
THEOREM NothingInTimeIsCutOff == HttpSpec => []CutOffOnlyOverdue
<1>1. HttpInv => CutOffOnlyOverdue
  BY DEF HttpInv, StopInv, CutOffOnlyOverdue
<1> QED
  BY <1>1, HttpCorrect, PTL

\* The pool never stalls on its queue: among those who wait there is one whose
\* turn it is, and it is before all others.  (So a connection that is free is
\* granted, to the first who came.)
THEOREM SomebodyIsNext ==
    HttpSpec => [](Waiting # {} =>
                      \E u \in Waiting : queue[u] = {} /\ \A v \in Waiting \ {u} : u \in queue[v])
<1>1. HttpInv => (Waiting # {} =>
                     \E u \in Waiting : queue[u] = {} /\ \A v \in Waiting \ {u} : u \in queue[v])
  BY LineHasHead, TypeHasLine DEF HttpInv, LoopInv
<1> QED
  BY <1>1, HttpCorrect, PTL
=============================================================================
