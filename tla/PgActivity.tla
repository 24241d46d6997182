----------------------------- MODULE PgActivity -----------------------------
(***************************************************************************)
(* The PostgreSQL server as pguard sees it: the client backends of         *)
(* pg_stat_activity and the effect of pg_terminate_backend.  The server is *)
(* not part of this repository; what is modelled is what internal/postgres *)
(* reads from it and asks of it.                                           *)
(*                                                                         *)
(* A row keeps what the program's decisions depend on: the pid, who the    *)
(* client is (application_name, client_addr), whether it is idle in a      *)
(* transaction, and how long ago its state changed.  The age is kept for   *)
(* idle backends only, and saturates at Horizon, since the code compares   *)
(* it with thresholds and never subtracts two of them.                     *)
(***************************************************************************)
EXTENDS Integers, FiniteSets

CONSTANTS
    PID,        \* process ids the server hands out; a pid is reused after an exit
    Client,     \* [app, addr] records: application_name and client_addr
    NoPid,      \* not a process id
    NoClient,   \* not a client
    Horizon     \* bound: an age of Horizon stands for every age >= Horizon

ASSUME PgAssumption ==
    /\ IsFiniteSet(PID)
    /\ NoPid \notin PID
    /\ NoClient \notin Client
    /\ Horizon \in Nat

VARIABLES
    activity,   \* pg_stat_activity: the row of each pid, or Absent
    signalled   \* backends sent SIGTERM that have not exited yet

pgVars == <<activity, signalled>>

\* Backend states: "busy" is every state that is not idle in transaction
\* (active, idle, fastpath); "idleInTx" is both idle-in-transaction states.
BackendState == {"busy", "idleInTx"}

Age == 0 .. Horizon

Row == [state : BackendState \cup {"none"}, client : Client \cup {NoClient}, age : Age]

Absent == [state |-> "none", client |-> NoClient, age |-> 0]

Sat(n) == IF n > Horizon THEN Horizon ELSE n

Present(p) == activity[p].state # "none"

IsIdleInTransaction(p) == activity[p].state = "idleInTx"

PgTypeOK ==
    /\ activity \in [PID -> Row]
    /\ signalled \subseteq PID

PgInit ==
    /\ activity = [p \in PID |-> Absent]
    /\ signalled = {}

-----------------------------------------------------------------------------
(* What clients and the server do.  A signalled backend only exits.        *)

Connect(p, c) ==
    /\ ~Present(p)
    /\ activity' = [activity EXCEPT ![p] = [state |-> "busy", client |-> c, age |-> 0]]
    /\ UNCHANGED signalled

\* The client stops sending statements with its transaction open.
GoIdle(p) ==
    /\ activity[p].state = "busy"
    /\ p \notin signalled
    /\ activity' = [activity EXCEPT ![p] = [state |-> "idleInTx", client |-> activity[p].client,
                                             age |-> 0]]
    /\ UNCHANGED signalled

\* The client sends a statement, commits or rolls back.
Resume(p) ==
    /\ IsIdleInTransaction(p)
    /\ p \notin signalled
    /\ activity' = [activity EXCEPT ![p] = [state |-> "busy", client |-> activity[p].client,
                                             age |-> 0]]
    /\ UNCHANGED signalled

\* SET application_name: the address stays.
Rename(p, c) ==
    /\ activity[p].state = "busy"
    /\ p \notin signalled
    /\ c # activity[p].client
    /\ c.addr = activity[p].client.addr
    /\ activity' = [activity EXCEPT ![p] = [state |-> "busy", client |-> c, age |-> 0]]
    /\ UNCHANGED signalled

\* The backend goes away: the client left, or the signal was acted on.
BackendExits(p) ==
    /\ Present(p)
    /\ activity' = [activity EXCEPT ![p] = Absent]
    /\ signalled' = signalled \ {p}

PgNext ==
    \E p \in PID :
        \/ \E c \in Client : Connect(p, c) \/ Rename(p, c)
        \/ GoIdle(p)
        \/ Resume(p)
        \/ BackendExits(p)

-----------------------------------------------------------------------------
(* What others do to it.                                                   *)

\* One unit of time passes for every idle backend.
Aged == [p \in PID |-> IF IsIdleInTransaction(p)
                       THEN [activity[p] EXCEPT !.age = Sat(activity[p].age + 1)]
                       ELSE activity[p]]

\* pg_terminate_backend(pid): it sends the signal and does not wait for the
\* exit; the result is Present(pid).
PgTerminate(p) ==
    /\ signalled' = IF Present(p) THEN signalled \cup {p} ELSE signalled
    /\ UNCHANGED activity

\* The rows GetIdleTransactions returns, as of now.
IdleRows == {[pid |-> p, client |-> activity[p].client, idle |-> activity[p].age] :
                p \in {q \in PID : IsIdleInTransaction(q)}}

\* Faulty: the statement counts the connection it runs on.
CountOf_Own(read) == 1 + Cardinality({p \in PID : activity[p].state \in read})

\* The connections a statement grouping pg_stat_activity by state counts
\* when only the groups in read reach the client.
CountOf(read) == Cardinality({p \in PID : activity[p].state \in read})
=============================================================================
