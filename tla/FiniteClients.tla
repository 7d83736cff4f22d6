---------------------------- MODULE FiniteClients ----------------------------
(***************************************************************************)
(* The pool under client threads that each make at most MaxCalls calls of  *)
(* getConnection and sooner or later drop every connection they hold.      *)
(* conn_mutex_ and conn_cv_ promise no order among the threads, so a       *)
(* client that never stops calling could overtake a sleeper forever; with  *)
(* finitely many calls the question is whether the pool itself ever leaves *)
(* a caller stuck.  setPrepSql, which neither locks nor wakes anybody, is   *)
(* left to ConnectionPoolImpl.                                             *)
(***************************************************************************)
EXTENDS ConnectionPoolImpl

CONSTANT MaxCalls   \* calls of getConnection each thread makes

ASSUME MaxCallsAssumption == MaxCalls \in Nat

VARIABLE remaining  \* the calls each thread may still make

clientVars == <<vars, remaining>>

ClientInit ==
  /\ Init
  /\ remaining = [t \in Threads |-> MaxCalls]

\* A thread calls getConnection for one of its remaining times.
GetConnection(t) ==
  /\ remaining[t] > 0
  /\ remaining' = [remaining EXCEPT ![t] = @ - 1]
  /\ PopCall(t)

\* A Connection goes out of scope.
DropConnection(t) == PushCall(t) /\ UNCHANGED remaining

\* The thread takes its next step inside the pool.
InsidePool(t) == PoolStep(t) /\ UNCHANGED remaining

ClientNext ==
  \E t \in Threads :
    \/ GetConnection(t)
    \/ DropConnection(t)
    \/ InsidePool(t)
    \/ SpuriousWake(t) /\ UNCHANGED remaining
    \/ \E u \in Threads : HandOver(t, u) /\ UNCHANGED remaining

\* A thread that can go on inside the pool does: weak fairness, because the
\* callers that could overtake it at conn_mutex_ run out of calls.  Clients
\* drop what they hold (a Connection's destructor always runs) and do not pass
\* it on and on forever: strong fairness.  Nothing forces a call, a move or a
\* spurious wake-up.
Fairness ==
  \A t \in Threads :
    /\ WF_clientVars(InsidePool(t))
    /\ SF_clientVars(DropConnection(t))

ClientSpec == ClientInit /\ [][ClientNext]_clientVars /\ Fairness

-----------------------------------------------------------------------------
\* Whoever calls popConnection gets out of it, with a connection or with an
\* exception: it "wait[s] for a connection to become available"
\* (src/impl/ConnectionPoolImpl.cpp:19), and one does.
EveryCallReturns ==
  \A t \in Threads : pc[t] \in {"pop", "waiting"} ~> pc[t] = "idle"

\* All connections end up back in the list, whatever the threads do with
\* conn_mutex_ meanwhile: no return is stuck behind callers of popConnection.
AllComeHome == <>[](Out = {} /\ count + lost = PoolSize)
=============================================================================
