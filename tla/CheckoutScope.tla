--------------------------- MODULE CheckoutScope ---------------------------
(***************************************************************************)
(* The scope guards a client holds: Connection, PreparedStmt and the       *)
(* PooledConnection they share.  A PooledConnection is one checkout of a   *)
(* connection: when the last shared_ptr to it goes, its destructor pushes  *)
(* the connection back, and then drops its own reference to the pool,      *)
(* which dies with the last such reference after the client's ConnectionPool. *)
(*                                                                         *)
(* The pool itself is the allocator of BoundedPool, which                  *)
(* ConnectionPoolImpl is shown to implement; here its clients are the      *)
(* checkouts.  Each object may be moved to another thread on its own, so   *)
(* that the objects of one checkout may be with several threads, and other *)
(* threads may run between two steps of one destructor or assignment.      *)
(***************************************************************************)
EXTENDS Integers, Sequences, FiniteSets

CONSTANTS
  Threads,         \* the client threads
  Nothing,         \* what a thread is in when it is in no destructor
  PoolSize,        \* pool_size of the constructor
  MaxCheckouts,    \* calls of getConnection that succeed
  MaxStmts,        \* calls of getStmt that succeed
  Shelter          \* what clients make sure of before they assign over a
                   \* PreparedStmt: that its checkout stays out thanks to an
                   \* object of their "own", to "any" other, or to "none"

ASSUME ScopeAssumption ==
  /\ Nothing \notin Nat
  /\ PoolSize \in Nat
  /\ MaxCheckouts \in Nat
  /\ MaxStmts \in Nat
  /\ Shelter \in {"own", "any", "none"}

VARIABLES
  idle, owns, opened, unopened,   \* the pool: see BoundedPool
  poolObj,     \* the client still has its ConnectionPool
  checkout,    \* the PooledConnections made so far: of which connection, and
               \* which thread has the Connection object
  connObj,     \* the checkouts whose Connection object is alive
  stmt,        \* the PreparedStmts made so far: via which checkout, which thread
               \* has it, and whether pooled_conn_ and impl_ are set
  busy,        \* the PreparedStmt each thread is halfway through emptying
  dying,       \* the checkout whose ~PooledConnection each thread is in
  destroyed,   \* the pool has been destroyed
  closed       \* the connections sqlite3_close did close

poolVars == <<idle, owns, opened, unopened>>
scopeVars ==
  <<poolVars, poolObj, checkout, connObj, stmt, busy, dying, destroyed, closed>>

Checkouts == 1..MaxCheckouts
Pool == INSTANCE BoundedPool WITH Clients <- Checkouts, Capacity <- PoolSize

\* The checkouts something refers to: their use_count is not zero.
Referenced(conns, stmts) ==
  conns \cup {stmts[s].via : s \in {r \in DOMAIN stmts : stmts[r].pooled}}

Live == Referenced(connObj, stmt)
Free(t) == busy[t] = Nothing /\ dying[t] = Nothing
StmtsOf(t) == {s \in DOMAIN stmt : stmt[s].pooled /\ stmt[s].by = t}
ConnsOf(t) == {k \in connObj : checkout[k].by = t}
InUse(c) ==
  \E s \in DOMAIN stmt : stmt[s].impl /\ checkout[stmt[s].via].conn = c

-----------------------------------------------------------------------------
Init ==
  /\ Pool!AbsInit
  /\ poolObj = TRUE
  /\ checkout = <<>>
  /\ connObj = {}
  /\ stmt = <<>>
  /\ busy = [t \in Threads |-> Nothing]
  /\ dying = [t \in Threads |-> Nothing]
  /\ destroyed = FALSE
  /\ closed = {}

\* The pool's destructor closes the connections it has.  sqlite3_close refuses
\* one that has a live statement; nobody looks.
PoolDies ==
  /\ destroyed' = TRUE
  /\ closed' = {c \in idle' : ~InUse(c)'}

\* Mutant: PooledConnections do not keep the pool alive.
DropPoolRefEarly ==
  IF ~poolObj' /\ ~destroyed THEN PoolDies ELSE UNCHANGED <<destroyed, closed>>

\* A shared_ptr to the pool goes: the client's, or that of a PooledConnection.
\* The others are those of PooledConnections that are alive or being destroyed.
DropPoolRef ==
  IF ~poolObj' /\ Referenced(connObj', stmt') = {} /\ \A t \in Threads : dying'[t] = Nothing
    THEN PoolDies
    ELSE UNCHANGED <<destroyed, closed>>

\* Mutant: ~PooledConnection runs with the first reference that goes.
DropRefAlways(t, k) == dying' = [dying EXCEPT ![t] = k]

\* A shared_ptr to checkout k goes.  With the last one ~PooledConnection starts.
DropRef(t, k) ==
  IF k \in Referenced(connObj', stmt')
    THEN UNCHANGED dying
    ELSE dying' = [dying EXCEPT ![t] = k]

\* ~PooledConnection pushes the connection back.
PushBack(t) ==
  /\ dying[t] # Nothing
  /\ Pool!Release(dying[t], checkout[dying[t]].conn)
  /\ UNCHANGED <<poolObj, checkout, connObj, stmt, busy, dying, destroyed, closed>>

\* Mutant: ~PooledConnection lets go of the pool before it pushes.
LetPoolGoFirst(t) ==
  /\ dying[t] # Nothing
  /\ dying' = [dying EXCEPT ![t] = Nothing]
  /\ UNCHANGED <<poolVars, poolObj, checkout, connObj, stmt, busy>>
  /\ DropPoolRef

\* Mutant: a PooledConnection and its pool keep each other alive.
LetPoolGoNever(t) ==
  /\ dying[t] # Nothing
  /\ owns[dying[t]] = {}
  /\ dying' = [dying EXCEPT ![t] = Nothing]
  /\ UNCHANGED <<poolVars, poolObj, checkout, connObj, stmt, busy, destroyed, closed>>

\* After the body of ~PooledConnection its members go, conn_pool_ with them.
LetPoolGo(t) ==
  /\ dying[t] # Nothing
  /\ owns[dying[t]] = {}
  /\ dying' = [dying EXCEPT ![t] = Nothing]
  /\ UNCHANGED <<poolVars, poolObj, checkout, connObj, stmt, busy>>
  /\ DropPoolRef

(***************************************************************************)
(* ConnectionPool and Connection                                           *)
(***************************************************************************)

\* Mutant: the Connection refers to the checkout before.
GetConnectionOffByOne(t) ==
  /\ poolObj
  /\ Free(t)
  /\ Len(checkout) < MaxCheckouts
  /\ Pool!Open(Len(checkout) + 1)
  /\ checkout' = Append(checkout, [by |-> t, conn |-> opened + 1])
  /\ connObj' = connObj \cup {Len(checkout)}
  /\ UNCHANGED <<poolObj, stmt, busy, dying, destroyed, closed>>

\* getConnection returns a connection: an idle one or a new one.
GetConnection(t) ==
  /\ poolObj
  /\ Free(t)
  /\ Len(checkout) < MaxCheckouts
  /\ LET k == Len(checkout) + 1
     IN  /\ \/ \E c \in idle :
                 /\ Pool!Reuse(k, c)
                 /\ checkout' = Append(checkout, [by |-> t, conn |-> c])
            \/ /\ Pool!Open(k)
               /\ checkout' = Append(checkout, [by |-> t, conn |-> opened + 1])
         /\ connObj' = connObj \cup {k}
  /\ UNCHANGED <<poolObj, stmt, busy, dying, destroyed, closed>>

\* getConnection throws because createConnection did: no PooledConnection.
GetConnectionThrows(t) ==
  /\ poolObj
  /\ Free(t)
  /\ Pool!OpenFails
  /\ UNCHANGED <<poolObj, checkout, connObj, stmt, busy, dying, destroyed, closed>>

\* A Connection dies or is assigned over.
DropConnection(t, k) ==
  /\ Free(t)
  /\ k \in ConnsOf(t)
  /\ connObj' = connObj \ {k}
  /\ UNCHANGED <<poolVars, poolObj, checkout, stmt, busy, destroyed, closed>>
  /\ DropRef(t, k)

\* Connection::getStmt: the PreparedStmt shares the connection's checkout.
GetStmt(t, k) ==
  /\ Free(t)
  /\ k \in ConnsOf(t)
  /\ Len(stmt) < MaxStmts
  /\ stmt' = Append(stmt, [via |-> k, by |-> t, pooled |-> TRUE, impl |-> TRUE])
  /\ UNCHANGED <<poolVars, poolObj, checkout, connObj, busy, dying, destroyed, closed>>

\* A thread moves a Connection, and nothing made with it, to another.
HandOverConnection(t, u, k) ==
  /\ Free(t)
  /\ t # u
  /\ k \in ConnsOf(t)
  /\ checkout' = [checkout EXCEPT ![k].by = u]
  /\ UNCHANGED <<poolVars, poolObj, connObj, stmt, busy, dying, destroyed, closed>>

\* The client's ConnectionPool dies.
DropPool ==
  /\ poolObj
  /\ poolObj' = FALSE
  /\ UNCHANGED <<poolVars, checkout, connObj, stmt, busy, dying>>
  /\ DropPoolRef

(***************************************************************************)
(* PreparedStmt                                                            *)
(***************************************************************************)

\* A thread moves a PreparedStmt to another.
HandOverStmt(t, u, s) ==
  /\ Free(t)
  /\ t # u
  /\ s \in StmtsOf(t)
  /\ stmt' = [stmt EXCEPT ![s].by = u]
  /\ UNCHANGED <<poolVars, poolObj, checkout, connObj, busy, dying, destroyed, closed>>

\* impl_ is emptied: ~PreparedStmtImpl finalizes the sqlite3_stmt.
Finalize(s) == stmt' = [stmt EXCEPT ![s].impl = FALSE]

\* pooled_conn_ is emptied.
Unpool(s) == stmt' = [stmt EXCEPT ![s].pooled = FALSE]

\* Mutant: ~PreparedStmt resets pooled_conn_ first.
DestroyStmtSwapped(t, s) ==
  /\ Free(t)
  /\ s \in StmtsOf(t)
  /\ Unpool(s)
  /\ busy' = [busy EXCEPT ![t] = s]
  /\ UNCHANGED <<poolVars, poolObj, checkout, connObj, destroyed, closed>>
  /\ DropRef(t, stmt[s].via)

\* ~PreparedStmt, first statement: impl_.reset.
DestroyStmt(t, s) ==
  /\ Free(t)
  /\ s \in StmtsOf(t)
  /\ Finalize(s)
  /\ busy' = [busy EXCEPT ![t] = s]
  /\ UNCHANGED <<poolVars, poolObj, checkout, connObj, dying, destroyed, closed>>

\* Does thread t have another object, besides s, of the checkout of s?
KeepsOut(t, s) ==
  \/ stmt[s].via \in ConnsOf(t)
  \/ \E r \in StmtsOf(t) \ {s} : stmt[r].via = stmt[s].via

\* The client's care before it assigns over s.  The library asks for none.
Sheltered(t, s) ==
  \/ Shelter = "own" /\ KeepsOut(t, s)
  \/ Shelter = "any" /\ \E u \in Threads : KeepsOut(u, s)
  \/ Shelter = "none"

\* The defaulted move assignment over a PreparedStmt, first member:
\* pooled_conn_, and with it perhaps the last reference to the checkout.
OverwriteStmt(t, s) ==
  /\ Free(t)
  /\ s \in StmtsOf(t)
  /\ Sheltered(t, s)
  /\ Unpool(s)
  /\ busy' = [busy EXCEPT ![t] = s]
  /\ UNCHANGED <<poolVars, poolObj, checkout, connObj, destroyed, closed>>
  /\ DropRef(t, stmt[s].via)

\* The second member: pooled_conn_ of the destructor, impl_ of the assignment.
EmptyOther(t) ==
  /\ busy[t] # Nothing
  /\ dying[t] = Nothing
  /\ busy' = [busy EXCEPT ![t] = Nothing]
  /\ UNCHANGED <<poolVars, poolObj, checkout, connObj, destroyed, closed>>
  /\ \/ /\ ~stmt[busy[t]].impl
        /\ Unpool(busy[t])
        /\ DropRef(t, stmt[busy[t]].via)
     \/ /\ stmt[busy[t]].impl
        /\ Finalize(busy[t])
        /\ UNCHANGED dying

-----------------------------------------------------------------------------
\* What a thread does to get rid of what it holds.
CleanUp(t) ==
  \/ PushBack(t)
  \/ LetPoolGo(t)
  \/ EmptyOther(t)
  \/ \E k \in ConnsOf(t) : DropConnection(t, k)
  \/ \E s \in StmtsOf(t) : DestroyStmt(t, s)

ThreadStep(t) ==
  \/ GetConnection(t)
  \/ GetConnectionThrows(t)
  \/ CleanUp(t)
  \/ \E k \in ConnsOf(t) : GetStmt(t, k)
  \/ \E s \in StmtsOf(t) : OverwriteStmt(t, s)
  \/ \E u \in Threads :
       \/ \E k \in ConnsOf(t) : HandOverConnection(t, u, k)
       \/ \E s \in StmtsOf(t) : HandOverStmt(t, u, s)

Next == DropPool \/ \E t \in Threads : ThreadStep(t)

Spec == Init /\ [][Next]_scopeVars

\* Objects do not live forever: a scope ends, and its destructors run.  Strong
\* fairness, because threads do not pass an object on and on forever.
FairSpec == Spec /\ WF_scopeVars(DropPool) /\ \A t \in Threads : SF_scopeVars(CleanUp(t))

-----------------------------------------------------------------------------
\* Types of the variables.
TypeOK ==
  /\ idle \subseteq 1..PoolSize
  /\ owns \in [Checkouts -> SUBSET (1..PoolSize)]
  /\ opened \in 0..PoolSize
  /\ unopened \in 0..PoolSize
  /\ {poolObj, destroyed} \subseteq BOOLEAN
  /\ checkout \in Seq([by : Threads, conn : 1..PoolSize])
  /\ connObj \subseteq DOMAIN checkout
  /\ stmt \in Seq([via : DOMAIN checkout, by : Threads, pooled : BOOLEAN, impl : BOOLEAN])
  /\ busy \in [Threads -> DOMAIN stmt \cup {Nothing}]
  /\ dying \in [Threads -> DOMAIN checkout \cup {Nothing}]
  /\ closed \subseteq 1..PoolSize

\* A connection is out as long as an object of its checkout is, whichever
\* threads have those objects, and a connection that is out has such an object
\* or its one ~PooledConnection has yet to push it: none runs too early, twice
\* or never (src/util/PooledConnection.cpp:20).
OwnsMatchesCheckouts ==
  /\ \A k \in Live : owns[k] = {checkout[k].conn}
  /\ \A j, k \in Live : checkout[j].conn = checkout[k].conn => j = k
  /\ \A k \in Checkouts \ Live : owns[k] # {} => \E t \in Threads : dying[t] = k
  /\ \A t \in Threads : dying[t] \notin Live
  /\ \A t, u \in Threads : dying[t] = dying[u] /\ t # u => dying[t] = Nothing

\* A sqlite3_stmt lives only while its PreparedStmt's checkout does: "connection_
\* is a dependency of impl_ so make sure impl_ is destructed before
\* connection_" (src/PreparedStmt.cpp:23).  A connection that goes back to the
\* pool has no statement left for its next user to trip over, even when the
\* Connection and the statements made with it die in different threads.
StmtInsideCheckout ==
  \A s \in DOMAIN stmt : stmt[s].impl => stmt[s].via \in Live

\* When the pool is destroyed nothing refers to it, no ~PooledConnection is
\* still at work on it, and every connection it opened is closed: "Upon
\* destruction, the object will close the database"
\* (include/dbpool/sqlite/ConnectionImpl.hpp:17).
DestroyedClosesAll ==
  destroyed =>
    /\ ~poolObj /\ Live = {}
    /\ \A t \in Threads : dying[t] = Nothing
    /\ closed = 1..opened

\* The destructors, in whatever order and thread they run, take the pool down
\* in the end: no reference cycle or forgotten checkout keeps it.
PoolGoesAway == <>(destroyed /\ closed = 1..opened)
=============================================================================
