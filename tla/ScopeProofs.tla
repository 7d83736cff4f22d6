---------------------------- MODULE ScopeProofs ----------------------------
(***************************************************************************)
(* Proofs about CheckoutScope for any number of threads, connections and   *)
(* objects, however the objects of a checkout are spread over the threads: *)
(* checkouts and the pool agree, whatever the clients do; and as long as a *)
(* thread that assigns over a PreparedStmt has another object of the same  *)
(* checkout, statements live inside their checkouts and a destroyed pool   *)
(* has closed all its connections.                                         *)
(***************************************************************************)
EXTENDS CheckoutScope, SequenceTheorems, TLAPS

CheckoutRecord == [by : Threads, conn : 1..PoolSize]
StmtRecord == [via : Nat, by : Threads, pooled : BOOLEAN, impl : BOOLEAN]

\* TypeOK, with the references of the statements apart from their types.
ScopeTypes ==
  /\ owns \in [Checkouts -> SUBSET (1..PoolSize)]
  /\ opened \in Nat /\ unopened \in Nat /\ opened + unopened <= PoolSize
  /\ poolObj \in BOOLEAN /\ destroyed \in BOOLEAN
  /\ checkout \in Seq(CheckoutRecord) /\ Len(checkout) <= MaxCheckouts
  /\ connObj \subseteq DOMAIN checkout
  /\ stmt \in Seq(StmtRecord)
  /\ \A s \in DOMAIN stmt : stmt[s].via \in DOMAIN checkout
  /\ busy \in [Threads -> DOMAIN stmt \cup {Nothing}]
  /\ dying \in [Threads -> DOMAIN checkout \cup {Nothing}]
  /\ closed \subseteq 1..PoolSize

\* The pool knows where each connection it opened is.
PoolAccounts ==
  /\ idle \cup UNION {owns[k] : k \in Checkouts} = 1..opened
  /\ \A k \in Checkouts : idle \cap owns[k] = {}
  /\ \A j, k \in Checkouts : j # k => owns[j] \cap owns[k] = {}

\* OwnsMatchesCheckouts, except that two checkouts never share a connection,
\* which PoolAccounts adds.
CheckoutsOut ==
  /\ \A k \in Live : owns[k] = {checkout[k].conn}
  /\ \A k \in Checkouts \ Live : owns[k] # {} => \E t \in Threads : dying[t] = k
  /\ \A t \in Threads : dying[t] \notin Live
  /\ \A t, u \in Threads : dying[t] = dying[u] /\ t # u => dying[t] = Nothing

\* A statement with one half empty is one its thread is busy with.
Half(s) == stmt[s].pooled <=> ~stmt[s].impl
HalfWay ==
  /\ \A t \in Threads : busy[t] # Nothing => Half(busy[t]) /\ stmt[busy[t]].by = t
  /\ \A s \in DOMAIN stmt : Half(s) => \E t \in Threads : busy[t] = s

\* A destroyed pool has no client left.
DestroyedIsEmpty ==
  destroyed => Live = {} /\ ~poolObj /\ \A t \in Threads : dying[t] = Nothing

\* What no client can break.
ScopeInvariant ==
  /\ ScopeTypes
  /\ PoolAccounts
  /\ CheckoutsOut
  /\ HalfWay
  /\ DestroyedIsEmpty

\* A thread that has emptied pooled_conn_ and not yet impl_ keeps the checkout
\* out with something else.
HalfKept ==
  \A t \in Threads : busy[t] # Nothing /\ stmt[busy[t]].impl => KeepsOut(t, busy[t])

\* What holds when threads assign over a statement only under their own shelter.
TidyInvariant ==
  /\ ScopeInvariant
  /\ HalfKept
  /\ DestroyedClosesAll

-----------------------------------------------------------------------------
(***************************************************************************)
(* The data                                                                *)
(***************************************************************************)

\* A checkout is referred to by its Connection or by a statement.
LEMMA ReferencedBy ==
  ASSUME NEW conns, NEW stmts, NEW k
  PROVE  k \in Referenced(conns, stmts) <=>
           \/ k \in conns
           \/ \E s \in DOMAIN stmts : stmts[s].pooled /\ stmts[s].via = k
  BY DEF Referenced

\* The same checkouts are referred to if the same statements refer to them.
LEMMA SameReferences ==
  ASSUME UNCHANGED connObj,
         \A k : (\E s \in DOMAIN stmt' : stmt'[s].pooled /\ stmt'[s].via = k)
                 <=> (\E s \in DOMAIN stmt : stmt[s].pooled /\ stmt[s].via = k)
  PROVE  Live' = Live
  <1>1. ASSUME NEW k PROVE k \in Live' <=> k \in Live
    <2>1. k \in Live <=> \/ k \in connObj
                         \/ \E s \in DOMAIN stmt : stmt[s].pooled /\ stmt[s].via = k
      BY ReferencedBy DEF Live
    <2>2. k \in Live' <=> \/ k \in connObj'
                          \/ \E s \in DOMAIN stmt' : stmt'[s].pooled /\ stmt'[s].via = k
      BY ReferencedBy DEF Live
    <2>3. QED
      BY <2>1, <2>2
  <1>2. QED
    BY <1>1

\* Sequences, their elements, and nothing as an index of them.
LEMMA ScopeIndices ==
  ASSUME ScopeTypes
  PROVE  /\ Len(checkout) \in Nat /\ DOMAIN checkout = 1..Len(checkout)
         /\ Len(stmt) \in Nat /\ DOMAIN stmt = 1..Len(stmt)
         /\ \A k \in DOMAIN checkout : checkout[k] \in CheckoutRecord
         /\ \A s \in DOMAIN stmt : stmt[s] \in StmtRecord
         /\ Live \subseteq DOMAIN checkout /\ DOMAIN checkout \subseteq Checkouts
         /\ Nothing \notin DOMAIN checkout /\ Nothing \notin DOMAIN stmt
  <1>1. /\ Len(checkout) \in Nat /\ DOMAIN checkout = 1..Len(checkout)
        /\ Len(stmt) \in Nat /\ DOMAIN stmt = 1..Len(stmt)
    BY LenProperties DEF ScopeTypes
  <1>2. /\ \A k \in DOMAIN checkout : checkout[k] \in CheckoutRecord
        /\ \A s \in DOMAIN stmt : stmt[s] \in StmtRecord
    BY <1>1, ElementOfSeq DEF ScopeTypes
  <1>3. Live \subseteq DOMAIN checkout /\ DOMAIN checkout \subseteq Checkouts
    BY <1>1, ScopeAssumption DEF Live, Referenced, ScopeTypes, Checkouts
  <1>4. QED
    BY <1>1, <1>2, <1>3, ScopeAssumption

\* impl_.reset() empties impl_ and touches nothing else.
LEMMA FinalizeEffect ==
  ASSUME ScopeTypes, NEW s \in DOMAIN stmt, Finalize(s)
  PROVE  /\ stmt' \in Seq(StmtRecord)
         /\ DOMAIN stmt' = DOMAIN stmt
         /\ \A r \in DOMAIN stmt : stmt'[r].via = stmt[r].via
         /\ \A r \in DOMAIN stmt : r # s => stmt'[r] = stmt[r]
         /\ ~stmt'[s].impl /\ stmt'[s].pooled = stmt[s].pooled /\ stmt'[s].by = stmt[s].by
  <1>1. s \in 1..Len(stmt) /\ stmt[s] \in StmtRecord /\ stmt \in Seq(StmtRecord)
    BY ScopeIndices DEF ScopeTypes
  <1> DEFINE new == [stmt[s] EXCEPT !.impl = FALSE]
  <1>2. /\ new \in StmtRecord /\ new.via = stmt[s].via
        /\ ~new.impl /\ new.pooled = stmt[s].pooled /\ new.by = stmt[s].by
    BY <1>1 DEF StmtRecord
  <1>3. stmt' = [stmt EXCEPT ![s] = new]
    BY DEF Finalize
  <1>4. stmt' \in Seq(StmtRecord) /\ Len(stmt') = Len(stmt)
    BY <1>1, <1>2, <1>3, ExceptSeq
  <1>5. \A r \in DOMAIN stmt : stmt'[r] = IF r = s THEN new ELSE stmt[r]
    BY <1>3
  <1>6. QED
    BY <1>1, <1>2, <1>3, <1>4, <1>5

\* Nor does emptying pooled_conn_ touch anything else.
LEMMA UnpoolEffect ==
  ASSUME ScopeTypes, NEW s \in DOMAIN stmt, Unpool(s)
  PROVE  /\ stmt' \in Seq(StmtRecord)
         /\ DOMAIN stmt' = DOMAIN stmt
         /\ \A r \in DOMAIN stmt : stmt'[r].via = stmt[r].via
         /\ \A r \in DOMAIN stmt : r # s => stmt'[r] = stmt[r]
         /\ ~stmt'[s].pooled /\ stmt'[s].impl = stmt[s].impl /\ stmt'[s].by = stmt[s].by
  <1>1. s \in 1..Len(stmt) /\ stmt[s] \in StmtRecord /\ stmt \in Seq(StmtRecord)
    BY ScopeIndices DEF ScopeTypes
  <1> DEFINE new == [stmt[s] EXCEPT !.pooled = FALSE]
  <1>2. /\ new \in StmtRecord /\ new.via = stmt[s].via
        /\ ~new.pooled /\ new.impl = stmt[s].impl /\ new.by = stmt[s].by
    BY <1>1 DEF StmtRecord
  <1>3. stmt' = [stmt EXCEPT ![s] = new]
    BY DEF Unpool
  <1>4. stmt' \in Seq(StmtRecord) /\ Len(stmt') = Len(stmt)
    BY <1>1, <1>2, <1>3, ExceptSeq
  <1>5. \A r \in DOMAIN stmt : stmt'[r] = IF r = s THEN new ELSE stmt[r]
    BY <1>3
  <1>6. QED
    BY <1>1, <1>2, <1>3, <1>4, <1>5

\* A statement that is moved stays what it is.
LEMMA GiveStmtEffect ==
  ASSUME ScopeTypes, NEW s \in DOMAIN stmt, NEW u \in Threads,
         stmt' = [stmt EXCEPT ![s].by = u]
  PROVE  /\ stmt' \in Seq(StmtRecord)
         /\ DOMAIN stmt' = DOMAIN stmt
         /\ \A r \in DOMAIN stmt : stmt'[r].via = stmt[r].via
         /\ \A r \in DOMAIN stmt : r # s => stmt'[r] = stmt[r]
         /\ stmt'[s].by = u /\ stmt'[s].pooled = stmt[s].pooled /\ stmt'[s].impl = stmt[s].impl
  <1>1. s \in 1..Len(stmt) /\ stmt[s] \in StmtRecord /\ stmt \in Seq(StmtRecord)
    BY ScopeIndices DEF ScopeTypes
  <1> DEFINE new == [stmt[s] EXCEPT !.by = u]
  <1>2. /\ new \in StmtRecord /\ new.via = stmt[s].via
        /\ new.by = u /\ new.pooled = stmt[s].pooled /\ new.impl = stmt[s].impl
    BY <1>1 DEF StmtRecord
  <1>3. stmt' = [stmt EXCEPT ![s] = new]
    OBVIOUS
  <1>4. stmt' \in Seq(StmtRecord) /\ Len(stmt') = Len(stmt)
    BY <1>1, <1>2, <1>3, ExceptSeq
  <1>5. \A r \in DOMAIN stmt : stmt'[r] = IF r = s THEN new ELSE stmt[r]
    BY <1>3
  <1>6. QED
    BY <1>1, <1>2, <1>3, <1>4, <1>5

\* A Connection that is moved is of the same connection.
LEMMA GiveConnEffect ==
  ASSUME ScopeTypes, NEW k \in DOMAIN checkout, NEW u \in Threads,
         checkout' = [checkout EXCEPT ![k].by = u]
  PROVE  /\ checkout' \in Seq(CheckoutRecord)
         /\ Len(checkout') = Len(checkout) /\ DOMAIN checkout' = DOMAIN checkout
         /\ \A j \in DOMAIN checkout : checkout'[j].conn = checkout[j].conn
         /\ \A j \in DOMAIN checkout : j # k => checkout'[j] = checkout[j]
         /\ checkout'[k].by = u
  <1>1. /\ k \in 1..Len(checkout) /\ checkout[k] \in CheckoutRecord
        /\ checkout \in Seq(CheckoutRecord)
    BY ScopeIndices DEF ScopeTypes
  <1> DEFINE new == [checkout[k] EXCEPT !.by = u]
  <1>2. new \in CheckoutRecord /\ new.conn = checkout[k].conn /\ new.by = u
    BY <1>1 DEF CheckoutRecord
  <1>3. checkout' = [checkout EXCEPT ![k] = new]
    OBVIOUS
  <1>4. checkout' \in Seq(CheckoutRecord) /\ Len(checkout') = Len(checkout)
    BY <1>1, <1>2, <1>3, ExceptSeq
  <1>5. \A j \in DOMAIN checkout : checkout'[j] = IF j = k THEN new ELSE checkout[j]
    BY <1>3
  <1>6. QED
    BY <1>1, <1>2, <1>3, <1>4, <1>5

\* A new statement is after those there were.
LEMMA AddStmtEffect ==
  ASSUME ScopeTypes, NEW new \in StmtRecord, stmt' = Append(stmt, new)
  PROVE  /\ stmt' \in Seq(StmtRecord)
         /\ DOMAIN stmt' = DOMAIN stmt \cup {Len(stmt) + 1}
         /\ Len(stmt) + 1 \notin DOMAIN stmt
         /\ \A r \in DOMAIN stmt : stmt'[r] = stmt[r]
         /\ stmt'[Len(stmt) + 1] = new
  <1>1. stmt \in Seq(StmtRecord) /\ Len(stmt) \in Nat /\ DOMAIN stmt = 1..Len(stmt)
    BY ScopeIndices DEF ScopeTypes
  <1>2. /\ stmt' \in Seq(StmtRecord) /\ Len(stmt') = Len(stmt) + 1
        /\ \A r \in 1..Len(stmt) : stmt'[r] = stmt[r]
        /\ stmt'[Len(stmt) + 1] = new
    BY <1>1, AppendProperties
  <1>3. DOMAIN stmt' = 1..(Len(stmt) + 1)
    BY <1>2, LenProperties
  <1>4. QED
    BY <1>1, <1>2, <1>3

\* So is a new checkout.
LEMMA AddCheckoutEffect ==
  ASSUME ScopeTypes, NEW new \in CheckoutRecord, checkout' = Append(checkout, new)
  PROVE  /\ checkout' \in Seq(CheckoutRecord) /\ Len(checkout') = Len(checkout) + 1
         /\ DOMAIN checkout' = DOMAIN checkout \cup {Len(checkout) + 1}
         /\ Len(checkout) + 1 \notin DOMAIN checkout
         /\ \A k \in DOMAIN checkout : checkout'[k] = checkout[k]
         /\ checkout'[Len(checkout) + 1] = new
  <1>1. /\ checkout \in Seq(CheckoutRecord) /\ Len(checkout) \in Nat
        /\ DOMAIN checkout = 1..Len(checkout)
    BY ScopeIndices DEF ScopeTypes
  <1>2. /\ checkout' \in Seq(CheckoutRecord) /\ Len(checkout') = Len(checkout) + 1
        /\ \A k \in 1..Len(checkout) : checkout'[k] = checkout[k]
        /\ checkout'[Len(checkout) + 1] = new
    BY <1>1, AppendProperties
  <1>3. DOMAIN checkout' = 1..(Len(checkout) + 1)
    BY <1>2, LenProperties
  <1>4. QED
    BY <1>1, <1>2, <1>3

\* Checkouts are out one by one when the pool knows each connection's place.
LEMMA OutOneByOne ==
  ASSUME ScopeTypes, PoolAccounts, CheckoutsOut
  PROVE  OwnsMatchesCheckouts
  <1>1. ASSUME NEW j \in Live, NEW k \in Live, checkout[j].conn = checkout[k].conn
        PROVE  j = k
    <2>1. j \in Checkouts /\ k \in Checkouts
      BY ScopeIndices
    <2>2. owns[j] \cap owns[k] # {}
      BY <1>1 DEF CheckoutsOut
    <2>3. QED
      BY <2>1, <2>2 DEF PoolAccounts
  <1>2. QED
    BY <1>1 DEF OwnsMatchesCheckouts, CheckoutsOut

\* A statement whose thread keeps its checkout out is inside it.
LEMMA StmtHasCheckout ==
  ASSUME ScopeTypes, HalfWay, HalfKept
  PROVE  StmtInsideCheckout
  <1> SUFFICES ASSUME NEW s \in DOMAIN stmt, stmt[s].impl
               PROVE  stmt[s].via \in Live
    BY DEF StmtInsideCheckout
  <1>1. CASE stmt[s].pooled
    BY <1>1, ReferencedBy DEF Live
  <1>2. CASE ~stmt[s].pooled
    <2>1. PICK t \in Threads : busy[t] = s
      BY <1>2 DEF HalfWay, Half
    <2>2. KeepsOut(t, s)
      BY <2>1, ScopeIndices DEF HalfKept
    <2>3. QED
      BY <2>2, ReferencedBy DEF KeepsOut, ConnsOf, StmtsOf, Live
  <1>3. QED
    BY <1>1, <1>2

-----------------------------------------------------------------------------
(***************************************************************************)
(* Checkouts and the pool                                                  *)
(***************************************************************************)

\* As long as the same checkouts are referred to, the same are out.
LEMMA SameOut ==
  ASSUME ScopeTypes, CheckoutsOut, Live' = Live, UNCHANGED <<owns, dying>>,
         \A k \in DOMAIN checkout : checkout'[k].conn = checkout[k].conn
  PROVE  CheckoutsOut'
  <1>1. \A k \in Live : checkout'[k].conn = checkout[k].conn
    BY ScopeIndices
  <1>2. QED
    BY <1>1 DEF CheckoutsOut

\* A reference to a checkout goes.  If it was the last, the checkout is out
\* until its destructor has pushed the connection.
LEMMA DropRefKeeps ==
  ASSUME ScopeTypes, CheckoutsOut, NEW t \in Threads, NEW k \in Live,
         dying[t] = Nothing, Live' \subseteq Live, Live \ {k} \subseteq Live',
         UNCHANGED <<owns, checkout>>, DropRef(t, k)
  PROVE  CheckoutsOut' /\ dying' \in [Threads -> DOMAIN checkout' \cup {Nothing}]
  <1>0. Live' = Referenced(connObj', stmt')
    BY DEF Live
  <1>1. k \in DOMAIN checkout /\ k # Nothing /\ k \in Checkouts
    BY ScopeIndices
  <1>2. CASE k \in Live'
    <2>1. UNCHANGED dying /\ Live' = Live
      BY <1>0, <1>2 DEF DropRef
    <2>2. QED
      BY <2>1, SameOut DEF ScopeTypes
  <1>3. CASE k \notin Live'
    <2>1. dying' = [dying EXCEPT ![t] = k] /\ Live' = Live \ {k}
      BY <1>0, <1>3 DEF DropRef
    <2>2. \A u \in Threads : dying'[u] = IF u = t THEN k ELSE dying[u]
      BY <2>1 DEF ScopeTypes
    <2>3. ASSUME NEW j \in Checkouts \ Live', owns[j] # {}
          PROVE  \E u \in Threads : dying'[u] = j
      <3>1. CASE j = k
        BY <2>2, <3>1
      <3>2. CASE j # k
        <4>1. PICK u \in Threads : dying[u] = j
          BY <2>1, <2>3, <3>2 DEF CheckoutsOut
        <4>2. j # Nothing
          BY ScopeAssumption DEF Checkouts
        <4>3. QED
          BY <2>2, <4>1, <4>2
      <3>3. QED
        BY <3>1, <3>2
    <2>4. \A u \in Threads : dying[u] \notin Live
      BY DEF CheckoutsOut
    <2>5. \A u \in Threads : dying'[u] \notin Live'
      BY <2>1, <2>2, <2>4
    <2>6. \A u, v \in Threads : dying'[u] = dying'[v] /\ u # v => dying'[u] = Nothing
      <3>1. \A u, v \in Threads : dying[u] = dying[v] /\ u # v => dying[u] = Nothing
        BY DEF CheckoutsOut
      <3>2. QED
        BY <2>2, <2>4, <3>1
    <2>7. \A j \in Live' : owns[j] = {checkout[j].conn}
      BY DEF CheckoutsOut
    <2>8. CheckoutsOut'
      BY <2>3, <2>5, <2>6, <2>7 DEF CheckoutsOut
    <2>9. dying' \in [Threads -> DOMAIN checkout' \cup {Nothing}]
      BY <1>1, <2>1 DEF ScopeTypes
    <2>10. QED
      BY <2>8, <2>9
  <1>4. QED
    BY <1>2, <1>3

\* A pool that dies, dies with connections that it opened.
LEMMA PoolMayDie ==
  ASSUME ScopeTypes, PoolAccounts', UNCHANGED opened, DropPoolRef
  PROVE  destroyed' \in BOOLEAN /\ closed' \subseteq 1..PoolSize
  <1>1. 1..opened' \subseteq 1..PoolSize
    BY ScopeAssumption DEF ScopeTypes
  <1>2. idle' \subseteq 1..PoolSize
    BY <1>1 DEF PoolAccounts
  <1>3. QED
    BY <1>2 DEF DropPoolRef, PoolDies, ScopeTypes

\* A pool that dies when nothing refers to it has all its connections, none of
\* them with a statement, and closes them.
LEMMA DropPoolRefCloses ==
  ASSUME ScopeTypes', PoolAccounts', CheckoutsOut', StmtInsideCheckout',
         ~destroyed, DropPoolRef
  PROVE  DestroyedClosesAll'
  <1>0. Live' = Referenced(connObj', stmt')
    BY DEF Live
  <1> DEFINE Gone == ~poolObj' /\ Live' = {} /\ \A t \in Threads : dying'[t] = Nothing
  <1>1. CASE Gone
    <2>1. PoolDies
      BY <1>0, <1>1 DEF DropPoolRef
    <2>2. \A k \in Checkouts : owns'[k] = {}
      BY <1>1, ScopeAssumption DEF CheckoutsOut, Checkouts
    <2>3. UNION {owns'[k] : k \in Checkouts} = {}
      BY <2>2
    <2>4. idle' = 1..opened'
      BY <2>3 DEF PoolAccounts
    <2>5. \A c : ~InUse(c)'
      BY <1>1 DEF InUse, StmtInsideCheckout
    <2>6. closed' = idle'
      BY <2>1, <2>5 DEF PoolDies
    <2>7. QED
      BY <1>1, <2>4, <2>6 DEF DestroyedClosesAll
  <1>2. CASE ~Gone
    BY <1>0, <1>2 DEF DropPoolRef, DestroyedClosesAll
  <1>3. QED
    BY <1>1, <1>2

-----------------------------------------------------------------------------
(***************************************************************************)
(* The halves of statements                                                *)
(***************************************************************************)

\* A thread that is busy with no statement has no half statement.
LEMMA BusyAlone ==
  ASSUME ScopeTypes, HalfWay, NEW t \in Threads, busy[t] = Nothing,
         NEW s \in DOMAIN stmt, stmt[s].by = t
  PROVE  ~Half(s) /\ \A u \in Threads : busy[u] # s
  <1>1. s # Nothing
    BY ScopeIndices
  <1>2. \A u \in Threads : busy[u] # s
    BY <1>1 DEF HalfWay
  <1>3. QED
    BY <1>2 DEF HalfWay

\* Only statement s changes, and not the checkout it is via.
OneHalf(s) ==
  /\ DOMAIN stmt' = DOMAIN stmt
  /\ \A r \in DOMAIN stmt : stmt'[r].via = stmt[r].via
  /\ \A r \in DOMAIN stmt : r # s => stmt'[r] = stmt[r]

\* Emptying the first half of a statement leaves its thread busy with it.
LEMMA HalfStarted ==
  ASSUME ScopeTypes, HalfWay, NEW t \in Threads, busy[t] = Nothing,
         NEW s \in DOMAIN stmt, stmt[s].by = t, OneHalf(s), stmt'[s].by = t,
         busy' = [busy EXCEPT ![t] = s], Half(s)'
  PROVE  HalfWay' /\ busy' \in [Threads -> DOMAIN stmt' \cup {Nothing}]
  <1> USE DEF OneHalf
  <1>1. \A u \in Threads : busy'[u] = IF u = t THEN s ELSE busy[u]
    BY DEF ScopeTypes
  <1>2. \A u \in Threads : busy[u] # s
    BY BusyAlone
  <1>3. ASSUME NEW u \in Threads, busy'[u] # Nothing
        PROVE  Half(busy[u])' /\ stmt'[busy'[u]].by = u
    <2>1. CASE u = t
      <3>1. busy'[u] = s
        BY <1>1, <2>1
      <3>2. QED
        BY <2>1, <3>1 DEF Half
    <2>2. CASE u # t
      <3>1. busy'[u] = busy[u] /\ busy[u] \in DOMAIN stmt /\ busy[u] # s
        BY <1>1, <1>2, <1>3, <2>2 DEF ScopeTypes
      <3>2. stmt'[busy'[u]] = stmt[busy[u]]
        BY <3>1
      <3>3. Half(busy[u]) /\ stmt[busy[u]].by = u
        BY <1>3, <3>1 DEF HalfWay
      <3>4. QED
        BY <3>1, <3>2, <3>3 DEF Half
    <2>3. QED
      BY <2>1, <2>2
  <1>4. ASSUME NEW r \in DOMAIN stmt', Half(r)'
        PROVE  \E u \in Threads : busy'[u] = r
    <2>1. CASE r = s
      BY <1>1, <2>1
    <2>2. CASE r # s
      <3>1. r \in DOMAIN stmt /\ Half(r)
        BY <1>4, <2>2 DEF Half
      <3>2. PICK u \in Threads : busy[u] = r
        BY <3>1 DEF HalfWay
      <3>3. u # t
        BY <3>1, <3>2, ScopeIndices
      <3>4. QED
        BY <1>1, <3>2, <3>3
    <2>3. QED
      BY <2>1, <2>2
  <1>5. \A u \in Threads : busy'[u] # Nothing => Half(busy[u])' /\ stmt'[busy'[u]].by = u
    BY <1>3
  <1>6. HalfWay'
    BY <1>4, <1>5 DEF HalfWay, Half
  <1>7. busy' \in [Threads -> DOMAIN stmt' \cup {Nothing}]
    BY DEF ScopeTypes
  <1>8. QED
    BY <1>6, <1>7

\* Emptying the second half leaves no half.
LEMMA HalfFinished ==
  ASSUME ScopeTypes, HalfWay, NEW t \in Threads, busy[t] # Nothing,
         OneHalf(busy[t]), busy' = [busy EXCEPT ![t] = Nothing],
         ~stmt'[busy[t]].pooled, ~stmt'[busy[t]].impl
  PROVE  HalfWay' /\ busy' \in [Threads -> DOMAIN stmt' \cup {Nothing}]
  <1> USE DEF OneHalf
  <1>1. \A u \in Threads : busy'[u] = IF u = t THEN Nothing ELSE busy[u]
    BY DEF ScopeTypes
  <1>2. ASSUME NEW u \in Threads, busy'[u] # Nothing
        PROVE  Half(busy[u])' /\ stmt'[busy'[u]].by = u
    <2>1. u # t /\ busy'[u] = busy[u] /\ busy[u] \in DOMAIN stmt
      BY <1>1, <1>2 DEF ScopeTypes
    <2>2. Half(busy[u]) /\ stmt[busy[u]].by = u /\ stmt[busy[t]].by = t
      BY <1>2, <2>1 DEF HalfWay
    <2>3. busy[u] # busy[t]
      BY <2>1, <2>2
    <2>4. stmt'[busy'[u]] = stmt[busy[u]]
      BY <2>1, <2>3
    <2>5. QED
      BY <2>1, <2>2, <2>4 DEF Half
  <1>3. ASSUME NEW r \in DOMAIN stmt', Half(r)'
        PROVE  \E u \in Threads : busy'[u] = r
    <2>1. r # busy[t] /\ r \in DOMAIN stmt
      BY <1>3 DEF Half
    <2>2. Half(r)
      BY <1>3, <2>1 DEF Half
    <2>3. PICK u \in Threads : busy[u] = r
      BY <2>1, <2>2 DEF HalfWay
    <2>4. QED
      BY <1>1, <2>1, <2>3
  <1>4. \A u \in Threads : busy'[u] # Nothing => Half(busy[u])' /\ stmt'[busy'[u]].by = u
    BY <1>2
  <1>5. HalfWay'
    BY <1>3, <1>4 DEF HalfWay, Half
  <1>6. busy' \in [Threads -> DOMAIN stmt' \cup {Nothing}]
    BY DEF ScopeTypes
  <1>7. QED
    BY <1>5, <1>6

-----------------------------------------------------------------------------
(***************************************************************************)
(* The actions                                                             *)
(***************************************************************************)

\* What every action keeps, and how a pool may come to be destroyed.
Kept ==
  /\ ScopeTypes' /\ PoolAccounts' /\ CheckoutsOut' /\ HalfWay'
  /\ UNCHANGED <<destroyed, closed>> \/ DropPoolRef

\* The client's ConnectionPool dies.
LEMMA DropPoolKeeps ==
  ASSUME ScopeInvariant, DropPool
  PROVE  Kept
  <1> USE DEF ScopeInvariant
  <1>1. /\ UNCHANGED <<idle, owns, opened, unopened, checkout, connObj, stmt, busy, dying>>
        /\ poolObj' = FALSE /\ DropPoolRef
    BY DEF DropPool, poolVars
  <1>2. Live' = Live
    BY <1>1 DEF Live, Referenced
  <1>3. PoolAccounts' /\ HalfWay'
    BY <1>1 DEF PoolAccounts, HalfWay, Half
  <1>4. CheckoutsOut'
    BY <1>1, <1>2, SameOut
  <1>5. closed' \subseteq 1..PoolSize /\ destroyed' \in BOOLEAN
    BY <1>1, <1>3, PoolMayDie
  <1>6. ScopeTypes'
    BY <1>1, <1>5 DEF ScopeTypes
  <1>7. QED
    BY <1>1, <1>3, <1>4, <1>6 DEF Kept

\* ~PooledConnection pushes the connection back.
LEMMA PushBackKeeps ==
  ASSUME ScopeInvariant, NEW t \in Threads, PushBack(t)
  PROVE  Kept
  <1> USE DEF ScopeInvariant
  <1> DEFINE k == dying[t]
             c == checkout[k].conn
  <1>1. /\ k # Nothing /\ c \in owns[k]
        /\ owns' = [owns EXCEPT ![k] = @ \ {c}]
        /\ idle' = idle \cup {c}
        /\ UNCHANGED <<opened, unopened, poolObj, checkout, connObj, stmt, busy, dying,
                       destroyed, closed>>
    BY DEF PushBack, Pool!Release
  <1>2. k \in Checkouts
    BY <1>1, ScopeIndices DEF ScopeTypes
  <1>3. \A j \in Checkouts : owns'[j] = IF j = k THEN owns[j] \ {c} ELSE owns[j]
    BY <1>1 DEF ScopeTypes
  <1>4. k \notin Live /\ Live' = Live
    BY <1>1 DEF CheckoutsOut, Live, Referenced
  <1>5. PoolAccounts'
    <2> HIDE DEF c, k
    <2>1. idle' \cup UNION {owns'[j] : j \in Checkouts} = 1..opened'
      BY <1>1, <1>2, <1>3 DEF PoolAccounts
    <2>2. \A j \in Checkouts : idle' \cap owns'[j] = {}
      BY <1>1, <1>2, <1>3 DEF PoolAccounts
    <2>3. \A i, j \in Checkouts : i # j => owns'[i] \cap owns'[j] = {}
      BY <1>3 DEF PoolAccounts
    <2>4. QED
      BY <2>1, <2>2, <2>3 DEF PoolAccounts
  <1>6. CheckoutsOut'
    <2>1. \A j \in Live : owns'[j] = {checkout'[j].conn}
      BY <1>1, <1>3, <1>4, ScopeIndices DEF CheckoutsOut
    <2>2. \A j \in Checkouts \ Live' : owns'[j] # {} => \E u \in Threads : dying'[u] = j
      <3>1. \A j \in Checkouts : owns'[j] # {} => owns[j] # {}
        BY <1>3
      <3>2. QED
        BY <1>1, <1>4, <3>1 DEF CheckoutsOut
    <2>3. /\ \A u \in Threads : dying'[u] \notin Live'
          /\ \A u, v \in Threads : dying'[u] = dying'[v] /\ u # v => dying'[u] = Nothing
      BY <1>1, <1>4 DEF CheckoutsOut
    <2>4. QED
      BY <1>4, <2>1, <2>2, <2>3 DEF CheckoutsOut
  <1>7. ScopeTypes'
    <2>1. owns' \in [Checkouts -> SUBSET (1..PoolSize)]
      BY <1>1 DEF ScopeTypes
    <2>2. QED
      BY <1>1, <2>1 DEF ScopeTypes
  <1>8. HalfWay'
    BY <1>1 DEF HalfWay, Half
  <1>9. QED
    BY <1>1, <1>5, <1>6, <1>7, <1>8 DEF Kept

\* ~PooledConnection is through, and its reference to the pool goes.
LEMMA LetPoolGoKeeps ==
  ASSUME ScopeInvariant, NEW t \in Threads, LetPoolGo(t)
  PROVE  Kept
  <1> USE DEF ScopeInvariant
  <1>1. /\ dying[t] # Nothing /\ owns[dying[t]] = {}
        /\ dying' = [dying EXCEPT ![t] = Nothing]
        /\ UNCHANGED <<idle, owns, opened, unopened, poolObj, checkout, connObj, stmt, busy>>
        /\ DropPoolRef
    BY DEF LetPoolGo, poolVars
  <1>2. Live' = Live
    BY <1>1 DEF Live, Referenced
  <1>3. \A u \in Threads : dying'[u] = IF u = t THEN Nothing ELSE dying[u]
    BY <1>1 DEF ScopeTypes
  <1>4. CheckoutsOut'
    <2>1. Nothing \notin Live
      BY ScopeIndices
    <2>2. ASSUME NEW j \in Checkouts \ Live', owns'[j] # {}
          PROVE  \E u \in Threads : dying'[u] = j
      <3>1. PICK u \in Threads : dying[u] = j
        BY <1>1, <1>2, <2>2 DEF CheckoutsOut
      <3>2. u # t
        BY <1>1, <2>2, <3>1
      <3>3. QED
        BY <1>3, <3>1, <3>2
    <2>3. \A u \in Threads : dying'[u] \notin Live'
      BY <1>2, <1>3, <2>1 DEF CheckoutsOut
    <2>4. \A u, v \in Threads : dying'[u] = dying'[v] /\ u # v => dying'[u] = Nothing
      BY <1>3 DEF CheckoutsOut
    <2>5. \A j \in Live' : owns'[j] = {checkout'[j].conn}
      BY <1>1, <1>2 DEF CheckoutsOut
    <2>6. QED
      BY <2>2, <2>3, <2>4, <2>5 DEF CheckoutsOut
  <1>5. PoolAccounts' /\ HalfWay'
    BY <1>1 DEF PoolAccounts, HalfWay, Half
  <1>6. closed' \subseteq 1..PoolSize /\ destroyed' \in BOOLEAN
    BY <1>1, <1>5, PoolMayDie
  <1>7. dying' \in [Threads -> DOMAIN checkout' \cup {Nothing}]
    BY <1>1 DEF ScopeTypes
  <1>8. ScopeTypes'
    BY <1>1, <1>6, <1>7 DEF ScopeTypes
  <1>9. QED
    BY <1>1, <1>4, <1>5, <1>8 DEF Kept

\* A Connection dies: perhaps the last reference to its checkout.
LEMMA DropConnectionKeeps ==
  ASSUME ScopeInvariant, NEW t \in Threads, NEW k, DropConnection(t, k)
  PROVE  Kept
  <1> USE DEF ScopeInvariant
  <1>1. /\ dying[t] = Nothing /\ k \in connObj
        /\ connObj' = connObj \ {k} /\ DropRef(t, k)
        /\ UNCHANGED <<idle, owns, opened, unopened, poolObj, checkout, stmt, busy,
                       destroyed, closed>>
    BY DEF DropConnection, Free, ConnsOf, poolVars
  <1>2. k \in Live /\ Live' \subseteq Live /\ Live \ {k} \subseteq Live'
    BY <1>1, ReferencedBy DEF Live, Referenced
  <1>3. CheckoutsOut' /\ dying' \in [Threads -> DOMAIN checkout' \cup {Nothing}]
    BY <1>1, <1>2, DropRefKeeps
  <1>4. ScopeTypes'
    BY <1>1, <1>3 DEF ScopeTypes
  <1>5. PoolAccounts' /\ HalfWay'
    BY <1>1 DEF PoolAccounts, HalfWay, Half
  <1>6. QED
    BY <1>1, <1>3, <1>4, <1>5 DEF Kept

\* getConnection throws: a place of the pool is gone.
LEMMA GetConnectionThrowsKeeps ==
  ASSUME ScopeInvariant, NEW t \in Threads, GetConnectionThrows(t)
  PROVE  Kept
  <1> USE DEF ScopeInvariant
  <1>1. /\ UNCHANGED <<idle, owns, opened, poolObj, checkout, connObj, stmt, busy, dying,
                       destroyed, closed>>
        /\ unopened > 0 /\ unopened' = unopened - 1
    BY DEF GetConnectionThrows, Pool!OpenFails
  <1>2. Live' = Live
    BY <1>1 DEF Live, Referenced
  <1>3. CheckoutsOut'
    BY <1>1, <1>2, SameOut
  <1>4. ScopeTypes'
    <2>1. unopened' \in Nat /\ opened' + unopened' <= PoolSize
      BY <1>1, ScopeAssumption DEF ScopeTypes
    <2>2. QED
      BY <1>1, <2>1 DEF ScopeTypes
  <1>5. PoolAccounts' /\ HalfWay'
    BY <1>1 DEF PoolAccounts, HalfWay, Half
  <1>6. QED
    BY <1>1, <1>3, <1>4, <1>5 DEF Kept

\* A Connection is moved to another thread.
LEMMA HandOverConnectionKeeps ==
  ASSUME ScopeInvariant, NEW t \in Threads, NEW u \in Threads, NEW k,
         HandOverConnection(t, u, k)
  PROVE  Kept
  <1> USE DEF ScopeInvariant
  <1>1. /\ k \in DOMAIN checkout
        /\ checkout' = [checkout EXCEPT ![k].by = u]
        /\ UNCHANGED <<idle, owns, opened, unopened, poolObj, connObj, stmt, busy, dying,
                       destroyed, closed>>
    BY DEF HandOverConnection, ConnsOf, ScopeTypes, poolVars
  <1>2. Live' = Live
    BY <1>1 DEF Live, Referenced
  <1>3. /\ checkout' \in Seq(CheckoutRecord)
        /\ Len(checkout') = Len(checkout) /\ DOMAIN checkout' = DOMAIN checkout
        /\ \A j \in DOMAIN checkout : checkout'[j].conn = checkout[j].conn
    BY <1>1, GiveConnEffect
  <1>4. CheckoutsOut'
    BY <1>1, <1>2, <1>3, SameOut
  <1>5. ScopeTypes'
    BY <1>1, <1>3 DEF ScopeTypes
  <1>6. PoolAccounts' /\ HalfWay'
    BY <1>1 DEF PoolAccounts, HalfWay, Half
  <1>7. QED
    BY <1>1, <1>4, <1>5, <1>6 DEF Kept

\* A PreparedStmt is moved to another thread, a whole one.
LEMMA HandOverStmtKeeps ==
  ASSUME ScopeInvariant, NEW t \in Threads, NEW u \in Threads, NEW s,
         HandOverStmt(t, u, s)
  PROVE  Kept
  <1> USE DEF ScopeInvariant
  <1>1. /\ busy[t] = Nothing /\ s \in DOMAIN stmt /\ stmt[s].by = t
        /\ stmt' = [stmt EXCEPT ![s].by = u]
        /\ UNCHANGED <<idle, owns, opened, unopened, poolObj, checkout, connObj, busy,
                       dying, destroyed, closed>>
    BY DEF HandOverStmt, Free, StmtsOf, poolVars
  <1>2. /\ stmt' \in Seq(StmtRecord) /\ DOMAIN stmt' = DOMAIN stmt
        /\ \A r \in DOMAIN stmt : stmt'[r].via = stmt[r].via
        /\ \A r \in DOMAIN stmt : r # s => stmt'[r] = stmt[r]
        /\ stmt'[s].pooled = stmt[s].pooled /\ stmt'[s].impl = stmt[s].impl
    BY <1>1, GiveStmtEffect
  <1>3. \A r \in DOMAIN stmt : /\ stmt'[r].pooled = stmt[r].pooled
                               /\ stmt'[r].impl = stmt[r].impl
    BY <1>1, <1>2
  <1>4. Live' = Live
    <2>1. \A j : (\E r \in DOMAIN stmt' : stmt'[r].pooled /\ stmt'[r].via = j)
                  <=> (\E r \in DOMAIN stmt : stmt[r].pooled /\ stmt[r].via = j)
      BY <1>2, <1>3
    <2>2. QED
      BY <1>1, <2>1, SameReferences
  <1>5. CheckoutsOut'
    BY <1>1, <1>4, SameOut
  <1>6. HalfWay'
    <2>1. \A v \in Threads : busy[v] # s
      BY <1>1, BusyAlone
    <2>2. \A v \in Threads : busy[v] # Nothing => stmt'[busy[v]] = stmt[busy[v]]
      BY <1>2, <2>1 DEF ScopeTypes
    <2>3. \A v \in Threads : busy[v] # Nothing => Half(busy[v])' /\ stmt'[busy[v]].by = v
      BY <1>1, <2>2 DEF HalfWay, Half
    <2>4. \A r \in DOMAIN stmt : Half(r)' => Half(r)
      BY <1>3 DEF Half
    <2>5. QED
      BY <1>1, <1>2, <2>3, <2>4 DEF HalfWay
  <1>7. ScopeTypes'
    BY <1>1, <1>2 DEF ScopeTypes
  <1>8. PoolAccounts'
    BY <1>1 DEF PoolAccounts
  <1>9. QED
    BY <1>1, <1>5, <1>6, <1>7, <1>8 DEF Kept

\* ~PreparedStmt finalizes its statement.
LEMMA DestroyStmtKeeps ==
  ASSUME ScopeInvariant, NEW t \in Threads, NEW s, DestroyStmt(t, s)
  PROVE  Kept
  <1> USE DEF ScopeInvariant
  <1>1. /\ busy[t] = Nothing /\ s \in DOMAIN stmt /\ stmt[s].pooled /\ stmt[s].by = t
        /\ Finalize(s) /\ busy' = [busy EXCEPT ![t] = s]
        /\ UNCHANGED <<idle, owns, opened, unopened, poolObj, checkout, connObj, dying,
                       destroyed, closed>>
    BY DEF DestroyStmt, Free, StmtsOf, poolVars
  <1>2. /\ stmt' \in Seq(StmtRecord) /\ DOMAIN stmt' = DOMAIN stmt
        /\ \A r \in DOMAIN stmt : stmt'[r].via = stmt[r].via
        /\ \A r \in DOMAIN stmt : r # s => stmt'[r] = stmt[r]
        /\ ~stmt'[s].impl /\ stmt'[s].pooled = stmt[s].pooled /\ stmt'[s].by = stmt[s].by
    BY <1>1, FinalizeEffect
  <1>3. \A r \in DOMAIN stmt : stmt'[r].pooled = stmt[r].pooled
    BY <1>1, <1>2
  <1>4. Live' = Live
    <2>1. \A j : (\E r \in DOMAIN stmt' : stmt'[r].pooled /\ stmt'[r].via = j)
                  <=> (\E r \in DOMAIN stmt : stmt[r].pooled /\ stmt[r].via = j)
      BY <1>2, <1>3
    <2>2. QED
      BY <1>1, <2>1, SameReferences
  <1>5. CheckoutsOut'
    BY <1>1, <1>4, SameOut
  <1>6. HalfWay' /\ busy' \in [Threads -> DOMAIN stmt' \cup {Nothing}]
    BY <1>1, <1>2, HalfStarted DEF OneHalf, Half
  <1>7. ScopeTypes'
    BY <1>1, <1>2, <1>6 DEF ScopeTypes
  <1>8. PoolAccounts'
    BY <1>1 DEF PoolAccounts
  <1>9. QED
    BY <1>1, <1>5, <1>6, <1>7, <1>8 DEF Kept

\* A statement that lets go of its checkout makes nothing referred to.
LEMMA UnpoolDrops ==
  ASSUME ScopeTypes, NEW s \in DOMAIN stmt, stmt[s].pooled, Unpool(s), UNCHANGED connObj
  PROVE  /\ stmt[s].via \in Live
         /\ Live' \subseteq Live
         /\ Live \ {stmt[s].via} \subseteq Live'
  <1>1. /\ DOMAIN stmt' = DOMAIN stmt
        /\ \A r \in DOMAIN stmt : stmt'[r].via = stmt[r].via
        /\ \A r \in DOMAIN stmt : r # s => stmt'[r] = stmt[r]
        /\ ~stmt'[s].pooled
    BY UnpoolEffect
  <1>2. ASSUME NEW j, j \in Live' PROVE j \in Live
    BY <1>1, <1>2, ReferencedBy DEF Live
  <1>3. ASSUME NEW j, j \in Live, j # stmt[s].via PROVE j \in Live'
    BY <1>1, <1>3, ReferencedBy DEF Live
  <1>4. stmt[s].via \in Live
    BY ReferencedBy DEF Live
  <1>5. QED
    BY <1>2, <1>3, <1>4

\* An assignment over a PreparedStmt: perhaps the last reference to its checkout.
LEMMA OverwriteStmtKeeps ==
  ASSUME ScopeInvariant, NEW t \in Threads, NEW s, OverwriteStmt(t, s)
  PROVE  Kept
  <1> USE DEF ScopeInvariant
  <1> DEFINE k == stmt[s].via
  <1>1. /\ busy[t] = Nothing /\ dying[t] = Nothing
        /\ s \in DOMAIN stmt /\ stmt[s].pooled /\ stmt[s].by = t
        /\ Unpool(s) /\ busy' = [busy EXCEPT ![t] = s] /\ DropRef(t, k)
        /\ UNCHANGED <<idle, owns, opened, unopened, poolObj, checkout, connObj,
                       destroyed, closed>>
    BY DEF OverwriteStmt, Free, StmtsOf, poolVars
  <1>2. /\ stmt' \in Seq(StmtRecord) /\ DOMAIN stmt' = DOMAIN stmt
        /\ \A r \in DOMAIN stmt : stmt'[r].via = stmt[r].via
        /\ \A r \in DOMAIN stmt : r # s => stmt'[r] = stmt[r]
        /\ ~stmt'[s].pooled /\ stmt'[s].impl = stmt[s].impl /\ stmt'[s].by = stmt[s].by
    BY <1>1, UnpoolEffect
  <1>3. stmt[s].impl
    BY <1>1, BusyAlone DEF Half
  <1>4. k \in Live /\ Live' \subseteq Live /\ Live \ {k} \subseteq Live'
    BY <1>1, UnpoolDrops
  <1>5. CheckoutsOut' /\ dying' \in [Threads -> DOMAIN checkout' \cup {Nothing}]
    BY <1>1, <1>4, DropRefKeeps
  <1>6. HalfWay' /\ busy' \in [Threads -> DOMAIN stmt' \cup {Nothing}]
    BY <1>1, <1>2, <1>3, HalfStarted DEF OneHalf, Half
  <1>7. ScopeTypes'
    BY <1>1, <1>2, <1>5, <1>6 DEF ScopeTypes
  <1>8. PoolAccounts'
    BY <1>1 DEF PoolAccounts
  <1>9. QED
    BY <1>1, <1>5, <1>6, <1>7, <1>8 DEF Kept

\* The second half of a destructor or an assignment.
LEMMA EmptyOtherKeeps ==
  ASSUME ScopeInvariant, NEW t \in Threads, EmptyOther(t)
  PROVE  Kept
  <1> USE DEF ScopeInvariant
  <1> DEFINE s == busy[t]
             k == stmt[s].via
  <1>1. /\ s # Nothing /\ s \in DOMAIN stmt /\ dying[t] = Nothing
        /\ busy' = [busy EXCEPT ![t] = Nothing]
        /\ UNCHANGED <<idle, owns, opened, unopened, poolObj, checkout, connObj,
                       destroyed, closed>>
    BY DEF EmptyOther, ScopeTypes, poolVars
  <1>2. Half(s)
    BY <1>1 DEF HalfWay
  <1>3. CASE ~stmt[s].impl
    <2>1. Unpool(s) /\ DropRef(t, k) /\ stmt[s].pooled
      BY <1>2, <1>3 DEF EmptyOther, Half
    <2>2. /\ stmt' \in Seq(StmtRecord) /\ DOMAIN stmt' = DOMAIN stmt
          /\ \A r \in DOMAIN stmt : stmt'[r].via = stmt[r].via
          /\ \A r \in DOMAIN stmt : r # s => stmt'[r] = stmt[r]
          /\ ~stmt'[s].pooled /\ stmt'[s].impl = stmt[s].impl
      BY <1>1, <2>1, UnpoolEffect
    <2>3. k \in Live /\ Live' \subseteq Live /\ Live \ {k} \subseteq Live'
      BY <1>1, <2>1, UnpoolDrops
    <2>4. CheckoutsOut' /\ dying' \in [Threads -> DOMAIN checkout' \cup {Nothing}]
      BY <1>1, <2>1, <2>3, DropRefKeeps
    <2>5. HalfWay' /\ busy' \in [Threads -> DOMAIN stmt' \cup {Nothing}]
      BY <1>1, <1>3, <2>2, HalfFinished DEF OneHalf
    <2>6. ScopeTypes'
      BY <1>1, <2>2, <2>4, <2>5 DEF ScopeTypes
    <2>7. PoolAccounts'
      BY <1>1 DEF PoolAccounts
    <2>8. QED
      BY <1>1, <2>4, <2>5, <2>6, <2>7 DEF Kept
  <1>4. CASE stmt[s].impl
    <2>1. Finalize(s) /\ UNCHANGED dying
      BY <1>4 DEF EmptyOther
    <2>2. /\ stmt' \in Seq(StmtRecord) /\ DOMAIN stmt' = DOMAIN stmt
          /\ \A r \in DOMAIN stmt : stmt'[r].via = stmt[r].via
          /\ \A r \in DOMAIN stmt : r # s => stmt'[r] = stmt[r]
          /\ ~stmt'[s].impl /\ stmt'[s].pooled = stmt[s].pooled
      BY <1>1, <2>1, FinalizeEffect
    <2>3. \A r \in DOMAIN stmt : stmt'[r].pooled = stmt[r].pooled
      BY <1>1, <2>2
    <2>4. Live' = Live
      <3>1. \A j : (\E r \in DOMAIN stmt' : stmt'[r].pooled /\ stmt'[r].via = j)
                    <=> (\E r \in DOMAIN stmt : stmt[r].pooled /\ stmt[r].via = j)
        BY <2>2, <2>3
      <3>2. QED
        BY <1>1, <3>1, SameReferences
    <2>5. CheckoutsOut'
      BY <1>1, <2>1, <2>4, SameOut
    <2>6. HalfWay' /\ busy' \in [Threads -> DOMAIN stmt' \cup {Nothing}]
      BY <1>1, <1>2, <1>4, <2>2, HalfFinished DEF OneHalf, Half
    <2>7. ScopeTypes'
      BY <1>1, <2>1, <2>2, <2>6 DEF ScopeTypes
    <2>8. PoolAccounts'
      BY <1>1 DEF PoolAccounts
    <2>9. QED
      BY <1>1, <2>5, <2>6, <2>7, <2>8 DEF Kept
  <1>5. QED
    BY <1>3, <1>4

\* getStmt: one more reference to a checkout that has one.
LEMMA GetStmtKeeps ==
  ASSUME ScopeInvariant, NEW t \in Threads, NEW k, GetStmt(t, k)
  PROVE  Kept
  <1> USE DEF ScopeInvariant
  <1> DEFINE made == [via |-> k, by |-> t, pooled |-> TRUE, impl |-> TRUE]
             n == Len(stmt) + 1
  <1>1. /\ k \in connObj /\ stmt' = Append(stmt, made)
        /\ UNCHANGED <<idle, owns, opened, unopened, poolObj, checkout, connObj, busy,
                       dying, destroyed, closed>>
    BY DEF GetStmt, ConnsOf, poolVars
  <1>2. k \in DOMAIN checkout /\ made \in StmtRecord
    <2>1. k \in DOMAIN checkout /\ k \in Nat
      BY <1>1, ScopeIndices DEF ScopeTypes
    <2>2. QED
      BY <2>1 DEF StmtRecord
  <1>3. made.via = k /\ made.pooled /\ made.impl
    OBVIOUS
  <1> HIDE DEF made
  <1>4. /\ stmt' \in Seq(StmtRecord)
        /\ DOMAIN stmt' = DOMAIN stmt \cup {n} /\ n \notin DOMAIN stmt
        /\ \A r \in DOMAIN stmt : stmt'[r] = stmt[r]
        /\ stmt'[n] = made
    BY <1>1, <1>2, AddStmtEffect
  <1> HIDE DEF n
  <1>5. Live' = Live
    <2>1. \A j : j \in Live <=> \/ j \in connObj
                               \/ \E r \in DOMAIN stmt : stmt[r].pooled /\ stmt[r].via = j
      BY ReferencedBy DEF Live
    <2>2. \A j : j \in Live' <=> \/ j \in connObj'
                                \/ \E r \in DOMAIN stmt' : stmt'[r].pooled /\ stmt'[r].via = j
      BY ReferencedBy DEF Live
    <2>3. \A j : j # k =>
            ((\E r \in DOMAIN stmt' : stmt'[r].pooled /\ stmt'[r].via = j)
              <=> (\E r \in DOMAIN stmt : stmt[r].pooled /\ stmt[r].via = j))
      BY <1>3, <1>4
    <2>4. \A j : j \in Live' <=> j \in Live
      BY <1>1, <2>1, <2>2, <2>3
    <2>5. QED
      BY <2>4
  <1>6. CheckoutsOut'
    BY <1>1, <1>5, SameOut
  <1>7. ScopeTypes'
    <2>1. \A r \in DOMAIN stmt' : stmt'[r].via \in DOMAIN checkout
      BY <1>2, <1>3, <1>4 DEF ScopeTypes
    <2>2. busy' \in [Threads -> DOMAIN stmt' \cup {Nothing}]
      BY <1>1, <1>4 DEF ScopeTypes
    <2>3. QED
      BY <1>1, <1>4, <2>1, <2>2 DEF ScopeTypes
  <1>8. HalfWay'
    <2>1. ASSUME NEW u \in Threads, busy[u] # Nothing
          PROVE  Half(busy[u])' /\ stmt'[busy'[u]].by = u
      <3>1. busy[u] \in DOMAIN stmt /\ stmt'[busy'[u]] = stmt[busy[u]]
        BY <1>1, <1>4, <2>1 DEF ScopeTypes
      <3>2. QED
        BY <2>1, <3>1 DEF HalfWay, Half
    <2>2. ASSUME NEW r \in DOMAIN stmt', Half(r)'
          PROVE  \E u \in Threads : busy[u] = r
      <3>1. r # n
        BY <1>3, <1>4, <2>2 DEF Half
      <3>2. r \in DOMAIN stmt /\ Half(r)
        BY <1>4, <2>2, <3>1 DEF Half
      <3>3. QED
        BY <3>2 DEF HalfWay
    <2>3. \A u \in Threads : busy'[u] # Nothing => Half(busy[u])' /\ stmt'[busy'[u]].by = u
      BY <1>1, <2>1
    <2>4. QED
      BY <1>1, <2>2, <2>3 DEF HalfWay
  <1>9. PoolAccounts'
    BY <1>1 DEF PoolAccounts
  <1>10. QED
    BY <1>1, <1>6, <1>7, <1>8, <1>9 DEF Kept

\* A checkout that has not been made yet has no connection.
LEMMA NothingAhead ==
  ASSUME ScopeTypes, CheckoutsOut, NEW k \in Checkouts, k \notin DOMAIN checkout
  PROVE  k \notin Live /\ owns[k] = {} /\ \A t \in Threads : dying[t] # k
  <1>1. k \notin Live
    BY ScopeIndices
  <1>2. \A t \in Threads : dying[t] # k
    BY ScopeAssumption DEF ScopeTypes, Checkouts
  <1>3. QED
    BY <1>1, <1>2 DEF CheckoutsOut

\* A new checkout of connection c, which no checkout had.
LEMMA NewCheckout ==
  ASSUME ScopeTypes, CheckoutsOut, HalfWay,
         NEW t \in Threads, NEW c \in 1..PoolSize, NEW k, k = Len(checkout) + 1,
         k \in Checkouts,
         owns' = [owns EXCEPT ![k] = @ \cup {c}],
         checkout' = Append(checkout, [by |-> t, conn |-> c]),
         connObj' = connObj \cup {k},
         UNCHANGED <<stmt, busy, dying>>
  PROVE  /\ CheckoutsOut' /\ HalfWay'
         /\ \A j \in Checkouts : owns'[j] = IF j = k THEN {c} ELSE owns[j]
         /\ owns[k] = {}
         /\ owns' \in [Checkouts -> SUBSET (1..PoolSize)]
         /\ checkout' \in Seq(CheckoutRecord) /\ Len(checkout') <= MaxCheckouts
         /\ connObj' \subseteq DOMAIN checkout'
         /\ \A s \in DOMAIN stmt : stmt'[s].via \in DOMAIN checkout'
         /\ dying' \in [Threads -> DOMAIN checkout' \cup {Nothing}]
  <1> DEFINE made == [by |-> t, conn |-> c]
  <1>1. made \in CheckoutRecord /\ made.conn = c
    BY DEF CheckoutRecord
  <1> HIDE DEF made
  <1>2. /\ checkout' \in Seq(CheckoutRecord) /\ Len(checkout') = k
        /\ DOMAIN checkout' = DOMAIN checkout \cup {k} /\ k \notin DOMAIN checkout
        /\ \A j \in DOMAIN checkout : checkout'[j] = checkout[j]
        /\ checkout'[k] = made
    BY <1>1, AddCheckoutEffect DEF made
  <1>3. k \notin Live /\ owns[k] = {} /\ \A u \in Threads : dying[u] # k
    BY <1>2, NothingAhead
  <1>4. \A j \in Checkouts : owns'[j] = IF j = k THEN {c} ELSE owns[j]
    BY <1>3 DEF ScopeTypes
  <1>5. Live' = Live \cup {k}
    BY DEF Live, Referenced
  <1>6. CheckoutsOut'
    <2>1. ASSUME NEW j \in Live' PROVE owns'[j] = {checkout'[j].conn}
      <3>1. CASE j = k
        BY <1>1, <1>2, <1>4, <3>1
      <3>2. CASE j # k
        <4>1. j \in Live /\ j \in DOMAIN checkout /\ j \in Checkouts
          BY <1>5, <3>2, ScopeIndices
        <4>2. QED
          BY <1>2, <1>4, <3>2, <4>1 DEF CheckoutsOut
      <3>3. QED
        BY <3>1, <3>2
    <2>2. \A j \in Checkouts \ Live' : owns'[j] # {} => \E u \in Threads : dying'[u] = j
      BY <1>4, <1>5 DEF CheckoutsOut
    <2>3. \A u \in Threads : dying'[u] \notin Live'
      BY <1>3, <1>5 DEF CheckoutsOut
    <2>4. \A u, v \in Threads : dying'[u] = dying'[v] /\ u # v => dying'[u] = Nothing
      BY DEF CheckoutsOut
    <2>5. QED
      BY <2>1, <2>2, <2>3, <2>4 DEF CheckoutsOut
  <1>7. HalfWay'
    BY DEF HalfWay, Half
  <1>8. owns' \in [Checkouts -> SUBSET (1..PoolSize)]
    BY DEF ScopeTypes
  <1>9. /\ connObj' \subseteq DOMAIN checkout'
        /\ \A s \in DOMAIN stmt : stmt'[s].via \in DOMAIN checkout'
        /\ dying' \in [Threads -> DOMAIN checkout' \cup {Nothing}]
    BY <1>2 DEF ScopeTypes
  <1>10. Len(checkout') <= MaxCheckouts
    BY <1>2 DEF Checkouts
  <1>11. QED
    BY <1>2, <1>3, <1>4, <1>6, <1>7, <1>8, <1>9, <1>10

\* getConnection, with an idle connection or a new one.
LEMMA GetConnectionKeeps ==
  ASSUME ScopeInvariant, NEW t \in Threads, GetConnection(t)
  PROVE  Kept
  <1> USE DEF ScopeInvariant
  <1> DEFINE k == Len(checkout) + 1
  <1>1. /\ connObj' = connObj \cup {k}
        /\ UNCHANGED <<poolObj, stmt, busy, dying, destroyed, closed>>
    BY DEF GetConnection
  <1>2. k \in Checkouts
    BY ScopeIndices, ScopeAssumption DEF GetConnection, Checkouts
  <1>3. CASE \E c \in idle : /\ Pool!Reuse(k, c)
                             /\ checkout' = Append(checkout, [by |-> t, conn |-> c])
    <2>1. PICK c \in idle :
            /\ idle' = idle \ {c}
            /\ owns' = [owns EXCEPT ![k] = @ \cup {c}]
            /\ UNCHANGED <<opened, unopened>>
            /\ checkout' = Append(checkout, [by |-> t, conn |-> c])
      BY <1>3 DEF Pool!Reuse
    <2>2. c \in 1..PoolSize
      BY ScopeAssumption DEF PoolAccounts, ScopeTypes
    <2>3. /\ CheckoutsOut' /\ HalfWay'
          /\ \A j \in Checkouts : owns'[j] = IF j = k THEN {c} ELSE owns[j]
          /\ owns[k] = {}
          /\ owns' \in [Checkouts -> SUBSET (1..PoolSize)]
          /\ checkout' \in Seq(CheckoutRecord) /\ Len(checkout') <= MaxCheckouts
          /\ connObj' \subseteq DOMAIN checkout'
          /\ \A s \in DOMAIN stmt : stmt'[s].via \in DOMAIN checkout'
          /\ dying' \in [Threads -> DOMAIN checkout' \cup {Nothing}]
      <3> HIDE DEF k
      <3>1. k = Len(checkout) + 1
        BY DEF k
      <3>2. QED
        BY <1>1, <1>2, <2>1, <2>2, <3>1, NewCheckout
    <2>4. ScopeTypes'
      BY <1>1, <2>1, <2>3 DEF ScopeTypes
    <2> HIDE DEF k
    <2>5. PoolAccounts'
      <3>1. UNION {owns'[j] : j \in Checkouts} = (UNION {owns[j] : j \in Checkouts}) \cup {c}
        BY <1>2, <2>3
      <3>2. idle' \cup UNION {owns'[j] : j \in Checkouts} = 1..opened'
        BY <2>1, <3>1 DEF PoolAccounts
      <3>3. \A j \in Checkouts : idle' \cap owns'[j] = {}
        BY <2>1, <2>3 DEF PoolAccounts
      <3>4. \A j \in Checkouts : c \notin owns[j]
        BY DEF PoolAccounts
      <3>5. \A i, j \in Checkouts : i # j => owns'[i] \cap owns'[j] = {}
        BY <2>3, <3>4 DEF PoolAccounts
      <3>6. QED
        BY <3>2, <3>3, <3>5 DEF PoolAccounts
    <2>6. QED
      BY <1>1, <2>3, <2>4, <2>5 DEF Kept
  <1>4. CASE Pool!Open(k) /\ checkout' = Append(checkout, [by |-> t, conn |-> opened + 1])
    <2> DEFINE c == opened + 1
    <2>1. /\ idle = {} /\ unopened > 0
          /\ opened' = c /\ unopened' = unopened - 1
          /\ owns' = [owns EXCEPT ![k] = @ \cup {c}]
          /\ UNCHANGED idle
          /\ checkout' = Append(checkout, [by |-> t, conn |-> c])
      BY <1>4 DEF Pool!Open
    <2>2. /\ c \in 1..PoolSize /\ c \notin 1..opened /\ 1..opened' = 1..opened \cup {c}
          /\ opened' \in Nat /\ unopened' \in Nat /\ opened' + unopened' <= PoolSize
      BY <2>1, ScopeAssumption DEF ScopeTypes
    <2> HIDE DEF c
    <2>3. /\ CheckoutsOut' /\ HalfWay'
          /\ \A j \in Checkouts : owns'[j] = IF j = k THEN {c} ELSE owns[j]
          /\ owns[k] = {}
          /\ owns' \in [Checkouts -> SUBSET (1..PoolSize)]
          /\ checkout' \in Seq(CheckoutRecord) /\ Len(checkout') <= MaxCheckouts
          /\ connObj' \subseteq DOMAIN checkout'
          /\ \A s \in DOMAIN stmt : stmt'[s].via \in DOMAIN checkout'
          /\ dying' \in [Threads -> DOMAIN checkout' \cup {Nothing}]
      <3> HIDE DEF k
      <3>1. k = Len(checkout) + 1
        BY DEF k
      <3>2. QED
        BY <1>1, <1>2, <2>1, <2>2, <3>1, NewCheckout
    <2>4. ScopeTypes'
      BY <1>1, <2>1, <2>2, <2>3 DEF ScopeTypes
    <2> HIDE DEF k
    <2>5. PoolAccounts'
      <3>1. UNION {owns'[j] : j \in Checkouts} = (UNION {owns[j] : j \in Checkouts}) \cup {c}
        BY <1>2, <2>3
      <3>2. idle' \cup UNION {owns'[j] : j \in Checkouts} = 1..opened'
        BY <2>1, <2>2, <3>1 DEF PoolAccounts
      <3>3. \A j \in Checkouts : idle' \cap owns'[j] = {}
        BY <2>1
      <3>4. \A j \in Checkouts : c \notin owns[j]
        BY <2>2 DEF PoolAccounts
      <3>5. \A i, j \in Checkouts : i # j => owns'[i] \cap owns'[j] = {}
        BY <2>3, <3>4 DEF PoolAccounts
      <3>6. QED
        BY <3>2, <3>3, <3>5 DEF PoolAccounts
    <2>6. QED
      BY <1>1, <2>3, <2>4, <2>5 DEF Kept
  <1>5. QED
    BY <1>3, <1>4 DEF GetConnection

\* Every step keeps what no client can break.
LEMMA NextKeeps ==
  ASSUME ScopeInvariant, Next
  PROVE  Kept
  <1>1. CASE DropPool
    BY <1>1, DropPoolKeeps
  <1>2. ASSUME NEW t \in Threads, ThreadStep(t)
        PROVE  Kept
    <2>1. CASE GetConnection(t)
      BY <2>1, GetConnectionKeeps
    <2>2. CASE GetConnectionThrows(t)
      BY <2>2, GetConnectionThrowsKeeps
    <2>3. CASE PushBack(t)
      BY <2>3, PushBackKeeps
    <2>4. CASE LetPoolGo(t)
      BY <2>4, LetPoolGoKeeps
    <2>5. CASE EmptyOther(t)
      BY <2>5, EmptyOtherKeeps
    <2>6. CASE \E k \in ConnsOf(t) : DropConnection(t, k)
      BY <2>6, DropConnectionKeeps
    <2>7. CASE \E s \in StmtsOf(t) : DestroyStmt(t, s)
      BY <2>7, DestroyStmtKeeps
    <2>8. CASE \E k \in ConnsOf(t) : GetStmt(t, k)
      BY <2>8, GetStmtKeeps
    <2>9. CASE \E s \in StmtsOf(t) : OverwriteStmt(t, s)
      BY <2>9, OverwriteStmtKeeps
    <2>10. CASE \E u \in Threads, k \in ConnsOf(t) : HandOverConnection(t, u, k)
      BY <2>10, HandOverConnectionKeeps
    <2>11. CASE \E u \in Threads, s \in StmtsOf(t) : HandOverStmt(t, u, s)
      BY <2>11, HandOverStmtKeeps
    <2>12. QED
      BY <1>2, <2>1, <2>2, <2>3, <2>4, <2>5, <2>6, <2>7, <2>8, <2>9, <2>10, <2>11
         DEF ThreadStep, CleanUp
  <1>3. QED
    BY <1>1, <1>2 DEF Next

\* When the pool has been destroyed all a thread can do is to finalize a
\* statement that has let go of its connection.
LEMMA NextWhenDestroyed ==
  ASSUME ScopeInvariant, Next, destroyed
  PROVE  /\ \E t \in Threads : /\ busy[t] \in DOMAIN stmt
                               /\ stmt[busy[t]].impl /\ ~stmt[busy[t]].pooled
                               /\ Finalize(busy[t])
         /\ UNCHANGED <<poolObj, connObj, dying, destroyed, closed>>
  <1> USE DEF ScopeInvariant
  <1>1. Live = {} /\ ~poolObj /\ \A t \in Threads : dying[t] = Nothing
    BY DEF DestroyedIsEmpty
  <1>2. connObj = {} /\ \A s \in DOMAIN stmt : ~stmt[s].pooled
    BY <1>1, ReferencedBy DEF Live
  <1>3. \A t \in Threads : StmtsOf(t) = {} /\ ConnsOf(t) = {}
    BY <1>2 DEF StmtsOf, ConnsOf
  <1>4. \A t \in Threads : ~PushBack(t) /\ ~LetPoolGo(t)
    BY <1>1 DEF PushBack, LetPoolGo
  <1>5. PICK t \in Threads : EmptyOther(t)
    <2>1. ~DropPool /\ \A t \in Threads : ~GetConnection(t) /\ ~GetConnectionThrows(t)
      BY <1>1 DEF DropPool, GetConnection, GetConnectionThrows
    <2>2. QED
      BY <1>3, <1>4, <2>1 DEF Next, ThreadStep, CleanUp
  <1>6. busy[t] \in DOMAIN stmt
    BY <1>5 DEF EmptyOther, ScopeTypes
  <1>7. stmt[busy[t]].impl /\ ~stmt[busy[t]].pooled
    BY <1>2, <1>5, <1>6 DEF EmptyOther, HalfWay, Half
  <1>8. QED
    BY <1>5, <1>6, <1>7 DEF EmptyOther

\* So a destroyed pool stays without clients.
LEMMA EmptyStays ==
  ASSUME ScopeInvariant, Next, Kept
  PROVE  DestroyedIsEmpty'
  <1> USE DEF ScopeInvariant
  <1>0. Live' = Referenced(connObj', stmt')
    BY DEF Live
  <1>1. CASE destroyed
    <2>1. PICK t \in Threads : busy[t] \in DOMAIN stmt /\ Finalize(busy[t])
      BY <1>1, NextWhenDestroyed
    <2>2. UNCHANGED <<poolObj, connObj, dying>>
      BY <1>1, NextWhenDestroyed
    <2>3. /\ DOMAIN stmt' = DOMAIN stmt
          /\ \A r \in DOMAIN stmt : stmt'[r].pooled = stmt[r].pooled
      BY <2>1, FinalizeEffect
    <2>4. Live = {} /\ ~poolObj /\ \A u \in Threads : dying[u] = Nothing
      BY <1>1 DEF DestroyedIsEmpty
    <2>5. connObj = {} /\ \A r \in DOMAIN stmt : ~stmt[r].pooled
      BY <2>4, ReferencedBy DEF Live
    <2>6. Live' = {}
      BY <1>0, <2>2, <2>3, <2>5, ReferencedBy
    <2>7. QED
      BY <2>2, <2>4, <2>6 DEF DestroyedIsEmpty
  <1>2. CASE ~destroyed
    BY <1>0, <1>2 DEF Kept, DropPoolRef, DestroyedIsEmpty
  <1>3. QED
    BY <1>1, <1>2

-----------------------------------------------------------------------------
(***************************************************************************)
(* What a thread can do to the objects of others                           *)
(***************************************************************************)

\* Thread t changes its own objects only, and what was made stays in the books.
OnlyOwn(t) ==
  /\ DOMAIN stmt \subseteq DOMAIN stmt'
  /\ DOMAIN checkout \subseteq DOMAIN checkout'
  /\ \A s \in DOMAIN stmt : stmt'[s].via = stmt[s].via
  /\ \A k \in DOMAIN checkout : checkout'[k].conn = checkout[k].conn
  /\ \A s \in DOMAIN stmt : stmt[s].by # t => stmt'[s] = stmt[s]
  /\ \A k \in connObj : checkout[k].by # t => k \in connObj' /\ checkout'[k] = checkout[k]
  /\ \A u \in Threads : u # t => busy'[u] = busy[u]

\* A thread steps on nothing but its own.
LEMMA ThreadStepOnlyOwn ==
  ASSUME ScopeInvariant, NEW t \in Threads, ThreadStep(t)
  PROVE  OnlyOwn(t)
  <1> USE DEF ScopeInvariant
  <1>1. ASSUME UNCHANGED <<checkout, connObj, stmt, busy>> PROVE OnlyOwn(t)
    BY <1>1 DEF OnlyOwn
  <1>2. ASSUME NEW s \in DOMAIN stmt, stmt[s].by = t, OneHalf(s),
               UNCHANGED <<checkout, connObj>>,
               \A u \in Threads : u # t => busy'[u] = busy[u]
        PROVE  OnlyOwn(t)
    BY <1>2 DEF OnlyOwn, OneHalf
  <1>3. ASSUME NEW x, busy' = [busy EXCEPT ![t] = x]
        PROVE  \A u \in Threads : u # t => busy'[u] = busy[u]
    BY <1>3 DEF ScopeTypes
  <1>4. CASE GetConnection(t)
    <2>1. PICK c : checkout' = Append(checkout, [by |-> t, conn |-> c]) /\ c \in 1..PoolSize
      <3>1. CASE \E c \in idle : checkout' = Append(checkout, [by |-> t, conn |-> c])
        <4>1. idle \subseteq 1..PoolSize
          BY ScopeAssumption DEF ScopeTypes, PoolAccounts
        <4>2. QED
          BY <3>1, <4>1
      <3>2. CASE /\ unopened > 0
                 /\ checkout' = Append(checkout, [by |-> t, conn |-> opened + 1])
        <4>1. opened + 1 \in 1..PoolSize
          BY <3>2, ScopeAssumption DEF ScopeTypes
        <4>2. QED
          BY <3>2, <4>1
      <3>3. QED
        BY <1>4, <3>1, <3>2 DEF GetConnection, Pool!Open
    <2>2. [by |-> t, conn |-> c] \in CheckoutRecord
      BY <2>1 DEF CheckoutRecord
    <2>3. /\ DOMAIN checkout \subseteq DOMAIN checkout'
          /\ \A k \in DOMAIN checkout : checkout'[k] = checkout[k]
      BY <2>1, <2>2, AddCheckoutEffect
    <2>4. connObj \subseteq connObj' /\ UNCHANGED <<stmt, busy>>
      BY <1>4 DEF GetConnection
    <2>5. QED
      BY <2>3, <2>4 DEF OnlyOwn, ScopeTypes
  <1>5. CASE GetConnectionThrows(t) \/ PushBack(t) \/ LetPoolGo(t)
    BY <1>1, <1>5 DEF GetConnectionThrows, PushBack, LetPoolGo
  <1>6. CASE EmptyOther(t)
    <2>1. /\ busy[t] \in DOMAIN stmt /\ stmt[busy[t]].by = t
          /\ UNCHANGED <<checkout, connObj>>
          /\ busy' = [busy EXCEPT ![t] = Nothing]
      BY <1>6 DEF EmptyOther, HalfWay, ScopeTypes
    <2>2. OneHalf(busy[t])
      BY <1>6, <2>1, FinalizeEffect, UnpoolEffect DEF EmptyOther, OneHalf
    <2>3. QED
      BY <1>2, <1>3, <2>1, <2>2
  <1>7. ASSUME NEW k \in ConnsOf(t), DropConnection(t, k)
        PROVE  OnlyOwn(t)
    BY <1>7 DEF DropConnection, ConnsOf, OnlyOwn
  <1>8. ASSUME NEW s \in StmtsOf(t), DestroyStmt(t, s)
        PROVE  OnlyOwn(t)
    <2>1. /\ s \in DOMAIN stmt /\ stmt[s].by = t /\ Finalize(s)
          /\ UNCHANGED <<checkout, connObj>> /\ busy' = [busy EXCEPT ![t] = s]
      BY <1>8 DEF DestroyStmt, StmtsOf
    <2>2. OneHalf(s)
      BY <2>1, FinalizeEffect DEF OneHalf
    <2>3. QED
      BY <1>2, <1>3, <2>1, <2>2
  <1>9. ASSUME NEW k \in ConnsOf(t), GetStmt(t, k)
        PROVE  OnlyOwn(t)
    <2>1. /\ stmt' = Append(stmt, [via |-> k, by |-> t, pooled |-> TRUE, impl |-> TRUE])
          /\ UNCHANGED <<checkout, connObj, busy>>
      BY <1>9 DEF GetStmt
    <2>2. k \in Nat
      BY ScopeIndices DEF ConnsOf, ScopeTypes
    <2>3. [via |-> k, by |-> t, pooled |-> TRUE, impl |-> TRUE] \in StmtRecord
      BY <2>2 DEF StmtRecord
    <2>4. DOMAIN stmt \subseteq DOMAIN stmt' /\ \A r \in DOMAIN stmt : stmt'[r] = stmt[r]
      BY <2>1, <2>3, AddStmtEffect
    <2>5. QED
      BY <2>1, <2>4 DEF OnlyOwn
  <1>10. ASSUME NEW s \in StmtsOf(t), OverwriteStmt(t, s)
         PROVE  OnlyOwn(t)
    <2>1. /\ s \in DOMAIN stmt /\ stmt[s].by = t /\ Unpool(s)
          /\ UNCHANGED <<checkout, connObj>> /\ busy' = [busy EXCEPT ![t] = s]
      BY <1>10 DEF OverwriteStmt, StmtsOf
    <2>2. OneHalf(s)
      BY <2>1, UnpoolEffect DEF OneHalf
    <2>3. QED
      BY <1>2, <1>3, <2>1, <2>2
  <1>11. ASSUME NEW u \in Threads, NEW k \in ConnsOf(t), HandOverConnection(t, u, k)
         PROVE  OnlyOwn(t)
    <2>1. /\ k \in DOMAIN checkout /\ checkout[k].by = t
          /\ checkout' = [checkout EXCEPT ![k].by = u]
          /\ UNCHANGED <<connObj, stmt, busy>>
      BY <1>11 DEF HandOverConnection, ConnsOf, ScopeTypes
    <2>2. /\ DOMAIN checkout' = DOMAIN checkout
          /\ \A j \in DOMAIN checkout : checkout'[j].conn = checkout[j].conn
          /\ \A j \in DOMAIN checkout : j # k => checkout'[j] = checkout[j]
      BY <2>1, GiveConnEffect
    <2>3. QED
      BY <2>1, <2>2 DEF OnlyOwn, ScopeTypes
  <1>12. ASSUME NEW u \in Threads, NEW s \in StmtsOf(t), HandOverStmt(t, u, s)
         PROVE  OnlyOwn(t)
    <2>1. /\ s \in DOMAIN stmt /\ stmt[s].by = t
          /\ stmt' = [stmt EXCEPT ![s].by = u]
          /\ UNCHANGED <<checkout, connObj, busy>>
      BY <1>12 DEF HandOverStmt, StmtsOf
    <2>2. OneHalf(s)
      BY <2>1, GiveStmtEffect DEF OneHalf
    <2>3. QED
      BY <1>2, <2>1, <2>2
  <1>13. QED
    BY <1>4, <1>5, <1>6, <1>7, <1>8, <1>9, <1>10, <1>11, <1>12 DEF ThreadStep, CleanUp

\* So what another thread keeps out, it still does.
LEMMA KeepsOutStill ==
  ASSUME NEW t, OnlyOwn(t), NEW u, u # t, NEW s \in DOMAIN stmt, KeepsOut(u, s)
  PROVE  KeepsOut(u, s)'
  <1>1. CASE stmt[s].via \in ConnsOf(u)
    BY <1>1 DEF OnlyOwn, ConnsOf, KeepsOut
  <1>2. ASSUME NEW r \in StmtsOf(u) \ {s}, stmt[r].via = stmt[s].via
        PROVE  KeepsOut(u, s)'
    <2>1. r \in StmtsOf(u)' /\ stmt'[r].via = stmt'[s].via
      BY <1>2 DEF OnlyOwn, StmtsOf
    <2>2. QED
      BY <1>2, <2>1 DEF KeepsOut
  <1>3. QED
    BY <1>1, <1>2 DEF KeepsOut

\* If threads assign over a statement only under their own shelter, they keep
\* that until they are through.
LEMMA HalfKeptStep ==
  ASSUME ScopeInvariant, HalfKept, Shelter = "own", Next
  PROVE  HalfKept'
  <1> USE DEF ScopeInvariant
  <1>1. CASE DropPool
    BY <1>1 DEF DropPool, HalfKept, KeepsOut, ConnsOf, StmtsOf
  <1>2. ASSUME NEW t \in Threads, ThreadStep(t)
        PROVE  HalfKept'
    <2>0. OnlyOwn(t)
      BY <1>2, ThreadStepOnlyOwn
    <2>1. ASSUME NEW u \in Threads, u # t, NEW s, s = busy'[u], s # Nothing, stmt'[s].impl
          PROVE  KeepsOut(u, s)'
      <3>1. s = busy[u] /\ s \in DOMAIN stmt
        BY <2>0, <2>1 DEF OnlyOwn, ScopeTypes
      <3>2. stmt[s].by = u
        BY <2>1, <3>1 DEF HalfWay
      <3>3. stmt'[s] = stmt[s]
        BY <2>0, <2>1, <3>1, <3>2 DEF OnlyOwn
      <3>4. KeepsOut(u, s)
        BY <2>1, <3>1, <3>3 DEF HalfKept
      <3>5. QED
        BY <2>0, <2>1, <3>1, <3>4, KeepsOutStill
    <2>2. ASSUME NEW s, s = busy'[t], s # Nothing, stmt'[s].impl
          PROVE  KeepsOut(t, s)'
      <3>1. CASE PushBack(t) \/ LetPoolGo(t)
        <4>1. UNCHANGED <<checkout, connObj, stmt, busy>>
          BY <3>1 DEF PushBack, LetPoolGo
        <4>2. KeepsOut(t, s)
          BY <2>2, <4>1 DEF HalfKept
        <4>3. QED
          BY <4>1, <4>2 DEF KeepsOut, ConnsOf, StmtsOf
      <3>2. CASE EmptyOther(t)
        BY <2>2, <3>2 DEF EmptyOther, ScopeTypes
      <3>3. CASE Free(t) /\ UNCHANGED busy
        BY <2>2, <3>3 DEF Free
      <3>4. ASSUME NEW r \in StmtsOf(t), DestroyStmt(t, r)
            PROVE  KeepsOut(t, s)'
        <4>1. r \in DOMAIN stmt /\ Finalize(r) /\ s = r
          BY <2>2, <3>4 DEF DestroyStmt, StmtsOf, ScopeTypes
        <4>2. ~stmt'[r].impl
          BY <4>1, FinalizeEffect
        <4>3. QED
          BY <2>2, <4>1, <4>2
      <3>5. ASSUME NEW r \in StmtsOf(t), OverwriteStmt(t, r)
            PROVE  KeepsOut(t, s)'
        <4>1. /\ r \in DOMAIN stmt /\ Unpool(r) /\ s = r
              /\ KeepsOut(t, s) /\ UNCHANGED <<checkout, connObj>>
          BY <2>2, <3>5 DEF OverwriteStmt, Sheltered, StmtsOf, ScopeTypes
        <4>2. OneHalf(s)
          BY <4>1, UnpoolEffect DEF OneHalf
        <4>3. QED
          BY <4>1, <4>2 DEF OneHalf, KeepsOut, ConnsOf, StmtsOf
      <3>6. QED
        <4>1. ASSUME NEW u, NEW k,
                     \/ GetConnection(t) \/ GetConnectionThrows(t) \/ DropConnection(t, k)
                     \/ GetStmt(t, k) \/ HandOverConnection(t, u, k) \/ HandOverStmt(t, u, k)
              PROVE  Free(t) /\ UNCHANGED busy
          BY <4>1 DEF GetConnection, GetConnectionThrows, DropConnection, GetStmt,
                      HandOverConnection, HandOverStmt
        <4>2. QED
          BY <1>2, <3>1, <3>2, <3>3, <3>4, <3>5, <4>1 DEF ThreadStep, CleanUp
    <2>3. QED
      BY <2>1, <2>2 DEF HalfKept
  <1>3. QED
    BY <1>1, <1>2 DEF Next

-----------------------------------------------------------------------------
(***************************************************************************)
(* The invariants                                                          *)
(***************************************************************************)

\* A pool starts with no connection and no object.
LEMMA ScopeInit == Init => ScopeInvariant
  <1> SUFFICES ASSUME Init PROVE ScopeInvariant
    OBVIOUS
  <1>1. /\ idle = {} /\ owns = [k \in Checkouts |-> {}] /\ opened = 0
        /\ unopened = PoolSize
    BY DEF Init, Pool!AbsInit
  <1>2. /\ poolObj = TRUE /\ checkout = <<>> /\ connObj = {} /\ stmt = <<>>
        /\ busy = [t \in Threads |-> Nothing] /\ dying = [t \in Threads |-> Nothing]
        /\ destroyed = FALSE /\ closed = {}
    BY DEF Init
  <1>3. Live = {} /\ DOMAIN stmt = {}
    BY <1>2 DEF Live, Referenced
  <1>4. ScopeTypes
    <2>1. /\ checkout \in Seq(CheckoutRecord) /\ stmt \in Seq(StmtRecord)
          /\ Len(checkout) <= MaxCheckouts
      BY <1>2, ScopeAssumption
    <2>2. opened \in Nat /\ unopened \in Nat /\ opened + unopened <= PoolSize
      BY <1>1, ScopeAssumption
    <2>3. /\ owns \in [Checkouts -> SUBSET (1..PoolSize)]
          /\ busy \in [Threads -> DOMAIN stmt \cup {Nothing}]
          /\ dying \in [Threads -> DOMAIN checkout \cup {Nothing}]
      BY <1>1, <1>2
    <2>4. QED
      BY <1>1, <1>2, <1>3, <2>1, <2>2, <2>3 DEF ScopeTypes
  <1>5. PoolAccounts
    BY <1>1 DEF PoolAccounts
  <1>6. CheckoutsOut
    BY <1>1, <1>2, <1>3 DEF CheckoutsOut
  <1>7. HalfWay /\ DestroyedIsEmpty
    BY <1>2, <1>3 DEF HalfWay, DestroyedIsEmpty
  <1>8. QED
    BY <1>4, <1>5, <1>6, <1>7 DEF ScopeInvariant

\* A step that changes nothing keeps everything.
LEMMA ScopeStutter ==
  ASSUME UNCHANGED scopeVars
  PROVE  /\ ScopeInvariant => ScopeInvariant'
         /\ TidyInvariant => TidyInvariant'
  <1>1. /\ UNCHANGED <<idle, owns, opened, unopened, poolObj, checkout, connObj, stmt,
                       busy, dying, destroyed, closed>>
        /\ Live' = Live
    BY DEF scopeVars, poolVars, Live, Referenced
  <1>2. ScopeInvariant => ScopeInvariant'
    BY <1>1 DEF ScopeInvariant, ScopeTypes, PoolAccounts, CheckoutsOut, HalfWay, Half,
                DestroyedIsEmpty
  <1>3. HalfKept => HalfKept'
    BY <1>1 DEF HalfKept, KeepsOut, ConnsOf, StmtsOf
  <1>4. QED
    BY <1>1, <1>2, <1>3 DEF TidyInvariant, DestroyedClosesAll

\* No step breaks the invariant, whatever the clients do.
LEMMA ScopeStep == ScopeInvariant /\ [Next]_scopeVars => ScopeInvariant'
  <1> SUFFICES ASSUME ScopeInvariant, [Next]_scopeVars
               PROVE  ScopeInvariant'
    OBVIOUS
  <1>1. CASE UNCHANGED scopeVars
    BY <1>1, ScopeStutter
  <1>2. CASE Next
    <2>1. Kept
      BY <1>2, NextKeeps
    <2>2. DestroyedIsEmpty'
      BY <1>2, <2>1, EmptyStays
    <2>3. QED
      BY <2>1, <2>2 DEF Kept, ScopeInvariant
  <1>3. QED
    BY <1>1, <1>2

\* Nor that of sheltered assignments.  Nothing happens to their pool once it
\* has been destroyed.
LEMMA TidyStep ==
  Shelter = "own" /\ TidyInvariant /\ [Next]_scopeVars => TidyInvariant'
  <1> SUFFICES ASSUME Shelter = "own", TidyInvariant, [Next]_scopeVars
               PROVE  TidyInvariant'
    OBVIOUS
  <1>1. CASE UNCHANGED scopeVars
    BY <1>1, ScopeStutter
  <1>2. CASE Next
    <2>1. ScopeInvariant /\ ScopeInvariant' /\ Kept
      BY <1>2, NextKeeps, ScopeStep DEF TidyInvariant
    <2>2. HalfKept'
      BY <1>2, <2>1, HalfKeptStep DEF TidyInvariant
    <2>3. ~destroyed
      <3>1. SUFFICES ASSUME destroyed PROVE FALSE
        OBVIOUS
      <3>2. PICK t \in Threads : /\ busy[t] \in DOMAIN stmt
                                 /\ stmt[busy[t]].impl /\ ~stmt[busy[t]].pooled
        BY <1>2, <2>1, <3>1, NextWhenDestroyed
      <3>3. StmtInsideCheckout /\ Live = {}
        BY <3>1, StmtHasCheckout DEF TidyInvariant, ScopeInvariant, DestroyedClosesAll
      <3>4. QED
        BY <3>2, <3>3 DEF StmtInsideCheckout
    <2>4. DestroyedClosesAll'
      <3>1. CASE UNCHANGED <<destroyed, closed>>
        BY <2>3, <3>1 DEF DestroyedClosesAll
      <3>2. CASE DropPoolRef
        <4>1. (ScopeTypes /\ HalfWay /\ HalfKept => StmtInsideCheckout)'
          BY StmtHasCheckout, PTL
        <4>2. StmtInsideCheckout'
          BY <2>1, <2>2, <4>1 DEF ScopeInvariant
        <4>3. QED
          BY <2>1, <2>3, <3>2, <4>2, DropPoolRefCloses DEF ScopeInvariant
      <3>3. QED
        BY <2>1, <3>1, <3>2 DEF Kept
    <2>5. QED
      BY <2>1, <2>2, <2>4 DEF TidyInvariant
  <1>3. QED
    BY <1>1, <1>2

\* The invariant holds throughout.
LEMMA ScopeInvariantHolds == Spec => []ScopeInvariant
  BY ScopeInit, ScopeStep, PTL DEF Spec

\* So does that of sheltered assignments.
LEMMA TidyInvariantHolds == Shelter = "own" => (Spec => []TidyInvariant)
  <1>1. SUFFICES ASSUME Shelter = "own" PROVE Spec => []TidyInvariant
    OBVIOUS
  <1>2. Init => TidyInvariant
    BY ScopeInit DEF TidyInvariant, Init, HalfKept, DestroyedClosesAll
  <1>3. TidyInvariant /\ [Next]_scopeVars => TidyInvariant'
    BY <1>1, TidyStep
  <1>4. QED
    BY <1>2, <1>3, PTL DEF Spec

-----------------------------------------------------------------------------
(***************************************************************************)
(* The theorems                                                            *)
(***************************************************************************)

\* The variables keep their types.
THEOREM ScopeTypesOK == Spec => []TypeOK
  <1>1. ASSUME ScopeInvariant PROVE TypeOK
    <2> USE <1>1 DEF ScopeInvariant
    <2> DEFINE Narrow == [via : DOMAIN checkout, by : Threads, pooled : BOOLEAN, impl : BOOLEAN]
    <2>1. 1..opened \subseteq 1..PoolSize /\ opened \in 0..PoolSize /\ unopened \in 0..PoolSize
      BY ScopeAssumption DEF ScopeTypes
    <2>2. idle \subseteq 1..PoolSize
      BY <2>1 DEF PoolAccounts
    <2>3. \A s \in 1..Len(stmt) : stmt[s] \in Narrow
      <3>1. \A s \in 1..Len(stmt) : stmt[s] \in StmtRecord /\ stmt[s].via \in DOMAIN checkout
        BY ScopeIndices DEF ScopeTypes
      <3>2. QED
        BY <3>1 DEF StmtRecord
    <2> HIDE DEF Narrow
    <2>4. stmt \in Seq(Narrow)
      <3>1. stmt \in [1..Len(stmt) -> StmtRecord] /\ Len(stmt) \in Nat
        BY LenProperties DEF ScopeTypes
      <3>2. stmt \in [1..Len(stmt) -> Narrow]
        BY <2>3, <3>1
      <3>3. QED
        BY <3>1, <3>2
    <2>5. stmt \in Seq([via : DOMAIN checkout, by : Threads, pooled : BOOLEAN, impl : BOOLEAN])
      BY <2>4 DEF Narrow
    <2>6. checkout \in Seq([by : Threads, conn : 1..PoolSize])
      BY DEF ScopeTypes, CheckoutRecord
    <2>7. QED
      BY <2>1, <2>2, <2>5, <2>6 DEF TypeOK, ScopeTypes
  <1>2. ScopeInvariant => TypeOK
    BY <1>1
  <1>3. QED
    BY ScopeInvariantHolds, <1>2, PTL

\* A connection is out for exactly as long as an object refers to its checkout,
\* in whichever threads the objects are and in whichever order they go, and is
\* pushed once (src/util/PooledConnection.cpp:20).
THEOREM CheckoutsAgree == Spec => []OwnsMatchesCheckouts
  <1>1. ScopeInvariant => OwnsMatchesCheckouts
    BY OutOneByOne DEF ScopeInvariant
  <1>2. QED
    BY ScopeInvariantHolds, <1>1, PTL

\* The pool outlives what it lent: when it is destroyed, in whatever order and
\* thread the objects went, nothing refers to it or to a checkout, nobody is in
\* ~PooledConnection, and every connection it opened has come back.
THEOREM PoolOutlivesCheckouts ==
  Spec => [](destroyed => /\ ~poolObj /\ Live = {} /\ idle = 1..opened
                          /\ \A t \in Threads : dying[t] = Nothing)
  <1> DEFINE Gone == /\ ~poolObj /\ Live = {} /\ idle = 1..opened
                     /\ \A t \in Threads : dying[t] = Nothing
  <1>1. ASSUME ScopeInvariant, destroyed
        PROVE  Gone
    <2>1. Live = {} /\ ~poolObj /\ \A t \in Threads : dying[t] = Nothing
      BY <1>1 DEF ScopeInvariant, DestroyedIsEmpty
    <2>2. \A k \in Checkouts : owns[k] = {}
      BY <1>1, <2>1, ScopeAssumption DEF ScopeInvariant, CheckoutsOut, Checkouts
    <2>3. UNION {owns[k] : k \in Checkouts} = {}
      BY <2>2
    <2>4. QED
      BY <1>1, <2>1, <2>3 DEF ScopeInvariant, PoolAccounts
  <1>2. ScopeInvariant => (destroyed => Gone)
    BY <1>1
  <1>3. QED
    BY <1>2, ScopeInvariantHolds, PTL

\* As long as threads assign over a PreparedStmt only while they have another
\* object of its checkout, no sqlite3_stmt outlives its checkout
\* (src/PreparedStmt.cpp:23), wherever the other objects are.
THEOREM StmtsInsideCheckouts == Shelter = "own" => (Spec => []StmtInsideCheckout)
  <1>1. TidyInvariant => StmtInsideCheckout
    BY StmtHasCheckout DEF TidyInvariant, ScopeInvariant
  <1>2. QED
    BY TidyInvariantHolds, <1>1, PTL

\* So the end of the pool finds every connection returned and closes it
\* (include/dbpool/sqlite/ConnectionImpl.hpp:17).
THEOREM PoolClosesAll == Shelter = "own" => (Spec => []DestroyedClosesAll)
  <1>1. TidyInvariant => DestroyedClosesAll
    BY DEF TidyInvariant
  <1>2. QED
    BY TidyInvariantHolds, <1>1, PTL

\* Whatever clients assign over, a sqlite3_stmt is without its checkout only
\* while its thread is between the two members of the move assignment
\* (include/dbpool/PreparedStmt.hpp:39): the assignment ends the exposure.
THEOREM ExposureEndsWithAssignment ==
  Spec => [](\A s \in DOMAIN stmt :
               stmt[s].impl /\ stmt[s].via \notin Live
                 => \E t \in Threads : busy[t] = s /\ stmt[s].by = t)
  <1>1. ASSUME ScopeInvariant, NEW s \in DOMAIN stmt,
               stmt[s].impl, stmt[s].via \notin Live
        PROVE  \E t \in Threads : busy[t] = s /\ stmt[s].by = t
    <2>1. ~stmt[s].pooled
      BY <1>1, ReferencedBy DEF Live
    <2>2. Half(s) /\ s # Nothing
      BY <1>1, <2>1, ScopeIndices DEF Half, ScopeInvariant
    <2>3. QED
      BY <1>1, <2>2 DEF ScopeInvariant, HalfWay
  <1>2. ScopeInvariant => \A s \in DOMAIN stmt :
          stmt[s].impl /\ stmt[s].via \notin Live
            => \E t \in Threads : busy[t] = s /\ stmt[s].by = t
    BY <1>1
  <1>3. QED
    BY <1>2, ScopeInvariantHolds, PTL
=============================================================================
