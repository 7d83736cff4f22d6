----------------------------- MODULE WaitProofs -----------------------------
(***************************************************************************)
(* Proofs about the sleepers of popConnection: nobody can end a sleep only *)
(* when the sleepers themselves hold every slot the pool has, so a pool    *)
(* with more slots than they can hold never stalls, and no set of calls    *)
(* deadlocks.                                                              *)
(***************************************************************************)
EXTENDS SlotProofs, FiniteClients, FunctionTheorems

-----------------------------------------------------------------------------
(***************************************************************************)
(* Counting                                                                *)
(***************************************************************************)

\* If nobody has more than m things, all together have at most m each: send a
\* thing to an owner of it and its number among that owner's things.
LEMMA SharesAddUp ==
  ASSUME NEW A, IsFiniteSet(A), NEW m \in Nat, NEW h,
         \A a \in A : IsFiniteSet(h[a]) /\ Cardinality(h[a]) <= m
  PROVE  Cardinality(UNION {h[a] : a \in A}) <= Cardinality(A) * m
  <1> DEFINE All == UNION {h[a] : a \in A}
             owner == [c \in All |-> CHOOSE a \in A : c \in h[a]]
             rank == [a \in A |->
                        CHOOSE f : f \in Bijection(h[a], 1..Cardinality(h[a]))]
             place == [c \in All |-> <<owner[c], rank[owner[c]][c]>>]
  <1>1. ASSUME NEW c \in All PROVE owner[c] \in A /\ c \in h[owner[c]]
    BY DEF All
  <1>2. ASSUME NEW a \in A
        PROVE  rank[a] \in Bijection(h[a], 1..Cardinality(h[a]))
    <2>1. /\ Cardinality(h[a]) \in Nat
          /\ ExistsBijection(1..Cardinality(h[a]), h[a])
      BY FS_CardinalityType
    <2>2. ExistsBijection(h[a], 1..Cardinality(h[a]))
      BY <2>1, Fun_ExistsBijSymmetric
    <2>3. \E f : f \in Bijection(h[a], 1..Cardinality(h[a]))
      BY <2>2 DEF ExistsBijection
    <2>4. QED
      BY <2>3
  <1> HIDE DEF owner, rank
  <1>3. ASSUME NEW a \in A
        PROVE  /\ \A c \in h[a] : rank[a][c] \in 1..m
               /\ \A c, d \in h[a] : rank[a][c] = rank[a][d] => c = d
    <2>1. Cardinality(h[a]) \in Nat /\ Cardinality(h[a]) <= m
      BY FS_CardinalityType
    <2>2. /\ rank[a] \in [h[a] -> 1..Cardinality(h[a])]
          /\ \A c, d \in h[a] : rank[a][c] = rank[a][d] => c = d
      BY <1>2 DEF Bijection, Injection, IsInjective
    <2>3. QED
      BY <2>1, <2>2
  <1>4. place \in Injection(All, A \X (1..m))
    <2>1. ASSUME NEW c \in All PROVE place[c] \in A \X (1..m)
      BY <1>1, <1>3
    <2>2. ASSUME NEW c \in All, NEW d \in All, place[c] = place[d] PROVE c = d
      <3>1. owner[c] = owner[d] /\ rank[owner[c]][c] = rank[owner[d]][d]
        BY <2>2
      <3>2. owner[c] \in A /\ c \in h[owner[c]] /\ d \in h[owner[c]]
        BY <1>1, <3>1
      <3>3. QED
        BY <1>3, <3>1, <3>2
    <2>3. QED
      BY <2>1, <2>2 DEF Injection, IsInjective
  <1>5. IsFiniteSet(1..m) /\ Cardinality(1..m) = m
    BY FS_Interval
  <1>6. /\ IsFiniteSet(A \X (1..m))
        /\ Cardinality(A \X (1..m)) = Cardinality(A) * m
    BY <1>5, FS_Product
  <1> HIDE DEF All, place
  <1>7. Cardinality(All) <= Cardinality(A \X (1..m))
    BY <1>4, <1>6, FS_Injection
  <1>8. QED
    BY <1>6, <1>7 DEF All

-----------------------------------------------------------------------------
(***************************************************************************)
(* Sleepers                                                                *)
(***************************************************************************)

\* A thread asks for a connection only below its limit, and nobody hands it
\* one while it waits.
AskersWithinLimit ==
  \A t \in Threads :
    pc[t] \in {"pop", "waiting"} => Cardinality(held[t]) < MaxHeld

\* No step takes an asker to its limit before it is served.
LEMMA LimitStep ==
  TypeOK /\ AskersWithinLimit /\ [Next]_vars => AskersWithinLimit'
  <1> SUFFICES ASSUME TypeOK, AskersWithinLimit, [Next]_vars,
                      NEW u \in Threads, pc'[u] \in {"pop", "waiting"}
               PROVE  Cardinality(held'[u]) < MaxHeld
    BY DEF AskersWithinLimit
  <1> USE DEF TypeOK, AskersWithinLimit
  <1>1. ASSUME NEW t \in Threads, PopCall(t)
        PROVE  Cardinality(held'[u]) < MaxHeld
    BY <1>1 DEF PopCall
  <1>2. ASSUME NEW t \in Threads,
               PopReuse(t) \/ Prepare(t) \/ PushCall(t)
        PROVE  held'[u] = held[u] /\ pc'[u] = pc[u]
    BY <1>2 DEF PopReuse, Prepare, PushCall
  <1>3. ASSUME NEW t \in Threads, NEW v \in Threads, HandOver(t, v)
        PROVE  held'[u] = held[u] /\ pc'[u] = pc[u]
    BY <1>3 DEF HandOver
  <1>4. ASSUME NEW t \in Threads, Push(t)
        PROVE  held'[u] = held[u] /\ pc[u] \in {"pop", "waiting"}
    BY <1>4 DEF Push, Notified
  <1>5. ASSUME NEW t \in Threads,
               \/ PopWait(t) \/ SpuriousWake(t) \/ PopSlot(t) \/ Create(t)
               \/ CreateThrows(t) \/ SetPrepSql(t)
        PROVE  held'[u] = held[u] /\ pc[u] \in {"pop", "waiting"}
    BY <1>5 DEF PopWait, SpuriousWake, PopSlot, Create, CreateThrows, SetPrepSql
  <1>6. CASE UNCHANGED vars
    BY <1>6 DEF vars
  <1>7. QED
    BY <1>1, <1>2, <1>3, <1>4, <1>5, <1>6 DEF Next, PoolStep

\* The limit of the askers is an invariant.
LEMMA LimitHolds == Spec => []AskersWithinLimit
  <1>1. Init => AskersWithinLimit
    BY DEF Init, AskersWithinLimit
  <1>2. QED
    BY <1>1, LimitStep, TypeCorrect, PTL DEF Spec

\* The threads NoSleepInVain speaks of.
Asleep == {t \in Threads : pc[t] = "waiting"}
Providers == {u \in Threads \ Asleep : OwnedBy(u) # {} \/ pc[u] = "create"}

\* With no provider the sleepers have every connection that is not lost, and
\* nobody is opening one.
LEMMA SleepersHaveAll ==
  ASSUME PoolInvariant, CountExact, Asleep # {}, Providers = {}
  PROVE  /\ Out = UNION {held[t] : t \in Asleep}
         /\ IsFiniteSet(Out)
         /\ Cardinality(Out) + lost = PoolSize
  <1> USE DEF PoolInvariant, Asleep, Providers
  <1>1. \A t \in Asleep : OwnedBy(t) = held[t]
    BY DEF TypeOK, OwnedBy
  <1>2. \A t \in Threads \ Asleep : OwnedBy(t) = {} /\ pc[t] # "create"
    OBVIOUS
  <1>3. Out = UNION {held[t] : t \in Asleep}
    BY <1>1, <1>2 DEF Out
  <1>4. SlotBeingOpened = 0
    BY <1>2 DEF SlotBeingOpened
  <1>5. available = <<>>
    BY DEF NoSleeperWithIdle
  <1>6. count = 0
    BY <1>5 DEF count
  <1>7. IsFiniteSet(Out)
    <2>1. Out \subseteq 1..opened /\ opened \in Nat
      BY DEF NoConnectionLost, TypeOK
    <2>2. IsFiniteSet(1..opened)
      BY <2>1, FS_Interval
    <2>3. QED
      BY <2>1, <2>2, FS_Subset
  <1>8. Cardinality(Out) \in Nat /\ lost \in Nat
    BY <1>7, FS_CardinalityType DEF TypeOK
  <1>9. Cardinality(Out) + lost = PoolSize
    BY <1>4, <1>6, <1>8 DEF CountExact
  <1>10. QED
    BY <1>3, <1>7, <1>9

\* The invariants leave sleepers without a provider only when they hold every
\* slot among themselves.
LEMMA NoSleepByInvariant ==
  ASSUME IsFiniteSet(Threads)
  PROVE  PoolInvariant /\ CountExact /\ AskersWithinLimit => NoSleepInVain
  <1> SUFFICES ASSUME PoolInvariant, CountExact, AskersWithinLimit,
                      Asleep # {}, Providers = {}
               PROVE  PoolSize <= Cardinality(Asleep) * (MaxHeld - 1) + lost
    BY DEF NoSleepInVain, Asleep, Providers
  <1>1. /\ Out = UNION {held[t] : t \in Asleep}
        /\ IsFiniteSet(Out)
        /\ Cardinality(Out) + lost = PoolSize
    BY SleepersHaveAll
  <1>2. IsFiniteSet(Asleep)
    BY FS_Subset DEF Asleep
  <1>3. ASSUME NEW t \in Asleep
        PROVE  /\ IsFiniteSet(held[t])
               /\ Cardinality(held[t]) \in Nat
               /\ Cardinality(held[t]) < MaxHeld
    <2>1. held[t] \subseteq Out
      BY <1>1
    <2>2. IsFiniteSet(held[t])
      BY <1>1, <2>1, FS_Subset
    <2>3. QED
      BY <2>2, FS_CardinalityType DEF AskersWithinLimit, Asleep
  <1>4. MaxHeld - 1 \in Nat
    BY <1>3, PoolAssumption
  <1>5. \A t \in Asleep : IsFiniteSet(held[t]) /\ Cardinality(held[t]) <= MaxHeld - 1
    BY <1>3, PoolAssumption
  <1>6. Cardinality(Out) <= Cardinality(Asleep) * (MaxHeld - 1)
    BY <1>1, <1>2, <1>4, <1>5, SharesAddUp
  <1>7. /\ Cardinality(Out) \in Nat /\ Cardinality(Asleep) \in Nat
        /\ lost \in Nat /\ PoolSize \in Nat
    BY <1>1, <1>2, FS_CardinalityType, PoolAssumption DEF PoolInvariant, TypeOK
  <1> DEFINE bound == Cardinality(Asleep) * (MaxHeld - 1)
  <1>8. bound \in Nat
    BY <1>4, <1>7
  <1>9. QED
    <2> HIDE DEF bound
    <2>1. Cardinality(Out) <= bound
      BY <1>6 DEF bound
    <2>2. PoolSize <= bound + lost
      BY <1>1, <1>7, <1>8, <2>1
    <2>3. QED
      BY <2>2 DEF bound

\* Whenever callers of popConnection sleep, either somebody awake has a
\* connection to return or is opening one, or the sleepers hold the whole pool.
THEOREM SleepersHaveProvider ==
  IsFiniteSet(Threads) => (Spec => []NoSleepInVain)
  <1> SUFFICES ASSUME IsFiniteSet(Threads) PROVE Spec => []NoSleepInVain
    OBVIOUS
  <1>1. PoolInvariant /\ CountExact /\ AskersWithinLimit => NoSleepInVain
    BY NoSleepByInvariant
  <1>2. QED
    BY <1>1, PoolInvariantHolds, CountIsExact, LimitHolds, PTL

-----------------------------------------------------------------------------
(***************************************************************************)
(* A pool with room for everybody                                          *)
(***************************************************************************)

\* createConnection throws no more often than it may.
LEMMA LostBounded == Spec => [](lost \in 0..MaxOpenFailures)
  <1> DEFINE Bounded == lost \in 0..MaxOpenFailures
  <1>1. Init => Bounded
    BY PoolAssumption DEF Init
  <1>2. Bounded /\ [Next]_vars => Bounded'
    <2> SUFFICES ASSUME Bounded, [Next]_vars PROVE Bounded'
      OBVIOUS
    <2>1. ASSUME NEW t \in Threads, CreateThrows(t) PROVE Bounded'
      BY <2>1, PoolAssumption DEF CreateThrows
    <2>2. ASSUME NEW t \in Threads,
                 \/ PopCall(t) \/ PopWait(t) \/ SpuriousWake(t) \/ PopReuse(t)
                 \/ PopSlot(t) \/ Create(t) \/ Prepare(t) \/ PushCall(t)
                 \/ Push(t) \/ SetPrepSql(t) \/ \E u \in Threads : HandOver(t, u)
          PROVE  lost' = lost
      BY <2>2 DEF PopCall, PopWait, SpuriousWake, PopReuse, PopSlot, Create,
                  Prepare, PushCall, Push, SetPrepSql, HandOver
    <2>3. CASE UNCHANGED vars
      BY <2>3 DEF vars
    <2>4. QED
      BY <2>1, <2>2, <2>3 DEF Next, PoolStep
  <1>3. QED
    BY <1>1, <1>2, PTL DEF Spec

\* If all threads together, each with one connection fewer than it may have,
\* leave a slot of the pool over, then whoever sleeps in popConnection can be
\* woken: a thread that is awake has a connection or is opening one.  With one
\* connection for each thread a single slot that is never lost is enough.
THEOREM RoomyPoolNeverStalls ==
  ASSUME IsFiniteSet(Threads), MaxHeld > 0,
         Cardinality(Threads) * (MaxHeld - 1) + MaxOpenFailures < PoolSize
  PROVE  Spec => [](Asleep # {} => Providers # {})
  <1>1. NoSleepInVain /\ lost \in 0..MaxOpenFailures
          => (Asleep # {} => Providers # {})
    <2> SUFFICES ASSUME NoSleepInVain, lost \in 0..MaxOpenFailures,
                        Asleep # {}, Providers = {}
                 PROVE  FALSE
      OBVIOUS
    <2>1. PoolSize <= Cardinality(Asleep) * (MaxHeld - 1) + lost
      BY DEF NoSleepInVain, Asleep, Providers
    <2>2. IsFiniteSet(Asleep) /\ Cardinality(Asleep) <= Cardinality(Threads)
      BY FS_Subset DEF Asleep
    <2>3. Cardinality(Asleep) \in Nat /\ Cardinality(Threads) \in Nat
      BY <2>2, FS_CardinalityType
    <2>4. MaxHeld - 1 \in Nat /\ PoolSize \in Nat /\ MaxOpenFailures \in Nat
      BY PoolAssumption
    <2>5. Cardinality(Asleep) * (MaxHeld - 1) <= Cardinality(Threads) * (MaxHeld - 1)
      BY <2>2, <2>3, <2>4
    <2>6. QED
      BY <2>1, <2>3, <2>4, <2>5
  <1>2. Spec => []NoSleepInVain
    BY SleepersHaveProvider
  <1>3. QED
    BY <1>1, <1>2, LostBounded, PTL

\* A thread has a step of its own: it is opening a connection, it is at
\* conn_mutex_ and the mutex is free, or it has a Connection to drop.  These
\* are the guards of PoolStep and PushCall.
CanGoOn(t) ==
  \/ Opening(t)
  \/ pc[t] \in {"pop", "push"} /\ mutex = NoThread
  \/ pc[t] = "idle" /\ held[t] # {}

\* A thread that is awake in a call goes on, or waits for conn_mutex_ and so
\* for a thread that does.
LEMMA AwakeCallGoesOn ==
  ASSUME TypeOK, OpenerHoldsMutex,
         NEW t \in Threads, pc[t] \in {"pop", "create", "prepare", "push"}
  PROVE  \E u \in Threads : CanGoOn(u)
  <1>1. CASE Opening(t) \/ mutex = NoThread
    BY <1>1 DEF CanGoOn, Opening
  <1>2. CASE mutex # NoThread
    <2>1. mutex \in Threads /\ Opening(mutex)
      BY <1>2 DEF TypeOK, OpenerHoldsMutex
    <2>2. QED
      BY <2>1 DEF CanGoOn
  <1>3. QED
    BY <1>1, <1>2

\* The calls of a roomy pool never wait for one another in a circle, neither
\* for conn_mutex_ nor for connections: while a thread is in a call, some
\* thread can go on.
THEOREM RoomyPoolNeverDeadlocks ==
  ASSUME IsFiniteSet(Threads), MaxHeld > 0,
         Cardinality(Threads) * (MaxHeld - 1) + MaxOpenFailures < PoolSize
  PROVE  Spec => []((\E t \in Threads : pc[t] # "idle")
                      => \E u \in Threads : CanGoOn(u))
  <1>1. PoolInvariant /\ (Asleep # {} => Providers # {})
          => ((\E t \in Threads : pc[t] # "idle") => \E u \in Threads : CanGoOn(u))
    <2> SUFFICES ASSUME PoolInvariant, Asleep # {} => Providers # {},
                        NEW t \in Threads, pc[t] # "idle"
                 PROVE  \E u \in Threads : CanGoOn(u)
      OBVIOUS
    <2>0. TypeOK /\ OpenerHoldsMutex
      BY DEF PoolInvariant
    <2>1. CASE pc[t] # "waiting"
      <3>1. pc[t] \in {"pop", "create", "prepare", "push"}
        BY <2>0, <2>1 DEF TypeOK, PcValues
      <3>2. QED
        BY <2>0, <3>1, AwakeCallGoesOn
    <2>2. CASE pc[t] = "waiting"
      <3>1. PICK u \in Providers : TRUE
        BY <2>2 DEF Asleep
      <3>2. u \in Threads /\ pc[u] # "waiting"
        BY DEF Providers, Asleep
      <3>3. CASE pc[u] = "idle"
        BY <2>0, <3>2, <3>3 DEF CanGoOn, Providers, OwnedBy, TypeOK
      <3>4. CASE pc[u] # "idle"
        <4>1. pc[u] \in {"pop", "create", "prepare", "push"}
          BY <2>0, <3>2, <3>4 DEF TypeOK, PcValues
        <4>2. QED
          BY <2>0, <3>2, <4>1, AwakeCallGoesOn
      <3>5. QED
        BY <3>3, <3>4
    <2>3. QED
      BY <2>1, <2>2
  <1>2. Spec => [](Asleep # {} => Providers # {})
    BY RoomyPoolNeverStalls
  <1>3. QED
    BY <1>1, <1>2, PoolInvariantHolds, PTL

-----------------------------------------------------------------------------
(***************************************************************************)
(* Clients with finitely many calls                                        *)
(***************************************************************************)

\* FiniteClients only restricts what clients ask for: its behaviours are
\* behaviours of the pool, so all that is proved of the pool holds of them.
THEOREM FiniteClientsUseThePool == ClientSpec => Spec
  <1>1. ClientInit => Init
    BY DEF ClientInit
  <1>2. [ClientNext]_clientVars => [Next]_vars
    <2>1. ASSUME NEW t \in Threads, GetConnection(t) \/ DropConnection(t) PROVE Next
      BY <2>1 DEF GetConnection, DropConnection, Next
    <2>2. ASSUME NEW t \in Threads, InsidePool(t) \/ SpuriousWake(t) PROVE Next
      BY <2>2 DEF InsidePool, Next
    <2>3. ASSUME NEW t \in Threads, NEW u \in Threads, HandOver(t, u) PROVE Next
      BY <2>3 DEF Next
    <2>4. CASE UNCHANGED clientVars
      BY <2>4 DEF clientVars
    <2>5. QED
      BY <2>1, <2>2, <2>3, <2>4 DEF ClientNext
  <1>3. QED
    BY <1>1, <1>2, PTL DEF ClientSpec, Spec
=============================================================================
