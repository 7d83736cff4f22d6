------------------------ MODULE ConnectionPoolProofs ------------------------
(***************************************************************************)
(* Proofs about ConnectionPoolImpl, for every set of threads, pool size    *)
(* and failure pattern.  The parts of PoolInvariant are proved in the      *)
(* order in which each needs the one before.                               *)
(***************************************************************************)
EXTENDS PoolRefinement, SequenceTheorems, FiniteSetTheorems, TLAPS

USE DEF Null, NoSql

-----------------------------------------------------------------------------
(***************************************************************************)
(* Facts about the list: what popping and pushing the front slot do        *)
(***************************************************************************)

\* A list that is popped (available_conns_.pop_front) loses its first slot.
LEMMA PopFacts ==
  ASSUME NEW s \in Seq(Nat), s # <<>>
  PROVE  /\ Head(s) = s[1]
         /\ Head(s) \in Nat
         /\ Tail(s) \in Seq(Nat)
         /\ Len(s) \in Nat \ {0}
         /\ Len(Tail(s)) = Len(s) - 1
         /\ \A i \in 1..(Len(s) - 1) : Tail(s)[i] = s[i + 1]
  BY HeadTailProperties, EmptySeq

\* A list that is pushed (available_conns_.emplace_front) gains a first slot.
LEMMA PushFacts ==
  ASSUME NEW s \in Seq(Nat), NEW c \in Nat
  PROVE  /\ <<c>> \o s \in Seq(Nat)
         /\ Len(s) \in Nat
         /\ Len(<<c>> \o s) = Len(s) + 1
         /\ (<<c>> \o s)[1] = c
         /\ \A i \in 1..Len(s) : (<<c>> \o s)[i + 1] = s[i]
  <1>1. <<c>> \in Seq(Nat) /\ Len(<<c>>) = 1 /\ <<c>>[1] = c
    OBVIOUS
  <1>2. QED
    BY <1>1, ConcatProperties, LenProperties

-----------------------------------------------------------------------------
(***************************************************************************)
(* Types                                                                   *)
(***************************************************************************)

\* The initial state is well typed.
LEMMA TypeInit == Init => TypeOK
  <1> SUFFICES ASSUME Init PROVE TypeOK
    OBVIOUS
  <1>1. available \in Seq(Nat)
    BY PoolAssumption DEF Init
  <1>2. ran \in Seq(0..Garbage) /\ Len(ran) = opened
    BY EmptySeq DEF Init
  <1>3. \A t \in Threads : hand[t] # Null <=> pc[t] \in {"prepare", "push"}
    BY DEF Init
  <1>4. pc \in [Threads -> PcValues] /\ hand \in [Threads -> Nat]
    BY DEF Init, PcValues
  <1>5. held \in [Threads -> SUBSET (Nat \ {Null})]
    BY DEF Init
  <1>6. raced \in BOOLEAN
    BY DEF Init
  <1>7. /\ mutex \in Threads \cup {NoThread}
        /\ opened \in Nat
        /\ lost \in Nat
        /\ prepSql \in 0..MaxSets
    BY PoolAssumption DEF Init
  <1>8. QED
    BY <1>1, <1>2, <1>3, <1>4, <1>5, <1>6, <1>7 DEF TypeOK

\* Every step keeps the types.
LEMMA TypeStep == TypeOK /\ [Next]_vars => TypeOK'
  <1> SUFFICES ASSUME TypeOK, [Next]_vars
               PROVE  TypeOK'
    OBVIOUS
  <1> USE DEF TypeOK, PcValues
  <1>1. ASSUME NEW t \in Threads, PopCall(t) PROVE TypeOK'
    BY <1>1 DEF PopCall
  <1>2. ASSUME NEW t \in Threads, PopWait(t) PROVE TypeOK'
    BY <1>2 DEF PopWait
  <1>3. ASSUME NEW t \in Threads, SpuriousWake(t) PROVE TypeOK'
    BY <1>3 DEF SpuriousWake
  <1>4. ASSUME NEW t \in Threads, PopReuse(t) PROVE TypeOK'
    BY <1>4, PopFacts DEF PopReuse
  <1>5. ASSUME NEW t \in Threads, PopSlot(t) PROVE TypeOK'
    BY <1>5, PopFacts DEF PopSlot
  <1>6. ASSUME NEW t \in Threads, Create(t) PROVE TypeOK'
    <2>1. NoSql \in 0..Garbage
      BY PoolAssumption DEF Garbage
    <2>2. ran' \in Seq(0..Garbage) /\ Len(ran') = opened'
      BY <1>6, <2>1, AppendProperties DEF Create
    <2>3. QED
      BY <1>6, <2>2 DEF Create
  <1>7. ASSUME NEW t \in Threads, CreateThrows(t) PROVE TypeOK'
    BY <1>7 DEF CreateThrows
  <1>8. ASSUME NEW t \in Threads, Prepare(t) PROVE TypeOK'
    <2>1. PICK text \in PrepOutcomes : ran' = [ran EXCEPT ![hand[t]] = text]
      BY <1>8 DEF Prepare
    <2>2. text \in 0..Garbage
      BY <2>1, PoolAssumption DEF PrepOutcomes, Garbage
    <2>3. ran' \in Seq(0..Garbage) /\ Len(ran') = Len(ran)
      <3>1. CASE hand[t] \in 1..Len(ran)
        BY <2>1, <2>2, <3>1, ExceptSeq
      <3>2. CASE hand[t] \notin 1..Len(ran)
        <4>1. /\ ran = [j \in 1..Len(ran) |-> ran[j]]
              /\ ran' = [j \in 1..Len(ran) |-> ran[j]]
          BY <2>1, <3>2, LenProperties
        <4>2. QED
          BY <4>1
      <3>3. QED
        BY <3>1, <3>2
    <2>4. raced' \in BOOLEAN
      BY <1>8 DEF Prepare
    <2>5. held' \in [Threads -> SUBSET (Nat \ {Null})]
      BY <1>8 DEF Prepare
    <2>6. QED
      BY <1>8, <2>3, <2>4, <2>5 DEF Prepare
  <1>9. ASSUME NEW t \in Threads, PushCall(t) PROVE TypeOK'
    BY <1>9 DEF PushCall
  <1>10. ASSUME NEW t \in Threads, Push(t) PROVE TypeOK'
    BY <1>10, PushFacts DEF Push, Notified
  <1>11. ASSUME NEW t \in Threads, SetPrepSql(t) PROVE TypeOK'
    BY <1>11, PoolAssumption DEF SetPrepSql
  <1>12. ASSUME NEW t \in Threads, NEW u \in Threads, HandOver(t, u) PROVE TypeOK'
    <2>1. PICK c \in held[t] :
            held' = [held EXCEPT ![t] = @ \ {c}, ![u] = @ \cup {c}]
      BY <1>12 DEF HandOver
    <2>2. held' \in [Threads -> SUBSET (Nat \ {Null})]
      BY <2>1
    <2>3. QED
      BY <1>12, <2>2 DEF HandOver
  <1>13. CASE UNCHANGED vars
    BY <1>13 DEF vars
  <1>14. QED
    BY <1>1, <1>2, <1>3, <1>4, <1>5, <1>6, <1>7, <1>8, <1>9, <1>10, <1>11,
       <1>12, <1>13 DEF Next, PoolStep

\* The variables keep their types, and a local "conn" of the pool's code holds
\* a connection exactly while one is opened or returned.
THEOREM TypeCorrect == Spec => []TypeOK
  BY TypeInit, TypeStep, PTL DEF Spec

-----------------------------------------------------------------------------
(***************************************************************************)
(* conn_mutex_ and conn_cv_                                                *)
(***************************************************************************)

\* No step takes the mutex from an opener.
LEMMA LockStep ==
  TypeOK /\ OpenerHoldsMutex /\ [Next]_vars => OpenerHoldsMutex'
  <1> SUFFICES ASSUME TypeOK, OpenerHoldsMutex, [Next]_vars
               PROVE  OpenerHoldsMutex'
    OBVIOUS
  <1> USE PoolAssumption DEF TypeOK, OpenerHoldsMutex, Opening
  <1>1. ASSUME NEW t \in Threads, PopCall(t) PROVE OpenerHoldsMutex'
    BY <1>1 DEF PopCall
  <1>2. ASSUME NEW t \in Threads, PopWait(t) PROVE OpenerHoldsMutex'
    BY <1>2 DEF PopWait
  <1>3. ASSUME NEW t \in Threads, SpuriousWake(t) PROVE OpenerHoldsMutex'
    BY <1>3 DEF SpuriousWake
  <1>4. ASSUME NEW t \in Threads, PopReuse(t) PROVE OpenerHoldsMutex'
    BY <1>4 DEF PopReuse
  <1>5. ASSUME NEW t \in Threads, PopSlot(t) PROVE OpenerHoldsMutex'
    BY <1>5 DEF PopSlot
  <1>6. ASSUME NEW t \in Threads, Create(t) PROVE OpenerHoldsMutex'
    BY <1>6 DEF Create
  <1>7. ASSUME NEW t \in Threads, CreateThrows(t) PROVE OpenerHoldsMutex'
    BY <1>7 DEF CreateThrows
  <1>8. ASSUME NEW t \in Threads, Prepare(t) PROVE OpenerHoldsMutex'
    BY <1>8 DEF Prepare
  <1>9. ASSUME NEW t \in Threads, PushCall(t) PROVE OpenerHoldsMutex'
    BY <1>9 DEF PushCall
  <1>10. ASSUME NEW t \in Threads, Push(t) PROVE OpenerHoldsMutex'
    BY <1>10 DEF Push, Notified
  <1>11. ASSUME NEW t \in Threads, SetPrepSql(t) PROVE OpenerHoldsMutex'
    BY <1>11 DEF SetPrepSql
  <1>12. ASSUME NEW t \in Threads, NEW u \in Threads, HandOver(t, u)
         PROVE  OpenerHoldsMutex'
    BY <1>12 DEF HandOver
  <1>13. CASE UNCHANGED vars
    BY <1>13 DEF vars
  <1>14. QED
    BY <1>1, <1>2, <1>3, <1>4, <1>5, <1>6, <1>7, <1>8, <1>9, <1>10, <1>11,
       <1>12, <1>13 DEF Next, PoolStep

\* Between two steps only the thread that opens a connection has conn_mutex_.
THEOREM OpeningIsExclusive == Spec => []OpenerHoldsMutex
  <1>1. Init => OpenerHoldsMutex
    BY PoolAssumption DEF Init, OpenerHoldsMutex, Opening
  <1>2. QED
    BY <1>1, LockStep, TypeCorrect, PTL DEF Spec

\* A push that leaves a slot wakes a sleeper, so none sleeps with a slot to give.
LEMMA SleeperStep ==
  TypeOK /\ NoSleeperWithIdle /\ [Next]_vars => NoSleeperWithIdle'
  <1> SUFFICES ASSUME TypeOK, NoSleeperWithIdle, [Next]_vars
               PROVE  NoSleeperWithIdle'
    OBVIOUS
  <1> USE DEF TypeOK, NoSleeperWithIdle
  <1>1. ASSUME NEW t \in Threads, PopWait(t) PROVE NoSleeperWithIdle'
    BY <1>1 DEF PopWait
  <1>2. ASSUME NEW t \in Threads, PopReuse(t) \/ PopSlot(t)
        PROVE  NoSleeperWithIdle'
    \* The list was not empty, so nobody was asleep.
    BY <1>2 DEF PopReuse, PopSlot
  <1>3. ASSUME NEW t \in Threads, Push(t) PROVE NoSleeperWithIdle'
    \* notify_all leaves nobody asleep.
    BY <1>3 DEF Push, Notified
  <1>4. ASSUME NEW t \in Threads,
               \/ PopCall(t) \/ SpuriousWake(t) \/ Create(t) \/ CreateThrows(t)
               \/ Prepare(t) \/ PushCall(t) \/ SetPrepSql(t)
               \/ \E u \in Threads : HandOver(t, u)
        PROVE  NoSleeperWithIdle'
    BY <1>4 DEF PopCall, SpuriousWake, Create, CreateThrows, Prepare, PushCall,
                SetPrepSql, HandOver
  <1>5. CASE UNCHANGED vars
    BY <1>5 DEF vars
  <1>6. QED
    BY <1>1, <1>2, <1>3, <1>4, <1>5 DEF Next, PoolStep

\* No wake-up is lost: a thread that sleeps in popConnection has nothing to
\* take.
THEOREM NoLostWakeUp == Spec => []NoSleeperWithIdle
  <1>1. Init => NoSleeperWithIdle
    BY DEF Init, NoSleeperWithIdle
  <1>2. QED
    BY <1>1, SleeperStep, TypeCorrect, PTL DEF Spec

-----------------------------------------------------------------------------
(***************************************************************************)
(* prep_sql_                                                               *)
(***************************************************************************)

\* PrepInOrder is inductive once it is known that the connection a thread is
\* preparing is the youngest and that prep_sql_ stands still meanwhile.
PrepOrdered ==
  /\ raced = FALSE
  /\ \A t \in Threads : pc[t] = "prepare" => hand[t] = opened
  /\ PrepInOrder

\* A new pool has prepared nothing.
LEMMA PrepInit == Init => PrepOrdered
  BY DEF Init, PrepOrdered, PrepInOrder

\* A connection runs the text of its time, and texts only get younger.
LEMMA PrepStep ==
  ASSUME ~PrepMayFail, ~PrepMayRace,
         TypeOK, OpenerHoldsMutex, PrepOrdered, [Next]_vars
  PROVE  PrepOrdered'
  <1> USE PoolAssumption DEF PrepOrdered, OpenerHoldsMutex, Opening
  <1>a. /\ opened \in Nat /\ prepSql \in Nat
        /\ \A c \in 1..opened : ran[c] \in Nat /\ ran[c] <= prepSql
        /\ DOMAIN ran = 1..opened
    BY LenProperties DEF TypeOK, PrepInOrder, Garbage
  <1>b. ASSUME UNCHANGED <<opened, ran, prepSql, raced>>,
               \A u \in Threads : pc'[u] = "prepare" <=> pc[u] = "prepare",
               \A u \in Threads : pc[u] = "prepare" => hand'[u] = hand[u]
        PROVE  PrepOrdered'
    BY <1>b DEF PrepInOrder
  <1>1. ASSUME NEW t \in Threads, Create(t) PROVE PrepOrdered'
    \* Nobody else prepares a connection, and the new one is the youngest.
    <2>1. \A u \in Threads : pc[u] # "prepare"
      BY <1>1 DEF Create, TypeOK
    <2>2. /\ opened' = opened + 1
          /\ ran'[opened + 1] = NoSql
          /\ \A c \in 1..opened : ran'[c] = ran[c]
      BY <1>1, AppendProperties DEF Create, TypeOK
    <2>3. \A u \in Threads : pc'[u] = "prepare" <=> u = t
      BY <1>1, <2>1 DEF Create, TypeOK
    <2>4. hand'[t] = opened' /\ prepSql' = prepSql /\ raced' = FALSE
      BY <1>1, <2>2 DEF Create, TypeOK
    <2>5. \A c, d \in 1..opened : c < d => ran[c] <= ran[d]
      BY <2>1 DEF PrepInOrder
    <2>6. PrepInOrder'
      BY <1>a, <2>2, <2>3, <2>4, <2>5 DEF PrepInOrder
    <2>7. QED
      BY <2>3, <2>4, <2>6
  <1>2. ASSUME NEW t \in Threads, Prepare(t) PROVE PrepOrdered'
    \* The youngest connection gets the current text, which is the latest.
    <2>1. hand[t] = opened /\ opened # 0
      BY <1>2 DEF Prepare, TypeOK
    <2>2. ran' = [ran EXCEPT ![opened] = prepSql]
      BY <1>2, <2>1 DEF Prepare, PrepOutcomes
    <2>3. \A c \in 1..opened : ran'[c] = IF c = opened THEN prepSql ELSE ran[c]
      BY <1>a, <2>2
    <2>4. \A u \in Threads : u # t => pc[u] # "prepare"
      BY <1>2 DEF Prepare, TypeOK
    <2>5. \A u \in Threads : pc'[u] # "prepare"
      BY <1>2, <2>4 DEF Prepare, TypeOK
    <2>6. \A c, d \in 1..opened : c < d /\ d # opened => ran[c] <= ran[d]
      BY <2>1, <2>4 DEF PrepInOrder
    <2>7. UNCHANGED <<opened, prepSql>> /\ raced' = FALSE
      BY <1>2 DEF Prepare
    <2>8. PrepInOrder'
      BY <1>a, <2>3, <2>5, <2>6, <2>7 DEF PrepInOrder
    <2>9. QED
      BY <2>5, <2>7, <2>8
  <1>3. ASSUME NEW t \in Threads, SetPrepSql(t) PROVE PrepOrdered'
    <2>1. \A u \in Threads : pc[u] # "prepare"
      BY <1>3 DEF SetPrepSql
    <2>2. raced' = FALSE /\ prepSql' = prepSql + 1 /\ UNCHANGED <<pc, opened, ran>>
      BY <1>3, <2>1 DEF SetPrepSql
    <2>3. \A c \in 1..opened : ran[c] <= prepSql + 1
      BY <1>a
    <2>4. QED
      BY <2>1, <2>2, <2>3 DEF PrepInOrder
  <1>4. ASSUME NEW t \in Threads,
               \/ PopCall(t) \/ PopWait(t) \/ SpuriousWake(t) \/ PopReuse(t)
               \/ PopSlot(t) \/ CreateThrows(t)
        PROVE  PrepOrdered'
    BY <1>4, <1>b DEF PopCall, PopWait, SpuriousWake, PopReuse, PopSlot,
                      CreateThrows, TypeOK
  <1>5. ASSUME NEW t \in Threads,
               PushCall(t) \/ Push(t) \/ \E u \in Threads : HandOver(t, u)
        PROVE  PrepOrdered'
    BY <1>5, <1>b DEF PushCall, Push, Notified, HandOver, TypeOK
  <1>6. CASE UNCHANGED vars
    BY <1>6, <1>b DEF vars
  <1>7. QED
    BY <1>1, <1>2, <1>3, <1>4, <1>5, <1>6 DEF Next, PoolStep

\* Unless SQLite refuses a text or setPrepSql races with an opening, younger
\* connections never miss a text that older ones have run.
THEOREM PrepOrderKept == ~PrepMayFail /\ ~PrepMayRace => (Spec => []PrepInOrder)
  <1> SUFFICES ASSUME ~PrepMayFail, ~PrepMayRace PROVE Spec => []PrepInOrder
    OBVIOUS
  <1>1. TypeOK /\ OpenerHoldsMutex /\ PrepOrdered /\ [Next]_vars => PrepOrdered'
    BY PrepStep
  <1>2. PrepOrdered => PrepInOrder
    BY DEF PrepOrdered
  <1>3. QED
    BY <1>1, <1>2, PrepInit, TypeCorrect, OpeningIsExclusive, PTL DEF Spec

\* The texts that did run, in the order of the connections: a failed
\* preparation leaves a gap, NoSql, and no more.
TextsInOrder ==
  \A c, d \in 1..opened :
    /\ c < d /\ ran[d] # NoSql => ran[c] <= ran[d]
    /\ ran[d] <= prepSql

\* TextsInOrder with what it needs of a thread that prepares a connection.
TextsOrdered ==
  /\ raced = FALSE
  /\ \A t \in Threads : pc[t] = "prepare" => hand[t] = opened
  /\ TextsInOrder

\* A connection runs the text of its time or none.
LEMMA TextsStep ==
  ASSUME ~PrepMayRace, TypeOK, OpenerHoldsMutex, TextsOrdered, [Next]_vars
  PROVE  TextsOrdered'
  <1> USE PoolAssumption DEF TextsOrdered, OpenerHoldsMutex, Opening
  <1>a. /\ opened \in Nat /\ prepSql \in Nat
        /\ \A c \in 1..opened : ran[c] \in Nat /\ ran[c] <= prepSql
        /\ DOMAIN ran = 1..opened
    BY LenProperties DEF TypeOK, TextsInOrder, Garbage
  <1>b. ASSUME UNCHANGED <<opened, ran, prepSql, raced>>,
               \A u \in Threads : pc'[u] = "prepare" <=> pc[u] = "prepare",
               \A u \in Threads : pc[u] = "prepare" => hand'[u] = hand[u]
        PROVE  TextsOrdered'
    BY <1>b DEF TextsInOrder
  <1>1. ASSUME NEW t \in Threads, Create(t) PROVE TextsOrdered'
    <2>1. /\ opened' = opened + 1
          /\ ran'[opened + 1] = NoSql
          /\ \A c \in 1..opened : ran'[c] = ran[c]
      BY <1>1, AppendProperties DEF Create, TypeOK
    <2>2. \A u \in Threads : pc'[u] = "prepare" => hand'[u] = opened'
      BY <1>1, <2>1 DEF Create, TypeOK
    <2>3. prepSql' = prepSql /\ raced' = FALSE
      BY <1>1 DEF Create
    <2>4. TextsInOrder'
      BY <1>a, <2>1, <2>3 DEF TextsInOrder
    <2>5. QED
      BY <2>2, <2>3, <2>4
  <1>2. ASSUME NEW t \in Threads, Prepare(t) PROVE TextsOrdered'
    <2>1. hand[t] = opened /\ opened # 0
      BY <1>2 DEF Prepare, TypeOK
    <2>2. PICK text \in {prepSql, NoSql} : ran' = [ran EXCEPT ![opened] = text]
      BY <1>2, <2>1 DEF Prepare, PrepOutcomes
    <2>3. \A c \in 1..opened : ran'[c] = IF c = opened THEN text ELSE ran[c]
      BY <1>a, <2>2
    <2>4. \A u \in Threads : pc'[u] # "prepare"
      BY <1>2 DEF Prepare, TypeOK
    <2>5. UNCHANGED <<opened, prepSql>> /\ raced' = FALSE
      BY <1>2 DEF Prepare
    <2>6. TextsInOrder'
      BY <1>a, <2>3, <2>5 DEF TextsInOrder
    <2>7. QED
      BY <2>4, <2>5, <2>6
  <1>3. ASSUME NEW t \in Threads, SetPrepSql(t) PROVE TextsOrdered'
    <2>1. raced' = FALSE /\ prepSql' = prepSql + 1 /\ UNCHANGED <<pc, hand, opened, ran>>
      BY <1>3 DEF SetPrepSql
    <2>2. \A c \in 1..opened : ran[c] <= prepSql + 1
      BY <1>a
    <2>3. QED
      BY <2>1, <2>2 DEF TextsInOrder
  <1>4. ASSUME NEW t \in Threads,
               \/ PopCall(t) \/ PopWait(t) \/ SpuriousWake(t) \/ PopReuse(t)
               \/ PopSlot(t) \/ CreateThrows(t)
        PROVE  TextsOrdered'
    BY <1>4, <1>b DEF PopCall, PopWait, SpuriousWake, PopReuse, PopSlot,
                      CreateThrows, TypeOK
  <1>5. ASSUME NEW t \in Threads,
               PushCall(t) \/ Push(t) \/ \E u \in Threads : HandOver(t, u)
        PROVE  TextsOrdered'
    BY <1>5, <1>b DEF PushCall, Push, Notified, HandOver, TypeOK
  <1>6. CASE UNCHANGED vars
    BY <1>6, <1>b DEF vars
  <1>7. QED
    BY <1>1, <1>2, <1>3, <1>4, <1>5, <1>6 DEF Next, PoolStep

\* A failed preparation can leave a connection without a text, which is
\* where PrepInOrder breaks (src/impl/ConnectionPoolImpl.cpp:63), but never
\* with an older text than an older connection ran.
THEOREM FailuresOnlyOmit == ~PrepMayRace => (Spec => []TextsInOrder)
  <1> SUFFICES ASSUME ~PrepMayRace PROVE Spec => []TextsInOrder
    OBVIOUS
  <1>1. Init => TextsOrdered
    BY DEF Init, TextsOrdered, TextsInOrder
  <1>2. TypeOK /\ OpenerHoldsMutex /\ TextsOrdered /\ [Next]_vars => TextsOrdered'
    BY TextsStep
  <1>3. TextsOrdered => TextsInOrder
    BY DEF TextsOrdered
  <1>4. QED
    BY <1>1, <1>2, <1>3, TypeCorrect, OpeningIsExclusive, PTL DEF Spec
=============================================================================
