----------------------------- MODULE SlotProofs -----------------------------
(***************************************************************************)
(* Proofs about who owns a connection and what becomes of the slots of     *)
(* available_conns_.  First what popping and pushing the front slot do to  *)
(* the connections of a list, then what each action of the pool does to    *)
(* Idle and OwnedBy; the invariants and the refinement of BoundedPool are  *)
(* proved from those effects.                                              *)
(***************************************************************************)
EXTENDS ConnectionPoolProofs

USE DEF Null, NoSql

-----------------------------------------------------------------------------
(***************************************************************************)
(* The connections of a list                                               *)
(***************************************************************************)

\* Membership in OpenIn by position.
LEMMA OpenInByIndex ==
  ASSUME NEW s \in Seq(Nat), NEW c
  PROVE  c \in OpenIn(s) <=> \E i \in 1..Len(s) : s[i] = c /\ c # Null
  BY LenProperties DEF OpenIn

\* NoDuplicate with the domain spelt out.
LEMMA NoDuplicateByIndex ==
  ASSUME NEW s \in Seq(Nat)
  PROVE  NoDuplicate(s) <=>
           \A i, j \in 1..Len(s) : s[i] = s[j] /\ s[i] # Null => i = j
  BY LenProperties DEF NoDuplicate

\* available_conns_.pop_front takes the front connection out and no other.
LEMMA PopOpen ==
  ASSUME NEW s \in Seq(Nat), s # <<>>, NoDuplicate(s)
  PROVE  /\ NoDuplicate(Tail(s))
         /\ OpenIn(Tail(s)) = OpenIn(s) \ {Head(s)}
         /\ Head(s) # Null => Head(s) \in OpenIn(s)
  <1>1. \A i, j \in 1..Len(s) : s[i] = s[j] /\ s[i] # Null => i = j
    BY NoDuplicateByIndex
  <1>2. NoDuplicate(Tail(s))
    <2>1. \A i \in 1..Len(Tail(s)) : i + 1 \in 1..Len(s) /\ Tail(s)[i] = s[i + 1]
      BY PopFacts
    <2>2. \A i, j \in 1..Len(Tail(s)) :
            Tail(s)[i] = Tail(s)[j] /\ Tail(s)[i] # Null => i = j
      <3>1. TAKE i, j \in 1..Len(Tail(s))
      <3>2. HAVE Tail(s)[i] = Tail(s)[j] /\ Tail(s)[i] # Null
      <3>3. i + 1 = j + 1
        BY <1>1, <2>1, <3>2
      <3>4. QED
        BY <3>3
    <2>3. QED
      BY <2>2, PopFacts, NoDuplicateByIndex
  <1>3. ASSUME NEW c \in OpenIn(Tail(s)) PROVE c \in OpenIn(s) \ {Head(s)}
    <2>1. PICK i \in 1..Len(Tail(s)) : Tail(s)[i] = c /\ c # Null
      BY PopFacts, OpenInByIndex
    <2>2. i + 1 \in 1..Len(s) /\ s[i + 1] = c /\ i + 1 # 1
      BY <2>1, PopFacts
    <2>3. 1 \in 1..Len(s)
      BY PopFacts
    <2>4. c # s[1]
      BY <1>1, <2>1, <2>2, <2>3
    <2>5. QED
      BY <2>1, <2>2, <2>4, PopFacts, OpenInByIndex
  <1>4. ASSUME NEW c \in OpenIn(s) \ {Head(s)} PROVE c \in OpenIn(Tail(s))
    <2>1. PICK i \in 1..Len(s) : s[i] = c /\ c # Null
      BY OpenInByIndex
    <2>2. i # 1
      BY <2>1, PopFacts
    <2>3. i - 1 \in 1..Len(Tail(s)) /\ Tail(s)[i - 1] = c
      BY <2>1, <2>2, PopFacts
    <2>4. QED
      BY <2>1, <2>3, PopFacts, OpenInByIndex
  <1>5. Head(s) # Null => Head(s) \in OpenIn(s)
    BY PopFacts, OpenInByIndex
  <1>6. QED
    BY <1>2, <1>3, <1>4, <1>5

\* available_conns_.emplace_front adds the connection and no other.
LEMMA PushOpen ==
  ASSUME NEW s \in Seq(Nat), NEW c \in Nat \ {Null},
         NoDuplicate(s), c \notin OpenIn(s)
  PROVE  /\ NoDuplicate(<<c>> \o s)
         /\ OpenIn(<<c>> \o s) = OpenIn(s) \cup {c}
  <1> DEFINE p == <<c>> \o s
  <1> HIDE DEF p
  <1>1. /\ p \in Seq(Nat)
        /\ Len(s) \in Nat
        /\ Len(p) = Len(s) + 1
        /\ p[1] = c
        /\ \A i \in 1..Len(s) : p[i + 1] = s[i]
    BY PushFacts DEF p
  <1>2. \A i \in 1..Len(p) : i = 1 \/ (i - 1 \in 1..Len(s) /\ p[i] = s[i - 1])
    <2>1. ASSUME NEW i \in 1..Len(p), i # 1
          PROVE  i - 1 \in 1..Len(s) /\ p[i] = s[i - 1]
      <3>1. i - 1 \in 1..Len(s) /\ (i - 1) + 1 = i
        BY <1>1, <2>1
      <3>2. QED
        BY <1>1, <3>1
    <2>2. QED
      BY <2>1
  <1>3. \A i \in 1..Len(s) : s[i] # c
    BY OpenInByIndex
  <1>4. NoDuplicate(p)
    <2>1. \A i, j \in 1..Len(p) : p[i] = p[j] /\ p[i] # Null => i = j
      <3>1. TAKE i, j \in 1..Len(p)
      <3>2. HAVE p[i] = p[j] /\ p[i] # Null
      <3>3. CASE i = 1 \/ j = 1
        BY <1>1, <1>2, <1>3, <3>2, <3>3
      <3>4. CASE i # 1 /\ j # 1
        <4>1. /\ i - 1 \in 1..Len(s) /\ p[i] = s[i - 1]
              /\ j - 1 \in 1..Len(s) /\ p[j] = s[j - 1]
          BY <1>2, <3>4
        <4>2. i - 1 = j - 1
          BY <3>2, <4>1, NoDuplicateByIndex
        <4>3. QED
          BY <4>2
      <3>5. QED
        BY <3>3, <3>4
    <2>2. QED
      BY <1>1, <2>1, NoDuplicateByIndex
  <1>5. ASSUME NEW d PROVE d \in OpenIn(p) <=> d \in OpenIn(s) \cup {c}
    <2>1. d \in OpenIn(p) <=> \E i \in 1..Len(p) : p[i] = d /\ d # Null
      BY <1>1, OpenInByIndex
    <2>2. d \in OpenIn(s) <=> \E i \in 1..Len(s) : s[i] = d /\ d # Null
      BY OpenInByIndex
    <2>3. ASSUME NEW i \in 1..Len(s) PROVE i + 1 \in 1..Len(p) /\ p[i + 1] = s[i]
      BY <1>1
    <2>4. 1 \in 1..Len(p)
      BY <1>1
    <2>5. QED
      BY <1>1, <1>2, <2>1, <2>2, <2>3, <2>4
  <1>6. QED
    BY <1>4, <1>5 DEF p

-----------------------------------------------------------------------------
(***************************************************************************)
(* What each action does to Idle and OwnedBy                               *)
(***************************************************************************)

\* popConnection hands the front connection to its caller.
LEMMA ReuseEffect ==
  ASSUME TypeOK, Exclusive, NEW t \in Threads, PopReuse(t)
  PROVE  /\ Head(available) \in Idle
         /\ Idle' = Idle \ {Head(available)}
         /\ \A u \in Threads : OwnedBy(u)' =
              IF u = t THEN OwnedBy(u) \cup {Head(available)} ELSE OwnedBy(u)
         /\ opened' = opened
         /\ NoDuplicate(available')
         /\ \A u \in Threads : hand'[u] \notin held'[u]
  <1> USE DEF TypeOK, Exclusive, PopReuse
  <1>1. /\ NoDuplicate(available')
        /\ Head(available) \in Idle
        /\ Idle' = Idle \ {Head(available)}
    BY PopOpen DEF Idle
  <1>2. ASSUME NEW u \in Threads
        PROVE  OwnedBy(u)' =
                 IF u = t THEN OwnedBy(u) \cup {Head(available)} ELSE OwnedBy(u)
    BY DEF OwnedBy
  <1>3. ASSUME NEW u \in Threads PROVE hand'[u] \notin held'[u]
    OBVIOUS
  <1>4. QED
    BY <1>1, <1>2, <1>3

\* popConnection takes an empty slot out of the list.
LEMMA SlotEffect ==
  ASSUME TypeOK, Exclusive, NEW t \in Threads, PopSlot(t)
  PROVE  /\ Idle' = Idle
         /\ \A u \in Threads : OwnedBy(u)' = OwnedBy(u)
         /\ opened' = opened
         /\ NoDuplicate(available')
         /\ \A u \in Threads : hand'[u] \notin held'[u]
  <1> USE DEF TypeOK, Exclusive, PopSlot
  <1>1. NoDuplicate(available') /\ Idle' = Idle \ {Null}
    BY PopOpen DEF Idle
  <1>2. QED
    BY <1>1 DEF OwnedBy, Idle, OpenIn

\* createConnection puts a connection nobody has seen before in the caller's
\* local "conn".
LEMMA CreateEffect ==
  ASSUME TypeOK, Exclusive, NoConnectionLost, NEW t \in Threads, Create(t)
  PROVE  /\ Idle' = Idle
         /\ opened' = opened + 1
         /\ opened + 1 \notin Idle \cup Out
         /\ \A u \in Threads : OwnedBy(u)' =
              IF u = t THEN OwnedBy(u) \cup {opened + 1} ELSE OwnedBy(u)
         /\ NoDuplicate(available')
         /\ \A u \in Threads : hand'[u] \notin held'[u]
  <1> USE DEF TypeOK, Exclusive, Create
  <1>1. opened + 1 \notin Idle \cup Out
    BY DEF NoConnectionLost
  <1>2. hand[t] = Null /\ opened + 1 # Null
    OBVIOUS
  <1>3. ASSUME NEW u \in Threads
        PROVE  OwnedBy(u)' =
                 IF u = t THEN OwnedBy(u) \cup {opened + 1} ELSE OwnedBy(u)
    BY <1>2 DEF OwnedBy
  <1>4. opened + 1 \notin held[t]
    BY <1>1 DEF Out, OwnedBy
  <1>5. ASSUME NEW u \in Threads PROVE hand'[u] \notin held'[u]
    BY <1>4
  <1>6. QED
    BY <1>1, <1>3, <1>5 DEF Idle

\* pushConnection moves the connection from the local "conn" to the list.
LEMMA PushEffect ==
  ASSUME TypeOK, Exclusive, NEW t \in Threads, Push(t)
  PROVE  /\ hand[t] \in OwnedBy(t)
         /\ Idle' = Idle \cup {hand[t]}
         /\ \A u \in Threads : OwnedBy(u)' =
              IF u = t THEN OwnedBy(u) \ {hand[t]} ELSE OwnedBy(u)
         /\ opened' = opened
         /\ NoDuplicate(available')
         /\ \A u \in Threads : hand'[u] \notin held'[u]
  <1> USE DEF TypeOK, Exclusive, Push
  <1>1. hand[t] \in Nat \ {Null} /\ hand[t] \in OwnedBy(t)
    BY DEF OwnedBy
  <1>2. hand[t] \notin Idle
    BY <1>1 DEF Out
  <1>3. NoDuplicate(available') /\ Idle' = Idle \cup {hand[t]}
    BY <1>1, <1>2, PushOpen DEF Idle
  <1>4. ASSUME NEW u \in Threads
        PROVE  OwnedBy(u)' =
                 IF u = t THEN OwnedBy(u) \ {hand[t]} ELSE OwnedBy(u)
    BY <1>1 DEF OwnedBy
  <1>5. ASSUME NEW u \in Threads PROVE hand'[u] \notin held'[u]
    OBVIOUS
  <1>6. QED
    BY <1>1, <1>3, <1>4, <1>5

\* The other steps of a thread move no connection out of its owner's hands.
LEMMA QuietEffect ==
  ASSUME TypeOK, Exclusive, NEW t \in Threads,
         \/ PopCall(t) \/ PopWait(t) \/ SpuriousWake(t) \/ CreateThrows(t)
         \/ Prepare(t) \/ PushCall(t) \/ SetPrepSql(t)
  PROVE  /\ Idle' = Idle
         /\ \A u \in Threads : OwnedBy(u)' = OwnedBy(u)
         /\ opened' = opened
         /\ NoDuplicate(available')
         /\ \A u \in Threads : hand'[u] \notin held'[u]
  <1> USE DEF TypeOK, Exclusive, Idle, OwnedBy
  <1>1. CASE PopCall(t) \/ PopWait(t) \/ SpuriousWake(t) \/ CreateThrows(t)
             \/ SetPrepSql(t)
    BY <1>1 DEF PopCall, PopWait, SpuriousWake, CreateThrows, SetPrepSql
  <1>2. CASE Prepare(t)
    BY <1>2 DEF Prepare
  <1>3. CASE PushCall(t)
    BY <1>3 DEF PushCall
  <1>4. QED
    BY <1>1, <1>2, <1>3

\* A thread moves one of its connections to another thread.
LEMMA HandOverEffect ==
  ASSUME TypeOK, Exclusive, NEW t \in Threads, NEW u \in Threads, HandOver(t, u)
  PROVE  /\ Idle' = Idle
         /\ t # u
         /\ \E c \in OwnedBy(t) : \A v \in Threads :
              OwnedBy(v)' = IF v = t THEN OwnedBy(v) \ {c}
                            ELSE IF v = u THEN OwnedBy(v) \cup {c} ELSE OwnedBy(v)
         /\ opened' = opened
         /\ NoDuplicate(available')
         /\ \A v \in Threads : hand'[v] \notin held'[v]
  <1> USE DEF TypeOK, Exclusive, HandOver
  <1>1. PICK c \in held[t] :
          held' = [held EXCEPT ![t] = @ \ {c}, ![u] = @ \cup {c}]
    OBVIOUS
  <1>2. hand[t] = Null /\ hand[u] = Null /\ c # Null /\ c \in OwnedBy(t)
    BY <1>1 DEF OwnedBy
  <1>3. ASSUME NEW v \in Threads
        PROVE  OwnedBy(v)' = IF v = t THEN OwnedBy(v) \ {c}
                             ELSE IF v = u THEN OwnedBy(v) \cup {c} ELSE OwnedBy(v)
    BY <1>1, <1>2 DEF OwnedBy
  <1>4. ASSUME NEW v \in Threads PROVE hand'[v] \notin held'[v]
    BY <1>1, <1>2
  <1>5. QED
    BY <1>2, <1>3, <1>4 DEF Idle

-----------------------------------------------------------------------------
(***************************************************************************)
(* Ownership                                                               *)
(***************************************************************************)

\* The two ownership properties are inductive together: a new connection is
\* exclusive because those opened before are all accounted for.
Ownership == Exclusive /\ NoConnectionLost

\* A new pool has opened nothing.
LEMMA OwnershipInit == Init => Ownership
  <1> SUFFICES ASSUME Init PROVE Ownership
    OBVIOUS
  <1>1. \A i \in DOMAIN available : available[i] = Null
    BY DEF Init
  <1>2. Idle = {}
    BY <1>1 DEF Idle, OpenIn
  <1>3. \A t \in Threads : OwnedBy(t) = {} /\ hand[t] \notin held[t]
    BY DEF Init, OwnedBy
  <1>4. Out = {} /\ 1..opened = {}
    BY <1>3 DEF Out, Init
  <1>5. QED
    BY <1>1, <1>2, <1>3, <1>4 DEF Ownership, Exclusive, NoConnectionLost, NoDuplicate

\* No step gives a connection a second place or none.
LEMMA OwnershipStep == TypeOK /\ Ownership /\ [Next]_vars => Ownership'
  <1> SUFFICES ASSUME TypeOK, Ownership, [Next]_vars
               PROVE  Ownership'
    OBVIOUS
  <1>0. TypeOK /\ Exclusive /\ NoConnectionLost
    BY DEF Ownership
  <1> USE DEF Ownership, Exclusive, NoConnectionLost, Out
  <1>1. ASSUME NEW t \in Threads, PopReuse(t) PROVE Ownership'
    BY <1>0, <1>1, ReuseEffect
  <1>2. ASSUME NEW t \in Threads, PopSlot(t) PROVE Ownership'
    BY <1>0, <1>2, SlotEffect
  <1>3. ASSUME NEW t \in Threads, Create(t) PROVE Ownership'
    <2>1. 1..(opened + 1) = 1..opened \cup {opened + 1}
      BY <1>0 DEF TypeOK
    <2>2. QED
      BY <1>0, <1>3, <2>1, CreateEffect
  <1>4. ASSUME NEW t \in Threads, Push(t) PROVE Ownership'
    BY <1>0, <1>4, PushEffect
  <1>5. ASSUME NEW t \in Threads,
               \/ PopCall(t) \/ PopWait(t) \/ SpuriousWake(t) \/ CreateThrows(t)
               \/ Prepare(t) \/ PushCall(t) \/ SetPrepSql(t)
        PROVE  Ownership'
    BY <1>0, <1>5, QuietEffect
  <1>6. ASSUME NEW t \in Threads, NEW u \in Threads, HandOver(t, u)
        PROVE  Ownership'
    BY <1>0, <1>6, HandOverEffect
  <1>7. CASE UNCHANGED vars
    BY <1>7 DEF vars, Idle, OwnedBy
  <1>8. QED
    BY <1>1, <1>2, <1>3, <1>4, <1>5, <1>6, <1>7 DEF Next, PoolStep

\* Every connection the pool opened is in one place: no two threads, and no
\* thread and the list, ever have the same one, and none is forgotten.
THEOREM ExclusiveOwnership == Spec => [](Exclusive /\ NoConnectionLost)
  BY OwnershipInit, OwnershipStep, TypeCorrect, PTL DEF Spec, Ownership

-----------------------------------------------------------------------------
(***************************************************************************)
(* Slots                                                                   *)
(***************************************************************************)

\* Popping an open connection leaves one fewer in front.
LEMMA PopPrefix ==
  ASSUME NEW s \in Seq(Nat), s # <<>>, NEW k, OpenPrefix(s, k)
  PROVE  /\ Head(s) # Null => k > 0 /\ OpenPrefix(Tail(s), k - 1)
         /\ Head(s) = Null => k = 0 /\ OpenPrefix(Tail(s), 0) /\ OpenIn(s) = {}
  <1>1. /\ Head(s) = s[1]
        /\ Len(s) \in Nat \ {0}
        /\ Len(Tail(s)) = Len(s) - 1
        /\ \A i \in 1..(Len(s) - 1) : Tail(s)[i] = s[i + 1]
    BY PopFacts
  <1>2. /\ k \in 0..Len(s)
        /\ \A i \in 1..Len(s) : s[i] = Null <=> k < i
    BY DEF OpenPrefix
  <1>3. \A i \in 1..(Len(s) - 1) : Tail(s)[i] = Null <=> k < i + 1
    BY <1>1, <1>2
  <1>4. Head(s) = Null <=> k = 0
    BY <1>1, <1>2
  <1>5. CASE Head(s) # Null
    <2>1. k > 0 /\ k - 1 \in 0..Len(Tail(s))
      BY <1>1, <1>2, <1>4, <1>5
    <2>2. \A i \in 1..Len(Tail(s)) : Tail(s)[i] = Null <=> k - 1 < i
      BY <1>1, <1>2, <1>3
    <2>3. QED
      BY <1>5, <2>1, <2>2 DEF OpenPrefix
  <1>6. CASE Head(s) = Null
    <2>1. k = 0 /\ \A i \in 1..Len(s) : s[i] = Null
      BY <1>1, <1>2, <1>4, <1>6
    <2>2. OpenIn(s) = {}
      BY <2>1, OpenInByIndex
    <2>3. 0 \in 0..Len(Tail(s))
      BY <1>1
    <2>4. \A i \in 1..Len(Tail(s)) : Tail(s)[i] = Null <=> 0 < i
      BY <1>1, <1>3, <2>1
    <2>5. QED
      BY <1>6, <2>1, <2>2, <2>3, <2>4 DEF OpenPrefix
  <1>7. QED
    BY <1>5, <1>6

\* Pushing an open connection leaves one more in front.
LEMMA PushPrefix ==
  ASSUME NEW s \in Seq(Nat), NEW c \in Nat \ {Null}, NEW k, OpenPrefix(s, k)
  PROVE  OpenPrefix(<<c>> \o s, k + 1)
  <1> DEFINE p == <<c>> \o s
  <1> HIDE DEF p
  <1>1. /\ Len(s) \in Nat
        /\ Len(p) = Len(s) + 1
        /\ p[1] = c
        /\ \A i \in 1..Len(s) : p[i + 1] = s[i]
    BY PushFacts DEF p
  <1>2. /\ k \in 0..Len(s)
        /\ \A i \in 1..Len(s) : s[i] = Null <=> k < i
    BY DEF OpenPrefix
  <1>3. ASSUME NEW i \in 1..Len(p) PROVE p[i] = Null <=> k + 1 < i
    <2>1. CASE i = 1
      BY <1>1, <1>2, <2>1
    <2>2. CASE i # 1
      <3>1. i - 1 \in 1..Len(s) /\ (i - 1) + 1 = i
        BY <1>1, <2>2
      <3>2. p[i] = s[i - 1]
        BY <1>1, <3>1
      <3>3. QED
        BY <1>2, <3>1, <3>2
    <2>3. QED
      BY <2>1, <2>2
  <1>4. k + 1 \in 0..Len(p)
    BY <1>1, <1>2
  <1>5. QED
    BY <1>3, <1>4 DEF OpenPrefix, p

\* SlotAccounting for a given number of open connections in the list.
Accounts(k) ==
  /\ OpenPrefix(available, k)
  /\ (Len(available) - k) + SlotBeingOpened + opened + lost = PoolSize

\* A new pool has pool_size empty slots.
LEMMA SlotInit == Init => SlotAccounting
  <1> SUFFICES ASSUME Init PROVE SlotAccounting
    OBVIOUS
  <1>1. Len(available) = PoolSize /\ PoolSize \in Nat
    BY PoolAssumption DEF Init
  <1>2. OpenPrefix(available, 0)
    BY <1>1 DEF Init, OpenPrefix
  <1>3. SlotBeingOpened = 0
    BY DEF Init, SlotBeingOpened
  <1>4. QED
    BY <1>1, <1>2, <1>3 DEF Init, SlotAccounting

\* No step loses count of the slots.
LEMMA SlotStep ==
  TypeOK /\ OpenerHoldsMutex /\ SlotAccounting /\ [Next]_vars => SlotAccounting'
  <1> SUFFICES ASSUME TypeOK, OpenerHoldsMutex, SlotAccounting, [Next]_vars
               PROVE  SlotAccounting'
    OBVIOUS
  <1>0. PICK k \in 0..Len(available) : Accounts(k)
    BY DEF SlotAccounting, Accounts
  <1>a. /\ Len(available) \in Nat
        /\ k \in 0..Len(available)
        /\ OpenPrefix(available, k)
        /\ (Len(available) - k) + SlotBeingOpened + opened + lost = PoolSize
        /\ SlotBeingOpened \in {0, 1}
        /\ opened \in Nat /\ lost \in Nat
    BY <1>0, LenProperties DEF Accounts, TypeOK, SlotBeingOpened
  <1>b. ASSUME NEW n, OpenPrefix(available', n),
               (Len(available') - n) + SlotBeingOpened' + opened' + lost' = PoolSize
        PROVE  SlotAccounting'
    BY <1>b DEF SlotAccounting, OpenPrefix
  <1> USE DEF TypeOK
  <1>1. ASSUME NEW t \in Threads, PopReuse(t) PROVE SlotAccounting'
    <2>1. OpenPrefix(available', k - 1) /\ Len(available') = Len(available) - 1
      BY <1>1, <1>a, PopPrefix, PopFacts DEF PopReuse
    <2>2. SlotBeingOpened' = SlotBeingOpened
      BY <1>1 DEF PopReuse, SlotBeingOpened
    <2>3. QED
      BY <1>1, <1>a, <1>b, <2>1, <2>2 DEF PopReuse
  <1>2. ASSUME NEW t \in Threads, PopSlot(t) PROVE SlotAccounting'
    <2>1. k = 0 /\ OpenPrefix(available', 0) /\ Len(available') = Len(available) - 1
      BY <1>2, <1>a, PopPrefix, PopFacts DEF PopSlot
    <2>2. SlotBeingOpened = 0 /\ SlotBeingOpened' = 1
      BY <1>2, PoolAssumption DEF PopSlot, SlotBeingOpened, OpenerHoldsMutex, Opening
    <2>3. QED
      BY <1>2, <1>a, <1>b, <2>1, <2>2 DEF PopSlot
  <1>3. ASSUME NEW t \in Threads, Create(t) \/ CreateThrows(t)
        PROVE  SlotAccounting'
    <2>1. SlotBeingOpened = 1 /\ SlotBeingOpened' = 0
      BY <1>3, PoolAssumption DEF Create, CreateThrows, SlotBeingOpened,
                                  OpenerHoldsMutex, Opening
    <2>2. /\ available' = available
          /\ \/ opened' = opened + 1 /\ lost' = lost
             \/ opened' = opened /\ lost' = lost + 1
      BY <1>3 DEF Create, CreateThrows
    <2>3. (Len(available') - k) + SlotBeingOpened' + opened' + lost' = PoolSize
      <3>1. CASE opened' = opened + 1 /\ lost' = lost
        BY <1>a, <2>1, <2>2, <3>1
      <3>2. CASE opened' = opened /\ lost' = lost + 1
        BY <1>a, <2>1, <2>2, <3>2
      <3>3. QED
        BY <2>2, <3>1, <3>2
    <2>4. QED
      BY <1>a, <1>b, <2>2, <2>3
  <1>4. ASSUME NEW t \in Threads, Push(t) PROVE SlotAccounting'
    <2>1. OpenPrefix(available', k + 1) /\ Len(available') = Len(available) + 1
      BY <1>4, <1>a, PushPrefix, PushFacts DEF Push
    <2>2. SlotBeingOpened' = SlotBeingOpened
      BY <1>4 DEF Push, Notified, SlotBeingOpened
    <2>3. QED
      BY <1>4, <1>a, <1>b, <2>1, <2>2 DEF Push
  <1>5. ASSUME NEW t \in Threads,
               \/ PopCall(t) \/ PopWait(t) \/ SpuriousWake(t)
               \/ Prepare(t) \/ PushCall(t) \/ SetPrepSql(t)
               \/ \E u \in Threads : HandOver(t, u)
        PROVE  SlotAccounting'
    <2>1. SlotBeingOpened' = SlotBeingOpened
      BY <1>5 DEF PopCall, PopWait, SpuriousWake, Prepare, PushCall, SetPrepSql,
                  HandOver, SlotBeingOpened
    <2>2. available' = available /\ opened' = opened /\ lost' = lost
      BY <1>5 DEF PopCall, PopWait, SpuriousWake, Prepare, PushCall, SetPrepSql,
                  HandOver
    <2>3. QED
      BY <1>a, <1>b, <2>1, <2>2
  <1>6. CASE UNCHANGED vars
    BY <1>6, <1>a, <1>b DEF vars, SlotBeingOpened
  <1>7. QED
    BY <1>1, <1>2, <1>3, <1>4, <1>5, <1>6 DEF Next, PoolStep

\* The list and the rest of the slots always add up to pool_size.
THEOREM SlotsAccounted == Spec => []SlotAccounting
  BY SlotInit, SlotStep, TypeCorrect, OpeningIsExclusive, PTL DEF Spec

\* While a thread opens a connection no other comes back.
LEMMA OpenerStep ==
  /\ TypeOK /\ OpenerHoldsMutex /\ Ownership /\ SlotAccounting
  /\ OpenerSeesNoIdle /\ [Next]_vars
  => OpenerSeesNoIdle'
  <1> SUFFICES ASSUME TypeOK, OpenerHoldsMutex, Ownership, SlotAccounting,
                      OpenerSeesNoIdle, [Next]_vars
               PROVE  OpenerSeesNoIdle'
    OBVIOUS
  <1>0. Exclusive /\ NoConnectionLost
    BY DEF Ownership
  <1> USE DEF OpenerSeesNoIdle
  <1>1. ASSUME NEW t \in Threads, PopReuse(t) PROVE OpenerSeesNoIdle'
    <2>1. Idle' \subseteq Idle
      BY <1>0, <1>1, ReuseEffect
    <2>2. QED
      BY <1>1, <2>1 DEF TypeOK, PopReuse
  <1>2. ASSUME NEW t \in Threads, PopSlot(t) PROVE OpenerSeesNoIdle'
    \* The front slot is empty, so all are.
    <2>1. PICK k : OpenPrefix(available, k)
      BY DEF SlotAccounting
    <2>2. Idle = {}
      BY <1>2, <2>1, PopPrefix DEF PopSlot, TypeOK, Idle
    <2>3. QED
      BY <1>0, <1>2, <2>2, SlotEffect
  <1>3. ASSUME NEW t \in Threads, Create(t) PROVE OpenerSeesNoIdle'
    <2>1. Idle' = Idle
      BY <1>0, <1>3, CreateEffect
    <2>2. QED
      BY <1>3, <2>1 DEF Create, TypeOK
  <1>4. ASSUME NEW t \in Threads, Push(t) PROVE OpenerSeesNoIdle'
    \* conn_mutex_ is free, so nobody is opening a connection.
    BY <1>4, PoolAssumption DEF Push, TypeOK, Notified, OpenerHoldsMutex, Opening
  <1>5. ASSUME NEW t \in Threads,
               \/ PopCall(t) \/ PopWait(t) \/ SpuriousWake(t) \/ CreateThrows(t)
               \/ Prepare(t) \/ PushCall(t) \/ SetPrepSql(t)
        PROVE  OpenerSeesNoIdle'
    <2>1. Idle' = Idle
      BY <1>0, <1>5, QuietEffect
    <2>2. \A u \in Threads : pc'[u] = "create" => pc[u] = "create"
      BY <1>5 DEF PopCall, PopWait, SpuriousWake, CreateThrows, Prepare, PushCall,
                  SetPrepSql, TypeOK
    <2>3. QED
      BY <2>1, <2>2
  <1>6. ASSUME NEW t \in Threads, NEW u \in Threads, HandOver(t, u)
        PROVE  OpenerSeesNoIdle'
    <2>1. Idle' = Idle
      BY <1>0, <1>6, HandOverEffect
    <2>2. QED
      BY <1>6, <2>1 DEF HandOver
  <1>7. CASE UNCHANGED vars
    BY <1>7 DEF vars, Idle
  <1>8. QED
    BY <1>1, <1>2, <1>3, <1>4, <1>5, <1>6, <1>7 DEF Next, PoolStep

\* The inductive invariant of the pool holds.
THEOREM PoolInvariantHolds == Spec => []PoolInvariant
  <1>1. Init => OpenerSeesNoIdle
    BY DEF Init, OpenerSeesNoIdle
  <1>2. Spec => []Ownership
    BY ExclusiveOwnership DEF Ownership
  <1>3. Spec => []OpenerSeesNoIdle
    BY <1>1, <1>2, OpenerStep, TypeCorrect, OpeningIsExclusive, SlotsAccounted,
       PTL DEF Spec
  <1>4. QED
    BY <1>2, <1>3, TypeCorrect, OpeningIsExclusive, NoLostWakeUp, SlotsAccounted,
       PTL DEF PoolInvariant, Ownership

-----------------------------------------------------------------------------
(***************************************************************************)
(* What clients see: numbers of connections, laziness                      *)
(***************************************************************************)

\* The number of empty slots of a list whose first k slots are open.
LEMMA EmptySlots ==
  ASSUME NEW s \in Seq(Nat), NEW k, OpenPrefix(s, k)
  PROVE  Cardinality({i \in DOMAIN s : s[i] = Null}) = Len(s) - k
  <1>1. /\ Len(s) \in Nat
        /\ DOMAIN s = 1..Len(s)
        /\ k \in 0..Len(s)
        /\ \A i \in 1..Len(s) : s[i] = Null <=> k < i
    BY LenProperties DEF OpenPrefix
  <1>2. {i \in DOMAIN s : s[i] = Null} = (k + 1)..Len(s)
    BY <1>1
  <1>3. Cardinality((k + 1)..Len(s)) = Len(s) - k
    <2>1. k + 1 \in Int /\ Len(s) \in Int
      BY <1>1
    <2>2. Cardinality((k + 1)..Len(s)) =
            IF k + 1 > Len(s) THEN 0 ELSE Len(s) - (k + 1) + 1
      BY <2>1, FS_Interval
    <2>3. QED
      BY <1>1, <2>2
  <1>4. QED
    BY <1>2, <1>3

\* The number of open connections of such a list.
LEMMA OpenSlots ==
  ASSUME NEW s \in Seq(Nat), NEW k, OpenPrefix(s, k), NoDuplicate(s)
  PROVE  IsFiniteSet(OpenIn(s)) /\ Cardinality(OpenIn(s)) = k
  <1>1. /\ Len(s) \in Nat
        /\ k \in 0..Len(s)
        /\ \A i \in 1..Len(s) : s[i] = Null <=> k < i
    BY LenProperties DEF OpenPrefix
  <1> DEFINE f == [i \in 1..k |-> s[i]]
  <1>2. f \in [1..k -> OpenIn(s)]
    <2>1. ASSUME NEW i \in 1..k PROVE s[i] \in OpenIn(s)
      BY <1>1, OpenInByIndex
    <2>2. QED
      BY <2>1
  <1>3. \A i, j \in 1..k : f[i] = f[j] => i = j
    BY <1>1, NoDuplicateByIndex
  <1>4. \A c \in OpenIn(s) : \E i \in 1..k : f[i] = c
    BY <1>1, OpenInByIndex
  <1>5. f \in Bijection(1..k, OpenIn(s))
    BY <1>2, <1>3, <1>4 DEF Bijection, Injection, Surjection, IsInjective
  <1>6. ExistsBijection(1..k, OpenIn(s))
    BY <1>5 DEF ExistsBijection
  <1>7. IsFiniteSet(1..k) /\ Cardinality(1..k) = k
    BY <1>1, FS_Interval
  <1>8. QED
    BY <1>6, <1>7, FS_Bijection

\* The accounts of the invariant are those the property speaks of.
LEMMA ConservedByInvariant == TypeOK /\ SlotAccounting => SlotsConserved
  <1> SUFFICES ASSUME TypeOK, SlotAccounting PROVE SlotsConserved
    OBVIOUS
  <1>1. PICK k \in 0..Len(available) : Accounts(k)
    BY DEF SlotAccounting, Accounts
  <1>2. UnopenedSlots = Len(available) - k
    BY <1>1, EmptySlots DEF UnopenedSlots, Accounts, TypeOK
  <1>3. ASSUME NEW i \in DOMAIN available, NEW j \in DOMAIN available,
               i < j, available[i] = Null
        PROVE  available[j] = Null
    BY <1>1, <1>3, LenProperties DEF Accounts, OpenPrefix, TypeOK
  <1>4. QED
    BY <1>1, <1>2, <1>3 DEF SlotsConserved, Accounts

\* popConnection and pushConnection keep the slots the constructor made, but
\* for those an exception of createConnection drops.
THEOREM SlotsAreConserved == Spec => []SlotsConserved
  BY ConservedByInvariant, TypeCorrect, SlotsAccounted, PTL

\* count() counts the slots that the accounts say are in the list.
LEMMA CountByInvariant ==
  TypeOK /\ SlotAccounting /\ Exclusive /\ NoConnectionLost => CountExact
  <1> SUFFICES ASSUME TypeOK, SlotAccounting, Exclusive, NoConnectionLost
               PROVE  CountExact
    OBVIOUS
  <1>1. PICK k \in 0..Len(available) : Accounts(k)
    BY DEF SlotAccounting, Accounts
  <1>2. IsFiniteSet(Idle) /\ Cardinality(Idle) = k
    BY <1>1, OpenSlots DEF Idle, Accounts, TypeOK, Exclusive
  <1>3. opened \in Nat /\ IsFiniteSet(1..opened) /\ Cardinality(1..opened) = opened
    BY FS_Interval DEF TypeOK
  <1>4. Idle \cup Out = 1..opened /\ Idle \cap Out = {}
    BY DEF Exclusive, NoConnectionLost
  <1>5. IsFiniteSet(Out)
    BY <1>3, <1>4, FS_Subset
  <1>6. opened = Cardinality(Idle) + Cardinality(Out)
    <2>1. Cardinality(Out) \in Nat /\ Cardinality(Idle) \in Nat
      BY <1>2, <1>5, FS_CardinalityType
    <2>2. Cardinality(Idle \cup Out) =
            Cardinality(Idle) + Cardinality(Out) - Cardinality(Idle \cap Out)
      BY <1>2, <1>5, FS_Union
    <2>3. Cardinality(Idle \cup Out) = opened /\ Cardinality(Idle \cap Out) = 0
      BY <1>3, <1>4, FS_EmptySet
    <2>4. QED
      BY <2>1, <2>2, <2>3
  <1>7. Len(available) \in Nat /\ lost \in Nat /\ SlotBeingOpened \in {0, 1}
    BY LenProperties DEF TypeOK, SlotBeingOpened
  <1>8. Cardinality(Out) \in Nat
    BY <1>5, FS_CardinalityType
  <1>9. (Len(available) - k) + SlotBeingOpened + opened + lost = PoolSize
    BY <1>1 DEF Accounts
  <1>10. QED
    BY <1>2, <1>3, <1>6, <1>7, <1>8, <1>9 DEF CountExact, count

\* count() tells exactly how many connections are out.
THEOREM CountIsExact == Spec => []CountExact
  <1>1. Spec => [](Exclusive /\ NoConnectionLost)
    BY ExclusiveOwnership
  <1>2. QED
    BY <1>1, CountByInvariant, TypeCorrect, SlotsAccounted, PTL

\* Only the opener opens, and it has seen that none is idle.
LEMMA LazyStep ==
  PoolInvariant /\ [Next]_vars =>
    [opened' # opened => Idle = {} /\ Out = 1..opened]_vars
  <1> SUFFICES ASSUME PoolInvariant, Next, opened' # opened
               PROVE  Idle = {} /\ Out = 1..opened
    OBVIOUS
  <1>1. PICK t \in Threads : Create(t)
    BY DEF Next, PoolStep, PopCall, SpuriousWake, PushCall, HandOver, SetPrepSql,
           PopWait, PopReuse, PopSlot, CreateThrows, Prepare, Push
  <1>2. Idle = {}
    BY <1>1 DEF Create, PoolInvariant, OpenerSeesNoIdle
  <1>3. QED
    BY <1>2 DEF PoolInvariant, NoConnectionLost

\* popConnection opens a connection only when all those opened before are out.
THEOREM LazyOpening == Spec => OpenOnlyWhenNoneIdle
  BY PoolInvariantHolds, LazyStep, PTL DEF Spec, OpenOnlyWhenNoneIdle

-----------------------------------------------------------------------------
(***************************************************************************)
(* Refinement: the monitor implements the pool it promises                 *)
(***************************************************************************)

\* The refinement mapping, spelt out: a slot that is being opened still counts
\* as unopened, so what is unopened is what is neither opened nor lost.
OwnsNow == [t \in Threads |-> OwnedBy(t)]
UnopenedNow == UnopenedSlots + SlotBeingOpened

\* What is neither opened nor lost is a place left to open.
LEMMA UnopenedValue ==
  TypeOK /\ SlotAccounting => UnopenedNow = PoolSize - opened - lost
  <1> SUFFICES ASSUME TypeOK, SlotAccounting
               PROVE  UnopenedNow = PoolSize - opened - lost
    OBVIOUS
  <1>1. PICK k \in 0..Len(available) : Accounts(k)
    BY DEF SlotAccounting, Accounts
  <1>2. UnopenedSlots = Len(available) - k
    BY <1>1, EmptySlots DEF UnopenedSlots, Accounts, TypeOK
  <1>3. (Len(available) - k) + SlotBeingOpened + opened + lost = PoolSize
    BY <1>1 DEF Accounts
  <1>4. /\ Len(available) \in Nat /\ opened \in Nat /\ lost \in Nat
        /\ SlotBeingOpened \in {0, 1}
    BY LenProperties DEF TypeOK, SlotBeingOpened
  <1>5. QED
    BY <1>2, <1>3, <1>4 DEF UnopenedNow

\* While a thread opens a connection, its slot is still there to be promised.
LEMMA OpenerHasSlot ==
  ASSUME TypeOK, SlotAccounting, NEW t \in Threads, pc[t] = "create"
  PROVE  UnopenedNow > 0
  <1>1. PICK k \in 0..Len(available) : Accounts(k)
    BY DEF SlotAccounting, Accounts
  <1>2. UnopenedSlots = Len(available) - k
    BY <1>1, EmptySlots DEF UnopenedSlots, Accounts, TypeOK
  <1>3. SlotBeingOpened = 1
    BY DEF SlotBeingOpened
  <1>4. Len(available) \in Nat
    BY LenProperties DEF TypeOK
  <1>5. QED
    BY <1>2, <1>3, <1>4 DEF UnopenedNow

\* A new pool is a new bounded pool.
LEMMA PromiseInit == Init => Promise!AbsInit
  <1> SUFFICES ASSUME Init PROVE Promise!AbsInit
    OBVIOUS
  <1>1. Idle = {} /\ OwnsNow = [t \in Threads |-> {}]
    BY DEF Init, Idle, OpenIn, OwnsNow, OwnedBy
  <1>2. UnopenedNow = PoolSize
    BY TypeInit, SlotInit, UnopenedValue, PoolAssumption DEF Init
  <1>3. opened = 0
    BY DEF Init
  <1>4. QED
    BY <1>1, <1>2, <1>3 DEF Promise!AbsInit, OwnsNow, UnopenedNow

\* Every step is one of the bounded pool, or none.
LEMMA PromiseStep ==
  PoolInvariant /\ PoolInvariant' /\ [Next]_vars =>
    [Promise!AbsNext]_Promise!absVars
  <1>p. (TypeOK /\ SlotAccounting => UnopenedNow = PoolSize - opened - lost)'
    BY UnopenedValue, PTL
  <1> SUFFICES ASSUME PoolInvariant, PoolInvariant', [Next]_vars
               PROVE  [Promise!AbsNext]_Promise!absVars
    OBVIOUS
  <1>0. TypeOK /\ Exclusive /\ NoConnectionLost /\ SlotAccounting
    BY DEF PoolInvariant
  <1>a. /\ opened \in Nat /\ lost \in Nat /\ PoolSize \in Nat
        /\ UnopenedNow = PoolSize - opened - lost
        /\ UnopenedNow' = PoolSize - opened' - lost'
    BY <1>0, <1>p, UnopenedValue, PoolAssumption DEF PoolInvariant, TypeOK
  <1> USE DEF OwnsNow, UnopenedNow
  <1>1. ASSUME NEW t \in Threads, PopReuse(t)
        PROVE  Head(available) \in Idle /\ Promise!Reuse(t, Head(available))
    <2>1. /\ Head(available) \in Idle
          /\ Idle' = Idle \ {Head(available)}
          /\ OwnsNow' = [OwnsNow EXCEPT ![t] = @ \cup {Head(available)}]
          /\ opened' = opened
      BY <1>0, <1>1, ReuseEffect
    <2>2. lost' = lost
      BY <1>1 DEF PopReuse
    <2>3. UnopenedNow' = UnopenedNow
      BY <1>a, <2>1, <2>2
    <2>4. QED
      BY <2>1, <2>3 DEF Promise!Reuse
  <1>2. ASSUME NEW t \in Threads, PopSlot(t)
        PROVE  UNCHANGED Promise!absVars
    <2>1. Idle' = Idle /\ OwnsNow' = OwnsNow /\ opened' = opened
      BY <1>0, <1>2, SlotEffect
    <2>2. lost' = lost
      BY <1>2 DEF PopSlot
    <2>3. UnopenedNow' = UnopenedNow
      BY <1>a, <2>1, <2>2
    <2>4. QED
      BY <2>1, <2>3 DEF Promise!absVars
  <1>3. ASSUME NEW t \in Threads, Create(t) PROVE Promise!Open(t)
    <2>1. /\ Idle' = Idle
          /\ OwnsNow' = [OwnsNow EXCEPT ![t] = @ \cup {opened + 1}]
          /\ opened' = opened + 1
      BY <1>0, <1>3, CreateEffect
    <2>2. lost' = lost /\ pc[t] = "create"
      BY <1>3 DEF Create
    <2>3. UnopenedNow' = UnopenedNow - 1
      BY <1>a, <2>1, <2>2
    <2>4. UnopenedNow > 0 /\ Idle = {}
      BY <1>0, <2>2, OpenerHasSlot DEF PoolInvariant, OpenerSeesNoIdle
    <2>5. QED
      BY <2>1, <2>3, <2>4 DEF Promise!Open
  <1>4. ASSUME NEW t \in Threads, CreateThrows(t) PROVE Promise!OpenFails
    <2>1. Idle' = Idle /\ OwnsNow' = OwnsNow /\ opened' = opened
      BY <1>0, <1>4, QuietEffect
    <2>2. lost' = lost + 1 /\ pc[t] = "create"
      BY <1>4 DEF CreateThrows
    <2>3. UnopenedNow' = UnopenedNow - 1
      BY <1>a, <2>1, <2>2
    <2>4. UnopenedNow > 0 /\ Idle = {}
      BY <1>0, <2>2, OpenerHasSlot DEF PoolInvariant, OpenerSeesNoIdle
    <2>5. QED
      BY <2>1, <2>3, <2>4 DEF Promise!OpenFails
  <1>5. ASSUME NEW t \in Threads, Push(t)
        PROVE  hand[t] \in OwnedBy(t) /\ Promise!Release(t, hand[t])
    <2>1. /\ hand[t] \in OwnedBy(t)
          /\ Idle' = Idle \cup {hand[t]}
          /\ OwnsNow' = [OwnsNow EXCEPT ![t] = @ \ {hand[t]}]
          /\ opened' = opened
      BY <1>0, <1>5, PushEffect
    <2>2. lost' = lost
      BY <1>5 DEF Push
    <2>3. UnopenedNow' = UnopenedNow
      BY <1>a, <2>1, <2>2
    <2>4. QED
      BY <2>1, <2>3 DEF Promise!Release
  <1>6. ASSUME NEW t \in Threads,
               \/ PopCall(t) \/ PopWait(t) \/ SpuriousWake(t)
               \/ Prepare(t) \/ PushCall(t) \/ SetPrepSql(t)
        PROVE  UNCHANGED Promise!absVars
    <2>1. Idle' = Idle /\ OwnsNow' = OwnsNow /\ opened' = opened
      BY <1>0, <1>6, QuietEffect
    <2>2. lost' = lost
      BY <1>6 DEF PopCall, PopWait, SpuriousWake, Prepare, PushCall, SetPrepSql
    <2>3. UnopenedNow' = UnopenedNow
      BY <1>a, <2>1, <2>2
    <2>4. QED
      BY <2>1, <2>3 DEF Promise!absVars
  <1>7. ASSUME NEW t \in Threads, NEW u \in Threads, HandOver(t, u)
        PROVE  \E c \in OwnedBy(t) : Promise!Give(t, u, c)
    <2>1. PICK c \in OwnedBy(t) : \A v \in Threads :
            OwnedBy(v)' = IF v = t THEN OwnedBy(v) \ {c}
                          ELSE IF v = u THEN OwnedBy(v) \cup {c} ELSE OwnedBy(v)
      BY <1>0, <1>7, HandOverEffect
    <2>2. t # u /\ Idle' = Idle /\ opened' = opened
      BY <1>0, <1>7, HandOverEffect
    <2>3. OwnsNow' = [OwnsNow EXCEPT ![t] = @ \ {c}, ![u] = @ \cup {c}]
      BY <2>1, <2>2
    <2>4. lost' = lost
      BY <1>7 DEF HandOver
    <2>5. UnopenedNow' = UnopenedNow
      BY <1>a, <2>2, <2>4
    <2>6. QED
      BY <2>2, <2>3, <2>5 DEF Promise!Give
  <1>8. CASE UNCHANGED vars
    BY <1>8 DEF vars, Promise!absVars, Idle, OwnedBy, UnopenedSlots, SlotBeingOpened
  <1>9. QED
    BY <1>1, <1>2, <1>3, <1>4, <1>5, <1>6, <1>7, <1>8
    DEF Next, PoolStep, Promise!AbsNext

\* The monitor of threads, lock and list is the allocator its clients are
\* promised.
THEOREM PoolImplementsPromise == Spec => ImplementsBoundedPool
  BY PoolInvariantHolds, PromiseInit, PromiseStep, PTL
  DEF Spec, ImplementsBoundedPool, Promise!AbsSpec
=============================================================================
