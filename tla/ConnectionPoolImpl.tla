------------------------- MODULE ConnectionPoolImpl -------------------------
(***************************************************************************)
(* The monitor at the heart of the library: dbpool::ConnectionPoolImpl.    *)
(* Client threads take connections with popConnection and give them back   *)
(* with pushConnection; conn_mutex_ protects the list of slots and         *)
(* conn_cv_ is the condition the takers wait on when the list is empty.    *)
(*                                                                         *)
(* A slot of available_conns_ is Null until a thread that pops it opens a  *)
(* connection.  Connections are numbered in the order they are opened.     *)
(* A critical section that neither blocks nor calls out is one action; the *)
(* one that opens a connection keeps conn_mutex_ across sqlite3_open and   *)
(* the preparation statement, so it takes several.                         *)
(***************************************************************************)
EXTENDS Naturals, Sequences, FiniteSets

CONSTANTS
  Threads,        \* the client threads
  NoThread,       \* owner of a free conn_mutex_
  PoolSize,       \* pool_size of the constructor
  MaxHeld,        \* connections a thread has checked out at most
  MaxSets,        \* calls of setPrepSql (bounds the texts, which it numbers)
  MaxOpenFailures,  \* how often createConnection may throw
  PrepMayFail,    \* the preparation statement may fail on the database
  PrepMayRace     \* setPrepSql may run while a connection is being prepared

ASSUME PoolAssumption ==
  /\ NoThread \notin Threads
  /\ PoolSize \in Nat
  /\ MaxHeld \in Nat
  /\ MaxSets \in Nat
  /\ MaxOpenFailures \in Nat
  /\ {PrepMayFail, PrepMayRace} \subseteq BOOLEAN

VARIABLES
  available,      \* available_conns_, front first
  mutex,          \* owner of conn_mutex_
  pc,             \* where each thread is in the pool's code
  hand,           \* the local "conn" of the call each thread is in
  held,           \* the connections each thread has checked out
  opened,         \* number of connections ever opened
  lost,           \* slots dropped when createConnection threw
  prepSql,        \* prep_sql_: number of the last text set
  raced,          \* prep_sql_ was written during the current preparation
  ran             \* the text that took effect on each connection

vars == <<available, mutex, pc, hand, held, opened, lost, prepSql, raced, ran>>

Null == 0         \* an empty unique_ptr: a slot not opened yet
NoSql == 0        \* an empty prep_sql_, or a text that did not take effect
Garbage == MaxSets + 1    \* what a torn read of prep_sql_ may yield

PcValues == {"idle", "pop", "waiting", "create", "prepare", "push"}

\* Is a thread executing the critical section that opens a connection?
Opening(t) == pc[t] \in {"create", "prepare"}

\* The connections in the list, and those with a thread or on their way.
OpenIn(list) == {list[i] : i \in DOMAIN list} \ {Null}
Idle == OpenIn(available)
OwnedBy(t) == held[t] \cup ({hand[t]} \ {Null})
Out == UNION {OwnedBy(t) : t \in Threads}

-----------------------------------------------------------------------------
Init ==
  /\ available = [i \in 1..PoolSize |-> Null]
  /\ mutex = NoThread
  /\ pc = [t \in Threads |-> "idle"]
  /\ hand = [t \in Threads |-> Null]
  /\ held = [t \in Threads |-> {}]
  /\ opened = 0
  /\ lost = 0
  /\ prepSql = NoSql
  /\ raced = FALSE
  /\ ran = <<>>

(***************************************************************************)
(* popConnection                                                           *)
(***************************************************************************)

\* A client calls getConnection, which goes on to lock conn_mutex_.
PopCall(t) ==
  /\ pc[t] = "idle"
  /\ Cardinality(held[t]) < MaxHeld
  /\ pc' = [pc EXCEPT ![t] = "pop"]
  /\ UNCHANGED <<available, mutex, hand, held, opened, lost, prepSql, raced, ran>>

\* The predicate of conn_cv_.wait fails: release conn_mutex_ and sleep.
PopWait(t) ==
  /\ pc[t] = "pop"
  /\ mutex = NoThread
  /\ available = <<>>
  /\ pc' = [pc EXCEPT ![t] = "waiting"]
  /\ UNCHANGED <<available, mutex, hand, held, opened, lost, prepSql, raced, ran>>

\* conn_cv_ may wake a sleeper without a notification; it tests again.
SpuriousWake(t) ==
  /\ pc[t] = "waiting"
  /\ pc' = [pc EXCEPT ![t] = "pop"]
  /\ UNCHANGED <<available, mutex, hand, held, opened, lost, prepSql, raced, ran>>

\* Mutant: pop_front is forgotten, so two threads get the same connection.
PopReuseKeepsFront(t) ==
  /\ pc[t] = "pop"
  /\ mutex = NoThread
  /\ available # <<>>
  /\ Head(available) # Null
  /\ held' = [held EXCEPT ![t] = @ \cup {Head(available)}]
  /\ pc' = [pc EXCEPT ![t] = "idle"]
  /\ UNCHANGED <<available, mutex, hand, opened, lost, prepSql, raced, ran>>

\* The front slot holds an open connection: hand it out.
PopReuse(t) ==
  /\ pc[t] = "pop"
  /\ mutex = NoThread
  /\ available # <<>>
  /\ Head(available) # Null
  /\ available' = Tail(available)
  /\ held' = [held EXCEPT ![t] = @ \cup {Head(available)}]
  /\ pc' = [pc EXCEPT ![t] = "idle"]
  /\ UNCHANGED <<mutex, hand, opened, lost, prepSql, raced, ran>>

\* Mutant: the lock is released before createConnection.
PopSlotUnlocks(t) ==
  /\ pc[t] = "pop"
  /\ mutex = NoThread
  /\ available # <<>>
  /\ Head(available) = Null
  /\ available' = Tail(available)
  /\ pc' = [pc EXCEPT ![t] = "create"]
  /\ UNCHANGED <<mutex, hand, held, opened, lost, prepSql, raced, ran>>

\* The front slot is empty: keep conn_mutex_ and open a connection.
PopSlot(t) ==
  /\ pc[t] = "pop"
  /\ mutex = NoThread
  /\ available # <<>>
  /\ Head(available) = Null
  /\ available' = Tail(available)
  /\ mutex' = t
  /\ pc' = [pc EXCEPT ![t] = "create"]
  /\ UNCHANGED <<hand, held, opened, lost, prepSql, raced, ran>>

\* createConnection returns; prepareConnection starts reading prep_sql_.
Create(t) ==
  /\ pc[t] = "create"
  /\ opened' = opened + 1
  /\ hand' = [hand EXCEPT ![t] = opened + 1]
  /\ ran' = Append(ran, NoSql)
  /\ pc' = [pc EXCEPT ![t] = "prepare"]
  /\ UNCHANGED <<available, mutex, held, lost, prepSql, raced>>

\* Mutant: conn_mutex_ is locked by hand and an exception leaves it locked.
CreateThrowsKeepsLock(t) ==
  /\ pc[t] = "create"
  /\ lost < MaxOpenFailures
  /\ lost' = lost + 1
  /\ pc' = [pc EXCEPT ![t] = "idle"]
  /\ UNCHANGED <<available, mutex, hand, held, opened, prepSql, raced, ran>>

\* createConnection throws: the popped slot dies with the local "conn", the
\* unique_lock releases conn_mutex_ and nobody is notified.
CreateThrows(t) ==
  /\ pc[t] = "create"
  /\ lost < MaxOpenFailures
  /\ lost' = lost + 1
  /\ mutex' = NoThread
  /\ pc' = [pc EXCEPT ![t] = "idle"]
  /\ UNCHANGED <<available, hand, held, opened, prepSql, raced, ran>>

\* Mutant: only the first connection of the pool is prepared.
PrepFirstOnly == IF opened = 1 THEN {prepSql} ELSE {NoSql}

\* What running prep_sql_ leaves on the new connection.  The return code of
\* exec is dropped, so a failure looks like an empty text.
PrepOutcomes ==
  (IF raced THEN NoSql..Garbage ELSE {prepSql})
    \cup (IF PrepMayFail THEN {NoSql} ELSE {})

\* prepareConnection ends and popConnection returns the connection.
Prepare(t) ==
  /\ pc[t] = "prepare"
  /\ \E text \in PrepOutcomes : ran' = [ran EXCEPT ![hand[t]] = text]
  /\ held' = [held EXCEPT ![t] = @ \cup {hand[t]}]
  /\ hand' = [hand EXCEPT ![t] = Null]
  /\ mutex' = NoThread
  /\ raced' = FALSE
  /\ pc' = [pc EXCEPT ![t] = "idle"]
  /\ UNCHANGED <<available, opened, lost, prepSql>>

(***************************************************************************)
(* pushConnection and setPrepSql                                           *)
(***************************************************************************)

\* A PooledConnection dies: its destructor calls pushConnection.
PushCall(t) ==
  /\ pc[t] = "idle"
  /\ \E c \in held[t] :
       /\ hand' = [hand EXCEPT ![t] = c]
       /\ held' = [held EXCEPT ![t] = @ \ {c}]
  /\ pc' = [pc EXCEPT ![t] = "push"]
  /\ UNCHANGED <<available, mutex, opened, lost, prepSql, raced, ran>>

\* A thread moves a Connection to another one that is in no call.
HandOver(t, u) ==
  /\ pc[t] = "idle"
  /\ pc[u] = "idle"
  /\ t # u
  /\ Cardinality(held[u]) < MaxHeld
  /\ \E c \in held[t] :
       held' = [held EXCEPT ![t] = @ \ {c}, ![u] = @ \cup {c}]
  /\ UNCHANGED <<available, mutex, pc, hand, opened, lost, prepSql, raced, ran>>

\* Mutant: pushConnection notifies nobody.
NotNotified(status) == status

\* notify_all: every sleeper leaves the wait and asks for conn_mutex_.
Notified(status) == IF status = "waiting" THEN "pop" ELSE status

\* Mutant: a queue instead of a stack; returned connections go to the back.
PushBack(t) ==
  /\ pc[t] = "push"
  /\ mutex = NoThread
  /\ available' = available \o <<hand[t]>>
  /\ hand' = [hand EXCEPT ![t] = Null]
  /\ pc' = [u \in Threads |-> IF u = t THEN "idle" ELSE Notified(pc[u])]
  /\ UNCHANGED <<mutex, held, opened, lost, prepSql, raced, ran>>

\* Mutant: the connection is copied into the list and not moved.
PushKeepsConn(t) ==
  /\ pc[t] = "push"
  /\ mutex = NoThread
  /\ available' = <<hand[t]>> \o available
  /\ pc' = [u \in Threads |-> IF u = t THEN "idle" ELSE Notified(pc[u])]
  /\ UNCHANGED <<mutex, hand, held, opened, lost, prepSql, raced, ran>>

\* Mutant: the connection is dropped on its way back.
PushForgets(t) ==
  /\ pc[t] = "push"
  /\ mutex = NoThread
  /\ hand' = [hand EXCEPT ![t] = Null]
  /\ pc' = [u \in Threads |-> IF u = t THEN "idle" ELSE Notified(pc[u])]
  /\ UNCHANGED <<available, mutex, held, opened, lost, prepSql, raced, ran>>

\* Under conn_mutex_: put the connection at the front and notify_all.
Push(t) ==
  /\ pc[t] = "push"
  /\ mutex = NoThread
  /\ available' = <<hand[t]>> \o available
  /\ hand' = [hand EXCEPT ![t] = Null]
  /\ pc' = [u \in Threads |-> IF u = t THEN "idle" ELSE Notified(pc[u])]
  /\ UNCHANGED <<mutex, held, opened, lost, prepSql, raced, ran>>

\* setPrepSql assigns prep_sql_ without conn_mutex_: a thread that is
\* preparing a connection reads the string while it changes.
SetPrepSql(t) ==
  /\ pc[t] = "idle"
  /\ prepSql < MaxSets
  /\ PrepMayRace \/ \A u \in Threads : pc[u] # "prepare"
  /\ prepSql' = prepSql + 1
  /\ raced' = \E u \in Threads : pc[u] = "prepare"
  /\ UNCHANGED <<available, mutex, pc, hand, held, opened, lost, ran>>

\* count, which reads the length of the list under conn_mutex_.
count == Len(available)

-----------------------------------------------------------------------------
\* The steps of a thread inside a call; the others are a client's choices.
PoolStep(t) ==
  \/ PopWait(t)
  \/ PopReuse(t)
  \/ PopSlot(t)
  \/ Create(t)
  \/ CreateThrows(t)
  \/ Prepare(t)
  \/ Push(t)

Next ==
  \E t \in Threads :
    \/ PopCall(t)
    \/ SpuriousWake(t)
    \/ PushCall(t)
    \/ \E u \in Threads : HandOver(t, u)
    \/ SetPrepSql(t)
    \/ PoolStep(t)

Spec == Init /\ [][Next]_vars

-----------------------------------------------------------------------------
(***************************************************************************)
(* Safety                                                                  *)
(***************************************************************************)

\* Types of the variables, and where a local "conn" of the pool's code holds
\* a connection: between opening or dropping it and handing it on.
TypeOK ==
  /\ available \in Seq(Nat)
  /\ mutex \in Threads \cup {NoThread}
  /\ pc \in [Threads -> PcValues]
  /\ hand \in [Threads -> Nat]
  /\ held \in [Threads -> SUBSET (Nat \ {Null})]
  /\ opened \in Nat
  /\ lost \in Nat
  /\ prepSql \in 0..MaxSets
  /\ raced \in BOOLEAN
  /\ ran \in Seq(0..Garbage)
  /\ Len(ran) = opened
  /\ \A t \in Threads : hand[t] # Null <=> pc[t] \in {"prepare", "push"}

\* No connection is in a list twice.
NoDuplicate(list) ==
  \A i, j \in DOMAIN list : list[i] = list[j] /\ list[i] # Null => i = j

\* A connection is in one place only: at one position of available_conns_,
\* or with one thread, or moving between the two.  This is the ownership the
\* unique_ptr moves of popConnection and pushConnection pass along; README
\* promises it ("each thread should have their own connection").
Exclusive ==
  /\ NoDuplicate(available)
  /\ Idle \cap Out = {}
  /\ \A t, u \in Threads : t # u => OwnedBy(t) \cap OwnedBy(u) = {}
  /\ \A t \in Threads : hand[t] \notin held[t]

\* The pool forgets no connection: each one it opened is in the list, with a
\* thread, or moving between the two, so it can be used or closed again.
NoConnectionLost == Idle \cup Out = 1..opened

\* No thread sleeps on conn_cv_ while the list has a slot to give: the wait
\* of popConnection and the notify_all of pushConnection leave no gap in
\* which a wake-up is lost.
NoSleeperWithIdle ==
  \A t \in Threads : pc[t] = "waiting" => available = <<>>

\* Only the thread that is opening a connection keeps conn_mutex_ between
\* two steps, and it is alone in that section of popConnection.
OpenerHoldsMutex ==
  \A t \in Threads : Opening(t) <=> mutex = t

\* The list is open connections first and then empty slots, and with those
\* checked out, being opened or lost they make up the pool_size slots the
\* constructor made: popConnection and pushConnection neither duplicate nor
\* forget a slot, except one for each exception of createConnection.
UnopenedSlots == Cardinality({i \in DOMAIN available : available[i] = Null})
SlotBeingOpened == IF \E t \in Threads : pc[t] = "create" THEN 1 ELSE 0

SlotsConserved ==
  /\ \A i, j \in DOMAIN available :
       i < j /\ available[i] = Null => available[j] = Null
  /\ UnopenedSlots + SlotBeingOpened + opened + lost = PoolSize

\* What count() reports is pool_size less the connections checked out, the
\* slot being opened and the slots lost, as connection_count_test expects.
CountExact ==
  count + Cardinality(Out) + SlotBeingOpened + lost = PoolSize

\* Takers sleep in vain only through their own doing.  As long as a thread
\* that is awake has a connection, or is opening one, somebody can end the
\* sleep; when nobody can, the sleepers hold every slot that is not lost
\* between them, each one fewer than it may, and wait for one another.
NoSleepInVain ==
  LET Asleep == {t \in Threads : pc[t] = "waiting"}
      Providers == {u \in Threads \ Asleep :
                      OwnedBy(u) # {} \/ pc[u] = "create"}
  IN  Asleep # {} /\ Providers = {} =>
        PoolSize <= Cardinality(Asleep) * (MaxHeld - 1) + lost

\* A pool is lazy: popConnection opens a connection only when every one it
\* opened before is checked out, because pushConnection returns to the front.
OpenOnlyWhenNoneIdle ==
  [][opened' # opened => Idle = {} /\ Out = 1..opened]_vars

\* Connections see the preparation texts in the order setPrepSql set them: a
\* younger connection never runs an older text, or none at all, once an older
\* connection ran one, and none runs a text before it is set.
PrepInOrder ==
  \A c, d \in 1..opened :
    /\ c < d /\ ~(\E t \in Threads : pc[t] = "prepare" /\ hand[t] = d)
         => ran[c] <= ran[d]
    /\ ran[d] <= prepSql

-----------------------------------------------------------------------------
(***************************************************************************)
(* The inductive invariant behind the safety properties                    *)
(***************************************************************************)

\* The first k positions of a list hold open connections, the rest none.
OpenPrefix(list, k) ==
  /\ k \in 0..Len(list)
  /\ \A i \in 1..Len(list) : list[i] = Null <=> k < i

\* SlotsConserved, with the number of open connections in the list named.
SlotAccounting ==
  \E k \in 0..Len(available) :
    /\ OpenPrefix(available, k)
    /\ (Len(available) - k) + SlotBeingOpened + opened + lost = PoolSize

\* Nobody can return a connection while another is being opened, so the
\* opener's reason to open one still holds when it does.
OpenerSeesNoIdle ==
  \A t \in Threads : pc[t] = "create" => Idle = {}

\* All of it: what popConnection and pushConnection keep true at every step.
PoolInvariant ==
  /\ TypeOK
  /\ OpenerHoldsMutex
  /\ NoSleeperWithIdle
  /\ SlotAccounting
  /\ OpenerSeesNoIdle
  /\ Exclusive
  /\ NoConnectionLost
=============================================================================
