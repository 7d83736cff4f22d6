--------------------------- MODULE LibraryProofs ---------------------------
(***************************************************************************)
(* Proofs about SqliteLibrary for any number of pools that come and go one *)
(* at a time: the use count is exact, and so the library is there for      *)
(* every living pool and gone after the last.  Pools that overlap break it. *)
(***************************************************************************)
EXTENDS SqliteLibrary, FiniteSetTheorems, TLAPS

\* Only one pool at a time is in its constructor or destructor ...
OneAtATime ==
  \A p, q \in Pools : phase[p] \notin Resting /\ phase[q] \notin Resting => p = q

\* ... so what it has read of the counter is still what the counter is.
SeenIsCount ==
  /\ \A p \in Pools : phase[p] \in {"enter", "leave"} => seen[p] = count
  /\ \A p \in Pools : phase[p] = "shutdown" => count = 0

\* LastOneShutsDown as soon as the last pool has left, not only when it is gone.
LastLeaverShutsDown ==
  /\ \A p \in Pools : phase[p] \in {"none", "gone", "release"}
  /\ \E p \in Pools : phase[p] # "none"
  => lib = FALSE

LibraryInvariant ==
  /\ TypeOK
  /\ OneAtATime
  /\ UseCountExact
  /\ SeenIsCount
  /\ LibraryReady
  /\ LastLeaverShutsDown

-----------------------------------------------------------------------------
\* The counter fits in the range of its type.
LEMMA CountRange ==
  ASSUME NEW S \in SUBSET Pools
  PROVE  IsFiniteSet(S) /\ Cardinality(S) \in 0..Cardinality(Pools)
  BY LibraryAssumption, FS_Subset, FS_CardinalityType

\* At first no pool exists.
LEMMA LibraryInit == Init => LibraryInvariant
  <1> SUFFICES ASSUME Init PROVE LibraryInvariant
    OBVIOUS
  <1> USE DEF Init
  <1>1. Counted = {} /\ Cardinality(Counted) = 0
    BY FS_EmptySet DEF Counted
  <1>2. 0 \in 0..Cardinality(Pools)
    BY CountRange
  <1>3. TypeOK
    BY <1>2, LibraryAssumption DEF TypeOK, Phases, Resting
  <1>4. QED
    BY <1>1, <1>3
    DEF LibraryInvariant, OneAtATime, UseCountExact, SeenIsCount, LibraryReady,
        LastLeaverShutsDown, Resting

\* A step that moves one pool on, with the counter still exact, keeps the types.
LEMMA LibraryTypeStep ==
  ASSUME TypeOK, SeenIsCount, Next, UseCountExact'
  PROVE  TypeOK'
  <1>1. count' \in 0..Cardinality(Pools)
    BY CountRange DEF UseCountExact, Counted
  <1>2. PICK p \in Pools :
          \/ ReadToEnter(p) \/ Enter(p) \/ Configure(p)
          \/ Initialize(p) \/ InitializeFails(p)
          \/ OpenDb(p) \/ OpenDbFails(p) \/ CreateConnection(p)
          \/ CloseDb(p) \/ Leave(p) \/ Shutdown(p) \/ Release(p)
    BY DEF Next
  <1> USE LibraryAssumption DEF TypeOK, Phases, Resting, Goes
  <1>3. phase' \in [Pools -> Phases]
    BY <1>2 DEF ReadToEnter, Enter, Configure, Initialize, InitializeFails, OpenDb,
                OpenDbFails, CreateConnection, CloseDb, Leave, Shutdown, Release
  <1>4. seen' \in [Pools -> 0..Cardinality(Pools)]
    BY <1>2 DEF ReadToEnter, Enter, Configure, Initialize, InitializeFails, OpenDb,
                OpenDbFails, CreateConnection, CloseDb, Leave, Shutdown, Release
  <1>5. lib' \in BOOLEAN /\ db' \subseteq Pools
    BY <1>2 DEF ReadToEnter, Enter, Configure, Initialize, InitializeFails, OpenDb,
                OpenDbFails, CreateConnection, CloseDb, Leave, Shutdown, Release
  <1>6. conns' \in [Pools -> 0..MaxConns]
    BY <1>2 DEF ReadToEnter, Enter, Configure, Initialize, InitializeFails, OpenDb,
                OpenDbFails, CreateConnection, CloseDb, Leave, Shutdown, Release
  <1>7. QED
    BY <1>1, <1>3, <1>4, <1>5, <1>6

\* What each step does to the pools counted and to the counter.
LEMMA CountStep ==
  ASSUME TypeOK, SeenIsCount, UseCountExact, Next
  PROVE  UseCountExact'
  <1>1. IsFiniteSet(Counted) /\ count = Cardinality(Counted)
    BY CountRange DEF UseCountExact, Counted
  <1> USE DEF TypeOK, Goes
  <1>2. ASSUME NEW p \in Pools, Enter(p) PROVE UseCountExact'
    <2>1. Counted' = Counted \cup {p} /\ p \notin Counted
      BY <1>2 DEF Enter, Counted
    <2>2. count' = count + 1
      BY <1>2 DEF Enter, SeenIsCount
    <2>3. QED
      BY <1>1, <2>1, <2>2, FS_AddElement DEF UseCountExact
  <1>3. ASSUME NEW p \in Pools, Leave(p) PROVE UseCountExact'
    <2>1. Counted' = Counted \ {p} /\ p \in Counted
      BY <1>3 DEF Leave, Counted
    <2>2. count' = count - 1
      BY <1>3 DEF Leave, SeenIsCount
    <2>3. QED
      BY <1>1, <2>1, <2>2, FS_RemoveElement DEF UseCountExact
  <1>4. ASSUME NEW p \in Pools,
               \/ ReadToEnter(p) \/ Configure(p) \/ Initialize(p)
               \/ InitializeFails(p) \/ OpenDb(p) \/ OpenDbFails(p)
               \/ CreateConnection(p) \/ CloseDb(p) \/ Shutdown(p) \/ Release(p)
        PROVE  UseCountExact'
    <2>1. Counted' = Counted /\ count' = count
      BY <1>4 DEF ReadToEnter, Configure, Initialize, InitializeFails, OpenDb,
                  OpenDbFails, CreateConnection, CloseDb, Shutdown, Release, Counted
    <2>2. QED
      BY <1>1, <2>1 DEF UseCountExact
  <1>5. QED
    BY <1>2, <1>3, <1>4 DEF Next

\* Nobody starts while a pool is on its way.
LEMMA TurnStep ==
  ASSUME ~Overlap, TypeOK, OneAtATime, SeenIsCount, UseCountExact, Next
  PROVE  OneAtATime' /\ SeenIsCount'
  <1> USE DEF TypeOK, OneAtATime, SeenIsCount, Resting, Goes, MayStart
  <1>1. IsFiniteSet(Counted) /\ count = Cardinality(Counted) /\ count \in Nat
    BY CountRange DEF UseCountExact, Counted
  <1>2. ASSUME NEW p \in Pools, ReadToEnter(p) \/ CloseDb(p)
        PROVE  OneAtATime' /\ SeenIsCount'
    BY <1>2 DEF ReadToEnter, CloseDb
  <1>3. ASSUME NEW p \in Pools, Enter(p) \/ Leave(p)
        PROVE  OneAtATime' /\ SeenIsCount'
    BY <1>1, <1>3 DEF Enter, Leave
  <1>4. ASSUME NEW p \in Pools,
               \/ Configure(p) \/ Initialize(p) \/ InitializeFails(p)
               \/ OpenDb(p) \/ OpenDbFails(p)
        PROVE  OneAtATime' /\ SeenIsCount'
    BY <1>4 DEF Configure, Initialize, InitializeFails, OpenDb, OpenDbFails
  <1>5. ASSUME NEW p \in Pools, CreateConnection(p) \/ Shutdown(p) \/ Release(p)
        PROVE  OneAtATime' /\ SeenIsCount'
    BY <1>5 DEF CreateConnection, Shutdown, Release
  <1>6. QED
    BY <1>2, <1>3, <1>4, <1>5 DEF Next

\* When a pool shuts the library down no pool is counted, so none is alive.
LEMMA NoneLeft ==
  ASSUME TypeOK, SeenIsCount, UseCountExact, NEW p \in Pools, phase[p] = "shutdown"
  PROVE  Counted = {}
  BY CountRange, FS_EmptySet DEF SeenIsCount, UseCountExact, Counted

\* A shutdown leaves no pool alive, and nothing else ends the library.
LEMMA AliveStep ==
  ASSUME LibraryInvariant, Next
  PROVE  LibraryReady'
  <1> USE DEF LibraryInvariant, TypeOK, LibraryReady, Goes
  <1>1. ASSUME NEW p \in Pools, Shutdown(p) PROVE LibraryReady'
    <2>1. Counted = {}
      BY <1>1, NoneLeft DEF Shutdown
    <2>2. QED
      BY <1>1, <2>1 DEF Shutdown, Counted
  <1>2. ASSUME NEW p \in Pools,
               \/ ReadToEnter(p) \/ Enter(p) \/ Configure(p) \/ Initialize(p)
               \/ InitializeFails(p)
        PROVE  LibraryReady'
    BY <1>2 DEF ReadToEnter, Enter, Configure, Initialize, InitializeFails
  <1>3. ASSUME NEW p \in Pools, OpenDb(p) \/ OpenDbFails(p) \/ CreateConnection(p)
        PROVE  LibraryReady'
    BY <1>3 DEF OpenDb, OpenDbFails, CreateConnection
  <1>4. ASSUME NEW p \in Pools, CloseDb(p) \/ Leave(p) \/ Release(p)
        PROVE  LibraryReady'
    BY <1>4 DEF CloseDb, Leave, Release
  <1>5. QED
    BY <1>1, <1>2, <1>3, <1>4 DEF Next

\* A pool that leaves without shutting down leaves another one counted.
LEMMA LeaverStep ==
  ASSUME LibraryInvariant, Next, UseCountExact'
  PROVE  LastLeaverShutsDown'
  <1> USE DEF LibraryInvariant, TypeOK, LastLeaverShutsDown, Goes
  <1>1. ASSUME NEW p \in Pools, Leave(p) PROVE LastLeaverShutsDown'
    <2>1. CASE seen[p] = 1
      BY <1>1, <2>1 DEF Leave
    <2>2. CASE seen[p] # 1
      <3>1. count' = count - 1 /\ count # 1 /\ count \in Nat
        BY <1>1, <2>2, CountRange DEF Leave, SeenIsCount, UseCountExact, Counted
      <3>2. count' # 0
        BY <3>1
      <3>3. Counted' # {}
        BY <3>2, FS_EmptySet DEF UseCountExact
      <3>4. QED
        BY <3>3 DEF Counted
    <2>3. QED
      BY <2>1, <2>2
  <1>2. ASSUME NEW p \in Pools,
               \/ ReadToEnter(p) \/ Enter(p) \/ Configure(p) \/ Initialize(p)
               \/ InitializeFails(p)
        PROVE  LastLeaverShutsDown'
    BY <1>2 DEF ReadToEnter, Enter, Configure, Initialize, InitializeFails
  <1>3. ASSUME NEW p \in Pools,
               OpenDb(p) \/ OpenDbFails(p) \/ CreateConnection(p) \/ CloseDb(p)
        PROVE  LastLeaverShutsDown'
    BY <1>3 DEF OpenDb, OpenDbFails, CreateConnection, CloseDb
  <1>4. ASSUME NEW p \in Pools, Shutdown(p) \/ Release(p)
        PROVE  LastLeaverShutsDown'
    BY <1>4 DEF Shutdown, Release
  <1>5. QED
    BY <1>1, <1>2, <1>3, <1>4 DEF Next

\* No step breaks the invariant while pools do not overlap.
LEMMA LibraryStep ==
  ASSUME ~Overlap, LibraryInvariant, [Next]_libVars
  PROVE  LibraryInvariant'
  <1>1. CASE Next
    <2>1. UseCountExact'
      BY <1>1, CountStep DEF LibraryInvariant
    <2>2. QED
      BY <1>1, <2>1, LibraryTypeStep, TurnStep, AliveStep, LeaverStep
      DEF LibraryInvariant
  <1>2. CASE UNCHANGED libVars
    BY <1>2 DEF libVars, LibraryInvariant, TypeOK, OneAtATime, UseCountExact,
                SeenIsCount, LibraryReady, LastLeaverShutsDown, Counted
  <1>3. QED
    BY <1>1, <1>2

-----------------------------------------------------------------------------
\* The invariant holds throughout.
LEMMA LibraryInvariantHolds == ~Overlap => (Spec => []LibraryInvariant)
  <1> SUFFICES ASSUME ~Overlap PROVE Spec => []LibraryInvariant
    OBVIOUS
  <1>1. LibraryInvariant /\ [Next]_libVars => LibraryInvariant'
    BY LibraryStep
  <1>2. QED
    BY <1>1, LibraryInit, PTL DEF Spec

\* initializeSqlite and shutdownSqlite count the pools exactly, whatever way a
\* constructor ends, and the types hold, if pools come and go one at a time.
THEOREM UseCountIsExact == ~Overlap => (Spec => [](TypeOK /\ UseCountExact))
  <1> SUFFICES ASSUME ~Overlap PROVE Spec => [](TypeOK /\ UseCountExact)
    OBVIOUS
  <1>1. LibraryInvariant => TypeOK /\ UseCountExact
    BY DEF LibraryInvariant
  <1>2. QED
    BY <1>1, LibraryInvariantHolds, PTL

\* Then every living pool has the library initialized, and the last one to go
\* leaves it shut down.
THEOREM LibraryThereAndGone ==
  ~Overlap => (Spec => [](LibraryReady /\ LastOneShutsDown))
  <1> SUFFICES ASSUME ~Overlap PROVE Spec => [](LibraryReady /\ LastOneShutsDown)
    OBVIOUS
  <1>1. LibraryInvariant => LibraryReady /\ LastOneShutsDown
    BY DEF LibraryInvariant, LastLeaverShutsDown, LastOneShutsDown
  <1>2. QED
    BY <1>1, LibraryInvariantHolds, PTL
=============================================================================
