----------------------------- MODULE FileProofs -----------------------------
(***************************************************************************)
(* Proofs about DatabaseFile for any number of threads, connections and    *)
(* statements: it is CheckoutScope with a database, the number getSchema   *)
(* reads is the true one, and no lock is left when the pool dies, so that  *)
(* the destructor's VACUUM is not refused.                                 *)
(***************************************************************************)
EXTENDS DatabaseFile, ScopeProofs

\* A connection with a transaction has its Connection.
TransactionsOut ==
  \A c \in Conns : tx[c] # NoTx => \E k \in connObj : checkout[k].conn = c

\* The connections of the Connections of thread t.
HeldBy(t) == {checkout[k].conn : k \in ConnsOf(t)}

\* The database has the number last asked for, and a getSchema that is on its
\* row has read it.
NumberKept ==
  /\ version[Own] = StoredNumber(asked)
  /\ call # NoCall => call.onRow /\ call.value = version[Own]

\* The steps that leave the scope guards alone.
Untouched(t) ==
  \/ GetSchemaReturn(t)
  \/ GetSchema(t)
  \/ \E n \in 1..MaxSchema : SetSchema(t, n)
  \/ \E c \in HeldBy(t) :
       \/ Commit(t, c)
       \/ Rollback(t, c)
       \/ \E n \in 1..MaxSchema : Begin(t, c, n)
  \/ \E s \in StmtsOf(t) : Execute(t, s)

-----------------------------------------------------------------------------
\* Every step is one of the scope guards with what it does to the locks, or
\* leaves the scope guards alone.
LEMMA FileStepCases ==
  ASSUME [FileNext]_fileVars
  PROVE  \/ Next /\ Locks /\ EndsTransactions
         \/ UNCHANGED scopeVars /\ \E t \in Threads : Untouched(t)
         \/ UNCHANGED fileVars
  <1>1. ASSUME NEW t \in Threads, Untouched(t) PROVE UNCHANGED scopeVars
    BY <1>1 DEF Untouched, GetSchemaReturn, GetSchema, SetSchema, Commit, Rollback, Begin,
                Execute
  <1>2. CASE FileNext
    <2>1. CASE DropPool /\ Locks
      <3>1. EndsTransactions
        BY <2>1 DEF DropPool, EndsTransactions
      <3>2. QED
        BY <2>1, <3>1 DEF Next
    <2>2. ASSUME NEW t \in Threads, ThreadStep(t), Locks, EndsTransactions
          PROVE  Next /\ Locks /\ EndsTransactions
      BY <2>2 DEF Next
    <2>3. ASSUME NEW t \in Threads, Untouched(t)
          PROVE  UNCHANGED scopeVars /\ \E u \in Threads : Untouched(u)
      BY <1>1, <2>3
    <2>4. QED
      BY <1>2, <2>1, <2>2, <2>3 DEF FileNext, Untouched, HeldBy
  <1>3. QED
    BY <1>2

\* Statements and checkouts, once made, stay in the books.
LEMMA NothingUnmade ==
  ASSUME ScopeInvariant, Next
  PROVE  /\ DOMAIN stmt \subseteq DOMAIN stmt'
         /\ \A k \in DOMAIN checkout : checkout'[k].conn = checkout[k].conn
  <1>1. CASE DropPool
    BY <1>1 DEF DropPool
  <1>2. ASSUME NEW t \in Threads, ThreadStep(t) PROVE OnlyOwn(t)
    BY <1>2, ThreadStepOnlyOwn
  <1>3. QED
    BY <1>1, <1>2 DEF Next, OnlyOwn

\* What a thread holds are connections.
LEMMA HeldAreConns ==
  ASSUME ScopeInvariant, NEW t \in Threads
  PROVE  HeldBy(t) \subseteq Conns
  <1>1. ASSUME NEW k \in ConnsOf(t) PROVE checkout[k].conn \in 1..PoolSize
    <2>1. checkout[k] \in CheckoutRecord
      BY ScopeIndices DEF ConnsOf, ScopeInvariant, ScopeTypes
    <2>2. QED
      BY <2>1 DEF CheckoutRecord
  <1>2. QED
    BY <1>1 DEF HeldBy, Conns

-----------------------------------------------------------------------------
(***************************************************************************)
(* Types                                                                   *)
(***************************************************************************)

\* A new pool's file.
LEMMA FileTypeInit == FileInit => FileTypeOK
  BY FileAssumption DEF FileInit, FileTypeOK

\* A number that is stored fits.
LEMMA StoredFits == \A n \in Nat : StoredNumber(n) \in 0..MaxInt32
  BY FileAssumption DEF StoredNumber

\* A statement that a thread, in no destructor, may use has its sqlite3_stmt.
LEMMA UsableStmt ==
  ASSUME ScopeInvariant, NEW t \in Threads, Free(t), NEW s \in StmtsOf(t)
  PROVE  s \in DOMAIN stmt /\ stmt[s].impl
  BY BusyAlone DEF StmtsOf, Free, Half, ScopeInvariant

\* The steps on the database keep its variables typed.
LEMMA FileTypeStep ==
  ASSUME ScopeInvariant, FileTypeOK, [FileNext]_fileVars
  PROVE  FileTypeOK'
  <1> USE FileAssumption
  <1>0. \A t \in Threads : HeldBy(t) \subseteq Conns
    BY HeldAreConns
  <1>1. CASE Next /\ Locks
    <2>1. DOMAIN stmt \subseteq DOMAIN stmt'
      BY <1>1, NothingUnmade
    <2>2. onRow' \subseteq {s \in DOMAIN stmt' : stmt'[s].impl}
      BY <1>1, <2>1 DEF Locks, FileTypeOK
    <2>3. UNCHANGED <<tx, pending, version, asked, call>> /\ end' \in {"none", "terminate"}
      BY <1>1 DEF Locks
    <2>4. QED
      BY <2>2, <2>3 DEF FileTypeOK
  <1>2. ASSUME NEW t \in Threads, UNCHANGED scopeVars, Untouched(t)
        PROVE  FileTypeOK'
    <2>0. UNCHANGED stmt
      BY <1>2 DEF scopeVars
    <2>1. CASE GetSchemaReturn(t)
      BY <2>0, <2>1 DEF GetSchemaReturn, FileTypeOK
    <2>2. CASE GetSchema(t)
      <3>1. call' # NoCall => call'.by \in Threads
        BY <2>2 DEF GetSchema, FileTypeOK
      <3>2. /\ UNCHANGED <<tx, pending, onRow, version, asked>>
            /\ end' \in {"none", "assertion", "terminate"}
        BY <2>2 DEF GetSchema, FileTypeOK
      <3>3. QED
        BY <2>0, <3>1, <3>2 DEF FileTypeOK
    <2>3. ASSUME NEW n \in 1..MaxSchema, SetSchema(t, n) PROVE FileTypeOK'
      <3>1. /\ version' = [version EXCEPT ![Db(Own)] = StoredNumber(n)] /\ asked' = n
            /\ UNCHANGED <<tx, pending, onRow, call, end>>
        BY <2>3 DEF SetSchema, Commits
      <3>2. StoredNumber(n) \in 0..MaxInt32
        BY StoredFits
      <3>3. version' \in [Handles -> 0..MaxInt32]
        BY <3>1, <3>2 DEF FileTypeOK
      <3>4. QED
        BY <2>0, <3>1, <3>3 DEF FileTypeOK
    <2>4. ASSUME NEW c \in HeldBy(t), Commit(t, c) PROVE FileTypeOK'
      <3>1. c \in Conns
        BY <1>0
      <3>2. CASE CanCommit(c)
        <4>1. /\ tx[c] # NoTx /\ tx' = [tx EXCEPT ![c] = NoTx] /\ pending' = pending \ {c}
              /\ version' = [version EXCEPT ![Db(c)] = StoredNumber(tx[c])] /\ asked' = tx[c]
              /\ UNCHANGED <<onRow, call, end>>
          BY <2>4, <3>2 DEF Commit, Commits
        <4>2. tx[c] \in 1..MaxSchema
          BY <3>1, <4>1 DEF FileTypeOK
        <4>3. StoredNumber(tx[c]) \in 0..MaxInt32
          BY <4>2, StoredFits
        <4>4. version' \in [Handles -> 0..MaxInt32] /\ asked' \in 0..MaxSchema
          <5>1. asked' \in 0..MaxSchema
            BY <4>1, <4>2
          <5>2. version \in [Handles -> 0..MaxInt32]
            BY DEF FileTypeOK
          <5>3. QED
            BY <4>1, <4>3, <5>1, <5>2
        <4>5. tx' \in [Conns -> 1..MaxSchema \cup {NoTx}]
              /\ pending' \subseteq {d \in Conns : tx'[d] # NoTx}
          BY <4>1 DEF FileTypeOK
        <4>6. QED
          BY <2>0, <4>1, <4>4, <4>5 DEF FileTypeOK
      <3>3. CASE ~CanCommit(c)
        BY <2>0, <2>4, <3>1, <3>3 DEF Commit, FileTypeOK
      <3>4. QED
        BY <3>2, <3>3
    <2>5. ASSUME NEW c \in HeldBy(t), Rollback(t, c) PROVE FileTypeOK'
      <3>1. tx' = [tx EXCEPT ![c] = NoTx] /\ pending' = pending \ {c}
            /\ UNCHANGED <<onRow, version, asked, call, end>>
        BY <2>5 DEF Rollback
      <3>2. tx' \in [Conns -> 1..MaxSchema \cup {NoTx}]
            /\ pending' \subseteq {d \in Conns : tx'[d] # NoTx}
        BY <3>1 DEF FileTypeOK
      <3>3. QED
        BY <2>0, <3>1, <3>2 DEF FileTypeOK
    <2>6. ASSUME NEW c \in HeldBy(t), NEW n \in 1..MaxSchema, Begin(t, c, n) PROVE FileTypeOK'
      <3>1. tx' = [tx EXCEPT ![c] = n]
            /\ UNCHANGED <<pending, onRow, version, asked, call, end>>
        BY <2>6 DEF Begin
      <3>2. n # NoTx
        OBVIOUS
      <3>3. tx' \in [Conns -> 1..MaxSchema \cup {NoTx}]
            /\ pending' \subseteq {d \in Conns : tx'[d] # NoTx}
        BY <3>1, <3>2 DEF FileTypeOK
      <3>4. QED
        BY <2>0, <3>1, <3>3 DEF FileTypeOK
    <2>7. ASSUME NEW s \in StmtsOf(t), Execute(t, s) PROVE FileTypeOK'
      <3>1. s \in DOMAIN stmt /\ stmt[s].impl
        BY <2>7, UsableStmt DEF Execute
      <3>2. QED
        BY <2>0, <2>7, <3>1 DEF Execute, FileTypeOK
    <2>8. QED
      BY <1>2, <2>1, <2>2, <2>3, <2>4, <2>5, <2>6, <2>7 DEF Untouched
  <1>3. CASE UNCHANGED fileVars
    BY <1>3 DEF fileVars, scopeVars, FileTypeOK
  <1>4. QED
    BY <1>1, <1>2, <1>3, FileStepCases

-----------------------------------------------------------------------------
(***************************************************************************)
(* The schema number                                                       *)
(***************************************************************************)

\* In a file every handle has the same database, so getSchema's row keeps the
\* other handles from committing.
LEMMA RowKeepsCommitsOut ==
  ASSUME ~InMemory, NEW c \in Conns, CanCommit(c), call # NoCall
  PROVE  ~call.onRow
  <1>1. Own \in Others(c)
    BY FileAssumption DEF Others, Db, Handles, Conns
  <1>2. ~Reads(Own)
    BY <1>1 DEF CanCommit
  <1>3. QED
    BY <1>2 DEF Reads

\* What the file has is what was asked for last, and getSchema reads it.
LEMMA NumberStep ==
  ASSUME ~InMemory, Debug, ScopeInvariant, FileTypeOK, NumberKept, [FileNext]_fileVars
  PROVE  NumberKept'
  <1> USE FileAssumption
  <1>0. /\ \A t \in Threads : HeldBy(t) \subseteq Conns
        /\ \A h : Db(h) = Own
        /\ Own \in Handles /\ version \in [Handles -> 0..MaxInt32]
    BY HeldAreConns DEF Db, Handles, FileTypeOK
  <1>1. CASE Next /\ Locks
    BY <1>1 DEF Locks, NumberKept
  <1>2. ASSUME NEW t \in Threads, Untouched(t)
        PROVE  NumberKept'
    <2>1. CASE GetSchemaReturn(t)
      BY <2>1 DEF GetSchemaReturn, NumberKept
    <2>2. CASE GetSchema(t)
      <3>1. CASE CanRead(Own)
        <4>1. /\ call' = [by |-> t, onRow |-> TRUE, value |-> version[Own]]
              /\ UNCHANGED <<version, asked>>
          BY <1>0, <2>2, <3>1 DEF GetSchema
        <4>2. QED
          BY <4>1 DEF NumberKept
      <3>2. CASE ~CanRead(Own)
        BY <2>2, <3>2 DEF GetSchema, NumberKept
      <3>3. QED
        BY <3>1, <3>2
    <2>3. ASSUME NEW n \in 1..MaxSchema, SetSchema(t, n) PROVE NumberKept'
      <3>1. version' = [version EXCEPT ![Own] = StoredNumber(n)] /\ asked' = n
            /\ call' = NoCall
        BY <1>0, <2>3 DEF SetSchema, Commits
      <3>2. QED
        BY <1>0, <3>1 DEF NumberKept
    <2>4. ASSUME NEW c \in HeldBy(t), Commit(t, c) PROVE NumberKept'
      <3>1. CASE CanCommit(c)
        <4>1. /\ version' = [version EXCEPT ![Own] = StoredNumber(tx[c])] /\ asked' = tx[c]
              /\ UNCHANGED call
          BY <1>0, <2>4, <3>1 DEF Commit, Commits
        <4>2. c \in Conns
          BY <1>0
        <4>3. call = NoCall
          BY <3>1, <4>2, RowKeepsCommitsOut DEF NumberKept
        <4>4. QED
          BY <1>0, <4>1, <4>3 DEF NumberKept
      <3>2. CASE ~CanCommit(c)
        BY <2>4, <3>2 DEF Commit, NumberKept
      <3>3. QED
        BY <3>1, <3>2
    <2>5. ASSUME NEW c \in HeldBy(t), Rollback(t, c) PROVE NumberKept'
      BY <2>5 DEF Rollback, NumberKept
    <2>6. ASSUME NEW c \in HeldBy(t), NEW n \in 1..MaxSchema, Begin(t, c, n) PROVE NumberKept'
      BY <2>6 DEF Begin, NumberKept
    <2>7. ASSUME NEW s \in StmtsOf(t), Execute(t, s) PROVE NumberKept'
      BY <2>7 DEF Execute, NumberKept
    <2>8. QED
      BY <1>2, <2>1, <2>2, <2>3, <2>4, <2>5, <2>6, <2>7 DEF Untouched
  <1>3. CASE UNCHANGED fileVars
    BY <1>3 DEF fileVars, NumberKept
  <1>4. QED
    BY <1>1, <1>2, <1>3, FileStepCases

\* A new file has number 0.
LEMMA NumberInit == FileInit => NumberKept
  <1>1. Own \in Handles /\ StoredNumber(0) = 0
    BY FileAssumption DEF Handles, StoredNumber
  <1>2. QED
    BY <1>1 DEF FileInit, NumberKept

-----------------------------------------------------------------------------
(***************************************************************************)
(* Locks                                                                   *)
(***************************************************************************)

\* When the pool dies no Connection and no checkout is left, so nothing locks
\* the file.
LEMMA NobodyLocks ==
  ASSUME TidyInvariant, FileTypeOK, TransactionsOut, destroyed
  PROVE  CanVacuum
  <1>1. Live = {}
    BY DEF TidyInvariant, DestroyedClosesAll
  <1>2. connObj = {}
    BY <1>1 DEF Live, Referenced
  <1>3. \A c \in Conns : tx[c] = NoTx
    BY <1>2 DEF TransactionsOut
  <1>4. pending = {}
    BY <1>3 DEF FileTypeOK
  <1>5. StmtInsideCheckout
    BY StmtHasCheckout DEF TidyInvariant, ScopeInvariant
  <1>6. onRow = {}
    BY <1>1, <1>5 DEF StmtInsideCheckout, FileTypeOK
  <1>7. \A g \in Others(Own) : g \in Conns
    BY DEF Others, Handles
  <1>8. \A g \in Others(Own) : ~Reads(g) /\ tx[g] = NoTx
    BY <1>3, <1>6, <1>7, FileAssumption DEF Reads, Conns
  <1>9. QED
    BY <1>4, <1>8 DEF CanVacuum, CanWrite, CanCommit, CanRead

\* A tidy client ends its transaction before it lets go of the Connection.
LEMMA TransactionsStep ==
  ASSUME ~LeaveOpen, ScopeInvariant, FileTypeOK, TransactionsOut, [FileNext]_fileVars
  PROVE  TransactionsOut'
  <1> USE FileAssumption
  <1>0. /\ \A t \in Threads : HeldBy(t) \subseteq Conns
        /\ \A t \in Threads : \A c \in HeldBy(t) : \E k \in connObj : checkout[k].conn = c
        /\ tx \in [Conns -> 1..MaxSchema \cup {NoTx}]
    BY HeldAreConns DEF HeldBy, ConnsOf, FileTypeOK
  <1>1. CASE Next /\ Locks /\ EndsTransactions
    <2>1. UNCHANGED tx
      BY <1>1 DEF Locks
    <2>2. \A k \in connObj : checkout'[k].conn = checkout[k].conn
      BY <1>1, NothingUnmade DEF ScopeInvariant, ScopeTypes
    <2>3. \A k \in connObj : k \notin connObj' => tx[checkout[k].conn] = NoTx
      BY <1>1 DEF EndsTransactions
    <2>4. QED
      BY <2>1, <2>2, <2>3 DEF TransactionsOut
  <1>2. ASSUME NEW t \in Threads, UNCHANGED scopeVars, Untouched(t)
        PROVE  TransactionsOut'
    <2>0. UNCHANGED <<connObj, checkout>>
      BY <1>2 DEF scopeVars
    <2>1. CASE GetSchemaReturn(t)
      BY <2>0, <2>1 DEF GetSchemaReturn, TransactionsOut
    <2>2. CASE GetSchema(t)
      BY <2>0, <2>2 DEF GetSchema, TransactionsOut
    <2>3. ASSUME NEW n \in 1..MaxSchema, SetSchema(t, n) PROVE TransactionsOut'
      BY <2>0, <2>3 DEF SetSchema, TransactionsOut
    <2>4. ASSUME NEW c \in HeldBy(t), Commit(t, c) PROVE TransactionsOut'
      <3>1. UNCHANGED tx \/ tx' = [tx EXCEPT ![c] = NoTx]
        BY <2>4 DEF Commit
      <3>2. QED
        BY <1>0, <2>0, <3>1 DEF TransactionsOut
    <2>5. ASSUME NEW c \in HeldBy(t), Rollback(t, c) PROVE TransactionsOut'
      <3>1. tx' = [tx EXCEPT ![c] = NoTx]
        BY <2>5 DEF Rollback
      <3>2. QED
        BY <1>0, <2>0, <3>1 DEF TransactionsOut
    <2>6. ASSUME NEW c \in HeldBy(t), NEW n \in 1..MaxSchema, Begin(t, c, n)
          PROVE  TransactionsOut'
      <3>1. tx' = [tx EXCEPT ![c] = n]
        BY <2>6 DEF Begin
      <3>2. QED
        BY <1>0, <2>0, <3>1 DEF TransactionsOut
    <2>7. ASSUME NEW s \in StmtsOf(t), Execute(t, s) PROVE TransactionsOut'
      BY <2>0, <2>7 DEF Execute, TransactionsOut
    <2>8. QED
      BY <1>2, <2>1, <2>2, <2>3, <2>4, <2>5, <2>6, <2>7 DEF Untouched
  <1>3. CASE UNCHANGED fileVars
    BY <1>3 DEF fileVars, scopeVars, TransactionsOut
  <1>4. QED
    BY <1>1, <1>2, <1>3, FileStepCases

\* No step ends the program in the destructor.
LEMMA VacuumStep ==
  ASSUME TidyInvariant', FileTypeOK', TransactionsOut', VacuumsOnClose,
         [FileNext]_fileVars
  PROVE  VacuumsOnClose'
  <1>1. CASE Next /\ Locks
    <2>1. destroyed' => CanVacuum'
      BY NobodyLocks, PTL
    <2>2. QED
      BY <1>1, <2>1 DEF Locks, VacuumsOnClose
  <1>2. ASSUME NEW t \in Threads, Untouched(t) PROVE VacuumsOnClose'
    BY <1>2 DEF Untouched, GetSchemaReturn, GetSchema, SetSchema, Commit, Rollback, Begin,
                Execute, VacuumsOnClose
  <1>3. CASE UNCHANGED fileVars
    BY <1>3 DEF fileVars, VacuumsOnClose
  <1>4. QED
    BY <1>1, <1>2, <1>3, FileStepCases

-----------------------------------------------------------------------------
(***************************************************************************)
(* The theorems                                                            *)
(***************************************************************************)

\* A pool with its file is a pool: what was proved of the scope guards holds of
\* connections that read and write.
THEOREM FileImplementsScope == FileSpec => Spec
  <1>1. FileInit => Init
    BY DEF FileInit
  <1>2. [FileNext]_fileVars => [Next]_scopeVars
    BY FileStepCases DEF fileVars
  <1>3. QED
    BY <1>1, <1>2, PTL DEF FileSpec, Spec

\* The invariant of the scope guards, for the pool with its file.
LEMMA ScopeInvariantOfFile == FileSpec => []ScopeInvariant
  BY FileImplementsScope, ScopeInvariantHolds

\* The variables of the file keep their types; a number that fits is stored.
THEOREM FileTypesOK == FileSpec => []FileTypeOK
  <1>1. ScopeInvariant /\ FileTypeOK /\ [FileNext]_fileVars => FileTypeOK'
    BY FileTypeStep
  <1>2. QED
    BY <1>1, FileTypeInit, ScopeInvariantOfFile, PTL DEF FileSpec

\* With assertions compiled in and a database in a file, what getSchema read is
\* the number last set until it returns (src/sqlite/ConnectionPoolImpl.cpp:119).
THEOREM SchemaIsTrue ==
  ~InMemory /\ Debug => (FileSpec => []SchemaTrue)
  <1>1. SUFFICES ASSUME ~InMemory, Debug
                 PROVE  FileSpec => []SchemaTrue
    OBVIOUS
  <1>2. ScopeInvariant /\ FileTypeOK /\ NumberKept /\ [FileNext]_fileVars => NumberKept'
    BY <1>1, NumberStep
  <1>3. NumberKept => SchemaTrue
    BY DEF NumberKept, SchemaTrue, StoredNumber
  <1>4. FileSpec => []ScopeInvariant /\ []FileTypeOK
    BY ScopeInvariantOfFile, FileTypesOK
  <1>5. QED
    BY <1>2, <1>3, <1>4, NumberInit, PTL DEF FileSpec

\* Clients that end their transactions before they drop a Connection, and have
\* an object of the same checkout left when they assign over a PreparedStmt, can
\* destroy the pool in whatever order and thread their objects go: its VACUUM is
\* not refused (src/sqlite/ConnectionPoolImpl.cpp:68).
THEOREM DestructorVacuums ==
  Shelter = "own" /\ ~LeaveOpen => (FileSpec => []VacuumsOnClose)
  <1>1. SUFFICES ASSUME Shelter = "own", ~LeaveOpen
                 PROVE  FileSpec => []VacuumsOnClose
    OBVIOUS
  <1>2. FileSpec => []TidyInvariant /\ []FileTypeOK
    BY <1>1, FileImplementsScope, TidyInvariantHolds, FileTypesOK
  <1>3. FileInit => TransactionsOut /\ VacuumsOnClose
    BY DEF FileInit, TransactionsOut, VacuumsOnClose
  <1>4. TidyInvariant /\ FileTypeOK /\ TransactionsOut /\ [FileNext]_fileVars
          => TransactionsOut'
    BY <1>1, TransactionsStep DEF TidyInvariant
  <1>5. TidyInvariant' /\ FileTypeOK' /\ TransactionsOut' /\ VacuumsOnClose
          /\ [FileNext]_fileVars => VacuumsOnClose'
    BY VacuumStep
  <1>6. QED
    BY <1>2, <1>3, <1>4, <1>5, PTL DEF FileSpec
=============================================================================
