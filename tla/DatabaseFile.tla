---------------------------- MODULE DatabaseFile ----------------------------
(***************************************************************************)
(* What the clients' connections and the pool's own handle do to the       *)
(* database they share: getSchema, setSchema and commit (VACUUM) on the    *)
(* pool's handle, transactions and queries on the connections, and the     *)
(* VACUUM in the pool's destructor.  The schema number stands for the      *)
(* contents of the database.                                               *)
(*                                                                         *)
(* External is SQLite's locking with a rollback journal.  A statement on a *)
(* row reads the database; one transaction at a time may write it; COMMIT, *)
(* and any other change, is refused while another handle reads; a refused  *)
(* COMMIT may be tried again and until then keeps new readers out.  Nobody *)
(* waits, because the library sets no busy timeout.                        *)
(***************************************************************************)
EXTENDS CheckoutScope

CONSTANTS
  Own,           \* the pool's own handle, db_
  NoTx,          \* a connection without a transaction
  NoCall,        \* nobody is in getSchema
  MaxInt32,      \* largest number user_version can keep
  MaxSchema,     \* largest number clients ask for
  Debug,         \* assertions are compiled in
  LeaveOpen,     \* clients drop Connections with a transaction open
  InMemory       \* the file is ":memory:"

ASSUME FileAssumption ==
  /\ {Own, NoTx, NoCall} \cap Int = {}
  /\ {MaxInt32, MaxSchema} \subseteq Nat
  /\ {Debug, LeaveOpen, InMemory} \subseteq BOOLEAN

VARIABLES
  tx,        \* the number each connection's transaction is about to set
  pending,   \* the connections whose COMMIT was refused
  onRow,     \* the statements that are on a row
  version,   \* user_version of the database of each handle
  asked,     \* the last number setSchema or a COMMIT accepted
  call,      \* the getSchema in progress, which holds db_mutex_: by whom,
             \* what it read, and whether its statement is on a row
  end        \* how the program ended, if it did

fileVars == <<scopeVars, tx, pending, onRow, version, asked, call, end>>

Conns == 1..PoolSize
Handles == Conns \cup {Own}

\* getFilename: connections open the file the pool's handle has; if that has
\* no name each handle has a database to itself.
Db(h) == IF InMemory THEN h ELSE Own
Others(h) == {g \in Handles \ {h} : Db(g) = Db(h)}

\* Mutant: the pool's handle has no lock on the database.
ReadsConnsOnly(h) ==
  /\ h # Own
  /\ \E s \in onRow : checkout[stmt[s].via].conn = h

\* Does a handle have a statement on a row?
Reads(h) ==
  IF h = Own THEN call # NoCall /\ call.onRow
             ELSE \E s \in onRow : checkout[stmt[s].via].conn = h

CanRead(h) == Others(h) \cap pending = {}
CanWrite(h) == CanRead(h) /\ \A c \in Others(h) \ {Own} : tx[c] = NoTx
CanCommit(h) == \A g \in Others(h) : ~Reads(g)

\* commit of the pool: VACUUM needs the database alone, and throws otherwise.
CanVacuum == CanWrite(Own) /\ CanCommit(Own)

\* Mutant: user_version keeps all 64 bits.
StoredWide(n) == n

\* PRAGMA user_version stores 0 for a number that does not fit 32 bits.
StoredNumber(n) == IF n <= MaxInt32 THEN n ELSE 0

-----------------------------------------------------------------------------
FileInit ==
  /\ Init
  /\ tx = [c \in Conns |-> NoTx]
  /\ pending = {}
  /\ onRow = {}
  /\ version = [h \in Handles |-> 0]
  /\ asked = 0
  /\ call = NoCall
  /\ end = "none"

(***************************************************************************)
(* The pool's handle                                                       *)
(***************************************************************************)

\* A thread that is in no destructor can call a method of its ConnectionPool.
MayCall(t) == poolObj /\ Free(t)

\* Mutant: with NDEBUG or without, nobody looks at what sqlite3_step returns.
GetSchemaUnchecked(t) ==
  /\ MayCall(t)
  /\ call = NoCall
  /\ call' = [by |-> t, onRow |-> CanRead(Own),
              value |-> IF CanRead(Own) THEN version[Db(Own)] ELSE 0]
  /\ UNCHANGED <<scopeVars, tx, pending, onRow, version, asked, end>>

\* getSchema locks db_mutex_, prepares and steps.  When the database is busy
\* the assertion on the step fails; without assertions the column reads 0.
GetSchema(t) ==
  /\ MayCall(t)
  /\ call = NoCall
  /\ IF Debug /\ ~CanRead(Own)
       THEN end' = "assertion" /\ UNCHANGED call
       ELSE /\ call' = [by |-> t, onRow |-> CanRead(Own),
                        value |-> IF CanRead(Own) THEN version[Db(Own)] ELSE 0]
            /\ UNCHANGED end
  /\ UNCHANGED <<scopeVars, tx, pending, onRow, version, asked>>

InGetSchema(t) == call # NoCall /\ call.by = t

\* It finalizes its statement, unlocks and returns the value.
GetSchemaReturn(t) ==
  /\ InGetSchema(t)
  /\ call' = NoCall
  /\ UNCHANGED <<scopeVars, tx, pending, onRow, version, asked, end>>

\* The database of handle h gets number n.
Commits(h, n) ==
  /\ version' = [version EXCEPT ![Db(h)] = StoredNumber(n)]
  /\ asked' = n

\* Mutant: setSchema does not lock db_mutex_.
SetSchemaUnlocked(t, n) ==
  /\ MayCall(t)
  /\ CanVacuum
  /\ Commits(Own, n)
  /\ UNCHANGED <<scopeVars, tx, pending, onRow, call, end>>

\* setSchema under db_mutex_.  If SQLite refuses, it throws, changing nothing.
SetSchema(t, n) ==
  /\ MayCall(t)
  /\ call = NoCall
  /\ CanVacuum
  /\ Commits(Own, n)
  /\ UNCHANGED <<scopeVars, tx, pending, onRow, call, end>>

(***************************************************************************)
(* The clients' connections                                                *)
(***************************************************************************)

\* A thread with a Connection can call exec on it.
MayExec(t, c) ==
  /\ Free(t)
  /\ \E k \in ConnsOf(t) : checkout[k].conn = c

\* exec("BEGIN IMMEDIATE; PRAGMA user_version = n"), when it is not refused.
Begin(t, c, n) ==
  /\ MayExec(t, c)
  /\ tx[c] = NoTx
  /\ CanWrite(c)
  /\ tx' = [tx EXCEPT ![c] = n]
  /\ UNCHANGED <<scopeVars, pending, onRow, version, asked, call, end>>

\* exec("COMMIT"): done, or Busy with the transaction still open.
Commit(t, c) ==
  /\ MayExec(t, c)
  /\ tx[c] # NoTx
  /\ IF CanCommit(c)
       THEN /\ Commits(c, tx[c])
            /\ tx' = [tx EXCEPT ![c] = NoTx]
            /\ pending' = pending \ {c}
       ELSE pending' = pending \cup {c} /\ UNCHANGED <<tx, version, asked>>
  /\ UNCHANGED <<scopeVars, onRow, call, end>>

\* exec("ROLLBACK").
Rollback(t, c) ==
  /\ MayExec(t, c)
  /\ tx[c] # NoTx
  /\ tx' = [tx EXCEPT ![c] = NoTx]
  /\ pending' = pending \ {c}
  /\ UNCHANGED <<scopeVars, onRow, version, asked, call, end>>

\* execute of a query: Row, or Done (or a reset).
Execute(t, s) ==
  /\ Free(t)
  /\ s \in StmtsOf(t)
  /\ \/ CanRead(checkout[stmt[s].via].conn) /\ onRow' = onRow \cup {s}
     \/ s \in onRow /\ onRow' = onRow \ {s}
  /\ UNCHANGED <<scopeVars, tx, pending, version, asked, call, end>>

(***************************************************************************)
(* The scope guards                                                        *)
(***************************************************************************)

\* The client's care before it drops a Connection: it ends its transaction.
\* Nothing later, in the library or the pool, looks.
EndsTransactions ==
  LeaveOpen \/ \A k \in connObj \ connObj' : tx[checkout[k].conn] = NoTx

\* What a step of CheckoutScope does to the database.  Finalizing a statement
\* takes it off its row.  ~ConnectionPoolImpl starts with commit, while the idle
\* connections are open: an exception in a destructor terminates the program.
Locks ==
  /\ onRow' = {s \in onRow : stmt'[s].impl}
  /\ UNCHANGED <<tx, pending, version, asked, call>>
  /\ end' = IF destroyed' /\ ~destroyed /\ ~CanVacuum' THEN "terminate" ELSE "none"

-----------------------------------------------------------------------------
FileNext ==
  /\ end = "none"
  /\ \/ call = NoCall /\ DropPool /\ Locks
     \/ \E t \in Threads :
          \/ GetSchemaReturn(t)
          \/ /\ ~InGetSchema(t)
             /\ \/ ThreadStep(t) /\ EndsTransactions /\ Locks
                \/ GetSchema(t)
                \/ \E n \in 1..MaxSchema : SetSchema(t, n)
                \/ \E c \in {checkout[k].conn : k \in ConnsOf(t)} :
                     \/ Commit(t, c)
                     \/ Rollback(t, c)
                     \/ \E n \in 1..MaxSchema : Begin(t, c, n)
                \/ \E s \in StmtsOf(t) : Execute(t, s)

FileSpec == FileInit /\ [][FileNext]_fileVars

-----------------------------------------------------------------------------
\* Types of the variables this module adds.
FileTypeOK ==
  /\ tx \in [Conns -> 1..MaxSchema \cup {NoTx}]
  /\ pending \subseteq {c \in Conns : tx[c] # NoTx}
  /\ onRow \subseteq {s \in DOMAIN stmt : stmt[s].impl}
  /\ version \in [Handles -> 0..MaxInt32]
  /\ asked \in 0..MaxSchema
  /\ call # NoCall => call.by \in Threads
  /\ end \in {"none", "assertion", "terminate"}

\* getSchema "Returns the schema number of the database."
\* (include/dbpool/sqlite/ConnectionPoolImpl.hpp:67): until it returns, what it
\* read is the number last set or committed, by whichever handle, if that fits
\* 32 bits.  db_mutex_ keeps setSchema out, and the statement's own lock keeps
\* the connections from committing in between.
SchemaTrue ==
  call # NoCall /\ asked <= MaxInt32 => call.value = asked

\* The pool's handle is for "vacuuming (defragmentation) upon database close"
\* (include/dbpool/sqlite/ConnectionPoolImpl.hpp:26), and nothing that the
\* destructor meets stops it: no connection is out by then, and idle ones lock
\* nothing.
VacuumsOnClose == end # "terminate"
=============================================================================
