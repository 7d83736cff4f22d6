--------------------------- MODULE SqliteLibrary ---------------------------
(***************************************************************************)
(* The use of the SQLite library by the constructors and destructors of    *)
(* dbpool::sqlite::ConnectionPoolImpl.  The first pool configures and      *)
(* initializes the library and the last one shuts it down; they count      *)
(* themselves in sqlite_use_count_.  The counter is one for the program,   *)
(* but each pool locks a sqlite_init_mutex_ of its own to reach it, so two *)
(* pools that come or go at the same time race, and ++ and -- are a read   *)
(* and a write.                                                            *)
(*                                                                         *)
(* The library itself is external: sqlite3_config refuses to work once it  *)
(* is initialized, and sqlite3_open initializes it if need be.             *)
(***************************************************************************)
EXTENDS Integers, FiniteSets

CONSTANTS
  Pools,         \* the pools the program makes, each of them once
  MaxConns,      \* connections a pool opens at most
  Overlap,       \* pools may be made and destroyed at the same time
  InitMayFail    \* sqlite3_initialize may fail

ASSUME LibraryAssumption ==
  /\ IsFiniteSet(Pools)
  /\ MaxConns \in Nat
  /\ {Overlap, InitMayFail} \subseteq BOOLEAN

VARIABLES
  count,     \* sqlite_use_count_
  lib,       \* the library is initialized
  phase,     \* where each pool is in its constructor, life and destructor
  seen,      \* the value of count each pool has read
  db,        \* the pools whose own handle, db_, is open
  conns      \* how many connections of each pool are open

libVars == <<count, lib, phase, seen, db, conns>>

\* "failed" is a pool whose constructor threw in initializeSqlite; the one
\* that throws because the file does not open ends like a destroyed one.
Resting == {"none", "alive", "gone", "failed"}
Phases == Resting \cup
  {"enter", "configure", "initialize", "open", "leave", "shutdown", "release"}

Goes(p, from, to) == phase[p] = from /\ phase' = [phase EXCEPT ![p] = to]

\* The program lets p start its constructor or its destructor.
MayStart(p) == Overlap \/ \A q \in Pools : phase[q] \in Resting

Init ==
  /\ count = 0
  /\ lib \in BOOLEAN        \* the application may have initialized it before
  /\ phase = [p \in Pools |-> "none"]
  /\ seen = [p \in Pools |-> 0]
  /\ db = {}
  /\ conns = [p \in Pools |-> 0]

-----------------------------------------------------------------------------
(***************************************************************************)
(* The constructor                                                         *)
(***************************************************************************)

\* initializeSqlite reads the counter ...
ReadToEnter(p) ==
  /\ MayStart(p)
  /\ Goes(p, "none", "enter")
  /\ seen' = [seen EXCEPT ![p] = count]
  /\ UNCHANGED <<count, lib, db, conns>>

\* ... writes it back, one more, and goes on if it was zero.
Enter(p) ==
  /\ Goes(p, "enter", IF seen[p] = 0 THEN "configure" ELSE "open")
  /\ count' = seen[p] + 1
  /\ UNCHANGED <<lib, seen, db, conns>>

\* sqlite3_config, which is a misuse when the library is initialized: the
\* constructor throws and the counter keeps this pool.
Configure(p) ==
  /\ Goes(p, "configure", IF lib THEN "failed" ELSE "initialize")
  /\ UNCHANGED <<count, lib, seen, db, conns>>

\* sqlite3_initialize.
Initialize(p) ==
  /\ Goes(p, "initialize", "open")
  /\ lib' = TRUE
  /\ UNCHANGED <<count, seen, db, conns>>

\* The same, refused: the constructor throws and the counter keeps this pool.
InitializeFails(p) ==
  /\ InitMayFail
  /\ ~lib
  /\ Goes(p, "initialize", "failed")
  /\ UNCHANGED <<count, lib, seen, db, conns>>

\* sqlite3_open of the pool's own handle; it initializes the library itself.
OpenDb(p) ==
  /\ Goes(p, "open", "alive")
  /\ lib' = TRUE
  /\ db' = db \cup {p}
  /\ UNCHANGED <<count, seen, conns>>

\* Mutant: the constructor throws without shutdownSqlite.
OpenDbFailsStays(p) ==
  /\ Goes(p, "open", "gone")
  /\ lib' = TRUE
  /\ UNCHANGED <<count, seen, db, conns>>

\* The file does not open: close the handle and undo initializeSqlite.
OpenDbFails(p) ==
  /\ Goes(p, "open", "leave")
  /\ lib' = TRUE
  /\ seen' = [seen EXCEPT ![p] = count]
  /\ UNCHANGED <<count, db, conns>>

\* createConnection of a living pool.
CreateConnection(p) ==
  /\ phase[p] = "alive"
  /\ conns[p] < MaxConns
  /\ conns' = [conns EXCEPT ![p] = @ + 1]
  /\ lib' = TRUE
  /\ UNCHANGED <<count, phase, seen, db>>

-----------------------------------------------------------------------------
(***************************************************************************)
(* The destructor                                                          *)
(***************************************************************************)

\* commit, which ends the program when it throws here; close db_;
\* shutdownSqlite reads the counter ...
CloseDb(p) ==
  /\ MayStart(p)
  /\ Goes(p, "alive", "leave")
  /\ db' = db \ {p}
  /\ seen' = [seen EXCEPT ![p] = count]
  /\ UNCHANGED <<count, lib, conns>>

\* Mutant: each pool shuts the library down.
LeaveShutsDown(p) ==
  /\ Goes(p, "leave", "shutdown")
  /\ count' = seen[p] - 1
  /\ UNCHANGED <<lib, seen, db, conns>>

\* ... writes it back, one less, and goes on if that is zero.  (Below zero a
\* size_t wraps; it is only compared with zero, so a negative number serves.)
Leave(p) ==
  /\ Goes(p, "leave", IF seen[p] = 1 THEN "shutdown" ELSE "release")
  /\ count' = seen[p] - 1
  /\ UNCHANGED <<lib, seen, db, conns>>

\* Mutant: the counter is decremented a second time.
ShutdownTwice(p) ==
  /\ Goes(p, "shutdown", "release")
  /\ lib' = FALSE
  /\ count' = count - 1
  /\ UNCHANGED <<seen, db, conns>>

\* sqlite3_shutdown.
Shutdown(p) ==
  /\ Goes(p, "shutdown", "release")
  /\ lib' = FALSE
  /\ UNCHANGED <<count, seen, db, conns>>

\* The base class destroys available_conns_ and closes the idle connections.
Release(p) ==
  /\ Goes(p, "release", "gone")
  /\ conns' = [conns EXCEPT ![p] = 0]
  /\ UNCHANGED <<count, lib, seen, db>>

-----------------------------------------------------------------------------
Next ==
  \E p \in Pools :
    \/ ReadToEnter(p) \/ Enter(p) \/ Configure(p)
    \/ Initialize(p) \/ InitializeFails(p)
    \/ OpenDb(p) \/ OpenDbFails(p) \/ CreateConnection(p)
    \/ CloseDb(p) \/ Leave(p) \/ Shutdown(p) \/ Release(p)

Spec == Init /\ [][Next]_libVars

-----------------------------------------------------------------------------
\* The pools the counter should count.
Counted ==
  {p \in Pools : phase[p] \in
     {"configure", "initialize", "open", "alive", "leave", "failed"}}

\* Types of the variables.
TypeOK ==
  /\ count \in 0..Cardinality(Pools)
  /\ lib \in BOOLEAN
  /\ phase \in [Pools -> Phases]
  /\ seen \in [Pools -> 0..Cardinality(Pools)]
  /\ db \subseteq Pools
  /\ conns \in [Pools -> 0..MaxConns]

\* The counter is the number of pools that entered and have not left, whatever
\* the way a constructor ended: shutdownSqlite undoes each initializeSqlite
\* that returned.
UseCountExact == count = Cardinality(Counted)

\* A pool that is there can use the library: its constructor "Initializes the
\* sqlite3 library for use by the application"
\* (include/dbpool/sqlite/ConnectionPoolImpl.hpp:84) and no other pool shuts
\* it down underneath.
LibraryReady == \A p \in Pools : phase[p] = "alive" => lib

\* The last pool to go shuts the library down, unless the counter kept one
\* whose constructor threw in initializeSqlite.
LastOneShutsDown ==
  /\ \A p \in Pools : phase[p] \in {"none", "gone"}
  /\ \E p \in Pools : phase[p] = "gone"
  => ~lib
=============================================================================
