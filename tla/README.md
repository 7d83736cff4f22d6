# A TLA+ model of dbpool

dbpool is a C++ library that lends database connections to the threads of a
program. This directory holds TLA+ modules that model it, TLC configurations
that check the models on small instances, and TLAPS proofs for every number of
threads and connections. Paths below are relative to the repository's root
(`src/impl/ConnectionPoolImpl.cpp`); the modules name functions and members as
the code does.

## The system

| Part | State | Operations | Module |
|---|---|---|---|
| Pool monitor, `dbpool::ConnectionPoolImpl` | `available_conns_` (a list of slots, empty until opened), `conn_mutex_`, `conn_cv_`, `prep_sql_` | `popConnection`, `pushConnection`, `setPrepSql`, `prepareConnection`, `count` | `ConnectionPoolImpl` |
| Scope guards, `ConnectionPool`, `Connection`, `PreparedStmt`, `PooledConnection` | `shared_ptr`s to the checkout and to the pool, `unique_ptr` to the statement | `getConnection`, `getStmt`, destructors, moves | `CheckoutScope` |
| SQLite library life cycle, `sqlite::ConnectionPoolImpl` | the program's `sqlite_use_count_`, a mutex per pool, `db_` | constructor, destructor, `initializeSqlite`, `shutdownSqlite`, `createConnection` | `SqliteLibrary` |
| Statements and connections, `sqlite::PreparedStmtImpl`, `sqlite::ConnectionImpl` | the `sqlite3_stmt`, its bindings and row | `bind*`, `get*`, `isNull`, `execute`, `reset`, `exec`, `toErrorCode` | `PreparedStmtImpl` |
| Database file and housekeeping, `sqlite::ConnectionPoolImpl`, `DatabaseFile` | the handle `db_` and `db_mutex_`, the file and its locks | `getSchema`, `setSchema`, `commit`, `getFilename`, `~ConnectionPoolImpl`; clients' `exec` and `execute` | `DatabaseFile` |
| SQLite facade, `sqlite::ConnectionPool` | none | forwards | `DatabaseFile` |

How they interact. A client calls `ConnectionPool::getConnection`, which calls
`popConnection` and wraps what it gets in a shared `PooledConnection`. The
`Connection` and every `PreparedStmt` made from it share that object. When the
last of them goes, `~PooledConnection` calls `pushConnection`, in the thread
that happened to drop it, and then drops its reference to the pool, which may
be the last. Each of these objects can be moved to another thread on its own.
`popConnection` calls back into the derived class (`createConnection`) with
`conn_mutex_` locked, and runs the text of `setPrepSql` on the new connection. Pools of one program share nothing but the
SQLite library and the counter of its users.

What is hard, and what makes each part correct:

- *Monitor*: threads interleave at the lock and the condition, wake-ups are
  spurious, opening a connection may throw, `setPrepSql` takes no lock. A
  connection must be in one place, slots must be conserved, nobody may sleep
  while a slot is free, callers must not wait for one another, and must come out
  again.
- *Scope guards*: a `Connection` and the statements made with it may be with
  different threads, destructors and assignments run in any order, and other
  threads run between their steps. A checkout must be returned exactly once and
  after its statements, and the pool must outlive what it lent and then go.
- *Library life cycle*: constructors fail at three points, pools overlap. The
  counter must be the number of users, the library must be up while one lives.
- *Statements*: calls come in an order SQLite refuses, values sit at the edge
  of their types. What is read must be what was bound.
- *Housekeeping*: the pool's own handle competes with clients' transactions and
  queries for SQLite's locks, nothing in the library waits for a lock, and one
  of its operations, which throws, runs in a destructor. What `getSchema`
  returns must be true, and a pool must be able to die.

## The modules

**`ConnectionPoolImpl`** is the monitor. `available` is `available_conns_` with
the front first; a slot is `Null` (0) or the number of a connection, counted in
the order of opening. `pc` and `hand` are, per thread, the place in the pool's
code and the local variable `conn`. A critical section that neither blocks nor
calls out is one action (`PopReuse`, `Push`, `PopWait`); the section that opens
a connection holds `mutex` over several (`PopSlot`, `Create` or `CreateThrows`,
`Prepare`), so other threads run in between, as far as the lock lets them.
`CreateThrows` is the unwinding of `popConnection`: the slot it popped is lost
(`lost` counts them). `SpuriousWake` is the condition's freedom; `Notified` is
`notify_all`. `SetPrepSql` is not ordered by the lock: when it falls into a
preparation, the text that is run may be any (`PrepOutcomes`); the texts are
numbered in the order they are set. `exec`'s return code is dropped by the
code, so a failure leaves no trace but `NoSql`. The history variables `lost`,
`opened`, `ran` and `raced` are not in the code. `HandOver` is a client thread
that passes what it got on to another. The monitor knows nothing of the objects of
a checkout: `held` says of each connection that is out which thread will return
it. `CheckoutScope` looks into the checkouts.

**`BoundedPool`** is what a pool promises: an allocator that owns at most
`Capacity` connections, gives each to one client, opens one only when none is
idle, and may lose a place when opening fails. **`PoolRefinement`** maps the
monitor to it: the set of connections in the list is `idle`, a connection on
its way back still belongs to the thread that returns it, and a slot being
opened is still unopened.

**`FiniteClients`** puts the monitor under clients that make `MaxCalls` calls
each and drop what they hold, with fairness, for liveness.

**`CheckoutScope`** is the scope guards over the allocator of `BoundedPool`,
instead of the monitor: the refinement above is what allows it. The allocator
does not care who its clients are. The refinement names the threads, which is all
the monitor knows; here they are the checkouts, so that a connection is out for a
checkout and not for a thread. A `PooledConnection` is an
entry of `checkout`; its use count is the number of `Connection`s and
`PreparedStmt`s that refer to it (`Referenced`). `HandOverConnection` and
`HandOverStmt` move one object and nothing else, as the move constructors do: the
objects of one checkout may be with several threads. The destructor and the move
assignment of `PreparedStmt` are two steps each, in the orders of the code: `impl_`
first for the destructor (`src/PreparedStmt.cpp:26`), `pooled_conn_` first for the
defaulted assignment (`include/dbpool/PreparedStmt.hpp:39`). `~PooledConnection`,
which a thread is in while `dying` says so, is two steps as well: `PushBack`, its
body, and `LetPoolGo`, the end of its members (`src/util/PooledConnection.cpp:24`).
`DropPoolRef` is the end of one reference to the pool and `PoolDies` what comes of
the last. `Shelter` is the client's care before it assigns over a statement: its
checkout stays out thanks to another object of the same thread (`"own"`), of any
thread (`"any"`), or perhaps not at all (`"none"`). The code asks for none of them.

**`SqliteLibrary`** is the constructors and destructors of the pools of one
program. The mutex is per pool and so excludes nobody: a read and a write of
the counter are two steps. `Overlap` says whether pools come and go at the same
time. `seen` is the value a pool read.

**`PreparedStmtImpl`** is a statement that inserts its parameter in a column
that takes a value once, and one that selects the column. `Stored` and `Read`
are the conversions of the bind and get functions, `vm` and `code` the state
SQLite keeps of a statement. What `bindBlob` does with the address of no bytes,
what `getBlob` takes an empty blob for and what lies behind a blob that is too
short for a UUID are choices. The byte strings given to `bindUuid`, which looks at
no length, are empty, short, of a UUID's length and longer.

**`DatabaseFile`** extends `CheckoutScope` with the database: its number
(`user_version`) stands for its contents. Every step of the scope guards is
taken together with what it does to the locks (`Locks`): finalizing a statement
takes it off its row, and the end of the pool runs `commit`, that is `VACUUM`,
while the idle connections are still open. `getSchema` is two steps, because a
connection needs no `db_mutex_` to commit between them; `setSchema` is one. The
clients' `exec` is `Begin`, `Commit` and `Rollback`, their `execute` is `Execute`.
SQLite's rollback-journal locks are modelled from outside, and were compared with
the library's behaviour: one writer; a `COMMIT`, `setSchema` or `VACUUM` refused while
another handle reads; a refused `COMMIT` that leaves its transaction open and
keeps new readers out (`pending`). Refused calls that change nothing are not
steps. Returning a connection ends no transaction: `EndsTransactions` is what
clients promise when they drop a `Connection`, and `LeaveOpen` says that they do
not keep to it. `InMemory` says whether the file is `:memory:`, `Debug` whether assertions are
compiled in.

**`MCConnectionPoolImpl`** and **`MCDatabaseFile`** add symmetry of the threads for
TLC; **`ConnectionPoolProofs`**, **`SlotProofs`**, **`WaitProofs`**, **`LibraryProofs`**, **`ScopeProofs`**,
**`FileProofs`** and **`StmtProofs`** hold the proofs. Definitions marked *Mutant*
are plausible errors of the code: substituted for the definition below them they
must break a property, which shows that the property depends on the code.

## The runs

| Configuration | Module | What it asks | Result |
|---|---|---|---|
| `MCPool` | `MCConnectionPoolImpl` | Ownership (`Exclusive`, `NoConnectionLost`), slots (`SlotsConserved`, `CountExact`), no lost wake-up (`NoSleeperWithIdle`), no sleep that nobody can end while a slot is left (`NoSleepInVain`), younger connections see no older preparation text (`PrepInOrder`), laziness (`OpenOnlyWhenNoneIdle`), the inductive invariant, refinement of `BoundedPool` | holds |
| `MCFiniteClients` | `FiniteClients` | Every call returns, every connection comes home | holds |
| `MCCheckoutScope` | `CheckoutScope` | Checkouts match what the pool lent, statements die inside their checkout, the pool closes everything and goes, with the objects of a checkout in different threads | holds, for threads that assign over a statement under the shelter of their own objects |
| `MCSqliteLibrary` | `SqliteLibrary` | Counter exact, library up while a pool lives, down after the last | holds, for pools that do not overlap |
| `MCPreparedStmt` | `PreparedStmtImpl` | What is read is what was bound | holds |
| `MCDatabaseFile` | `MCDatabaseFile` | What `getSchema` read stays true until it returns (`SchemaTrue`), the destructor's `VACUUM` is not refused (`VacuumsOnClose`) | holds, with assertions compiled in, in a file, for clients that end their transactions and assign as above |
| `MCPrepFails` | `MCConnectionPoolImpl` | `PrepInOrder` when the preparation may fail | violated |
| `MCAllSlotsLost` | `FiniteClients` | `EveryCallReturns` when every slot may be lost | violated |
| `MCStmtOutlives` | `CheckoutScope` | `StmtInsideCheckout` with assignment over a statement that only another thread's object shelters | violated |
| `MCPoolRace` | `SqliteLibrary` | `LibraryReady` when pools overlap | violated |
| `MCDestructorThrows` | `DatabaseFile` | `VacuumsOnClose` when a connection comes back with a transaction open | violated |
| `MCInMemory` | `DatabaseFile` | `SchemaTrue` for `:memory:` | violated |

The violated ones are disagreements of the code with its comments and
documentation:

1. `prepareConnection` ignores the return code of `exec`
   (`src/impl/ConnectionPoolImpl.cpp:63`); a connection whose preparation failed
   is handed out, without the "consistent view of the database" the header
   promises.
2. A slot popped before `createConnection` throws is never put back
   (`src/impl/ConnectionPoolImpl.cpp:30`): the pool shrinks, and when the last
   slot goes the sleepers sleep on.
3. The defaulted move assignment of `PreparedStmt` drops the connection before
   the statement, which the destructor takes care not to do. In the run's trace
   thread A assigns over a statement whose `Connection` B has, so the statement is
   not the last object of its checkout; A has replaced `pooled_conn_` when B drops
   the `Connection`, and `pushConnection` runs while A's old `sqlite3_stmt` lives.
   Another thread may then get the connection; or, if the pool goes with it,
   `sqlite3_close` refuses, the handle leaks, and a `VACUUM` is refused when the
   statement is on a row. With `Shelter = "none"` one thread is enough, when the
   statement is the last object. What is enough, and `MCCheckoutScope` and the
   proofs show it, is that the assigning thread has another object of the
   checkout, such as the `Connection`: it is in its assignment meanwhile.
4. `sqlite_init_mutex_` is a member and the counter it guards is static: two
   pools that overlap lose updates, and one shuts the library down under the
   other.
5. `~ConnectionPoolImpl` calls `commit`, which throws when SQLite refuses the
   `VACUUM` (`src/sqlite/ConnectionPoolImpl.cpp:68` and `:149`). A connection that
   came back with its transaction open is enough, and the exception ends the
   program.
6. For `:memory:` each connection and the pool's handle open a database of their
   own (`src/sqlite/ConnectionPoolImpl.cpp:158`): in the trace a client's commit
   was accepted and `getSchema` reads 0. The example of the repository's README uses `:memory:` for
   two threads that are to have "their own pointer to the underlying database".

A seventh needs no run of its own: with `Debug = FALSE` in `MCDatabaseFile.cfg`,
TLC finds `SchemaTrue` violated. With `NDEBUG`, `getSchema` does not look at what
`sqlite3_step` returns (`src/sqlite/ConnectionPoolImpl.cpp:114`), and while a
refused `COMMIT` keeps readers out it returns 0.

### Bounds

- *Monitor*: three threads, four slots, two connections per thread, two texts of
  `setPrepSql`. Three threads are the least for one to hold the lock while one
  sleeps and one returns a connection; demand (six) exceeds the slots, so all of
  waiting, reuse, opening and losing happens, and a text can change before,
  between and after the openings. Preparation neither fails nor races in this
  run, since `PrepInOrder` depends on that; the proofs of the other properties
  hold for pools in which it does. `MaxSets`, `MaxOpenFailures` and `MaxHeld`
  bound the calls (they are parameters of any size in the proofs).
- *Finite clients*: three threads, five slots, one loss, two connections per
  thread. Two threads may sleep at once. Liveness needs
  `|Threads| * (MaxHeld - 1) + MaxOpenFailures < PoolSize`: otherwise all
  threads hold what the others wait for, which is the clients' mistake (or lost
  slots, item 2); `RoomyPoolNeverDeadlocks` is the proved half of this. The
  two calls per thread give each thread its full demand.
- *Scope*: two threads, two connections, three checkouts, two statements: a
  connection is lent twice, a checkout has two statements, in one thread or two,
  and one thread's destructor or assignment interleaves with what the other does
  to the same checkout and to others. The violation run has one connection.
- *Library*: three pools, so that one comes while another leaves behind a
  failed third. One connection per pool tells open from none. Each pool is made
  once.
- *Statements*: integers of one and two bits stand for the two widths, UUIDs of
  two bytes for sixteen: enough for narrowing to lose a value, and for the bytes
  given to be shorter or longer. Two rows make the query move and the uniqueness refuse.
- *Database file*: two threads and two connections beside the pool's handle, so
  that one reads, one writes and `getSchema` is in between; three checkouts lend
  one connection again; two statements on rows at once. Numbers up to 2 fit and 3
  does not. The violation runs have one checkout and one statement, which is all
  they need.

Deadlock is checked where the system cannot stop: in the runs of the monitor a
thread can always call, return or (as a sleeper) wake spuriously. It is not
checked where clients run out of calls or objects (`FiniteClients`,
`CheckoutScope`), where every pool has come and gone (`SqliteLibrary`) and where
the program has ended (`DatabaseFile`).

### Fairness

`FiniteClients` assumes weak fairness of each thread's steps inside the pool
and of dropping what it holds. A C++ mutex promises no order, so a client that
never stops calling may overtake another forever; with finitely many calls the
overtakers run out, and weak fairness is what a scheduler gives. A
`Connection`'s destructor always runs in the end. Calls, spurious wake-ups and
`setPrepSql` are not forced, so no property leans on a spurious wake-up.
Openings end: `Create` or `CreateThrows` is a step of the pool. Dropping is
strongly fair, because a connection that other threads keep handing over is
dropped only if somebody at last keeps it; so it is in `CheckoutScope`, which
assumes that scopes end, and the client's `ConnectionPool` goes, in the end.

## The proofs

For every set of threads or pools, every pool size and every value of the other
constants that the modules' assumptions allow (sizes are natural numbers, flags
are Boolean, markers such as `NoThread` are no thread or number), TLAPS checks:

| Theorem | Statement |
|---|---|
| `TypeCorrect` | `Spec => []TypeOK` |
| `OpeningIsExclusive` | the opener is the owner of `conn_mutex_` |
| `NoLostWakeUp` | `Spec => []NoSleeperWithIdle` |
| `ExclusiveOwnership` | `Spec => [](Exclusive /\ NoConnectionLost)` |
| `SlotsAreConserved`, `CountIsExact` | `SlotsConserved`, `CountExact` |
| `LazyOpening` | `Spec => OpenOnlyWhenNoneIdle` |
| `PoolInvariantHolds` | the inductive invariant |
| `PoolImplementsPromise` | `Spec => ImplementsBoundedPool` |
| `SleepersHaveProvider` | `IsFiniteSet(Threads) => (Spec => []NoSleepInVain)` |
| `RoomyPoolNeverStalls`, `RoomyPoolNeverDeadlocks` | for finitely many threads and `\|Threads\| * (MaxHeld - 1) + MaxOpenFailures < PoolSize`: whoever sleeps has a thread that can end it, and while a thread is in a call some thread can go on |
| `FiniteClientsUseThePool` | `ClientSpec => Spec`, so the above holds of `FiniteClients` |
| `PrepOrderKept` | `~PrepMayFail /\ ~PrepMayRace => (Spec => []PrepInOrder)` |
| `FailuresOnlyOmit` | `~PrepMayRace => (Spec => []TextsInOrder)`: `PrepInOrder` but for connections without a text |
| `UseCountIsExact` | `~Overlap => (Spec => [](TypeOK /\ UseCountExact))`, of the library |
| `LibraryThereAndGone` | `~Overlap => (Spec => [](LibraryReady /\ LastOneShutsDown))` |
| `ScopeTypesOK`, `CheckoutsAgree` | `Spec => []TypeOK`, `Spec => []OwnsMatchesCheckouts`, of the scope guards |
| `PoolOutlivesCheckouts` | a destroyed pool has no owner, no checkout that is alive, nobody in `~PooledConnection`, and all of `1..opened` idle |
| `StmtsInsideCheckouts`, `PoolClosesAll` | `Shelter = "own" => (Spec => []StmtInsideCheckout)`, `... []DestroyedClosesAll` |
| `ExposureEndsWithAssignment` | for all clients: a statement without its checkout is halfway through a move assignment |
| `FileImplementsScope` | `FileSpec => Spec`, of the scope guards |
| `FileTypesOK` | `FileSpec => []FileTypeOK` |
| `SchemaIsTrue` | `~InMemory /\ Debug => (FileSpec => []SchemaTrue)` |
| `DestructorVacuums` | `Shelter = "own" /\ ~LeaveOpen => (FileSpec => []VacuumsOnClose)` |
| `StmtTypesOK`, `ReadsBackWhatWasBound` | `Spec => []TypeOK`, `Spec => []RoundTrip`, of the statements |

The hypotheses are conditions the code depends on and does not establish, and
for each there is a run that shows what happens without it:
`~PrepMayFail` (`MCPrepFails`), `~Overlap` (`MCPoolRace`), `Shelter = "own"`
(`MCStmtOutlives`), `~LeaveOpen` (`MCDestructorThrows`),
`~InMemory` (`MCInMemory`), room for all (`MCAllSlotsLost`); `Debug` is the
seventh item above, and `~PrepMayRace` excludes the undefined behaviour of an
unlocked read. What needs none of them is proved without: ownership, slots and
wake-ups for pools whose preparation fails and races, checkouts for clients that
assign over anything, types everywhere but in the library, whose counter may leave
its range when pools overlap.

The argument. `TypeOK` is inductive once it says where `hand` is set.
`OpenerHoldsMutex` is inductive with it, and gives that nobody changes the list
while a connection is being opened. `NoSleeperWithIdle` is inductive because
only `Push` makes the list longer and it wakes everybody. Ownership is
inductive with the numbering (`Idle \cup Out = 1..opened` makes `opened + 1`
fresh). `SlotsConserved` speaks of a cardinality, which an SMT solver does not
follow through `Head` and `Tail`; `SlotAccounting` names instead the number `k`
of open connections at the front of the list, which each action changes by at
most one, and `EmptySlots` computes the cardinality from it. `CountExact`
follows from the two together, since the open slots are as many as the idle
connections. That a connection is opened only when none is idle has to survive
the steps between popping the slot and opening: `OpenerSeesNoIdle`, which holds
because an empty front slot means `k = 0`, and `OpenerHoldsMutex` keeps others
from pushing. The refinement uses all of it: `PopReuse` is `Reuse`, `Create` is
`Open`, `CreateThrows` is `OpenFails`, `Push` is `Release`, and the other steps
change nothing the promise sees. Facts about `Head`, `Tail` and concatenation
are lemmas of their own (`PopFacts`, `PushFacts`, `PopOpen`, `PushPrefix`, ...).
A hand-over moves one element between two sets of `hand`s or `held`s and is
`Give` of the promise.

`PrepInOrder` is kept because texts only get younger and because the connection
that is being prepared is the one opened last (`PrepOrdered`); that is where the
mutex is needed. `TextsOrdered` is the same for preparations that fail: a gap is
all they leave.

*Sleepers.* With nobody awake to provide, `NoSleeperWithIdle` gives that the list is
empty, and `CountExact` that the connections that are out and those lost are
`PoolSize` together; all of them are with sleepers (`SleepersHaveAll`). A sleeper
asked below its limit and was handed nothing since (`AskersWithinLimit`, the only
further inductive invariant), and `SharesAddUp` turns that into the bound, by an
injection of the connections into pairs of a sleeper and a number below its
limit. Where the pool is larger than the bound somebody is awake with a
connection; a thread that is awake in a call waits only for `conn_mutex_`, and
`OpenerHoldsMutex` says that its owner can go on (`AwakeCallGoesOn`). That is
freedom from deadlock in terms of the actions' guards (`CanGoOn`). That calls then
do return is liveness, and model-checked.

*Library.* A pool between its read and its write of the counter must have read
the counter's value (`SeenIsCount`); this holds only while one pool is at it at
a time (`OneAtATime`), which is what the assumption `~Overlap` gives and the
code does not. With it the counter is the number of pools that count, and the
one that takes it to zero is the last (`LastLeaverShutsDown`).

*Scope guards.* `PoolAccounts` says that every connection is idle or out for one
checkout, and `CheckoutsOut` that it is out for a checkout that is alive or whose
one `~PooledConnection` has yet to push it; together they are
`OwnsMatchesCheckouts` (`OutOneByOne`). `DropRefKeeps` is the case that matters:
whichever thread drops the last reference, it is the only one to enter
`~PooledConnection`. `HalfWay` says that a statement with one half emptied is the
one its thread is busy with, and so nobody else's (`BusyAlone`). When the pool
dies nothing refers to a checkout and nobody is in `~PooledConnection`; after that
only a move assignment may have its second half left (`DestroyedIsEmpty`,
`NextWhenDestroyed`). All of this is `ScopeInvariant`, and it holds whichever
threads have the objects and whatever they assign over. `HalfKept` does not: if
the half that is left is the `sqlite3_stmt`, the thread has another object of the
checkout. It is inductive for `Shelter = "own"` because a step of one thread takes
nothing from the others (`ThreadStepOnlyOwn`, `KeepsOutStill`), and a thread in an
assignment drops and moves nothing; another thread's object would be no shelter,
which is what `MCStmtOutlives` shows. It gives `StmtInsideCheckout`
(`StmtHasCheckout`), and with it no connection has a statement when the pool
closes them (`DropPoolRefCloses`). `ScopeInvariant`, `HalfKept` and
`DestroyedClosesAll` are `TidyInvariant`.

*Database file.* Every step of `DatabaseFile` is one of the scope guards or leaves
them alone, so `ScopeInvariant`, and under `Shelter = "own"` `TidyInvariant`, come
for free. A statement on a row then has a checkout that is alive, and if clients
end their transactions before they drop a `Connection`, a connection with a
transaction has its `Connection` alive (`TransactionsOut`), through the hand-overs
and the two steps of each destructor. When the pool dies nothing is alive, so
nothing holds a lock (`NobodyLocks`) and the `VACUUM` is not refused. For
`SchemaTrue`, `NumberKept` says that a `getSchema` between its steps is on its row,
which is what the assertion makes sure of, and that row refuses other handles'
commits (`RowKeepsCommitsOut`), while `db_mutex_` excludes `setSchema`.

*Statements.* `ReadBack` says, value by value, that what `Stored` makes of a bound
value reads back as what it means (`Faithful`), for any width: `NarrowKeeps` and
`NarrowBits` are the arithmetic of `getInt32` and `getBool`, `UuidKeeps` the prefix
that `getUuid` copies, whatever the length. `StmtInvariant` carries it to the program: the
parameter and every row of the table are a value and what `bind` stores of it
(`Rows`), and what was read last is an outcome of reading such a row. `StmtAssumption` asks
for `UuidLen > 0`; the code has 16.

Only model-checked: liveness (`EveryCallReturns`, `AllComeHome`, `PoolGoesAway`),
since fairness is out of the prover's reach. No module declares a RECURSIVE
operator.

## What is not modelled

- Two calls of `setPrepSql` that race with each other, and two threads in one
  object, or on one `sqlite3` handle at the same time: the code does not lock these
  (it configures SQLite with `SQLITE_CONFIG_MULTITHREAD`), and what then happens is
  undefined. Calls on the objects of a checkout that is shared by threads are
  therefore one after the other, with other threads between their steps.
- The moved-from state of `Connection` and `PreparedStmt`, which every method
  asserts against.
- The order of `sqlite3_close` of idle connections after `sqlite3_shutdown` within
  one pool is in `SqliteLibrary` as a fact, not as a property: no document of the
  repository says what it should be.
- SQLite beyond its rollback-journal locks: WAL mode, busy handlers, other
  processes; the code sets up none of them. The locks of `DatabaseFile` are those
  of statements and transactions on whole databases. A failed `BEGIN` or a
  query that is refused changes nothing and is not a step.
- A call of `commit` by a client: it changes nothing of the modelled state,
  whether SQLite does it or refuses. `isOpen` is always true.
- The abort of `toErrorCode` in a build with assertions on a code that has no
  case, such as that of an SQL error.
- The text formats of dates and of error messages, SQLite's own conversions
  between storage classes, exhaustion of memory, `optimization_period` and
  `analysis_limit` (the constructor ignores them), and the prepared-statement
  cache that `include/dbpool/sqlite/ConnectionImpl.hpp:20` describes and the code
  does not have. `createConnection` leaks the handle of a failed `sqlite3_open`
  (`src/sqlite/ConnectionPoolImpl.cpp:139`), which no state here observes.
- Build files and tests, which have no behaviour of the library; the tests were
  read for what the code is expected to do.
