\* The file is ":memory:": a database for each handle.
CONSTANTS
  Threads = {t1, t2}
  Nothing = Nothing
  PoolSize = 2
  MaxCheckouts = 1
  MaxStmts = 1
  Shelter = "own"
  Own = Own
  NoTx = NoTx
  NoCall = NoCall
  MaxInt32 = 2
  MaxSchema = 3
  Debug = TRUE
  LeaveOpen = FALSE
  InMemory = TRUE
SPECIFICATION FileSpec
INVARIANT SchemaTrue
CHECK_DEADLOCK FALSE
