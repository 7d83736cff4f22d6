\* A connection may go back with a transaction open; assertions are off.
CONSTANTS
  Threads = {t1, t2}
  Nothing = Nothing
  PoolSize = 2
  MaxCheckouts = 1
  MaxStmts = 1
  Shelter = "own"
  Own = Own
  NoTx = NoTx
  NoCall = NoCall
  MaxInt32 = 2
  MaxSchema = 3
  Debug = FALSE
  LeaveOpen = TRUE
  InMemory = FALSE
SPECIFICATION FileSpec
INVARIANT VacuumsOnClose
CHECK_DEADLOCK FALSE
