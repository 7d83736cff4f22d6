\* Two threads, two connections; numbers up to 2 fit, 3 does not.
CONSTANTS
  Threads = {t1, t2}
  Nothing = Nothing
  PoolSize = 2
  MaxCheckouts = 3
  MaxStmts = 2
  Shelter = "own"
  Own = Own
  NoTx = NoTx
  NoCall = NoCall
  MaxInt32 = 2
  MaxSchema = 3
  Debug = TRUE
  LeaveOpen = FALSE
  InMemory = FALSE
SYMMETRY ThreadSymmetry
SPECIFICATION FileSpec
INVARIANTS
  FileTypeOK
  SchemaTrue
  VacuumsOnClose
CHECK_DEADLOCK FALSE
