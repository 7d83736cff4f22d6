\* A PreparedStmt is assigned over while another thread has its Connection.
CONSTANTS
  Threads = {t1, t2}
  Nothing = Nothing
  PoolSize = 1
  MaxCheckouts = 2
  MaxStmts = 2
  Shelter = "any"
SPECIFICATION Spec
INVARIANTS
  StmtInsideCheckout
CHECK_DEADLOCK FALSE
