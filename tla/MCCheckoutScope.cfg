\* Two threads, two connections, three checkouts and two statements.
CONSTANTS
  Threads = {t1, t2}
  Nothing = Nothing
  PoolSize = 2
  MaxCheckouts = 3
  MaxStmts = 2
  Shelter = "own"
SPECIFICATION FairSpec
INVARIANTS
  TypeOK
  OwnsMatchesCheckouts
  StmtInsideCheckout
  DestroyedClosesAll
PROPERTIES
  PoolGoesAway
CHECK_DEADLOCK FALSE
