\* The database may refuse the preparation statement.
CONSTANTS
  Threads = {t1, t2}
  NoThread = NoThread
  PoolSize = 2
  MaxHeld = 2
  MaxSets = 1
  MaxOpenFailures = 0
  PrepMayFail = TRUE
  PrepMayRace = FALSE
SPECIFICATION Spec
SYMMETRY ThreadSymmetry
INVARIANTS
  PrepInOrder
