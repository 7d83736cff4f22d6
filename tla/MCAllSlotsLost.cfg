\* The only slot may be lost to a failed opening.
CONSTANTS
  Threads = {t1, t2}
  NoThread = NoThread
  PoolSize = 1
  MaxHeld = 1
  MaxSets = 0
  MaxOpenFailures = 1
  PrepMayFail = FALSE
  PrepMayRace = FALSE
  MaxCalls = 1
SPECIFICATION ClientSpec
PROPERTIES
  EveryCallReturns
CHECK_DEADLOCK FALSE
