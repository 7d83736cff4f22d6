\* Three threads that may hold one connection and ask for a second; of the
\* five slots one may be lost.
CONSTANTS
  Threads = {t1, t2, t3}
  NoThread = NoThread
  PoolSize = 5
  MaxHeld = 2
  MaxSets = 0
  MaxOpenFailures = 1
  PrepMayFail = FALSE
  PrepMayRace = FALSE
  MaxCalls = 2
SPECIFICATION ClientSpec
PROPERTIES
  EveryCallReturns
  AllComeHome
CHECK_DEADLOCK FALSE
