\* Three threads share four slots; opening may fail, preparing does not.
CONSTANTS
  Threads = {t1, t2, t3}
  NoThread = NoThread
  PoolSize = 4
  MaxHeld = 2
  MaxSets = 2
  MaxOpenFailures = 2
  PrepMayFail = FALSE
  PrepMayRace = FALSE
SPECIFICATION Spec
SYMMETRY ThreadSymmetry
INVARIANTS
  TypeOK
  Exclusive
  NoConnectionLost
  NoSleeperWithIdle
  SlotsConserved
  CountExact
  NoSleepInVain
  PrepInOrder
  PoolInvariant
PROPERTIES
  OpenOnlyWhenNoneIdle
  ImplementsBoundedPool
