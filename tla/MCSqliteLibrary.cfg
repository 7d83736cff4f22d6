\* Three pools come and go one at a time; constructors may fail.
CONSTANTS
  Pools = {p1, p2, p3}
  MaxConns = 1
  Overlap = FALSE
  InitMayFail = TRUE
SPECIFICATION Spec
INVARIANTS
  TypeOK
  UseCountExact
  LibraryReady
  LastOneShutsDown
CHECK_DEADLOCK FALSE
