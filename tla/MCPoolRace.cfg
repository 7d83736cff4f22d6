\* Two pools come and go at the same time.
CONSTANTS
  Pools = {p1, p2}
  MaxConns = 0
  Overlap = TRUE
  InitMayFail = FALSE
SPECIFICATION Spec
INVARIANTS
  LibraryReady
CHECK_DEADLOCK FALSE
