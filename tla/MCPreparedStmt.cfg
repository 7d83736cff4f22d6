\* Numbers of one and two bits, UUIDs of two bytes, two rows.
CONSTANTS
  MaxInt32 = 0
  MaxInt64 = 1
  UuidLen = 2
  MaxRows = 2
SPECIFICATION Spec
INVARIANTS
  TypeOK
  RoundTrip
