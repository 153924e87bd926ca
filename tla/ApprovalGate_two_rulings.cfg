SPECIFICATION Spec
CONSTANTS
  Calls = {c1, c2}
  Deciders = {d1, d2}
  Readers = {}
  MaxRows = 2
  Window = 1
  Retention = 9
  MaxNow = 2
INVARIANTS
  RejectionHolds
