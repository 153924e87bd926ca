\* A revocation crosses an upgrade the worker half has already admitted.
CONSTANTS
  Tokens = {t1, t2}
  Calls = {}
  Bells = {}
  Upgrades = {u1}
  MaxSockets = 2
  DeadlineMs = 1
  BellFloor = 1
  Deletable = TRUE
SPECIFICATION LifecycleSpec
SYMMETRY Symmetry
INVARIANTS RevokedIsOut
