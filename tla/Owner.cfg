\* Revocation, archival and deletion against the dials of a token; or grants,
\* revocation and deletion against two registrations of an app.
CONSTANTS
  Tokens = {t1}
  Calls = {}
  Bells = {}
  Upgrades = {u1}
  MaxSockets = 2
  DeadlineMs = 1
  BellFloor = 1
  Deletable = TRUE
  RdPatterns = {q1, q2}
  RdRegisters = {w1, w2}
SPECIFICATION OwnerSpec
INVARIANTS LockedOutStaysOut DeletedNeverServes RdNothingSilent
