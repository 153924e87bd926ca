\* A replaced socket's registration completes after its successor's accept.
CONSTANTS
  Tokens = {t1}
  Calls = {}
  Bells = {}
  Upgrades = {u1}
  MaxSockets = 2
  DeadlineMs = 2
  BellFloor = 1
  Deletable = FALSE
SPECIFICATION FairSpec
PROPERTIES HandshakeEnds
