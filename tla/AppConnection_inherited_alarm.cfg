\* A socket is accepted over the alarm that an earlier one left behind.
CONSTANTS
  Tokens = {t1}
  Calls = {}
  Bells = {}
  Upgrades = {u1}
  MaxSockets = 2
  DeadlineMs = 2
  BellFloor = 1
  Deletable = FALSE
SPECIFICATION Spec
PROPERTIES WindowIsKept
