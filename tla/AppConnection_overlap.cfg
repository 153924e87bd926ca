\* Two upgrades reach the object while a socket sits on the slot.
CONSTANTS
  Tokens = {t1}
  Calls = {}
  Bells = {}
  Upgrades = {u1, u2}
  MaxSockets = 3
  DeadlineMs = 1
  BellFloor = 1
  Deletable = FALSE
SPECIFICATION Spec
INVARIANTS AtMostOneOpen
