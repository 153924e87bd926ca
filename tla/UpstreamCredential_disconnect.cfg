\* A disconnect while a refresh is under way.
SPECIFICATION Spec
CONSTANTS
  Dials = {r1}
  Callbacks = {k1}
  Grants = {g1}
  Renewable = {g1}
  MaxGen = 2
PROPERTIES DisconnectHolds
