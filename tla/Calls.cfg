\* Two tokens of one app take turns, an upgrade answered before the next; or a
\* call of the gateway while the owner and the app change what it reads.
CONSTANTS
  Tokens = {t1, t2}
  Calls = {c1, c2}
  Bells = {}
  Upgrades = {u1}
  MaxSockets = 2
  DeadlineMs = 1
  BellFloor = 1
  Deletable = TRUE
  DpCalls = {d1}
  DpFields = {f1}
  DpMaxRows = 2
  DpMaxApps = 2
  DpMaxChanges = 3
SPECIFICATION CallsSpec
SYMMETRY Symmetry
INVARIANTS AtMostOneOpen InFlightIsAnswerable DpApprovedAsShown DpLedgerIsTrue
PROPERTIES DrainIsScoped KeepsPromise DpKeepsPermit
