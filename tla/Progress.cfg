\* The alarm slot over two sockets that take turns; two copies of the app on any two
\* libraries; a program of two host operations; two calls that retry at the gate.
SPECIFICATION ProgressSpec
CONSTANTS
  Tokens = {t1}
  Calls = {}
  Bells = {tools}
  Upgrades = {u1}
  MaxSockets = 2
  DeadlineMs = 2
  BellFloor = 1
  Deletable = TRUE
  TcClients = {copy1, copy2}
  TcLibraries = {"js", "py", "go", "rust"}
  TcMaxAttempt = 1
  TcOverflow = 1
  TcMaxFaults = 1
  HubOps = {o1, o2}
  HubConcurrency = 2
  HubOperations = 2
  GateCalls = {c1, c2}
  GateDeciders = {d1}
  GateReaders = {}
  GateRows = 3
INVARIANTS AlarmCovers TcSurvivor HubHonest HubPublishesToLive HubRuntimeSound
PROPERTIES CoalescerSparesHandshake RingIsHeard  HubEnds GateAnswers
