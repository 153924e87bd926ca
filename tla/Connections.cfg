\* Two dials and two Connect flows of a proxied app, one of them without a refresh
\* token; or a call to a tunnelled app over two sockets that take turns; or three
\* consents and two revocations of one OAuth client.
SPECIFICATION ConnectionsSpec
CONSTANTS
  Dials = {r1, r2}
  Callbacks = {k1, k2}
  Grants = {g1, g2}
  Renewable = {g1}
  MaxGen = 3
  Tokens = {t1}
  Calls = {c1}
  Bells = {}
  Upgrades = {u1}
  MaxSockets = 2
  DeadlineMs = 1
  BellFloor = 1
  Deletable = FALSE
  OcClients = {k1}
  OcAgents = {a1, a2}
  OcPosts = {p1, p2, p3}
  OcRevokes = {v1, v2}
INVARIANTS FlagIsDeserved CodeRedeemedOnce OcNoStranding
PROPERTIES NeverOlder FalseFlagHeals CallsEnd
