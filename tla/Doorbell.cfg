\* One family, two re-lists in flight, one held stream and its consumer.
SPECIFICATION TickSpec
CONSTANTS
  Families = {tools}
  ToolFamily = tools
  Contents = {0, 1}
  Warms = {w1, w2}
INVARIANTS NoSilentStaleness StoredFollowsApp EndedStreamHoldsNothing
PROPERTIES StreamDies
