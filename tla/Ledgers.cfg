\* Three identical calls, an owner, and a reader that is list() or the sweep;
\* or two writers of names; or an export under two writers and the pruning.
SPECIFICATION LedgersSpec
CONSTANTS
  Calls = {c1, c2, c3}
  Deciders = {d1}
  Readers = {r1}
  MaxRows = 2
  Window = 1
  Retention = 1
  MaxNow = 2
  TsIdentities = {1, 2}
  TsNames = {1, 2}
  TsGenerated <- OneCandidate
  TsWriters = {w1, w2}
  TsMaxWrites = 3
  AeWriters = {e1, e2}
  AeChunkRows = 2
  AeRetention = 1
  AeMaxRows = 4
  AeMaxNow = 2
SYMMETRY Symmetry
INVARIANTS OneHolder ExpiredOnce TsNameMeansOne AeComplete AeDescends
PROPERTIES KeepsPermit PrunedWasSettled
