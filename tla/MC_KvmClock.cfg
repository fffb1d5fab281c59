CONSTANTS
  Reader = {r1, r2}
  Time = {1, 2}
  MaxUpdates = 1
SPECIFICATION FairSpec
INVARIANTS SnapshotConsistent MovesForward
PROPERTIES LastNeverBack Returns
