SPECIFICATION FairSpec
CONSTANTS
  Writers = {p1, f1, r1}
  Pollers = {p1}
  Rebuilders = {f1}
  Readers = {r1}
  NoOne = NoOne
  NoSnapshot = NoSnapshot
  Kinds = {"account", "group"}
  BatchLimit = 2
  MaxChanges = 2
  MaxFaults = 1
INVARIANTS
  NoSnapshotFromBeforeRetirement
  DrainedMeansFresh
PROPERTY
  SnapshotConverges
