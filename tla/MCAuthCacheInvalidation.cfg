\* With fresh caches and an empty outbox nothing is left to do.
CHECK_DEADLOCK FALSE
SPECIFICATION FairSpec
CONSTANTS
  Instances = {i1, i2}
  Lookups = {1}
  NoOne = NoOne
  Absent = Absent
  MaxUpdates = 1
  MaxFaults = 1
INVARIANTS
  NoStaleAfterLastPass
PROPERTY
  ChangeReachesEveryone
