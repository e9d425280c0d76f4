CONSTANTS
  c1 = c1
  c2 = c2
  NoController = NoController
  NameOf <- MCNameOf
  Keys = {k}
  Values = {"odd", "even"}
  NoVersion = 0
  Absent = Absent
  Rank <- MCRank
  ValueOf <- MCValueOf
  MaxConcurrent = 2
  Outages <- MCOutages
  Owners = {c1, c2}
  Controllers = {c1, c2}
  Names = {n1}
  Versions = {1}
  EditKinds = {"orphan"}
  MaxEdits = 1
  MaxFaults = 0
  MaxOutages = 0
  QueueEnabled = FALSE
SPECIFICATION FairSpec
CHECK_DEADLOCK FALSE
INVARIANTS FinalizerBeforeSecret InSyncEarned
PROPERTIES DeletesOnlyOwnWrites Converges StatusSettles
