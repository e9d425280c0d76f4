CONSTANTS
  c1 = c1
  c2 = c2
  NoController = NoController
  NameOf <- MCNameOf
  Keys = {k}
  Values = {"odd", "even"}
  NoVersion = 0
  Absent = Absent
  Rank <- MCRank
  ValueOf <- MCValueOf
  MaxConcurrent = 2
  Outages <- MCDeleted
  Owners = {c1}
  Controllers = {c1}
  Names = {n1}
  Versions = {1, 2}
  EditKinds = {"create", "restore", "delete", "unlabel", "orphan", "drift", "freeze"}
  MaxEdits = 1
  MaxFaults = 1
  MaxOutages = 2
  QueueEnabled = FALSE
SPECIFICATION FairSpec
CHECK_DEADLOCK FALSE
INVARIANTS SourceDeletedMeansSynced
PROPERTIES Converges StatusSettles
