CONSTANTS
  c1 = c1
  c2 = c2
  NoController = NoController
  NameOf <- MCNameOf
  Keys = {k}
  Values = {"odd", "even"}
  NoVersion = 0
  Absent = Absent
  Rank <- MCRank
  ValueOf <- MCValueOf
  MaxConcurrent = 2
  Outages <- MCThrottled
  Owners = {c1}
  Controllers = {c1}
  Names = {n1, n2}
  Versions = {1}
  EditKinds = {"unlabel", "orphan", "delete"}
  MaxEdits = 2
  MaxFaults = 1
  MaxOutages = 1
  QueueEnabled = FALSE
SPECIFICATION FairSpec
CHECK_DEADLOCK FALSE
PROPERTIES StaleSwept DeletionCompletes KeepLastKnownGood
