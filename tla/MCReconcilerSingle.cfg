CONSTANTS
  c1 = c1
  c2 = c2
  NoController = NoController
  NameOf <- MCNameOf
  Keys = {k}
  Values = {"odd", "even"}
  NoVersion = 0
  Absent = Absent
  Rank <- MCRank
  ValueOf <- MCValueOf
  MaxConcurrent = 2
  Outages <- MCOutages
  Owners = {c1}
  Controllers = {c1}
  Names = {n1, n2}
  Versions = {1, 2}
  EditKinds = {"create", "delete", "unlabel", "drift", "freeze"}
  MaxEdits = 2
  MaxFaults = 1
  MaxOutages = 0
  QueueEnabled = TRUE
SPECIFICATION Spec
CHECK_DEADLOCK FALSE
INVARIANTS TypeOK FinalizerBeforeSecret NeverForgotten
PROPERTIES NoRollback KeepLastKnownGood SyncedNeverRegresses
