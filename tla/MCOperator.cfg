CONSTANTS
  NoController = NoController
  NameOf <- MCNameOf
  Keys = {k}
  Values = {"odd", "even"}
  NoVersion = 0
  Absent = Absent
  Rank <- MCRank
  ValueOf <- MCValueOf
  MaxConcurrent = 2
  Outages = {}
  Owners = {c1}
  Controllers = {c1}
  Names = {n1}
  Versions = {1, 2}
  EditKinds = {"unlabel"}
  MaxEdits = 1
  MaxFaults = 0
  MaxOutages = 0
  QueueEnabled = FALSE
  Spellings = {"db", "DB"}
  Objects = {"db"}
  Fold <- MCFold
  None = None
  SpellingOf <- MCSpellingOf
  Messages = {"m1"}
  BodyOf <- MCBodyOf
  BatchSize = 1
  PoisonThreshold = 1
  ChannelCap = 1
  MaxQueueFaults = 1
SPECIFICATION FairSpecAll
CHECK_DEADLOCK FALSE
INVARIANTS NoLostRotation
PROPERTIES RotationArrives NoResurrection
