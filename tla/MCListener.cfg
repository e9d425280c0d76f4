CONSTANTS
  s1 = s1
  s2 = s2
  Spellings = {"db"}
  Objects = {"db"}
  Fold <- MCFold
  None = None
  Syncs = {s1, s2}
  Messages = {"rotated", "again"}
  BodyOf <- MCBodyOf
  BatchSize = 2
  PoisonThreshold = 2
  ChannelCap = 1
  MaxVersion = 2
  MaxEdits = 1
  MaxFaults = 1
SPECIFICATION Spec
CHECK_DEADLOCK FALSE
INVARIANTS TypeOK NoLostTrigger AcceptedBeforeDelete
SYMMETRY SyncSymmetry
