CONSTANTS
  s1 = s1
  s2 = s2
  Spellings = {"db", "DB"}
  Objects = {"db"}
  Fold <- MCFold
  None = None
  Syncs = {s1}
  Messages = {"capitals", "key"}
  BodyOf <- MCBodyOf
  BatchSize = 2
  PoisonThreshold = 1
  ChannelCap = 1
  MaxVersion = 2
  MaxEdits = 1
  MaxFaults = 2
SPECIFICATION FairSpec
CHECK_DEADLOCK FALSE
PROPERTIES QueueDrains Propagates
