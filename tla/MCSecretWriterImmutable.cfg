CONSTANTS
  c1 = c1
  c1old = c1old
  Owners = {c1}
  Controllers = {c1, c1old, c2}
  NoController = NoController
  NameOf <- MCNameOf
  Keys = {k}
  Values = {a, b}
  Versions = {v1}
  NoVersion = NoVersion
  Absent = Absent
  MaxRev = 4
SPECIFICATION Spec
CHECK_DEADLOCK FALSE
PROPERTIES OtherOwnersSecretIsConflict
