CONSTANTS
  c1 = c1
  c1old = c1old
  Owners = {c1, c2}
  Controllers = {c1, c2, c1old}
  NoController = NoController
  NameOf <- MCNameOf
  Keys = {k}
  Values = {a, b}
  Versions = {v1}
  NoVersion = NoVersion
  Absent = Absent
  MaxRev = 4
SYMMETRY ValueSymmetry
SPECIFICATION Spec
CHECK_DEADLOCK FALSE
INVARIANTS TypeOK CopiesKnown VerdictsJustified UndisturbedVerdict
PROPERTIES FirstWriterWins NearsReturn ImplementsContract
