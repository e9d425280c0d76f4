CONSTANTS
  DefaultInterval = 240
  Unset = Unset
  Unparsable = Unparsable
  Absent = Absent
  Syncs = {s1, s2}
  MaxConcurrent = 1
  Arguments <- MCArguments
  Rotating = {s2}
  MaxVersion = 2
  MaxFailures = 1
  MaxOutages = 1
SPECIFICATION Spec
INVARIANT RawValueNeverEchoed
