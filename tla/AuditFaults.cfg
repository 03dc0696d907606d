SPECIFICATION Spec
CONSTANTS
  MaxRec = 4
  MaxSeg = 3
  RotateLen = 1
  SegKeep = 1
  Faults = {"repair", "truncate", "unrename", "unlink"}
PROPERTIES AckedOnlyPruned
