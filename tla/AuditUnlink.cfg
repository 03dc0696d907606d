SPECIFICATION Spec
CONSTANTS
  MaxRec = 5
  MaxSeg = 4
  RotateLen = 1
  SegKeep = 1
  Faults = {"unlink"}
INVARIANTS UnlinkFailureCostsSpace
