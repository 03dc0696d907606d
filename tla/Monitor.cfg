SPECIFICATION MonSpec
CONSTANTS
  MaxRec = 3
  MaxSeg = 2
  RotateLen = 1
  SegKeep = 1
  Faults = {}
  MissedThreshold = 1
  maxConsecutiveRaces = 2
VIEW MCView
INVARIANTS BootGatePasses SnapshotVerifies NotEvaded
PROPERTIES ImplementsLog PinDescends QuietPollPasses
