SPECIFICATION RouterSpec
CONSTANTS
  Chat = {q1, q2}
  Provider = {p1, p2}
  Configured = {p1}
  PaidRatePerMin = 2
  TicksPerMin = 3
  Threshold = 2
  PromptLen = {1, 2}
  MaxNow = 5
  MaxGrants = 4
SYMMETRY MCSymmetry
INVARIANTS VolumeBounded PaidIsRecorded
CHECK_DEADLOCK FALSE
