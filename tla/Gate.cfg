SPECIFICATION FairSpec
CONSTANTS
  None = None
  r1 = r1
  r2 = r2
  r3 = r3
  g1 = g1
  g2 = g2
  Req = {r1, r2, r3}
  Cgid = {g1, g2}
  CgOf <- MCCgOf
  MaxPending = 2
  MaxPendingPar = 1
  MaxRestarts = 1
INVARIANTS FloodCaps ApprovedOnly
PROPERTIES GateImplements ApprovesWhatWasShown Decided
