SPECIFICATION FairSpec
CONSTANTS
  None = None
  a1 = a1
  a2 = a2
  pub = pub
  priv = priv
  Launch <- MCLaunch
  Top = {a1}
  Minted = {m1}
  Cgid = {c1, c2}
  Class = {pub}
  Conn = {k1}
  Ceiling = {pub}
  MaxDepth = 1
  PolicyMax = 1
  Recycle = FALSE
  MaxStarts = 2
PROPERTIES  WitnessedReclaimed
