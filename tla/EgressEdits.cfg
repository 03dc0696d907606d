SPECIFICATION Spec
CONSTANTS
  None = None
  a1 = a1
  a2 = a2
  pub = pub
  priv = priv
  Launch <- MCLaunch
  Top = {a1}
  Minted = {m1}
  Cgid = {c1, c2}
  Class = {pub, priv}
  Conn = {k1, k2}
  Ceiling = {priv}
  MaxDepth = 1
  PolicyMax = 2
  Recycle = FALSE
  MaxStarts = 2
SYMMETRY MCSymmetry
INVARIANTS AuthorityConfined OKIsRecorded
PROPERTIES EditsAreAuthorised
