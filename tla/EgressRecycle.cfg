SPECIFICATION Spec
CONSTANTS
  None = None
  a1 = a1
  a2 = a2
  pub = pub
  priv = priv
  Launch <- MCLaunch
  Top = {a1, a2}
  Minted = {m1}
  Cgid = {c1, c2}
  Class = {pub}
  Conn = {k1}
  Ceiling = {pub}
  MaxDepth = 0
  PolicyMax = 2
  Recycle = TRUE
  MaxStarts = 3
 
PROPERTIES WidensOnlyRequester
