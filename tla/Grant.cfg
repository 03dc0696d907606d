SPECIFICATION Spec
CONSTANTS
  Agent = {a1, a2}
  Cgid = {c1}
  Hook = {setuid, capset}
  Thread = {t1, t2}
  Req = {r1, r2}
  MaxRuns = 2
  MaxElem = 2
  None = None
SYMMETRY MCSymmetry
INVARIANTS SingleUse SpentByRequester
PROPERTIES GrantStays
