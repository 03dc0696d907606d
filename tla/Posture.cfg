SPECIFICATION Spec
CONSTANTS
  Cgid = {c1, c2, c3}
  Conn = {k1, k2}
  Hooks <- MCHooks
  None = None
SYMMETRY MCSymmetry
INVARIANTS HolderInside ServedFromTCB BootMeasured
PROPERTIES GateOKIsReal PassEvictsStale
