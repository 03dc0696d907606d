SPECIFICATION Spec
CONSTANTS
  LittleEndian = TRUE
  Cgroup = {g1}
  Thread = {t1}
  Manifest <- MCManifest
  Dest <- MCAddrs
  Cap = {cap}
  None = None
INVARIANTS VerdictJustified ClassAgrees
PROPERTIES SpentToAvertDeny
