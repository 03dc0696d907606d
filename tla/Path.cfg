SPECIFICATION FairSpec
CONSTANTS
  LittleEndian = TRUE
  Flow = {g1, x1}
  Plans <- MCPlans
  SocketBuf = 1
  maxConnsPerLeg = 1
  maxConcurrent = 1
  plain = plain
  marked = marked
  clear = clear
  other = other
  g1 = g1
  x1 = x1
  tlsPorts = {plain, marked, other}
  Host <- MCHost
  Allowed = {plain, marked, clear}
  ModeOf <- MCMode
  Mitm = TRUE
  Resolved <- MCResolved
  internalCIDRs = {}
  NoHost = NoHost
  NoIP = NoIP
INVARIANTS TypeOK SlotsAccounted RecordedBeforeBytes DialsAsMarked ReplyFirst NothingTruncated
PROPERTIES LegSlotReturned ProxySlotReturned
CHECK_DEADLOCK FALSE
