SPECIFICATION BothSpec
CONSTANTS
  p1 = p1 p2 = p2 a1 = a1 a2 = a2 n1 = n1 n2 = n2
  TargetType = "ip"
  Pod = {p1, p2} Addr = {a1, a2} Node = {n1}
  NodeOf <- MCNodeOf
  FailOpen = TRUE ChunkSize = 1
  SvcStates = {"ok", "gone"} NodeStates = {"true"}
  PodCacheLag = FALSE
  NoPod = NoPod NoEntry = NoEntry
  MaxEvents = 5 MaxFaults = 1 MaxLost = 0
INVARIANT BothConverged
PROPERTY ReadyOnlyHealthy
CHECK_DEADLOCK FALSE
