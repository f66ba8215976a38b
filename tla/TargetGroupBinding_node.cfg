SPECIFICATION Spec
CONSTANTS
  p1 = p1 p2 = p2 a1 = a1 a2 = a2 n1 = n1 n2 = n2
  TargetType = "ip"
  Pod = {p1} Addr = {a1} Node = {n1}
  NodeOf <- MCNodeOf
  FailOpen = FALSE ChunkSize = 1
  SvcStates = {"ok"} NodeStates = {"true", "false"}
  PodCacheLag = FALSE
  NoPod = NoPod NoEntry = NoEntry
  MaxEvents = 4 MaxFaults = 0 MaxLost = 0
INVARIANT Converged
CHECK_DEADLOCK FALSE
