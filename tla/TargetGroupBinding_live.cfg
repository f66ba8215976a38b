SPECIFICATION LiveSpec
CONSTANTS
  p1 = p1 p2 = p2 a1 = a1 a2 = a2 n1 = n1 n2 = n2
  TargetType = "ip"
  Pod = {p1} Addr = {a1} Node = {n1}
  NodeOf <- MCNodeOf
  FailOpen = TRUE ChunkSize = 1
  SvcStates = {"ok", "noport", "gone"} NodeStates = {"true", "unknown"}
  PodCacheLag = TRUE
  NoPod = NoPod NoEntry = NoEntry
  MaxEvents = 6 MaxFaults = 1 MaxLost = 1
INVARIANT NoTargetOutlives
PROPERTIES DeletionCompletes PodLetThrough PodRegistered
CHECK_DEADLOCK FALSE
