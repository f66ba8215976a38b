CONSTANTS
  t1 = t1
  t2 = t2
  s1 = s1
  s2 = s2
  lb = lb
  ip = ip
  NoNetworking = NoNetworking
  NoTGB = NoTGB
  NoSG = NoSG
  NoEntry = NoEntry
  TGB = {t1, t2}
  SG = {s1, s2}
  Tagged = {s1}
  Group = {lb}
  Cidr = {ip}
  MaxPort = 2
  Others <- MCOthers
  Shapes <- MCShapes
  MultiSG = TRUE
  LookupRace = TRUE
  EarlyDelete = FALSE
  MaxEvents = 2
  MaxFaults = 0
SPECIFICATION Spec
INVARIANTS NeededPortsOpen
SYMMETRY Symmetry
CHECK_DEADLOCK FALSE
