SPECIFICATION FairSpec
CONSTANTS
  g1 = g1  g2 = g2  i1 = i1  i2 = i2  s1 = s1
  Group = {g1}
  Ingress = {i1}
  Service = {s1}
  SGID = {sgA, sgB}
  MayJoin <- FixedGroups
  NoKey = NoKey  NoSG = NoSG  NoLB = NoLB
  MaxEdits = 3
  MaxFaults = 1
INVARIANTS HeldSGExists SingleBackendSG
PROPERTIES EveryGetAnswered DeletionCompletes
