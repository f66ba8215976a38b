SPECIFICATION Spec
CONSTANTS
  g1 = g1  g2 = g2  i1 = i1  i2 = i2  s1 = s1
  Group = {g1, g2}
  Ingress = {i1}
  Service = {}
  SGID = {sgA, sgB}
  MayJoin <- MovingIngress
  NoKey = NoKey  NoSG = NoSG  NoLB = NoLB
  MaxEdits = 4
  MaxFaults = 1
INVARIANTS HeldSGExists
