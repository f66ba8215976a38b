SPECIFICATION FairSpec
CONSTANTS
  g1 = g1  g2 = g2  i1 = i1  i2 = i2  s1 = s1
  Group = {g1, g2}
  Ingress = {i1, i2}
  Service = {}
  SGID = {sgA, sgB}
  MayJoin <- TwoGroups
  NoKey = NoKey  NoSG = NoSG  NoLB = NoLB
  MaxEdits = 3
  MaxFaults = 0
PROPERTIES UnneededSGDeleted
