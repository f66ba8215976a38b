SPECIFICATION FairSpec
CONSTANTS
  sg = sg
  a1 = a1
  a2 = a2
  pub = pub
  int = int
  p80 = p80
  p81 = p81
  i80 = i80
  p80r1 = p80r1
  p80r2 = p80r2
  SG <- MCSG
  TG <- MCTG
  LB <- MCLB
  LS <- MCLS
  Rule <- MCRule
  Parent <- MCParent
  Value = {0, 1, 2}
  Cert = {"c", "d"}
  Stacks <- MCStacks
  First <- MCFirst
  Protected = {2}
  NoStack <- MCNoStack
  MaxEdits = 2
  MaxFaults = 1
INVARIANTS DeployedExactly OneLoadBalancerPerTarget
PROPERTIES KeepsPromise BindingGoesFirst 
CHECK_DEADLOCK FALSE
