SPECIFICATION Spec
INVARIANTS
  MostSpecificPath
  
  OrderFree
  OnlyStatedCIDRs
  TargetsReachable
  ReplacementCreatable
  PlacementValid
  StaysFound
  TagsReconciled
  AddressTypeFits
  RightInterface
  ListsStack
  DependenciesFirst
PROPERTIES
  
  LookupsAfterTTL
  AddOnsAfterTTL
  
  ForeignTagsKept
CHECK_DEADLOCK FALSE
