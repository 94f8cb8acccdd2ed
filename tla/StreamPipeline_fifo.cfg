SPECIFICATION FairPipelineSpec
CONSTANTS
  mapping = mapping
  sales = sales
  Workers = {w1}
  Objects = {a, b}
  NoObject = NoObject
  Mappings = {mapping}
  MappingOf <- OneMapping
  Targets = {sales}
  NoTarget = NoTarget
  InitialTarget <- OneTarget
  MaxEvents = 3
  MaxBatches = 2
  MaxRetargets = 0
  MaxFaults = 1
CHECK_DEADLOCK FALSE
INVARIANTS
  TornIsPending
  ActiveIsLoaded
  NoGhostRows
  SettledIsCurrent
PROPERTIES
  ImplementsTable
  EventuallyCurrent
  EventuallySettled
