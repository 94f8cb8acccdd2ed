SPECIFICATION PipelineSpec
CONSTANTS
  mapping = mapping
  sales = sales
  Workers = {w1}
  Objects = {a}
  NoObject = NoObject
  Mappings = {mapping}
  MappingOf <- OneMapping
  Targets = {sales}
  NoTarget = NoTarget
  InitialTarget <- OneTarget
  MaxEvents = 2
  MaxBatches = 1
  MaxRetargets = 0
  MaxFaults = 0
CHECK_DEADLOCK FALSE
INVARIANT DeletedIsGone
