SPECIFICATION AdminSpec

CONSTANTS
  w1 = w1
  w2 = w2
  orders = orders
  mapping = mapping
  sales = sales
  Workers = {w1, w2}
  Objects = {orders}
  NoObject = NoObject
  Mappings = {mapping}
  MappingOf <- OneMapping
  Targets = {sales}
  NoTarget = NoTarget
  InitialTarget <- OneTarget
  TableName <- OneName
  MaxEvents = 2
  MaxBatches = 1
  MaxRetargets = 0
  MaxFaults = 1
  MaxCleanups = 1

SYMMETRY Symmetry

INVARIANT OrphansNeedFaults
PROPERTY CleanupSparesLoads

\* The bounds on events, retargets and cleanups end the model's behaviour.
CHECK_DEADLOCK FALSE
