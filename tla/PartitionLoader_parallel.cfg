SPECIFICATION Spec
CONSTANTS
  w1 = w1
  w2 = w2
  orders = orders
  clients = clients
  orderMapping = orderMapping
  clientMapping = clientMapping
  sales = sales
  archive = archive
  Workers = {w1, w2}
  Objects = {orders, clients}
  NoObject = NoObject
  Mappings = {orderMapping, clientMapping}
  MappingOf <- OwnMapping
  Targets = {sales, archive}
  NoTarget = NoTarget
  InitialTarget <- SharedTarget
  MaxEvents = 2
  MaxBatches = 2
  MaxRetargets = 1
  MaxFaults = 1
SYMMETRY Symmetry
CHECK_DEADLOCK FALSE
INVARIANTS
  TypeOK
  BatchesDistinct
  RowsInOwnPartition
