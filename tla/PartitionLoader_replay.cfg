SPECIFICATION Spec
CONSTANTS
  w1 = w1
  w2 = w2
  orders = orders
  clients = clients
  orderMapping = orderMapping
  clientMapping = clientMapping
  sales = sales
  archive = archive
  Workers = {w1}
  Objects = {orders, clients}
  NoObject = NoObject
  Mappings = {orderMapping, clientMapping}
  MappingOf <- OwnMapping
  Targets = {sales, archive}
  NoTarget = NoTarget
  InitialTarget <- SharedTarget
  MaxEvents = 2
  MaxBatches = 2
  MaxRetargets = 0
  MaxFaults = 0
CHECK_DEADLOCK FALSE
PROPERTY ReplayIsNoOp
