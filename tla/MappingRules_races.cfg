SPECIFICATION Spec
CONSTANTS
  orders = orders
  clients = clients
  ordersRule = ordersRule
  clientsRule = clientsRule
  Workers = {w1, w2}
  Scopes = {orders, clients}
  Conditions = {ordersRule, clientsRule}
  ConditionOf <- OwnCondition
  Streams = {s1, s2}
  Nothing = Nothing
  MaxMappings = 2
  MaxRules = 2
  MaxRequests = 4
  MaxFaults = 1
SYMMETRY Symmetry
CHECK_DEADLOCK FALSE
INVARIANTS
  TypeOK
  RuleTagged
  OneManagedRule
  RuleFollowsMapping
