SPECIFICATION Spec

CONSTANTS
  Threads = {t1, t2}
  Names = {n1, n2}
  single = single
  double = double
  Streams = {single, double}
  PartitionCount <- OneAndTwo
  Mappings = {m1}
  Foreign = 1
  MaxInstances = 3
  MaxRequests = 3
  MaxEdits = 1
  MaxFaults = 1

SYMMETRY DeploymentSymmetry

INVARIANTS
  TypeOK
  NameDeployedOnce
  ModeFitsStream

\* The bounds on requests and instances end the model's behaviour.
CHECK_DEADLOCK FALSE
