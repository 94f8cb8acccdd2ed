SPECIFICATION ConsoleSpec

CONSTANTS
  Threads = {t1, t2}
  MaxRequests = 3
  MaxFaults = 1
  local = local
  prod = prod
  localKey = localKey
  prodKey = prodKey
  Names = {local, prod}
  Keys = {localKey, prodKey}
  KeyOf <- OwnKeys
  NoKey = NoKey
  InitialProfiles <- OneTunnel
  s1 = s1
  Sessions = {s1, s2}
  SignedIn = {s1}
  j1 = j1
  j2 = j2
  Jobs = {j1, j2}
  OwnerOf <- TwoUploads
  ReviewOf <- OneReviewed
  OldRows = OldRows
  k1 = k1
  k2 = k2
  RowKeys = {k1, k2}
  KeysOf <- SharedKeys
  TableExists = TRUE
  TableKeyed = TRUE
  m1 = m1
  m2 = m2
  Messages = {m1, m2}
  InitialStatus <- OneFailed
  Periods = {month}

SYMMETRY ConsoleSymmetry

INVARIANTS
  ConsoleTypeOK
  KeysStored
  ImportedOnce
  RegistryHasTable

\* The bound on requests ends the model's behaviour.
CHECK_DEADLOCK FALSE
