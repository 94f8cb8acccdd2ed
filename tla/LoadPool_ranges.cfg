SPECIFICATION FairSpec

CONSTANTS
  Threads = 2
  RangeBlocks = 2
  BatchRows = 1
  Versions = 4
  Size <- GrowsThenShrinks
  MaxSize = 6
  Malformed = {3}
  MaxFaults = 1

INVARIANTS
  TypeOK
  BatchesBounded
  StageIsQuiet
  ExchangedWhole
  ExchangedVersions
PROPERTIES
  LoadEnds
