SPECIFICATION FairSpec
CONSTANTS
  Addr = {0, 1, 2}
  FragMax = 3
INVARIANTS
  TypeOK
  ArranAssertion
PROPERTIES
  CompactionKeepsOrder
  IsCoverage
  CallsReturn
