SPECIFICATION FairSpec
CONSTANTS
  Addr <- AddrSet
  ExecMax = 5
  Entry = 3
  Programs <- AllPrograms
  FragMax = 3
  CounterMax = 4
  CommandMax = 2
  FailMax = 1
INVARIANTS
  TypeOK
  FlowsNoted
  CalledAnalysed
PROPERTIES
  ExtentHoldsFlow
  AnalysisEnds
