SPECIFICATION Spec
CONSTANTS
  Scripts <- AllScripts
  Options <- AllOptions
  InputLens = {20}
  AddrMod = 64
  DiskMax = 28
  DispMod = 8
  JumpMod = 8
  Chunk = 4
  Half = 16
  Garbage = {0, 9}
  AndNot <- MCAndNot
INVARIANTS
  TypeOK
  PassesAgree
  SlotDiscipline
  BranchesLand
  LabelsMatchCode
  SymbolsMatchCode
  PatchExact
  PartialPatch
