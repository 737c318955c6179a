SPECIFICATION Spec
CONSTANTS
  Scripts <- PseudoScripts
  Options <- PlainOptions
  InputLens = {20}
  AddrMod = 64
  DiskMax = 28
  DispMod = 8
  JumpMod = 8
  Chunk = 4
  Half = 16
  Garbage = {0, 9}
  AndNot <- MCAndNot
INVARIANT
  PseudoBranchLands
