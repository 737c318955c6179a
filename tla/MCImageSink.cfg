SPECIFICATION Spec
CONSTANTS
  Byte <- MCByte
  Zero = 0
  AddrMod = 12
  DiskMax = 5
  Inputs <- MCInputs
  Blocks <- MCBlocks
INVARIANTS
  TypeOK
  FileIsInputPlusWrites
  SizeCoversWrites
  NoGrowthUnlessAllowed
