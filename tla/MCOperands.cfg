SPECIFICATION Spec
CONSTANTS
  Stray = {"RESERVED"}
  Files <- LostFiles
  Limits <- WholeFile
  Modes = {4}
  Invalid = {FALSE}
  Junk = {0}
INVARIANTS
  OperandsKept
