SPECIFICATION FairSpec
CONSTANTS
  Files <- AllFiles
  Main = "main"
  OpenMax = 3
  Numbers <- Words
  TooLarge <- HugeWords
INVARIANTS
  Numbered
  Attribution
PROPERTIES
  Selects
  Terminates
