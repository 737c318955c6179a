SPECIFICATION FairSpec
CONSTANTS
  Texts <- AllTexts
  Width = 16
INVARIANTS
  ValueRight
  NoneRefused
PROPERTIES
  Terminates
