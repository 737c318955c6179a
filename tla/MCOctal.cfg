SPECIFICATION FairSpec
CONSTANTS
  Texts <- OctalTexts
  Width = 16
PROPERTIES
  LiteralEnds
