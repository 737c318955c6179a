SPECIFICATION Spec
CONSTANTS
  Stray = {"ADD", "PADDW", "RESERVED"}
  Files <- AllFiles
  Limits <- AllLimits
  Modes = {1, 2, 4}
  Invalid = {TRUE, FALSE}
  Junk = {0, 21}
INVARIANTS
  MeaningKept
  CanonicalKept
  DataExact
  Refusals
  SlotsFilled
