SPECIFICATION Spec
CONSTANTS
  NumGeneral = 3
  NumSimd = 2
  MaxEvents = 4
  GeneralRegLimit = 2
  SimdRegLimit = 1
  Source <- HalfSource
  MaxInsns = 2
INVARIANTS MeaningIsKept
CHECK_DEADLOCK FALSE
