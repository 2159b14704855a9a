SPECIFICATION Spec
CONSTANTS
  NumGeneral = 3
  NumSimd = 2
  MaxEvents = 4
  GeneralRegLimit = 2
  SimdRegLimit = 1
  Source <- MCSource
  MaxInsns = 4
INVARIANTS MeaningIsKept GraphIsSound  PassesCanRun OperandsFit
CHECK_DEADLOCK FALSE
