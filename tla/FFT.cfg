SPECIFICATION Spec
CONSTANTS
  Sizes = {16, 32, 48, 80, 96, 160, 224, 240, 288, 480, 512, 720, 1024, 2400}
  MaxCalls = 2
INVARIANTS
  FactorsFit
  TwiddlesRead
  ResultInOutput
  ReorderUndone
CHECK_DEADLOCK FALSE
