\* Every sequence of up to seven frames of four levels, in each mode.
SPECIFICATION Spec
CONSTANTS
  Settings <- MCSettings
  FrameCounts = {0, 3}
  Levels = {0, 75, 90, 100}
  MaxFrames = 7
INVARIANTS VerdictCorrect SmoothedIsMovingAverage
\* A check ends with its verdict.
CHECK_DEADLOCK FALSE
