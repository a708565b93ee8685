\* One group records or streams in a process that may be told to stop at any time.
SPECIFICATION LifecycleSpec
CONSTANTS
  Second = 2
  Timeouts <- ASecondApart
  SizeLimit = 2
  MaxTime = 3
  MaxWrites = 2
INVARIANTS  FilesAccountedFor StaleExplained StopPublishes
PROPERTIES NothingOverwritten SignalEnds
\* The process ends, or hangs where SignalEnds says it may.
CHECK_DEADLOCK FALSE
