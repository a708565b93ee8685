\* Does the destructor of the manager return while the worker plays?
SPECIFICATION ShutdownSpec
CONSTANTS
  Groups = {g1}
  MaxStreams = 1
  MaxBlocks = 1
PROPERTY DestructorReturns
CHECK_DEADLOCK FALSE
