\* One client connects and leaves while the administrator edits the file.  No
\* symmetry: the run checks liveness.
SPECIFICATION Spec
CONSTANTS
  a1 = a1
  g1 = g1
  g2 = g2
  n1 = n1
  Sessions = {s1}
  Addresses = {a1}
  Guids = {g1, g2}
  Groups = {n1}
  None = None
  Missing = Missing
  Truncated = Truncated
  Contents <- MCContents
  MaxSaves = 2
INVARIANTS UpToDate RequestOnce AdmittedWasListed
PROPERTY ConfigTakesEffect
CHECK_DEADLOCK FALSE
