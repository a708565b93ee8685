SPECIFICATION SafeSpec

CONSTANTS
  a1 = a1
  g1 = g1
  g2 = g2
  n1 = n1
  Sessions = {s1}
  Addresses = {a1}
  Guids = {g1, g2}
  Groups = {n1}
  None = None
  Missing = Missing
  Truncated = Truncated
  Contents <- MCContents
  MaxSaves = 2

PROPERTY SafelyRemoved

CHECK_DEADLOCK FALSE
