\* Two groups share a device; a client may move between them.
SPECIFICATION SystemSpec
CONSTANTS
  Groups = {g1, g2}
  Sessions = {s1, s2}
  None = None
  MaxStreams = 2
  MaxBlocks = 1
  Arbitration = 1
  NoVoice = 1
INVARIANT SignalsAgree
PROPERTIES EverythingEnds RoundsDecided
CHECK_DEADLOCK FALSE
