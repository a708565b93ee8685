\* Two sessions: every round is decided by WakeArbiter's rule, streams end.
SPECIFICATION Spec
CONSTANTS
  Sessions = {s1, s2}
  Guids = {g1, g2}
  None = None
  Scores = {1, 2}
  FrameCounts = {0, 7}
  ArbitrationTimeout = 1
  NoVoiceTimeout = 2
  OutputIsAlsa = TRUE
  AuthEnabled = TRUE
  MaxOffers = 2
  MaxChunks = 1
PROPERTIES ArbiterSpec StreamEnds
