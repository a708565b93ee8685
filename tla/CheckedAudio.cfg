\* May a hello during the check exchange the audio that was checked?
SPECIFICATION SafeSpec
CONSTANTS
  Sessions = {s1, s2}
  Guids = {g1, g2}
  None = None
  Scores = {1, 2}
  FrameCounts = {0}
  ArbitrationTimeout = 1
  NoVoiceTimeout = 1
  OutputIsAlsa = FALSE
  AuthEnabled = TRUE
  MaxOffers = 2
  MaxChunks = 1
INVARIANT CheckedAudioIsStreamed
