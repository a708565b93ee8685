\* Three sessions compete for the group, two of them possibly with the same
\* GUID; scores may tie, checks fail, clients leave, come back and change GUID
\* around the flush of the pre-roll.  Safety only, with symmetry.
SPECIFICATION SafeSpec
CONSTANTS
  Sessions = {s1, s2, s3}
  Guids = {g1, g2}
  None = None
  Scores = {1, 2}
  FrameCounts = {0}
  ArbitrationTimeout = 1
  NoVoiceTimeout = 1
  OutputIsAlsa = TRUE
  AuthEnabled = TRUE
  MaxOffers = 3
  MaxChunks = 2
SYMMETRY Symmetry
INVARIANTS TypeOK RoundConsistent OnlyWinnerStarted OutputHeldByStream StreamFaithful
PROPERTIES EveryCandidateAnswered FlushIsChecked
