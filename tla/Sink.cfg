\* Three groups share a device and start up to four streams.  No symmetry: the
\* run checks liveness too.
SPECIFICATION Spec
CONSTANTS
  Groups = {g1, g2, g3}
  MaxStreams = 4
  MaxBlocks = 2
INVARIANTS TypeOK SinkConsistent NoStrandedQueue JoinNeverBlocks HeardInOnePiece PlayedOnce
PROPERTY ArbiterSpec
\* The run ends when MaxStreams streams have been started and played.
CHECK_DEADLOCK FALSE
