\* Two streams of up to three chunks, of whole and broken hops.
SPECIFICATION Spec
CONSTANTS
  DelayChunks = 2
  NumInputs = 3
  NumOutputs = 3
  NumClasses = 3
  Hop = 2
  VadWindow = 3
  VadThreshold = 50
  Levels = {0, 60}
  ChunkSizes = {2, 3, 4}
  MaxStreams = 2
  MaxChunks = 3
INVARIANTS PureDelay WindowContiguous VoiceClockCorrect NetworkFresh LineMatchesChunk
\* The run ends after MaxStreams streams, or where the outcome is undefined.
CHECK_DEADLOCK FALSE
