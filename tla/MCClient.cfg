CONSTANTS
  Id <- MCId
  StreamLen = 6
  Streams <- MCStreams
SPECIFICATION Spec
CHECK_DEADLOCK FALSE
INVARIANTS TypeOK Conserved FramesInOrder ReturnsIdeal AbortsOnlyRefused AgreesWithOneCall
PROPERTY CallReturns
