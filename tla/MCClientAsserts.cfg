CONSTANTS
  Id <- MCId
  StreamLen = 6
  Streams <- MCStreams
SPECIFICATION Spec
CHECK_DEADLOCK FALSE
INVARIANT KnownProtocolsServed
