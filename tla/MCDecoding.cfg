SPECIFICATION MCSpec
CONSTANTS
  Senders <- MCSenders
  PythonStreams <- MCPythonStreams
  CloseAt <- MCCloseAt
  ChunkSizes <- MCChunkSizes
  Foreign = Foreign
INVARIANTS
  ReadsInside
  DecodesWhatIsWritten
  NoneDelayed
  RefusesOnlyForeign
PROPERTIES
  HandlersEnd
CHECK_DEADLOCK FALSE
