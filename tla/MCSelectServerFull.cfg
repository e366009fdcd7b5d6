CONSTANTS
  c1 = c1
  c2 = c2
  Conn = {c1, c2}
  NoConn = NoConn
  Fd = {4}
  ListenFd = 3
  Writes <- MCWrites
  Id <- MCId
  QueueLimit = 2
  BufferLen = 2
  MaxFaults = 1
SPECIFICATION Spec
CHECK_DEADLOCK FALSE
INVARIANT LogsOwed
PROPERTY ServesWhenFull
