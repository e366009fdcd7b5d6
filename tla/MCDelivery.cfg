SPECIFICATION Spec
CONSTANTS
  Rounds = 2
  Events = 3
  Crashes = 1
  Id <- MCId
INVARIANTS
  Conserved
  LoggedOnce
PROPERTIES
  EventsArrive
CHECK_DEADLOCK FALSE
