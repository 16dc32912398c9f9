CONSTANTS
  Clients = {c1, c2}
  Keys = {k1}
  Values = {v1}
  MAX_ENTRIES = 1
  BACKLOG = 2
  None = None
SPECIFICATION Spec
CHECK_DEADLOCK FALSE
PROPERTIES
  EveryoneServed
