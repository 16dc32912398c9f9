CONSTANTS
  p1 = p1
  p2 = p2
  c1 = c1
  c2 = c2
  Producers = {p1, p2}
  Consumers = {c1, c2}
  BUFFER_SIZE = 5
  ITEMS_TO_PRODUCE = 5
  NoThread = NoThread
SPECIFICATION Spec
CHECK_DEADLOCK FALSE
PROPERTIES
  WakesAWaiter
