CONSTANTS
  Producers = {p1}
  Consumers = {c1}
  BUFFER_SIZE = 2
  ITEMS_TO_PRODUCE = 5
  NoThread = NoThread
  Sizes = {0, 1, 2, 3, 4, 5}
  BUF = 2
  WORKER_COUNT = 3
  MaxSize = 5
  Nobody = Nobody
  MAX = 4
  FilesToSend <- SmallFiles
  FILES = 3
  QUEUE_DEPTH = 2
  Clients = {d1, d2, d3}
  None = None
  NUM_CHILDREN = 2
  MaxSignals = 2
  num_records = 4
  Ages = {1, 2, 3}
  filterage = 2
  WORKERS = 3
  ITERATIONS = 2
SPECIFICATION Spec
INVARIANTS
  TypeOK
  StreamsExact
  TotalsExact
  RequestsOwned
  HandlersKeepUp
  TermReachesAll
  FirstFound
PROPERTIES
  ProgramsEnd
