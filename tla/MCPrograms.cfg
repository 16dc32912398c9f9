CONSTANTS
  c1 = c1
  c2 = c2
  c3 = c3
  MAX_FRAMES = 2
  MAX_PAGES = 9
  Pages = {1, 2, 3, 4}
  NoPage = NoPage
  Numbers = {1, 2, 3}
  MaxNodes = 8
  NULL = NULL
  Clients = {c1, c2, c3}
  Keys = {k1, k2}
  Values = {v1, v2}
  MAX_ENTRIES = 1
  BACKLOG = 2
  None = None
  MAX_USERS = 2
  MaxLines = 2
  MAX_CLIENTS = 2
  MaxEchoes = 2
  KEYS = 3
  TABLE_SIZE = 2
  BUFFER_SIZE = 3
  ITEMS = 6
  Addresses = {1, 2, 3}
  Counts <- SmallCounts
  UINT = 16
  MaxIds = 3
  MaxFiles = 1
  Sessions = {t1, t2}
  TABLE_ENTRIES = 2
  MaxCommands = 3
  MaxRaced = 2
  Rolls = {1, 2}
  Names = {"a", "b", "x"}
  Marks <- SomeMarks
  BadRoll = 0
  BadMark = 0
  MaxStudents = 2
SPECIFICATION Spec
SYMMETRY Symmetry
INVARIANTS
  TypeOK
  PagesKept
  TreeRules
  NobodyForgotten
  ChatExact
  EchoOrderly
  KeysFoundOnce
  BufferExact
  LogMatchesHeap
  SafeWithOneWriter
  TableSound
PROPERTIES
  SecondChance
  MapSpec
