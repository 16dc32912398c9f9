CONSTANTS
  file1 = file1
  file2 = file2
  file3 = file3
  file4 = file4
  file5 = file5
  file6 = file6
  Keys = {file1, file2, file3, file4, file5, file6}
  CACHE_SIZE = 5
  POOL_SIZE = 10
  hash <- MainHash
  NULL = NULL
SPECIFICATION Spec
INVARIANTS
  PresentIsFound
