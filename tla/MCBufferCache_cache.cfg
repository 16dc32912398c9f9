CONSTANTS
  file1 = file1
  file2 = file2
  file3 = file3
  file4 = file4
  file5 = file5
  file6 = file6
  Keys = {file1, file2, file3, file4, file5}
  CACHE_SIZE = 4
  POOL_SIZE = 6
  hash <- SmallHash
  NULL = NULL
SPECIFICATION Spec
INVARIANTS
  TypeOK
  BuffersConserved
  BucketsAlive
  DataMatchesKey
