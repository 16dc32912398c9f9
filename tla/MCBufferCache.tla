---------------------------- MODULE MCBufferCache ----------------------------
EXTENDS BufferCache

CONSTANTS file1, file2, file3, file4, file5, file6

\* hash of "file<n>_block1" for the keys main uses, modulo CACHE_SIZE = 5.
MainHash ==
    [k \in Keys |-> CASE k = file1 -> 1
                      [] k \in {file2, file3} -> 0
                      [] k \in {file4, file5, file6} -> 4]

\* Buckets for the small caches.
SmallHash == [k \in Keys |-> IF k \in {file1, file2, file3} THEN 0 ELSE 1]
=============================================================================
