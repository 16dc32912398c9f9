-------------------------------- MODULE MCWAL --------------------------------
EXTENDS WAL

CONSTANTS r1, r2, r3

\* Runs are interchangeable.
Symmetry == Permutations({r1, r2, r3})
=============================================================================
