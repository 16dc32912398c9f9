--------------------------- MODULE MCBoundedQueue ---------------------------
EXTENDS BoundedQueue, TLC

CONSTANTS p1, p2, c1, c2

\* Producers are interchangeable, and so are consumers, in safety runs.
Symmetry == Permutations({p1, p2}) \cup Permutations({c1, c2})
=============================================================================
