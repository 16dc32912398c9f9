-------------------------- MODULE RedBlackTreeProofs --------------------------
(***************************************************************************)
(* The red-black tree of src/R-Blacktree-file-2.c stays one sorted tree of *)
(* all inserted nodes, also between the iterations of fixinsertion, and    *)
(* meets the red-black rules after every insertion as long as no inner     *)
(* node was rotated, for every input and every number of nodes.            *)
(*                                                                         *)
(* The links alone do not say that a tree is a tree, and Below and         *)
(* BlackHeights are recursive.  So the invariant speaks of witnesses: a    *)
(* function B from a node to the nodes of its subtree (Grown), and a       *)
(* function h from a node to its black height (Level).  Every operation    *)
(* gives the witnesses of its result (Lowered, Longer); at the end Below   *)
(* is shown to be B, and BlackHeights[n] to be {h[n]}.                     *)
(***************************************************************************)
EXTENDS RedBlackTree, FiniteSetTheorems, NaturalsInduction, WellFoundedInduction, TLAPS

\* The records that tree ranges over (RedBlackTree!TypeOK).
Trees == [root : Links, data : [Nodes -> Int], color : [Nodes -> {"RED", "BLACK"}],
          parent : [Nodes -> Links], child : [Sides -> [Nodes -> Links]]]

\* The links of the first N nodes: a node is the parent of its children, and
\* every node but the root is a child.
Linked(t, N) ==
    /\ t \in Trees /\ N \in 0..MaxNodes
    /\ t.root = NULL <=> N = 0
    /\ N > 0 => t.root \in 1..N /\ t.parent[t.root] = NULL
    /\ \A n \in Nodes, s \in Sides : t.child[s][n] # NULL =>
          n \in 1..N /\ t.child[s][n] \in 1..N /\ t.parent[t.child[s][n]] = n
    /\ \A n \in 1..N : n # t.root =>
          t.parent[n] \in 1..N /\ \E s \in Sides : t.child[s][t.parent[n]] = n

Kid(t, B, s, n) == IF t.child[s][n] = NULL THEN {} ELSE B[t.child[s][n]]

\* B has the nodes of every subtree.
Grown(t, B, N) ==
    /\ B \in [Nodes -> SUBSET Nodes]
    /\ \A n \in Nodes, s \in Sides : B[n] = {n} \cup Kid(t, B, s, n) \cup Kid(t, B, Other(s), n)
    /\ \A n \in Nodes, s \in Sides : n \notin Kid(t, B, s, n)
    /\ \A n \in Nodes, s \in Sides : Kid(t, B, s, n) \cap Kid(t, B, Other(s), n) = {}
    /\ N > 0 => B[t.root] = 1..N
    /\ \A n \in Nodes : \A m \in B[n] : B[m] \subseteq B[n]
    /\ \A n \in Nodes : \A m \in B[n] : m # n => t.parent[m] \in B[n]
    /\ \A n \in 1..N : B[n] \subseteq 1..N

InOrder(s, a, b) == IF s = "left" THEN a <= b ELSE b <= a

Sorted(t, B) ==
    \A n \in Nodes, s \in Sides : \A m \in Kid(t, B, s, n) : InOrder(s, t.data[m], t.data[n])

\* There are two sides.
LEMMA OtherSide == \A s \in Sides : Other(s) \in Sides /\ Other(s) # s /\ Other(Other(s)) = s
                                    /\ \A r \in Sides : r = s \/ r = Other(s)
  BY DEF Sides, Other

\* The subtrees after x has gone down.
Lowered(t, B, x, side) ==
    [B EXCEPT ![x] = {x} \cup Kid(t, B, side, x) \cup Kid(t, B, side, t.child[Other(side)][x]),
              ![t.child[Other(side)][x]] = B[x]]

\* What Rotate does to the links.
LEMMA Rotated ==
  ASSUME SizesOK, NEW t, NEW N, NEW B, Linked(t, N), Grown(t, B, N),
         NEW x \in Nodes, NEW side \in Sides, t.child[Other(side)][x] # NULL,
         NEW y, y = t.child[Other(side)][x], NEW mid, mid = t.child[side][y],
         NEW up, up = t.parent[x], NEW u, u = Rotate(t, x, side)
  PROVE  /\ x \in 1..N /\ y \in 1..N /\ x # y /\ t.parent[y] = x /\ mid # x /\ mid # y /\ up # x /\ up # y
         /\ mid = NULL => mid \notin Nodes
         /\ u \in Trees /\ u.data = t.data /\ u.color = t.color
         /\ u.root = IF up = NULL THEN y ELSE t.root
         /\ u.parent[x] = y /\ u.parent[y] = up /\ (mid # NULL => u.parent[mid] = x)
         /\ \A n \in Nodes : n # x /\ n # y /\ n # mid => u.parent[n] = t.parent[n]
         /\ u.child[side][y] = x /\ u.child[Other(side)][y] = t.child[Other(side)][y]
         /\ u.child[side][x] = t.child[side][x] /\ u.child[Other(side)][x] = mid
         /\ up # NULL => /\ u.child[SideOf(t, x)][up] = y /\ t.child[SideOf(t, x)][up] = x
                         /\ u.child[Other(SideOf(t, x))][up] = t.child[Other(SideOf(t, x))][up]
         /\ \A n \in Nodes, s \in Sides : n # x /\ n # y /\ n # up => u.child[s][n] = t.child[s][n]
  <1>1. Other(side) \in Sides /\ Other(side) # side /\ Other(Other(side)) = side
    BY OtherSide
  <1>2. t \in Trees
    BY DEF Linked
  <1>3. x \in 1..N /\ y \in 1..N /\ t.parent[y] = x /\ y \in Nodes /\ 1..N \subseteq Nodes
    <2>1. x \in 1..N /\ y \in 1..N /\ t.parent[y] = x
      BY <1>1, Zenon DEF Linked
    <2>2. 1..N \subseteq Nodes
      BY DEF Linked, Nodes, SizesOK
    <2> QED
      BY <2>1, <2>2
  <1>4. y \in B[y] /\ B[y] = Kid(t, B, Other(side), x) /\ x \notin B[y] /\ x \in B[x]
    BY <1>1, <1>3 DEF Grown, Kid
  <1>5. x # y
    BY <1>4
  <1>6. mid \in Links /\ up \in Links /\ NULL \notin Nodes
    BY <1>1, <1>2, <1>3 DEF Trees, Links, SizesOK
  <1>7. mid # NULL => mid \in Nodes /\ t.parent[mid] = y /\ mid \in B[y] /\ y \notin B[mid]
    <2> SUFFICES ASSUME mid # NULL PROVE mid \in Nodes /\ t.parent[mid] = y /\ mid \in B[y] /\ y \notin B[mid]
      OBVIOUS
    <2>1. mid \in Nodes /\ t.parent[mid] = y
      BY <1>3, <1>6 DEF Linked, Links
    <2>2. Kid(t, B, side, y) = B[mid]
      BY DEF Kid
    <2>3. mid \in B[mid]
      BY <2>1 DEF Grown, Sides
    <2> QED
      BY <1>3, <2>1, <2>2, <2>3 DEF Grown
  <1>8. mid # x /\ mid # y
    BY <1>3, <1>4, <1>6, <1>7 DEF Grown
  <1>9. up # NULL => up \in 1..N /\ up \in Nodes /\ \E s \in Sides : t.child[s][up] = x
    BY <1>3 DEF Linked
  <1>10. up # x /\ up # y
    <2>1. CASE up = NULL
      BY <1>3, <1>6, <2>1
    <2>2. CASE up # NULL
      <3>1. PICK s \in Sides : t.child[s][up] = x
        BY <1>9, <2>2
      <3>2. Kid(t, B, s, up) = B[x]
        BY <1>3, <1>6, <3>1 DEF Kid
      <3>3. up \notin B[x] /\ y \in B[x]
        BY <1>1, <1>3, <1>4, <1>9, <2>2, <3>1, <3>2 DEF Grown
      <3> QED
        BY <1>4, <3>3
    <2> QED
      BY <2>1, <2>2
  <1>11. up # NULL => SideOf(t, x) \in Sides /\ t.child[SideOf(t, x)][up] = x
                      /\ Other(SideOf(t, x)) # SideOf(t, x) /\ Other(SideOf(t, x)) \in Sides
    BY <1>9 DEF SideOf, Sides, Other
  <1>12. u = [t EXCEPT
           !.root = IF up = NULL THEN y ELSE @,
           !.child = [s \in Sides |-> [n \in Nodes |->
               IF n = x /\ s = Other(side) THEN mid
               ELSE IF n = y /\ s = side THEN x
               ELSE IF n = up /\ s = SideOf(t, x) THEN y
               ELSE t.child[s][n]]],
           !.parent = [n \in Nodes |->
               IF n = x THEN y ELSE IF n = y THEN up ELSE IF n = mid THEN x ELSE t.parent[n]]]
    BY Zenon DEF Rotate
  <1>13. /\ u.data = t.data /\ u.color = t.color /\ u.root = IF up = NULL THEN y ELSE t.root
         /\ u.child = [s \in Sides |-> [n \in Nodes |->
               IF n = x /\ s = Other(side) THEN mid
               ELSE IF n = y /\ s = side THEN x
               ELSE IF n = up /\ s = SideOf(t, x) THEN y
               ELSE t.child[s][n]]]
         /\ u.parent = [n \in Nodes |->
               IF n = x THEN y ELSE IF n = y THEN up ELSE IF n = mid THEN x ELSE t.parent[n]]
    BY <1>2, <1>12 DEF Trees
  <1>14. u \in Trees
    <2>1. u.child \in [Sides -> [Nodes -> Links]]
      BY <1>2, <1>3, <1>6, <1>13 DEF Trees, Links
    <2>2. u.parent \in [Nodes -> Links]
      BY <1>2, <1>3, <1>6, <1>13 DEF Trees, Links
    <2>3. u.root \in Links
      BY <1>2, <1>3, <1>13 DEF Trees, Links
    <2> QED
      BY <1>2, <1>12, <1>13, <2>1, <2>2, <2>3 DEF Trees
  <1>15. /\ u.parent[x] = y /\ u.parent[y] = up /\ (mid # NULL => u.parent[mid] = x)
         /\ \A n \in Nodes : n # x /\ n # y /\ n # mid => u.parent[n] = t.parent[n]
    BY <1>3, <1>5, <1>7, <1>8, <1>13
  <1>16. /\ u.child[side][y] = x /\ u.child[Other(side)][y] = t.child[Other(side)][y]
         /\ u.child[side][x] = t.child[side][x] /\ u.child[Other(side)][x] = mid
    <2>1. u.child[side][y] = x
      BY <1>1, <1>3, <1>5, <1>13
    <2>2. u.child[Other(side)][y] = t.child[Other(side)][y]
      BY <1>1, <1>3, <1>5, <1>10, <1>13
    <2>3. u.child[side][x] = t.child[side][x]
      BY <1>1, <1>3, <1>5, <1>10, <1>13
    <2>4. u.child[Other(side)][x] = mid
      BY <1>1, <1>3, <1>5, <1>13
    <2> QED
      BY <2>1, <2>2, <2>3, <2>4
  <1>17. up # NULL => /\ u.child[SideOf(t, x)][up] = y /\ t.child[SideOf(t, x)][up] = x
                      /\ u.child[Other(SideOf(t, x))][up] = t.child[Other(SideOf(t, x))][up]
    <2> SUFFICES ASSUME up # NULL, NEW r, r = SideOf(t, x)
                 PROVE  /\ u.child[r][up] = y /\ t.child[r][up] = x
                        /\ u.child[Other(r)][up] = t.child[Other(r)][up]
      BY Zenon
    <2>1. r \in Sides /\ t.child[r][up] = x /\ Other(r) # r /\ Other(r) \in Sides
      BY <1>11
    <2>2. u.child = [s \in Sides |-> [n \in Nodes |->
               IF n = x /\ s = Other(side) THEN mid
               ELSE IF n = y /\ s = side THEN x
               ELSE IF n = up /\ s = r THEN y
               ELSE t.child[s][n]]]
      BY <1>13, Zenon
    <2> QED
      BY <1>9, <1>10, <2>1, <2>2
  <1>18. \A n \in Nodes, s \in Sides : n # x /\ n # y /\ n # up => u.child[s][n] = t.child[s][n]
    BY <1>13
  <1> QED
    BY <1>3, <1>5, <1>6, <1>8, <1>10, <1>13, <1>14, <1>15, <1>16, <1>17, <1>18
\* The subtrees of u, after x has gone down in t.
LEMMA RotatedKids ==
  ASSUME SizesOK, NEW t, NEW N, NEW B, Linked(t, N), Grown(t, B, N),
         NEW x \in Nodes, NEW side \in Sides, t.child[Other(side)][x] # NULL,
         NEW y, y = t.child[Other(side)][x],
         NEW u, u = Rotate(t, x, side), NEW C, C = Lowered(t, B, x, side),
         NEW K1, K1 = Kid(t, B, side, x), NEW K2, K2 = Kid(t, B, side, y),
         NEW K3, K3 = Kid(t, B, Other(side), y)
  PROVE  /\ x \in Nodes /\ y \in Nodes /\ x # y
         /\ B[x] = {x} \cup K1 \cup B[y] /\ B[y] = {y} \cup K2 \cup K3
         /\ x \notin K1 /\ x \notin B[y] /\ y \notin K2 /\ y \notin K3
         /\ K1 \cap B[y] = {} /\ K2 \cap K3 = {}
         /\ C \in [Nodes -> SUBSET Nodes]
         /\ C[x] = {x} \cup K1 \cup K2 /\ C[y] = B[x]
         /\ \A n \in Nodes : n # x /\ n # y => C[n] = B[n]
         /\ Kid(u, C, side, x) = K1 /\ Kid(u, C, Other(side), x) = K2
         /\ Kid(u, C, side, y) = C[x] /\ Kid(u, C, Other(side), y) = K3
         /\ \A n \in Nodes, s \in Sides : n # x /\ n # y => Kid(u, C, s, n) = Kid(t, B, s, n)
  <1> DEFINE mid == t.child[side][y]
             up  == t.parent[x]
  <1>1. Other(side) \in Sides /\ Other(side) # side /\ Other(Other(side)) = side
    BY OtherSide
  <1>2. /\ x \in 1..N /\ y \in 1..N /\ x # y /\ t.parent[y] = x /\ mid # x /\ mid # y /\ up # x /\ up # y
        /\ u.child[side][y] = x /\ u.child[Other(side)][y] = t.child[Other(side)][y]
        /\ u.child[side][x] = t.child[side][x] /\ u.child[Other(side)][x] = mid
        /\ up # NULL => /\ u.child[SideOf(t, x)][up] = y /\ t.child[SideOf(t, x)][up] = x
                        /\ u.child[Other(SideOf(t, x))][up] = t.child[Other(SideOf(t, x))][up]
        /\ \A n \in Nodes, s \in Sides : n # x /\ n # y /\ n # up => u.child[s][n] = t.child[s][n]
    BY Rotated
  <1>3. t \in Trees /\ NULL \notin Nodes /\ 1..N \subseteq Nodes
    BY DEF Linked, SizesOK, Nodes
  <1>4. y \in Nodes
    BY <1>2, <1>3
  <1>5. Kid(t, B, Other(side), x) = B[y]
    BY <1>3, <1>4 DEF Kid
  <1>6. /\ B \in [Nodes -> SUBSET Nodes]
        /\ B[x] = {x} \cup K1 \cup B[y] /\ B[y] = {y} \cup K2 \cup K3
        /\ x \notin K1 /\ x \notin B[y] /\ y \notin K2 /\ y \notin K3
        /\ K1 \cap B[y] = {} /\ K2 \cap K3 = {}
    <2>1. B \in [Nodes -> SUBSET Nodes]
      BY DEF Grown
    <2>2. B[x] = {x} \cup K1 \cup B[y] /\ B[y] = {y} \cup K2 \cup K3
      BY <1>1, <1>4, <1>5 DEF Grown
    <2>3. x \notin K1 /\ x \notin B[y] /\ y \notin K2 /\ y \notin K3
      BY <1>1, <1>4, <1>5 DEF Grown
    <2>4. K1 \cap B[y] = {} /\ K2 \cap K3 = {}
      BY <1>1, <1>4, <1>5 DEF Grown
    <2> QED
      BY <2>1, <2>2, <2>3, <2>4
  <1>7. /\ C \in [Nodes -> SUBSET Nodes]
        /\ C[x] = {x} \cup K1 \cup K2 /\ C[y] = B[x]
        /\ \A n \in Nodes : n # x /\ n # y => C[n] = B[n]
    <2>1. C = [B EXCEPT ![x] = {x} \cup K1 \cup K2, ![y] = B[x]]
      BY Zenon DEF Lowered
    <2>2. ({x} \cup K1 \cup K2) \subseteq B[x] /\ B[x] \subseteq Nodes
      BY <1>6
    <2>3. PICK D : D = {x} \cup K1 \cup K2
      OBVIOUS
    <2>4. PICK E : E = B[x]
      OBVIOUS
    <2>5. C = [B EXCEPT ![x] = D, ![y] = E] /\ D \in SUBSET Nodes /\ E \in SUBSET Nodes
      BY <2>1, <2>2, <2>3, <2>4
    <2>6. /\ C \in [Nodes -> SUBSET Nodes]
          /\ C[x] = D /\ C[y] = E
          /\ \A n \in Nodes : n # x /\ n # y => C[n] = B[n]
      <3>1. B \in [Nodes -> SUBSET Nodes] /\ x # y
        BY <1>2, <1>6
      <3> QED
        BY <1>4, <2>5, <3>1
    <2> QED
      BY <2>3, <2>4, <2>6
  <1>8. \A n \in Nodes, s \in Sides : t.child[s][n] # NULL =>
           /\ t.child[s][n] \in Nodes /\ t.parent[t.child[s][n]] = n
           /\ Kid(t, B, s, n) = B[t.child[s][n]] /\ t.child[s][n] \in B[t.child[s][n]]
    <2> SUFFICES ASSUME NEW n \in Nodes, NEW s \in Sides, t.child[s][n] # NULL
                 PROVE  /\ t.child[s][n] \in Nodes /\ t.parent[t.child[s][n]] = n
                        /\ Kid(t, B, s, n) = B[t.child[s][n]] /\ t.child[s][n] \in B[t.child[s][n]]
      OBVIOUS
    <2>1. t.child[s][n] \in 1..N /\ t.parent[t.child[s][n]] = n
      BY Zenon DEF Linked
    <2>2. t.child[s][n] \in Nodes
      BY <1>3, <2>1
    <2>3. t.child[s][n] \in B[t.child[s][n]]
      BY <2>2 DEF Grown
    <2> QED
      BY <2>1, <2>2, <2>3 DEF Kid
  <1>9. Kid(u, C, side, x) = K1
    <2>1. CASE t.child[side][x] = NULL
      BY <1>2, <2>1 DEF Kid
    <2>2. CASE t.child[side][x] # NULL
      <3>1. t.child[side][x] \in Nodes /\ K1 = B[t.child[side][x]] /\ t.child[side][x] \in K1
        BY <1>8, <2>2
      <3>2. t.child[side][x] # x /\ t.child[side][x] # y
        BY <1>6, <3>1
      <3>3. Kid(u, C, side, x) = C[t.child[side][x]]
        BY <1>2, <2>2 DEF Kid
      <3> QED
        BY <1>7, <3>1, <3>2, <3>3
    <2> QED
      BY <2>1, <2>2
  <1>10. Kid(u, C, Other(side), x) = K2
    <2>1. CASE mid = NULL
      BY <1>2, <2>1 DEF Kid
    <2>2. CASE mid # NULL
      <3>1. mid \in Nodes /\ K2 = B[mid]
        BY <1>4, <1>8, <2>2
      <3>2. Kid(u, C, Other(side), x) = C[mid]
        BY <1>2, <2>2 DEF Kid
      <3> QED
        BY <1>2, <1>7, <3>1, <3>2
    <2> QED
      BY <2>1, <2>2
  <1>11. Kid(u, C, side, y) = C[x]
    BY <1>2, <1>3 DEF Kid
  <1>12. Kid(u, C, Other(side), y) = K3
    <2> DEFINE w == t.child[Other(side)][y]
    <2>1. CASE w = NULL
      BY <1>2, <2>1 DEF Kid
    <2>2. CASE w # NULL
      <3>1. w \in Nodes /\ K3 = B[w] /\ w \in K3
        BY <1>1, <1>4, <1>8, <2>2
      <3>2. w # x /\ w # y
        BY <1>6, <3>1
      <3> QED
        BY <1>2, <1>7, <2>2, <3>1, <3>2 DEF Kid
    <2> QED
      BY <2>1, <2>2
  <1>13. ASSUME NEW n \in Nodes, NEW s \in Sides, n # x, n # y
         PROVE  Kid(u, C, s, n) = Kid(t, B, s, n)
    <2>1. CASE n = up /\ s = SideOf(t, x)
      <3>1. u.child[s][n] = y /\ t.child[s][n] = x
        BY <1>2, <1>3, <1>13, <2>1
      <3> QED
        BY <1>3, <1>4, <1>7, <3>1 DEF Kid
    <2>2. CASE ~(n = up /\ s = SideOf(t, x))
      <3>1. u.child[s][n] = t.child[s][n] /\ t.child[s][n] # x
        <4>1. CASE n = up
          <5>1. PICK r : r = SideOf(t, x)
            OBVIOUS
          <5>2. t.child[r][up] = x /\ u.child[Other(r)][up] = t.child[Other(r)][up]
            BY <1>2, <1>3, <1>13, <4>1, <5>1
          <5>3. r \in Sides /\ s = Other(r) /\ r # s
            BY <1>13, <2>2, <4>1, <5>1 DEF Sides, Other, SideOf
          <5>4. u.child[s][n] = t.child[s][n]
            BY <4>1, <5>2, <5>3
          <5>5. ASSUME t.child[s][n] = x PROVE FALSE
            <6>1. Kid(t, B, s, n) = B[x] /\ Kid(t, B, r, n) = B[x]
              BY <1>3, <4>1, <5>2, <5>5 DEF Kid
            <6>2. Kid(t, B, r, n) \cap Kid(t, B, s, n) = {}
              BY <1>13, <5>3 DEF Grown
            <6> QED
              BY <1>6, <6>1, <6>2
          <5> QED
            BY <5>4, <5>5
        <4>2. CASE n # up
          <5>1. t.child[s][n] # x
            BY <1>3, <1>8, <1>13, <4>2
          <5> QED
            BY <1>2, <1>13, <4>2, <5>1
        <4> QED
          BY <4>1, <4>2
      <3>2. t.child[s][n] # y
        <4>1. y # NULL /\ t.parent[y] # n
          BY <1>2, <1>3, <1>4, <1>13
        <4> QED
          BY <1>8, <1>13, <4>1
      <3>3. CASE t.child[s][n] = NULL
        BY <3>1, <3>3 DEF Kid
      <3>4. CASE t.child[s][n] # NULL
        BY <1>7, <1>8, <1>13, <3>1, <3>2, <3>4 DEF Kid
      <3> QED
        BY <3>3, <3>4
    <2> QED
      BY <2>1, <2>2
  <1>14. \A n \in Nodes, s \in Sides : n # x /\ n # y => Kid(u, C, s, n) = Kid(t, B, s, n)
    BY <1>13
  <1> QED
    BY <1>2, <1>4, <1>6, <1>7, <1>9, <1>10, <1>11, <1>12, <1>14, Zenon

\* The same, for citing.
Turned(t, u, x, y, mid, up, side) ==
    /\ mid # x /\ mid # y /\ up # x /\ up # y
    /\ u.data = t.data /\ u.color = t.color
    /\ u.root = IF up = NULL THEN y ELSE t.root
    /\ u.child[side][y] = x /\ u.child[Other(side)][y] = t.child[Other(side)][y]
    /\ u.child[side][x] = t.child[side][x] /\ u.child[Other(side)][x] = mid
    /\ up # NULL => /\ u.child[SideOf(t, x)][up] = y /\ t.child[SideOf(t, x)][up] = x
                    /\ u.child[Other(SideOf(t, x))][up] = t.child[Other(SideOf(t, x))][up]
    /\ \A n \in Nodes, s \in Sides : n # x /\ n # y /\ n # up => u.child[s][n] = t.child[s][n]

\* Rotate turns x down and y up.
LEMMA RotateTurned ==
  ASSUME SizesOK, NEW t, NEW N, NEW B, Linked(t, N), Grown(t, B, N),
         NEW x \in Nodes, NEW side \in Sides, t.child[Other(side)][x] # NULL,
         NEW y, y = t.child[Other(side)][x], NEW mid, mid = t.child[side][y],
         NEW up, up = t.parent[x], NEW u, u = Rotate(t, x, side)
  PROVE  Turned(t, u, x, y, mid, up, side)
  BY Rotated DEF Turned

\* A rotation keeps one tree of the first N nodes.
LEMMA RotateLinked ==
  ASSUME SizesOK, NEW t, NEW N, NEW B, Linked(t, N), Grown(t, B, N),
         NEW x \in Nodes, NEW side \in Sides, t.child[Other(side)][x] # NULL,
         NEW u, u = Rotate(t, x, side)
  PROVE  Linked(u, N)
  <1> DEFINE y   == t.child[Other(side)][x]
             mid == t.child[side][y]
             up  == t.parent[x]
  <1>1. Other(side) \in Sides /\ Other(side) # side /\ Other(Other(side)) = side
        /\ \A s \in Sides : s = side \/ s = Other(side)
    BY OtherSide
  <1>2. /\ x \in 1..N /\ y \in 1..N /\ x # y /\ t.parent[y] = x /\ mid # x /\ mid # y /\ up # x /\ up # y
        /\ u \in Trees
        /\ u.root = IF up = NULL THEN y ELSE t.root
    BY Rotated
  <1>3. /\ u.parent[x] = y /\ u.parent[y] = up /\ (mid # NULL => u.parent[mid] = x)
        /\ \A n \in Nodes : n # x /\ n # y /\ n # mid => u.parent[n] = t.parent[n]
    BY Rotated
  <1>4. /\ u.child[side][y] = x /\ u.child[Other(side)][y] = t.child[Other(side)][y]
        /\ u.child[side][x] = t.child[side][x] /\ u.child[Other(side)][x] = mid
        /\ \A n \in Nodes, s \in Sides : n # x /\ n # y /\ n # up => u.child[s][n] = t.child[s][n]
    BY Rotated
  <1>5. PICK r : r = SideOf(t, x)
    OBVIOUS
  <1>6. up # NULL => /\ u.child[r][up] = y /\ t.child[r][up] = x
                     /\ u.child[Other(r)][up] = t.child[Other(r)][up]
    BY <1>5, Rotated
  <1>7. r \in Sides /\ Other(r) \in Sides /\ Other(r) # r /\ \A s \in Sides : s = r \/ s = Other(r)
    BY <1>5 DEF Sides, Other, SideOf
  <1>8. t \in Trees /\ NULL \notin Nodes /\ 1..N \subseteq Nodes /\ N \in 0..MaxNodes /\ N > 0 /\ t.root # NULL
    <2>1. t \in Trees /\ N \in 0..MaxNodes /\ (t.root = NULL <=> N = 0)
      BY DEF Linked
    <2>2. N > 0
      BY <1>2, <2>1 DEF SizesOK
    <2> QED
      BY <2>1, <2>2 DEF SizesOK, Nodes
  <1>9. /\ t.root \in 1..N /\ t.parent[t.root] = NULL
        /\ \A n \in Nodes, s \in Sides : t.child[s][n] # NULL =>
              n \in 1..N /\ t.child[s][n] \in 1..N /\ t.parent[t.child[s][n]] = n
        /\ \A n \in 1..N : n # t.root =>
              t.parent[n] \in 1..N /\ \E s \in Sides : t.child[s][t.parent[n]] = n
    BY <1>8 DEF Linked
  <1>10. (up = NULL <=> x = t.root) /\ (up # NULL => up \in 1..N)
    BY <1>2, <1>8, <1>9
  <1>11. u.root \in 1..N /\ u.parent[u.root] = NULL
    <2>1. CASE up = NULL
      BY <1>2, <1>3, <2>1
    <2>2. CASE up # NULL
      <3>1. u.root = t.root /\ t.root # x /\ t.root # y
        BY <1>2, <1>8, <1>9, <1>10, <2>2
      <3>2. mid # NULL => t.parent[mid] = y
        BY <1>2, <1>8, <1>9
      <3>3. t.root # mid
        BY <1>2, <1>8, <1>9, <3>2
      <3> QED
        BY <1>3, <1>8, <1>9, <3>1, <3>3
    <2> QED
      BY <2>1, <2>2
  <1>12. \A s \in Sides, n \in Nodes : t.child[s][n] = y => n = x /\ s = Other(side)
    <2> SUFFICES ASSUME NEW s \in Sides, NEW n \in Nodes, t.child[s][n] = y
                 PROVE  n = x /\ s = Other(side)
      OBVIOUS
    <2>1. n = x
      BY <1>2, <1>8, <1>9
    <2>2. ASSUME s = side PROVE FALSE
      <3>1. Kid(t, B, side, x) = B[y] /\ Kid(t, B, Other(side), x) = B[y]
        BY <1>2, <1>8, <2>1, <2>2 DEF Kid
      <3>2. Kid(t, B, side, x) \cap Kid(t, B, Other(side), x) = {}
        BY DEF Grown
      <3>3. y \in B[y]
        BY <1>2, <1>8, <1>1 DEF Grown
      <3> QED
        BY <3>1, <3>2, <3>3
    <2> QED
      BY <1>1, <2>1, <2>2
  <1>13. \A s \in Sides, n \in Nodes : t.child[s][n] = x => n = up
    BY <1>2, <1>8, <1>9
  <1>14. mid # NULL => mid \in 1..N /\ mid \in Nodes
                       /\ \A s \in Sides, n \in Nodes : t.child[s][n] = mid => n = y
    BY <1>2, <1>8, <1>9
  <1>15. ASSUME NEW n \in Nodes, NEW s \in Sides, u.child[s][n] # NULL
         PROVE  n \in 1..N /\ u.child[s][n] \in 1..N /\ u.parent[u.child[s][n]] = n
    <2>1. CASE n = x /\ s = Other(side)
      BY <1>2, <1>3, <1>4, <1>14, <1>15, <2>1
    <2>2. CASE n = x /\ s = side
      <3>1. u.child[s][n] = t.child[s][n] /\ t.child[s][n] # x /\ t.child[s][n] # y /\ t.child[s][n] # mid
        BY <1>1, <1>2, <1>4, <1>8, <1>12, <1>13, <1>14, <1>15, <2>2
      <3> QED
        BY <1>3, <1>8, <1>9, <1>15, <3>1
    <2>3. CASE n = y /\ s = side
      BY <1>2, <1>3, <1>4, <2>3
    <2>4. CASE n = y /\ s = Other(side)
      <3>1. u.child[s][n] = t.child[s][n] /\ t.child[s][n] # x /\ t.child[s][n] # y
        BY <1>1, <1>2, <1>4, <1>8, <1>12, <1>13, <1>15, <2>4
      <3>2. t.child[s][n] # mid
        <4> SUFFICES ASSUME t.child[s][n] = mid PROVE FALSE
          OBVIOUS
        <4>0. mid # NULL
          BY <1>15, <3>1
        <4>1. Kid(t, B, side, y) = B[mid] /\ Kid(t, B, Other(side), y) = B[mid]
          BY <2>4, <4>0 DEF Kid
        <4>2. Kid(t, B, side, y) \cap Kid(t, B, Other(side), y) = {}
          BY <1>2, <1>8 DEF Grown
        <4>3. mid \in B[mid]
          BY <1>14, <1>1, <4>0 DEF Grown
        <4> QED
          BY <4>1, <4>2, <4>3
      <3> QED
        BY <1>3, <1>8, <1>9, <1>15, <3>1, <3>2
    <2>5. CASE n # x /\ n # y /\ n = up /\ s = r
      BY <1>2, <1>3, <1>6, <1>8, <1>10, <1>15, <2>5
    <2>6. CASE n # x /\ n # y /\ ~(n = up /\ s = r)
      <3>1. u.child[s][n] = t.child[s][n]
        BY <1>4, <1>6, <1>7, <1>8, <1>15, <2>6
      <3>2. t.child[s][n] # y /\ t.child[s][n] # mid
        BY <1>12, <1>14, <1>15, <2>6, <3>1
      <3>3. t.child[s][n] # x
        <4> SUFFICES ASSUME t.child[s][n] = x PROVE FALSE
          OBVIOUS
        <4>1. n = up /\ s = Other(r) /\ up # NULL /\ up \in Nodes
          BY <1>7, <1>8, <1>13, <1>15, <2>6
        <4>2. Kid(t, B, s, n) = B[x] /\ Kid(t, B, r, n) = B[x]
          BY <1>6, <1>8, <4>1 DEF Kid
        <4>3. Kid(t, B, r, n) \cap Kid(t, B, Other(r), n) = {}
          BY <1>7, <1>15 DEF Grown
        <4>4. x \in B[x]
          BY <1>1 DEF Grown
        <4> QED
          BY <4>1, <4>2, <4>3, <4>4
      <3> QED
        BY <1>3, <1>8, <1>9, <1>15, <3>1, <3>2, <3>3
    <2> QED
      BY <1>1, <1>15, <2>1, <2>2, <2>3, <2>4, <2>5, <2>6
  <1>16. ASSUME NEW n \in 1..N, n # u.root
         PROVE  u.parent[n] \in 1..N /\ \E s \in Sides : u.child[s][u.parent[n]] = n
    <2>1. CASE n = x
      BY <1>2, <1>3, <1>4, <2>1
    <2>2. CASE n = y
      <3>1. up # NULL /\ up \in 1..N
        BY <1>2, <1>10, <1>16, <2>2
      <3> QED
        BY <1>3, <1>6, <1>7, <2>2, <3>1
    <2>3. CASE n = mid
      BY <1>1, <1>2, <1>3, <1>4, <1>8, <1>16, <2>3
    <2>4. CASE n # x /\ n # y /\ n # mid
      <3>1. n # t.root /\ u.parent[n] = t.parent[n]
        BY <1>2, <1>3, <1>8, <1>10, <1>16, <2>4
      <3>2. t.parent[n] \in 1..N
        BY <1>9, <3>1
      <3>3. PICK s \in Sides : t.child[s][t.parent[n]] = n
        BY <1>9, <3>1
      <3>4. u.child[s][t.parent[n]] = n
        <4>1. CASE t.parent[n] = x
          <5>1. s = side
            BY <1>1, <2>4, <3>3, <4>1
          <5> QED
            BY <1>4, <3>3, <4>1, <5>1
        <4>2. CASE t.parent[n] = y
          <5>1. s = Other(side)
            BY <1>1, <2>4, <3>3, <4>2
          <5> QED
            BY <1>4, <3>3, <4>2, <5>1
        <4>3. CASE t.parent[n] # x /\ t.parent[n] # y /\ t.parent[n] = up
          <5>1. up # NULL
            BY <1>8, <3>2, <4>3
          <5>2. s = Other(r)
            BY <1>6, <1>7, <2>4, <3>3, <4>3, <5>1
          <5> QED
            BY <1>6, <3>3, <4>3, <5>1, <5>2
        <4>4. CASE t.parent[n] # x /\ t.parent[n] # y /\ t.parent[n] # up
          BY <1>4, <1>8, <3>2, <3>3, <4>4
        <4> QED
          BY <4>1, <4>2, <4>3, <4>4
      <3> QED
        BY <3>1, <3>2, <3>3, <3>4
    <2> QED
      BY <2>1, <2>2, <2>3, <2>4
  <1>17. u.root # NULL /\ N # 0
    BY <1>8, <1>11
  <1> QED
    BY <1>2, <1>8, <1>11, <1>15, <1>16, <1>17 DEF Linked

\* A rotation moves subtrees, and changes no order.
LEMMA RotateGrown ==
  ASSUME SizesOK, NEW t, NEW N, NEW B, Linked(t, N), Grown(t, B, N),
         NEW x \in Nodes, NEW side \in Sides, t.child[Other(side)][x] # NULL,
         NEW u, u = Rotate(t, x, side), NEW C, C = Lowered(t, B, x, side)
  PROVE  Grown(u, C, N)
  <1>0. PICK y, mid, up, K1, K2, K3 :
           /\ y = t.child[Other(side)][x] /\ mid = t.child[side][y] /\ up = t.parent[x]
           /\ K1 = Kid(t, B, side, x) /\ K2 = Kid(t, B, side, y) /\ K3 = Kid(t, B, Other(side), y)
    OBVIOUS
  <1>1. Other(side) \in Sides /\ Other(side) # side /\ Other(Other(side)) = side
        /\ \A s \in Sides : s = side \/ s = Other(side)
    BY OtherSide
  <1>2. /\ x \in 1..N /\ y \in 1..N /\ x # y /\ t.parent[y] = x /\ mid # x /\ mid # y /\ up # x /\ up # y
        /\ u \in Trees
        /\ u.root = IF up = NULL THEN y ELSE t.root
    BY <1>0, Rotated
  <1>3. /\ u.parent[x] = y /\ u.parent[y] = up /\ (mid # NULL => u.parent[mid] = x)
        /\ \A n \in Nodes : n # x /\ n # y /\ n # mid => u.parent[n] = t.parent[n]
    BY <1>0, Rotated
  <1>4. /\ y \in Nodes
        /\ B[x] = {x} \cup K1 \cup B[y] /\ B[y] = {y} \cup K2 \cup K3
        /\ x \notin K1 /\ x \notin B[y] /\ y \notin K2 /\ y \notin K3
        /\ K1 \cap B[y] = {} /\ K2 \cap K3 = {}
    <2>1. y \in Nodes
      BY <1>0, RotatedKids
    <2>2. B[x] = {x} \cup K1 \cup B[y] /\ B[y] = {y} \cup K2 \cup K3
      BY <1>0, RotatedKids
    <2>3. x \notin K1 /\ x \notin B[y] /\ y \notin K2 /\ y \notin K3
      BY <1>0, RotatedKids
    <2>4. K1 \cap B[y] = {} /\ K2 \cap K3 = {}
      BY <1>0, RotatedKids
    <2> QED
      BY <2>1, <2>2, <2>3, <2>4
  <1>5. /\ C \in [Nodes -> SUBSET Nodes]
        /\ C[x] = {x} \cup K1 \cup K2 /\ C[y] = B[x]
        /\ \A n \in Nodes : n # x /\ n # y => C[n] = B[n]
    BY <1>0, RotatedKids
  <1>6. /\ Kid(u, C, side, x) = K1 /\ Kid(u, C, Other(side), x) = K2
        /\ Kid(u, C, side, y) = C[x] /\ Kid(u, C, Other(side), y) = K3
        /\ \A n \in Nodes, s \in Sides : n # x /\ n # y => Kid(u, C, s, n) = Kid(t, B, s, n)
    BY <1>0, RotatedKids
  <1>7. /\ \A n \in Nodes, s \in Sides : B[n] = {n} \cup Kid(t, B, s, n) \cup Kid(t, B, Other(s), n)
        /\ \A n \in Nodes, s \in Sides : n \notin Kid(t, B, s, n)
        /\ \A n \in Nodes, s \in Sides : Kid(t, B, s, n) \cap Kid(t, B, Other(s), n) = {}
    BY DEF Grown
  <1>8. /\ N > 0 => B[t.root] = 1..N
        /\ \A n \in Nodes : \A m \in B[n] : B[m] \subseteq B[n]
        /\ \A n \in Nodes : \A m \in B[n] : m # n => t.parent[m] \in B[n]
        /\ \A n \in 1..N : B[n] \subseteq 1..N
        /\ B \in [Nodes -> SUBSET Nodes]
    BY DEF Grown
  <1>9. 1..N \subseteq Nodes /\ NULL \notin Nodes /\ t \in Trees
    BY DEF Linked, SizesOK, Nodes
  <1>10. mid # NULL => mid \in Nodes /\ K2 = B[mid] /\ t.parent[mid] = y /\ mid \in K2
    <2> SUFFICES ASSUME mid # NULL PROVE mid \in Nodes /\ K2 = B[mid] /\ t.parent[mid] = y /\ mid \in K2
      OBVIOUS
    <2>1. mid \in 1..N /\ t.parent[mid] = y
      BY <1>0, <1>4, Zenon DEF Linked
    <2>2. mid \in B[mid]
      BY <1>1, <1>7, <1>9, <2>1
    <2> QED
      BY <1>0, <1>9, <2>1, <2>2 DEF Kid
  <1>11. ASSUME NEW n \in Nodes, NEW s \in Sides
         PROVE  /\ C[n] = {n} \cup Kid(u, C, s, n) \cup Kid(u, C, Other(s), n)
                /\ n \notin Kid(u, C, s, n)
                /\ Kid(u, C, s, n) \cap Kid(u, C, Other(s), n) = {}
    <2>0. (s = side /\ Other(s) = Other(side)) \/ (s = Other(side) /\ Other(s) = side)
      BY <1>1
    <2>1. CASE n = x
      BY <1>4, <1>5, <1>6, <2>0, <2>1
    <2>2. CASE n = y
      BY <1>2, <1>4, <1>5, <1>6, <2>0, <2>2
    <2>3. CASE n # x /\ n # y
      <3>1. Other(s) \in Sides
        BY OtherSide
      <3> QED
        BY <1>5, <1>6, <1>7, <2>3, <3>1
    <2> QED
      BY <2>1, <2>2, <2>3
  <1>12. N > 0 => C[u.root] = 1..N
    <2> SUFFICES ASSUME N > 0 PROVE C[u.root] = 1..N
      OBVIOUS
    <2>1. t.root \in 1..N /\ t.parent[t.root] = NULL
      BY DEF Linked
    <2>2. CASE up = NULL
      <3>1. x = t.root
        BY <1>0, <1>2, <1>9, <2>2 DEF Linked
      <3> QED
        BY <1>2, <1>5, <1>8, <2>2, <3>1
    <2>3. CASE up # NULL
      BY <1>0, <1>2, <1>5, <1>8, <1>9, <2>1, <2>3
    <2> QED
      BY <2>2, <2>3
  <1>13. C[x] \subseteq B[x]
    BY <1>4, <1>5
  <1>14. \A n \in Nodes : C[n] \subseteq Nodes
    BY <1>5
  <1>15. \A n \in Nodes : y \in B[n] /\ n # y => x \in B[n]
    BY <1>2, <1>8
  <1>16. \A n \in Nodes : x \in B[n] => B[x] \subseteq B[n] /\ y \in B[n]
    BY <1>4, <1>8
  <1>17. K1 \subseteq Nodes /\ K2 \subseteq Nodes /\ \A m \in K1 \cup K2 : m # x /\ m # y
    BY <1>4, <1>8
  <1>18. \A m \in K1 : B[m] \subseteq K1 /\ (t.parent[m] \in K1 \/ t.parent[m] = x)
    <2>1. CASE t.child[side][x] = NULL
      BY <1>0, <2>1 DEF Kid
    <2>2. CASE t.child[side][x] # NULL
      <3>1. PICK c : c = t.child[side][x]
        OBVIOUS
      <3>2. c \in Nodes /\ t.parent[c] = x
        BY <1>9, <2>2, <3>1, Zenon DEF Linked
      <3>3. K1 = B[c]
        BY <1>0, <2>2, <3>1 DEF Kid
      <3> QED
        BY <1>8, <3>2, <3>3
    <2> QED
      BY <2>1, <2>2
  <1>19. \A m \in K2 : B[m] \subseteq K2 /\ (t.parent[m] \in K2 \/ m = mid) /\ mid # NULL
    <2>1. CASE mid = NULL
      BY <1>0, <2>1 DEF Kid
    <2>2. CASE mid # NULL
      BY <1>8, <1>10, <2>2
    <2> QED
      BY <2>1, <2>2
  <1>20. ASSUME NEW n \in Nodes, NEW m \in C[n] PROVE C[m] \subseteq C[n]
    <2>1. CASE n = x
      <3>1. CASE m = x
        BY <2>1, <3>1
      <3>2. CASE m # x
        <4>1. m \in K1 \cup K2
          BY <1>5, <1>20, <2>1, <3>2
        <4>2. C[m] = B[m]
          BY <1>5, <1>17, <4>1
        <4> QED
          BY <1>5, <1>18, <1>19, <2>1, <4>1, <4>2
      <3> QED
        BY <3>1, <3>2
    <2>2. CASE n = y
      <3>1. CASE m = x
        BY <1>5, <1>13, <2>2, <3>1
      <3>2. CASE m = y
        BY <2>2, <3>2
      <3>3. CASE m # x /\ m # y
        BY <1>5, <1>8, <1>14, <1>20, <2>2, <3>3
      <3> QED
        BY <3>1, <3>2, <3>3
    <2>3. CASE n # x /\ n # y
      <3>1. CASE m = x
        BY <1>5, <1>13, <1>16, <1>20, <2>3, <3>1
      <3>2. CASE m = y
        BY <1>5, <1>15, <1>16, <1>20, <2>3, <3>2
      <3>3. CASE m # x /\ m # y
        BY <1>5, <1>8, <1>14, <1>20, <2>3, <3>3
      <3> QED
        BY <3>1, <3>2, <3>3
    <2> QED
      BY <2>1, <2>2, <2>3
  <1>21. ASSUME NEW n \in Nodes, NEW m \in C[n], m # n PROVE u.parent[m] \in C[n]
    <2>0. m \in Nodes
      BY <1>14, <1>21
    <2>1. CASE n = x
      <3>1. CASE m \in K1
        <4>1. m # mid
          BY <1>2, <1>4, <1>10, <1>9, <2>0, <3>1
        <4>2. u.parent[m] = t.parent[m]
          BY <1>3, <1>17, <2>0, <3>1, <4>1
        <4> QED
          BY <1>5, <1>18, <2>1, <3>1, <4>2
      <3>2. CASE m \in K2
        <4>1. CASE m = mid
          BY <1>3, <1>5, <1>19, <2>1, <3>2, <4>1
        <4>2. CASE m # mid
          <5>1. u.parent[m] = t.parent[m]
            BY <1>3, <1>17, <2>0, <3>2, <4>2
          <5> QED
            BY <1>5, <1>19, <2>1, <3>2, <4>2, <5>1
        <4> QED
          BY <4>1, <4>2
      <3> QED
        BY <1>5, <1>21, <2>1, <3>1, <3>2
    <2>2. CASE n = y
      <3>1. CASE m = x
        BY <1>3, <1>4, <1>5, <2>2, <3>1
      <3>2. CASE m = mid
        BY <1>3, <1>4, <1>5, <1>9, <2>0, <2>2, <3>2
      <3>3. CASE m # x /\ m # mid
        BY <1>3, <1>5, <1>8, <1>21, <2>0, <2>2, <3>3
      <3> QED
        BY <3>1, <3>2, <3>3
    <2>3. CASE n # x /\ n # y
      <3>0. C[n] = B[n] /\ m \in B[n]
        BY <1>5, <1>21, <2>3
      <3>1. CASE m = x
        BY <1>3, <1>16, <3>0, <3>1
      <3>2. CASE m = y
        <4>1. x \in B[n]
          BY <1>15, <2>3, <3>0, <3>2
        <4> QED
          BY <1>0, <1>3, <1>8, <2>3, <3>0, <3>2, <4>1
      <3>3. CASE m = mid
        <4>1. y \in B[n]
          BY <1>8, <1>9, <1>10, <1>21, <2>0, <3>0, <3>3
        <4>2. x \in B[n]
          BY <1>15, <2>3, <4>1
        <4> QED
          BY <1>3, <1>9, <2>0, <3>0, <3>3, <4>2
      <3>4. CASE m # x /\ m # y /\ m # mid
        BY <1>3, <1>8, <1>21, <2>0, <3>0, <3>4
      <3> QED
        BY <3>1, <3>2, <3>3, <3>4
    <2> QED
      BY <2>1, <2>2, <2>3
  <1>22. ASSUME NEW n \in 1..N PROVE C[n] \subseteq 1..N
    <2>1. B[n] \subseteq 1..N /\ B[x] \subseteq 1..N
      BY <1>2, <1>8, <1>22
    <2> QED
      BY <1>5, <1>9, <1>13, <2>1
  <1> QED
    BY <1>5, <1>11, <1>12, <1>20, <1>21, <1>22 DEF Grown

\* A rotation keeps the order of the data.
LEMMA RotateSorted ==
  ASSUME SizesOK, NEW t, NEW N, NEW B, Linked(t, N), Grown(t, B, N), Sorted(t, B),
         NEW x \in Nodes, NEW side \in Sides, t.child[Other(side)][x] # NULL,
         NEW u, u = Rotate(t, x, side), NEW C, C = Lowered(t, B, x, side)
  PROVE  Sorted(u, C)
  <1>0. PICK y, K1, K2, K3 :
           /\ y = t.child[Other(side)][x]
           /\ K1 = Kid(t, B, side, x) /\ K2 = Kid(t, B, side, y) /\ K3 = Kid(t, B, Other(side), y)
    OBVIOUS
  <1>1. Other(side) \in Sides /\ \A s \in Sides : s = side \/ s = Other(side)
    BY OtherSide
  <1>2. u.data = t.data
    BY <1>0, Rotated
  <1>4. /\ y \in Nodes
        /\ B[x] = {x} \cup K1 \cup B[y] /\ B[y] = {y} \cup K2 \cup K3
    BY <1>0, RotatedKids
  <1>5. C[x] = {x} \cup K1 \cup K2
    BY <1>0, RotatedKids
  <1>6. /\ Kid(u, C, side, x) = K1 /\ Kid(u, C, Other(side), x) = K2
        /\ Kid(u, C, side, y) = C[x] /\ Kid(u, C, Other(side), y) = K3
        /\ \A n \in Nodes, s \in Sides : n # x /\ n # y => Kid(u, C, s, n) = Kid(t, B, s, n)
    BY <1>0, RotatedKids
  <1>7. t.data \in [Nodes -> Int] /\ B[x] \subseteq Nodes /\ Kid(t, B, Other(side), x) = B[y]
    <2>1. t.data \in [Nodes -> Int] /\ B \in [Nodes -> SUBSET Nodes]
      BY DEF Linked, Trees, Grown
    <2> QED
      BY <1>0, <2>1 DEF Kid
  <1>8. /\ \A m \in K1 : InOrder(side, t.data[m], t.data[x])
        /\ \A m \in B[y] : InOrder(Other(side), t.data[m], t.data[x])
        /\ \A m \in K2 : InOrder(side, t.data[m], t.data[y])
        /\ \A m \in K3 : InOrder(Other(side), t.data[m], t.data[y])
    BY <1>0, <1>1, <1>4, <1>7 DEF Sorted
  <1>9. InOrder(side, t.data[x], t.data[y])
    <2>1. InOrder(Other(side), t.data[y], t.data[x])
      BY <1>4, <1>8
    <2> QED
      BY <1>4, <1>7, <2>1 DEF InOrder, Other, Sides
  <1>10. \A m \in C[x] : InOrder(side, t.data[m], t.data[y])
    <2> SUFFICES ASSUME NEW m \in C[x] PROVE InOrder(side, t.data[m], t.data[y])
      OBVIOUS
    <2>1. CASE m = x
      BY <1>9, <2>1
    <2>2. CASE m \in K1
      <3>1. InOrder(side, t.data[m], t.data[x]) /\ m \in Nodes
        BY <1>4, <1>7, <1>8, <2>2
      <3>2. t.data[m] \in Int /\ t.data[x] \in Int /\ t.data[y] \in Int
        BY <1>4, <1>7, <3>1
      <3> QED
        BY <1>9, <3>1, <3>2 DEF InOrder
    <2>3. CASE m \in K2
      BY <1>8, <2>3
    <2> QED
      BY <1>5, <2>1, <2>2, <2>3
  <1>11. \A m \in K2 : InOrder(Other(side), t.data[m], t.data[x])
    BY <1>4, <1>8
  <1>12. ASSUME NEW n \in Nodes, NEW s \in Sides, NEW m \in Kid(u, C, s, n)
         PROVE  InOrder(s, t.data[m], t.data[n])
    <2>1. CASE n = x
      BY <1>1, <1>6, <1>8, <1>11, <1>12, <2>1
    <2>2. CASE n = y
      BY <1>1, <1>6, <1>8, <1>10, <1>12, <2>2
    <2>3. CASE n # x /\ n # y
      BY <1>6, <1>12, <2>3 DEF Sorted
    <2> QED
      BY <2>1, <2>2, <2>3
  <1> QED
    BY <1>2, <1>12 DEF Sorted

\* A set of natural numbers has a least one.
LEMMA LeastNat ==
  ASSUME NEW T, T \subseteq Nat, T # {}
  PROVE  \E m \in T : \A k \in T : m <= k
  <1> DEFINE R == OpToRel(<, Nat)
  <1>1. \A x, y \in Nat : <<x, y>> \in R <=> x < y
    BY DEF OpToRel
  <1>2. IsWellFoundedOn(R, Nat)
    BY NatLessThanWellFounded
  <1> HIDE DEF R
  <1>3. PICK x \in T : \A y \in T : ~(<<y, x>> \in R)
    BY <1>2, WFMin
  <1>4. ASSUME NEW k \in T PROVE x <= k
    <2>1. x \in Nat /\ k \in Nat
      OBVIOUS
    <2>2. ~(k < x)
      BY <2>1, <1>1, <1>3, <1>4
    <2> QED
      BY <2>1, <2>2
  <1> QED
    BY <1>4

\* A set that holds every node whose children it holds has all nodes.
LEMMA FromTheLeaves ==
  ASSUME SizesOK, NEW t, NEW N, NEW B, Linked(t, N), Grown(t, B, N), NEW S,
         \A n \in Nodes : (\A s \in Sides : t.child[s][n] # NULL => t.child[s][n] \in S) => n \in S
  PROVE  Nodes \subseteq S
  <1>1. IsFiniteSet(Nodes)
    BY FS_Interval DEF Nodes, SizesOK
  <1>2. B \in [Nodes -> SUBSET Nodes]
    BY DEF Grown
  <1>3. \A n \in Nodes : IsFiniteSet(B[n]) /\ Cardinality(B[n]) \in Nat
    BY <1>1, <1>2, FS_Subset, FS_CardinalityType
  <1>4. ASSUME NEW n \in Nodes, NEW s \in Sides, t.child[s][n] # NULL
        PROVE  t.child[s][n] \in Nodes /\ Cardinality(B[t.child[s][n]]) < Cardinality(B[n])
    <2>1. PICK c : c = t.child[s][n]
      OBVIOUS
    <2>2. c \in Nodes
      <3>1. c \in 1..N
        BY <1>4, <2>1, Zenon DEF Linked
      <3> QED
        BY <3>1 DEF Linked, SizesOK, Nodes
    <2>3. Kid(t, B, s, n) = B[c]
      BY <1>4, <2>1 DEF Kid
    <2>4. B[c] \subseteq B[n] /\ n \in B[n] /\ n \notin B[c]
      BY <1>4, <2>3 DEF Grown
    <2>5. B[c] # B[n]
      BY <2>4
    <2>6. Cardinality(B[c]) < Cardinality(B[n])
      BY <1>3, <1>4, <2>2, <2>4, <2>5, FS_Subset
    <2> QED
      BY <2>1, <2>2, <2>6
  <1> SUFFICES ASSUME NEW a \in Nodes, a \notin S PROVE FALSE
    OBVIOUS
  <1> DEFINE P(k) == \E n \in Nodes : n \notin S /\ Cardinality(B[n]) = k
  <1>5. \E k \in Nat : P(k)
    BY <1>3
  <1>6. PICK k \in Nat : P(k) /\ \A j \in Nat : P(j) => k <= j
    <2>1. PICK K : K = {k \in Nat : P(k)}
      OBVIOUS
    <2>2. K \subseteq Nat /\ K # {}
      BY <1>5, <2>1
    <2>3. PICK k \in K : \A j \in K : k <= j
      BY <2>2, LeastNat
    <2> QED
      BY <2>1, <2>3
  <1>7. PICK n \in Nodes : n \notin S /\ Cardinality(B[n]) = k
    BY <1>6
  <1>8. PICK s \in Sides : t.child[s][n] # NULL /\ t.child[s][n] \notin S
    BY <1>7
  <1>9. PICK c : c = t.child[s][n]
    OBVIOUS
  <1>10. c \in Nodes /\ c \notin S /\ Cardinality(B[c]) < k
    BY <1>4, <1>7, <1>8, <1>9
  <1>11. Cardinality(B[c]) \in Nat /\ P(Cardinality(B[c]))
    BY <1>3, <1>10
  <1>12. k <= Cardinality(B[c])
    BY <1>6, <1>11
  <1> QED
    BY <1>10, <1>11, <1>12

\* The end of the way down along nx can be defined by recursion.
LEMMA WayDown ==
  ASSUME NEW S, NEW Nil, Nil \notin S, NEW nx \in [S -> S \cup {Nil}]
  PROVE  \E f : f = [n \in S |-> IF nx[n] = Nil THEN n ELSE f[nx[n]]]
  <1> DEFINE Closed(n) == {X \in SUBSET S : n \in X /\ \A k \in X : nx[k] # Nil => nx[k] \in X}
             Path(n) == {m \in S : \A X \in Closed(n) : m \in X}
             End(n) == {m \in Path(n) : nx[m] = Nil}
             f == [n \in S |-> CHOOSE m : m \in End(n)]
  <1>1. ASSUME NEW n \in S, nx[n] = Nil PROVE f[n] = n
    <2>1. {n} \in Closed(n)
      BY <1>1
    <2>2. End(n) = {n}
      BY <1>1, <2>1
    <2>3. f[n] = CHOOSE m : m \in {n}
      BY <2>2
    <2> QED
      BY <2>3
  <1>2. ASSUME NEW n \in S, nx[n] # Nil PROVE f[n] = f[nx[n]]
    <2>0. nx[n] \in S
      BY <1>2
    <2>1. ASSUME NEW m \in End(n) PROVE m \in End(nx[n])
      <3>1. m \in S /\ nx[m] = Nil /\ m # n
        BY <1>2, <2>1
      <3>2. ASSUME NEW X \in Closed(nx[n]) PROVE m \in X
        <4>1. X \cup {n} \in Closed(n)
          BY <1>2, <3>2
        <4> QED
          BY <2>1, <3>1, <4>1
      <3> QED
        BY <3>1, <3>2
    <2>2. ASSUME NEW m \in End(nx[n]) PROVE m \in End(n)
      <3>1. m \in S /\ nx[m] = Nil
        BY <2>2
      <3>2. ASSUME NEW X \in Closed(n) PROVE m \in X
        <4>1. X \in Closed(nx[n])
          BY <1>2, <3>2
        <4> QED
          BY <2>2, <4>1
      <3> QED
        BY <3>1, <3>2
    <2>3. End(n) = End(nx[n])
      BY <2>1, <2>2
    <2>4. PICK E : E = End(n)
      OBVIOUS
    <2>5. f[n] = CHOOSE m : m \in E
      BY <2>4
    <2>6. f[nx[n]] = CHOOSE m : m \in E
      BY <2>0, <2>3, <2>4
    <2> QED
      BY <2>5, <2>6
  <1>3. PICK g : g = f
    OBVIOUS
  <1>4. \A n \in S : g[n] = IF nx[n] = Nil THEN n ELSE g[nx[n]]
    BY <1>1, <1>2, <1>3, ZenonT(60)
  <1>5. g = [n \in S |-> g[n]]
    BY <1>3
  <1> QED
    BY <1>4, <1>5

\* The loop of insertion ends at a node of the tree that has a free place
\* for the number, on the right side of every node above it.
LEMMA LeafFound ==
  ASSUME SizesOK, NEW t, NEW N, NEW B, Linked(t, N), Grown(t, B, N), N > 0,
         NEW d \in Int, NEW w, w = Leaf(t, d)
  PROVE  /\ w \in 1..N /\ t.child[SideFor(t, w, d)][w] = NULL
         /\ \A a \in Nodes, s \in Sides : w \in Kid(t, B, s, a) => InOrder(s, d, t.data[a])
  <1> DEFINE R == CHOOSE f : f = [n \in Nodes |-> IF t.child[SideFor(t, n, d)][n] = NULL THEN n
                                                   ELSE f[t.child[SideFor(t, n, d)][n]]]
  <1>0. PICK nx : nx = [n \in Nodes |-> t.child[SideFor(t, n, d)][n]]
    OBVIOUS
  <1>1. /\ t \in Trees /\ NULL \notin Nodes /\ 1..N \subseteq Nodes /\ t.root \in 1..N
        /\ t.root # NULL /\ t.parent[t.root] = NULL
    BY DEF Linked, SizesOK, Nodes
  <1>2. \A n : SideFor(t, n, d) \in Sides
    BY DEF SideFor, Sides
  <1>3. nx \in [Nodes -> Nodes \cup {NULL}]
    BY <1>0, <1>1, <1>2 DEF Trees, Links
  <1>4. \E f : f = [n \in Nodes |-> IF nx[n] = NULL THEN n ELSE f[nx[n]]]
    BY <1>1, <1>3, WayDown
  <1>5. \E f : f = [n \in Nodes |-> IF t.child[SideFor(t, n, d)][n] = NULL THEN n
                                    ELSE f[t.child[SideFor(t, n, d)][n]]]
    <2>1. PICK f : f = [n \in Nodes |-> IF nx[n] = NULL THEN n ELSE f[nx[n]]]
      BY <1>4
    <2>2. \A n \in Nodes : nx[n] = t.child[SideFor(t, n, d)][n]
      BY <1>0
    <2>3. f = [n \in Nodes |-> IF t.child[SideFor(t, n, d)][n] = NULL THEN n
                               ELSE f[t.child[SideFor(t, n, d)][n]]]
      BY <2>1, <2>2
    <2> QED
      BY <2>3
  <1>6. R = [n \in Nodes |-> IF t.child[SideFor(t, n, d)][n] = NULL THEN n
                              ELSE R[t.child[SideFor(t, n, d)][n]]]
    BY <1>5, Zenon
  <1>7. w = R[t.root]
    BY <1>1, Zenon DEF Leaf
  <1> HIDE DEF R
  <1>8. PICK down : down = R
    OBVIOUS
  <1>9. \A n \in Nodes : down[n] = IF nx[n] = NULL THEN n ELSE down[nx[n]]
    <2>1. down = [n \in Nodes |-> IF t.child[SideFor(t, n, d)][n] = NULL THEN n
                              ELSE down[t.child[SideFor(t, n, d)][n]]]
      BY <1>6, <1>8, Zenon
    <2> QED
      BY <1>0, <2>1
  <1> DEFINE Fits(n) == n \in 1..N
                        /\ \A a \in Nodes, s \in Sides : n \in Kid(t, B, s, a) => InOrder(s, d, t.data[a])
             Z == {n \in Nodes : Fits(n) => Fits(down[n]) /\ nx[down[n]] = NULL}
  <1>10. ASSUME NEW n \in Nodes, nx[n] # NULL, Fits(n) PROVE Fits(nx[n])
    <2>1. PICK r, c : r = SideFor(t, n, d) /\ c = t.child[r][n]
      OBVIOUS
    <2>2. r \in Sides /\ c = nx[n] /\ c # NULL
      BY <1>0, <1>2, <1>10, <2>1
    <2>3. c \in 1..N /\ t.parent[c] = n
      <3>1. n \in Nodes /\ r \in Sides /\ t.child[r][n] # NULL
        BY <1>10, <2>1, <2>2
      <3>2. t.child[r][n] \in 1..N /\ t.parent[t.child[r][n]] = n
        BY <3>1, Zenon DEF Linked
      <3> QED
        BY <2>1, <3>2
    <2>4. ASSUME NEW a \in Nodes, NEW s \in Sides, c \in Kid(t, B, s, a)
          PROVE  InOrder(s, d, t.data[a])
      <3>1. PICK e : e = t.child[s][a]
        OBVIOUS
      <3>2. e # NULL /\ Kid(t, B, s, a) = B[e]
        BY <2>4, <3>1 DEF Kid
      <3>3. e \in 1..N /\ t.parent[e] = a
        BY <2>4, <3>1, <3>2, Zenon DEF Linked
      <3>4. CASE c = e
        <4>1. a = n /\ c \in B[c]
          BY <1>1, <2>3, <3>2, <3>3, <3>4, <2>4
        <4>2. s = r
          <5> SUFFICES ASSUME s # r PROVE FALSE
            OBVIOUS
          <5>1. s = Other(r)
            BY <2>2, <2>4, OtherSide
          <5>2. Kid(t, B, r, n) = B[c] /\ Kid(t, B, s, n) = B[c]
            BY <2>1, <2>2, <3>2, <3>4, <4>1 DEF Kid
          <5>3. Kid(t, B, r, n) \cap Kid(t, B, s, n) = {}
            BY <2>2, <1>10, <5>1 DEF Grown
          <5> QED
            BY <4>1, <5>2, <5>3
        <4>3. t.data[n] \in Int
          BY <1>1, <1>10 DEF Trees
        <4> QED
          BY <2>1, <4>1, <4>2, <4>3 DEF SideFor, InOrder
      <3>5. CASE c # e
        <4>1. n \in B[e]
          BY <1>1, <2>3, <2>4, <3>2, <3>3, <3>5 DEF Grown
        <4> QED
          BY <1>10, <2>4, <3>2, <4>1
      <3> QED
        BY <3>4, <3>5
    <2> QED
      BY <2>2, <2>3, <2>4
  <1>11. ASSUME NEW n \in Nodes, \A s \in Sides : t.child[s][n] # NULL => t.child[s][n] \in Z
         PROVE  n \in Z
    <2> SUFFICES ASSUME Fits(n) PROVE Fits(down[n]) /\ nx[down[n]] = NULL
      BY <1>11
    <2>1. CASE nx[n] = NULL
      <3>1. down[n] = n
        BY <1>9, <2>1
      <3> QED
        BY <2>1, <3>1
    <2>2. CASE nx[n] # NULL
      <3>1. Fits(nx[n])
        BY <1>10, <2>2
      <3>2. nx[n] \in Z
        BY <1>0, <1>2, <1>11, <2>2
      <3>3. down[n] = down[nx[n]]
        BY <1>9, <2>2
      <3>4. Fits(down[nx[n]]) /\ nx[down[nx[n]]] = NULL
        BY <3>1, <3>2
      <3> QED
        BY <3>3, <3>4
    <2> QED
      BY <2>1, <2>2
  <1>12. Nodes \subseteq Z
    <2> HIDE DEF Z
    <2> QED
      BY <1>11, FromTheLeaves
  <1>13. Fits(t.root)
    <2> SUFFICES ASSUME NEW a \in Nodes, NEW s \in Sides, t.root \in Kid(t, B, s, a) PROVE FALSE
      BY <1>1
    <2>1. PICK e : e = t.child[s][a]
      OBVIOUS
    <2>2. e # NULL /\ Kid(t, B, s, a) = B[e]
      BY <2>1 DEF Kid
    <2>3. e \in 1..N /\ t.parent[e] = a
      BY <2>1, <2>2, Zenon DEF Linked
    <2>4. t.root # e
      BY <1>1, <2>3
    <2>5. t.parent[t.root] \in B[e] /\ B[e] \subseteq Nodes
      BY <1>1, <2>2, <2>3, <2>4 DEF Grown
    <2> QED
      BY <1>1, <2>5
  <1>14. t.root \in Z
    BY <1>1, <1>12
  <1>15. Fits(down[t.root]) /\ nx[down[t.root]] = NULL
    BY <1>13, <1>14
  <1>16. w = down[t.root]
    BY <1>7, <1>8
  <1>17. w \in Nodes
    BY <1>1, <1>15, <1>16
  <1> QED
    BY <1>0, <1>15, <1>16, <1>17

Shape(t, N) == \E B : Linked(t, N) /\ Grown(t, B, N) /\ Sorted(t, B)

\* The tree after Insert has attached node n with the number d below w.
Attached(t, n, w, d) ==
    [t EXCEPT !.root = IF w = NULL THEN n ELSE @,
              !.data[n] = d,
              !.parent[n] = w,
              !.child = [s \in Sides |->
                 IF w # NULL /\ s = SideFor(t, w, d) THEN [@[s] EXCEPT ![w] = n] ELSE @[s]]]

\* What Insert does to the links.
LEMMA AttachedLinks ==
  ASSUME SizesOK, NEW t, NEW N, Linked(t, N), N < MaxNodes, NEW d \in Int,
         NEW n, n = N + 1, NEW w, (IF N = 0 THEN w = NULL ELSE w \in 1..N),
         NEW u, u = Attached(t, n, w, d), NEW r, r = SideFor(t, w, d)
  PROVE  /\ n \in Nodes /\ 1..N \subseteq Nodes /\ n \notin 1..N /\ 1..n = 1..N \cup {n} /\ r \in Sides
         /\ u \in Trees /\ u.color = t.color
         /\ u.root = IF N = 0 THEN n ELSE t.root
         /\ u.data[n] = d /\ \A a \in Nodes : a # n => u.data[a] = t.data[a]
         /\ u.parent[n] = w /\ \A a \in Nodes : a # n => u.parent[a] = t.parent[a]
         /\ N > 0 => w \in Nodes /\ w # n /\ w # NULL /\ u.child[r][w] = n
         /\ \A a \in Nodes, s \in Sides : ~(a = w /\ s = r) => u.child[s][a] = t.child[s][a]
         /\ \A s \in Sides : t.child[s][n] = NULL
  <1>1. t \in Trees /\ N \in 0..MaxNodes /\ (t.root = NULL <=> N = 0) /\ NULL \notin Nodes
    BY DEF Linked, SizesOK
  <1>2. n \in Nodes /\ 1..N \subseteq Nodes /\ n \notin 1..N /\ 1..n = 1..N \cup {n} /\ r \in Sides
    BY <1>1 DEF Nodes, SizesOK, Sides, SideFor
  <1>3. (w = NULL <=> N = 0) /\ (N > 0 => w \in Nodes /\ w # n /\ w # NULL) /\ w \in Links
    BY <1>1, <1>2 DEF Links
  <1>4. \A s \in Sides : t.child[s][n] = NULL
    <2>1. \A a \in Nodes, s \in Sides : t.child[s][a] # NULL => a \in 1..N
      BY DEF Linked
    <2> QED
      BY <1>2, <2>1
  <1>5. PICK ch : ch = [s \in Sides |-> IF w # NULL /\ s = r THEN [t.child[s] EXCEPT ![w] = n] ELSE t.child[s]]
    OBVIOUS
  <1>6. u = [t EXCEPT !.root = IF w = NULL THEN n ELSE @, !.data[n] = d, !.parent[n] = w, !.child = ch]
    BY <1>1, <1>5 DEF Attached, Trees
  <1>7. /\ u.color = t.color /\ u.root = IF w = NULL THEN n ELSE t.root
        /\ u.data = [t.data EXCEPT ![n] = d] /\ u.parent = [t.parent EXCEPT ![n] = w] /\ u.child = ch
    BY <1>1, <1>6 DEF Trees
  <1>8. t.child \in [Sides -> [Nodes -> Links]] /\ t.data \in [Nodes -> Int] /\ t.parent \in [Nodes -> Links]
        /\ t.root \in Links
    BY <1>1 DEF Trees
  <1>9. /\ ch \in [Sides -> [Nodes -> Links]]
        /\ w # NULL => ch[r][w] = n
        /\ \A a \in Nodes, s \in Sides : ~(a = w /\ s = r) => ch[s][a] = t.child[s][a]
    BY <1>2, <1>3, <1>5, <1>8 DEF Links
  <1>10. u.data \in [Nodes -> Int] /\ u.parent \in [Nodes -> Links] /\ u.root \in Links
    BY <1>2, <1>3, <1>7, <1>8 DEF Links
  <1>11. u \in Trees
    BY <1>1, <1>6, <1>7, <1>9, <1>10 DEF Trees
  <1>12. u.data[n] = d /\ \A a \in Nodes : a # n => u.data[a] = t.data[a]
    BY <1>2, <1>7, <1>8
  <1>13. u.parent[n] = w /\ \A a \in Nodes : a # n => u.parent[a] = t.parent[a]
    BY <1>2, <1>7, <1>8
  <1> QED
    BY <1>2, <1>3, <1>4, <1>7, <1>9, <1>11, <1>12, <1>13

\* The subtrees after n has been attached below w.
Longer(B, w, n) == [a \in Nodes |-> IF w \in B[a] THEN B[a] \cup {n} ELSE B[a]]

\* Hanging a node where Leaf says keeps one sorted tree.
LEMMA InsertKeeps ==
  ASSUME SizesOK, NEW t, NEW N, NEW B, Linked(t, N), Grown(t, B, N), Sorted(t, B),
         N < MaxNodes, NEW d \in Int, NEW n, n = N + 1, NEW w, w = Leaf(t, d),
         NEW u, u = Attached(t, n, w, d)
  PROVE  Shape(u, n)
  <1>0. PICK r, C : r = SideFor(t, w, d) /\ C = Longer(B, w, n)
    OBVIOUS
  <1>1. N \in Nat /\ (N = 0 <=> t.root = NULL) /\ n \in 0..MaxNodes /\ n > 0 /\ NULL \notin Nodes /\ n # NULL
    BY DEF Linked, SizesOK, Nodes
  <1>2. /\ IF N = 0 THEN w = NULL ELSE w \in 1..N
        /\ N > 0 => t.child[r][w] = NULL
        /\ N > 0 => \A a \in Nodes, s \in Sides : w \in Kid(t, B, s, a) => InOrder(s, d, t.data[a])
    <2>1. CASE N = 0
      <3>1. w = NULL
        BY <1>1, <2>1, Zenon DEF Leaf
      <3> QED
        BY <2>1, <3>1
    <2>2. CASE N # 0
      <3>1. N > 0
        BY <1>1, <2>2
      <3>2. /\ w \in 1..N /\ t.child[SideFor(t, w, d)][w] = NULL
            /\ \A a \in Nodes, s \in Sides : w \in Kid(t, B, s, a) => InOrder(s, d, t.data[a])
        BY <3>1, LeafFound
      <3> QED
        BY <1>0, <2>2, <3>2
    <2> QED
      BY <2>1, <2>2
  <1>3. /\ n \in Nodes /\ 1..N \subseteq Nodes /\ n \notin 1..N /\ 1..n = 1..N \cup {n} /\ r \in Sides
        /\ u \in Trees
        /\ u.root = IF N = 0 THEN n ELSE t.root
        /\ u.data[n] = d /\ \A a \in Nodes : a # n => u.data[a] = t.data[a]
    BY <1>0, <1>2, AttachedLinks
  <1>4. /\ u.parent[n] = w /\ \A a \in Nodes : a # n => u.parent[a] = t.parent[a]
        /\ N > 0 => w \in Nodes /\ w # n /\ w # NULL /\ u.child[r][w] = n
        /\ \A a \in Nodes, s \in Sides : ~(a = w /\ s = r) => u.child[s][a] = t.child[s][a]
        /\ \A s \in Sides : t.child[s][n] = NULL
    BY <1>0, <1>2, AttachedLinks
  <1>5. N = 0 => w \notin Nodes
    BY <1>1, <1>2
  <1>6. /\ N > 0 => t.root \in 1..N /\ t.parent[t.root] = NULL
        /\ \A a \in Nodes, s \in Sides : t.child[s][a] # NULL =>
              a \in 1..N /\ t.child[s][a] \in 1..N /\ t.parent[t.child[s][a]] = a
        /\ \A a \in 1..N : a # t.root =>
              t.parent[a] \in 1..N /\ \E s \in Sides : t.child[s][t.parent[a]] = a
    BY DEF Linked
  <1>7. Linked(u, n)
    <2>1. u.root \in 1..n /\ u.root # NULL /\ u.parent[u.root] = NULL
      <3>1. CASE N = 0
        BY <1>1, <1>2, <1>3, <1>4, <3>1
      <3>2. CASE N > 0
        <4>1. u.root = t.root /\ t.root \in 1..N /\ t.root # n /\ t.root \in Nodes
          BY <1>1, <1>3, <1>6, <3>2
        <4> QED
          BY <1>1, <1>3, <1>4, <1>6, <3>2, <4>1
      <3> QED
        BY <1>1, <3>1, <3>2
    <2>2. ASSUME NEW a \in Nodes, NEW s \in Sides, u.child[s][a] # NULL
          PROVE  a \in 1..n /\ u.child[s][a] \in 1..n /\ u.parent[u.child[s][a]] = a
      <3>1. CASE a = w /\ s = r
        <4>1. N > 0
          BY <1>1, <1>5, <2>2, <3>1
        <4> QED
          BY <1>1, <1>2, <1>3, <1>4, <3>1, <4>1
      <3>2. CASE ~(a = w /\ s = r)
        <4>1. u.child[s][a] = t.child[s][a]
          BY <1>4, <2>2, <3>2
        <4>2. a \in 1..N /\ t.child[s][a] \in 1..N /\ t.parent[t.child[s][a]] = a
          BY <1>6, <2>2, <4>1
        <4>3. t.child[s][a] # n /\ t.child[s][a] \in Nodes
          BY <1>3, <4>2
        <4> QED
          BY <1>3, <1>4, <4>1, <4>2, <4>3
      <3> QED
        BY <3>1, <3>2
    <2>3. ASSUME NEW a \in 1..n, a # u.root
          PROVE  u.parent[a] \in 1..n /\ \E s \in Sides : u.child[s][u.parent[a]] = a
      <3>1. CASE a = n
        <4>1. N > 0
          BY <1>1, <1>3, <2>3, <3>1
        <4> QED
          BY <1>1, <1>2, <1>3, <1>4, <3>1, <4>1
      <3>2. CASE a # n
        <4>1. a \in 1..N /\ a # t.root /\ u.parent[a] = t.parent[a]
          <5>1. a \in 1..N
            BY <1>3, <2>3, <3>2
          <5>2. N > 0
            BY <1>1, <5>1
          <5> QED
            BY <1>3, <1>4, <2>3, <3>2, <5>1, <5>2
        <4>2. t.parent[a] \in 1..N
          BY <1>6, <4>1
        <4>3. PICK s \in Sides : t.child[s][t.parent[a]] = a
          BY <1>6, <4>1
        <4>4. u.child[s][t.parent[a]] = a
          <5>1. ~(t.parent[a] = w /\ s = r)
            BY <1>1, <1>2, <1>3, <4>1, <4>2, <4>3
          <5> QED
            BY <1>3, <1>4, <4>2, <4>3, <5>1
        <4> QED
          BY <1>3, <4>1, <4>2, <4>3, <4>4
      <3> QED
        BY <3>1, <3>2
    <2>4. n # 0
      BY <1>1
    <2> QED
      BY <1>1, <1>3, <2>1, <2>2, <2>3, <2>4 DEF Linked
  <1>8. /\ B \in [Nodes -> SUBSET Nodes]
        /\ \A a \in Nodes, s \in Sides : B[a] = {a} \cup Kid(t, B, s, a) \cup Kid(t, B, Other(s), a)
        /\ \A a \in Nodes, s \in Sides : a \notin Kid(t, B, s, a)
        /\ \A a \in Nodes, s \in Sides : Kid(t, B, s, a) \cap Kid(t, B, Other(s), a) = {}
        /\ N > 0 => B[t.root] = 1..N
    BY DEF Grown
  <1>9. /\ \A a \in Nodes : \A m \in B[a] : B[m] \subseteq B[a]
        /\ \A a \in Nodes : \A m \in B[a] : m # a => t.parent[m] \in B[a]
        /\ \A a \in 1..N : B[a] \subseteq 1..N
    BY DEF Grown
  <1>10. B[n] = {n} /\ w \notin B[n]
    <2>1. Kid(t, B, r, n) = {} /\ Kid(t, B, Other(r), n) = {}
      BY <1>3, <1>4, OtherSide DEF Kid
    <2>2. B[n] = {n}
      BY <1>3, <1>8, <2>1
    <2>3. w # n
      BY <1>1, <1>2, <1>3
    <2> QED
      BY <2>2, <2>3
  <1>11. /\ C \in [Nodes -> SUBSET Nodes]
         /\ \A a \in Nodes : C[a] = IF w \in B[a] THEN B[a] \cup {n} ELSE B[a]
         /\ C[n] = {n}
    BY <1>0, <1>3, <1>8, <1>10 DEF Longer
  <1>12. \A a \in Nodes, s \in Sides : n \notin Kid(t, B, s, a)
    <2> SUFFICES ASSUME NEW a \in Nodes, NEW s \in Sides, n \in Kid(t, B, s, a) PROVE FALSE
      OBVIOUS
    <2>1. PICK e : e = t.child[s][a]
      OBVIOUS
    <2>2. e # NULL /\ Kid(t, B, s, a) = B[e]
      BY <2>1 DEF Kid
    <2>3. e \in 1..N
      BY <1>6, <2>1, <2>2
    <2> QED
      BY <1>3, <1>9, <2>2, <2>3
  <1>13. ASSUME NEW a \in Nodes, NEW s \in Sides
         PROVE  Kid(u, C, s, a) = IF w \in Kid(t, B, s, a) \/ (a = w /\ s = r)
                                    THEN Kid(t, B, s, a) \cup {n} ELSE Kid(t, B, s, a)
    <2>1. CASE a = w /\ s = r
      <3>1. N > 0
        BY <1>1, <1>5, <1>13, <2>1
      <3>2. Kid(u, C, s, a) = C[n]
        BY <1>1, <1>4, <2>1, <3>1 DEF Kid
      <3>3. Kid(t, B, s, a) = {}
        BY <1>2, <2>1, <3>1 DEF Kid
      <3> QED
        BY <1>11, <2>1, <3>2, <3>3
    <2>2. CASE ~(a = w /\ s = r)
      <3>1. u.child[s][a] = t.child[s][a]
        BY <1>4, <1>13, <2>2
      <3>2. CASE t.child[s][a] = NULL
        BY <2>2, <3>1, <3>2 DEF Kid
      <3>3. CASE t.child[s][a] # NULL
        <4>1. PICK e : e = t.child[s][a]
          OBVIOUS
        <4>2. e \in Nodes /\ Kid(t, B, s, a) = B[e] /\ Kid(u, C, s, a) = C[e]
          BY <1>3, <1>6, <1>13, <3>1, <3>3, <4>1 DEF Kid
        <4> QED
          BY <1>11, <2>2, <4>2
      <3> QED
        BY <3>2, <3>3
    <2> QED
      BY <2>1, <2>2
  <1>14. ASSUME NEW a \in Nodes, NEW s \in Sides
         PROVE  /\ C[a] = {a} \cup Kid(u, C, s, a) \cup Kid(u, C, Other(s), a)
                /\ a \notin Kid(u, C, s, a)
                /\ Kid(u, C, s, a) \cap Kid(u, C, Other(s), a) = {}
    <2>0. PICK o : o = Other(s)
      OBVIOUS
    <2>1. o \in Sides /\ o # s /\ (r = s \/ r = o)
      BY <1>3, <1>14, <2>0, OtherSide
    <2>2. PICK P, Q : P = Kid(t, B, s, a) /\ Q = Kid(t, B, o, a)
      OBVIOUS
    <2>3. B[a] = {a} \cup P \cup Q /\ a \notin P /\ a \notin Q /\ P \cap Q = {} /\ n \notin P /\ n \notin Q
      BY <1>8, <1>12, <1>14, <2>0, <2>1, <2>2
    <2>4. Kid(u, C, s, a) = IF w \in P \/ (a = w /\ s = r) THEN P \cup {n} ELSE P
      BY <1>13, <1>14, <2>2
    <2>5. Kid(u, C, o, a) = IF w \in Q \/ (a = w /\ o = r) THEN Q \cup {n} ELSE Q
      BY <1>13, <1>14, <2>1, <2>2
    <2>6. C[a] = IF w \in B[a] THEN B[a] \cup {n} ELSE B[a]
      BY <1>11, <1>14
    <2>7. a = w => a # n
      BY <1>1, <1>4, <1>5, <1>14
    <2>8. a = n => P = {} /\ Q = {}
      BY <1>10, <2>3
    <2>9. n = a => w \notin P /\ w \notin Q
      BY <2>8
    <2> QED
      BY <2>0, <2>1, <2>3, <2>4, <2>5, <2>6, <2>7, <2>9
  <1>15. C[u.root] = 1..n
    <2>1. CASE N = 0
      <3>1. 1..N = {} /\ u.root = n
        BY <1>3, <2>1
      <3> QED
        BY <1>3, <1>11, <3>1
    <2>2. CASE N > 0
      <3>1. u.root = t.root /\ t.root \in Nodes /\ B[t.root] = 1..N /\ w \in 1..N
        BY <1>1, <1>2, <1>3, <1>6, <1>8, <2>2
      <3>2. C[t.root] = B[t.root] \cup {n}
        BY <1>11, <3>1
      <3> QED
        BY <1>3, <3>1, <3>2
    <2> QED
      BY <1>1, <2>1, <2>2
  <1>16. ASSUME NEW a \in Nodes, NEW m \in C[a] PROVE C[m] \subseteq C[a]
    <2>0. m \in Nodes
      BY <1>11, <1>16
    <2>1. CASE m = n
      BY <1>11, <1>16, <2>1
    <2>2. CASE m # n
      <3>1. m \in B[a]
        BY <1>11, <1>16, <2>2
      <3>2. B[m] \subseteq B[a]
        BY <1>9, <1>16, <3>1
      <3> QED
        BY <1>11, <1>16, <2>0, <3>2
    <2> QED
      BY <2>1, <2>2
  <1>17. ASSUME NEW a \in Nodes, NEW m \in C[a], m # a PROVE u.parent[m] \in C[a]
    <2>0. m \in Nodes
      BY <1>11, <1>17
    <2>1. CASE m = n
      <3>1. w \in B[a]
        <4>1. CASE n \in B[a]
          <5>1. B[a] = {a} \cup Kid(t, B, r, a) \cup Kid(t, B, Other(r), a) /\ Other(r) \in Sides
            BY <1>3, <1>8, <1>17, OtherSide
          <5> QED
            BY <1>3, <1>12, <1>17, <2>1, <4>1, <5>1
        <4>2. CASE n \notin B[a]
          BY <1>11, <1>17, <2>1, <4>2
        <4> QED
          BY <4>1, <4>2
      <3> QED
        <4>1. w \in C[a] /\ u.parent[n] = w
          BY <1>4, <1>11, <1>17, <3>1
        <4> QED
          BY <2>1, <4>1
    <2>2. CASE m # n
      <3>1. m \in B[a]
        BY <1>11, <1>17, <2>2
      <3>2. t.parent[m] \in B[a]
        BY <1>9, <1>17, <3>1
      <3> QED
        BY <1>4, <1>11, <1>17, <2>0, <2>2, <3>2
    <2> QED
      BY <2>1, <2>2
  <1>18. ASSUME NEW a \in 1..n PROVE C[a] \subseteq 1..n
    <2>1. CASE a = n
      BY <1>3, <1>11, <2>1
    <2>2. CASE a # n
      <3>1. a \in 1..N /\ a \in Nodes
        BY <1>3, <1>18, <2>2
      <3>2. B[a] \subseteq 1..N
        BY <1>9, <3>1
      <3>3. C[a] \subseteq B[a] \cup {n}
        BY <1>11, <3>1
      <3> QED
        BY <1>3, <3>2, <3>3
    <2> QED
      BY <2>1, <2>2
  <1>19. Grown(u, C, n)
    BY <1>11, <1>14, <1>15, <1>16, <1>17, <1>18 DEF Grown
  <1>20. ASSUME NEW a \in Nodes, NEW s \in Sides, NEW m \in Kid(u, C, s, a)
         PROVE  InOrder(s, u.data[m], u.data[a])
    <2>1. CASE m = n
      <3>1. w \in Kid(t, B, s, a) \/ (a = w /\ s = r)
        BY <1>12, <1>13, <1>20, <2>1
      <3>2. Kid(t, B, s, a) \subseteq B[a] /\ B[a] \subseteq Nodes
        BY <1>8, <1>20
      <3>3. N > 0
        BY <1>1, <1>5, <1>20, <3>1, <3>2
      <3>4. a # n
        BY <1>4, <1>10, <1>20, <3>1, <3>2, <3>3
      <3>5. CASE w \in Kid(t, B, s, a)
        BY <1>2, <1>3, <1>20, <2>1, <3>3, <3>4, <3>5
      <3>6. CASE a = w /\ s = r
        <4>1. t.data[a] \in Int
          BY <1>20 DEF Linked, Trees
        <4>2. InOrder(s, d, t.data[a])
          BY <1>0, <3>6, <4>1 DEF SideFor, InOrder
        <4> QED
          BY <1>3, <1>20, <2>1, <3>4, <4>2
      <3> QED
        BY <3>1, <3>5, <3>6
    <2>2. CASE m # n
      <3>1. m \in Kid(t, B, s, a)
        BY <1>13, <1>20, <2>2
      <3>2. Kid(t, B, s, a) \subseteq B[a] /\ B[a] \subseteq Nodes /\ a \notin Kid(t, B, s, a)
        BY <1>8, <1>20
      <3>3. a # n /\ m \in Nodes
        BY <1>10, <3>1, <3>2
      <3>4. InOrder(s, t.data[m], t.data[a])
        BY <1>20, <3>1 DEF Sorted
      <3> QED
        BY <1>3, <1>20, <2>2, <3>3, <3>4
    <2> QED
      BY <2>1, <2>2
  <1> QED
    BY <1>7, <1>19, <1>20 DEF Sorted, Shape

-----------------------------------------------------------------------------
\* Colours.  Level: every way from a node down to a missing child meets as
\* many black nodes, h[n] from node n.
Tall(t, h, s, n) == IF t.child[s][n] = NULL THEN 0 ELSE h[t.child[s][n]]
Weight(t, n)     == IF t.color[n] = "BLACK" THEN 1 ELSE 0
Level(t, h) ==
    h \in [Nodes -> Nat] /\ \A n \in Nodes, s \in Sides : h[n] = Tall(t, h, s, n) + Weight(t, n)

\* No red node has a red child, except q.
OnlyAt(t, q) ==
    \A n \in Nodes, s \in Sides :
        t.child[s][n] # NULL /\ t.color[n] = "RED" /\ t.color[t.child[s][n]] = "RED" => t.child[s][n] = q

Painted(t, col) == [t EXCEPT !.color = col]

\* Colours are no part of the shape.
LEMMA PaintKeeps ==
  ASSUME NEW t, NEW N, NEW B, Linked(t, N), Grown(t, B, N), Sorted(t, B),
         NEW col \in [Nodes -> {"RED", "BLACK"}], NEW u, u = Painted(t, col)
  PROVE  /\ Linked(u, N) /\ Grown(u, B, N) /\ Sorted(u, B)
         /\ u \in Trees /\ u.color = col /\ u.child = t.child /\ u.parent = t.parent
         /\ u.root = t.root /\ u.data = t.data
  <1>1. /\ t \in Trees /\ u \in Trees /\ u.color = col /\ u.child = t.child /\ u.parent = t.parent
        /\ u.root = t.root /\ u.data = t.data
    BY DEF Linked, Trees, Painted
  <1>2. Linked(u, N)
    BY <1>1 DEF Linked
  <1>3. \A s, n : Kid(u, B, s, n) = Kid(t, B, s, n)
    BY <1>1 DEF Kid
  <1>4. Grown(u, B, N)
    BY <1>1, <1>3 DEF Grown
  <1>5. Sorted(u, B)
    BY <1>1, <1>3 DEF Sorted
  <1> QED
    BY <1>1, <1>2, <1>4, <1>5

\* A red node z with a red parent p below a black root has a grandparent.
LEMMA Family ==
  ASSUME SizesOK, NEW t, NEW N, NEW B, Linked(t, N), Grown(t, B, N),
         NEW z \in 1..N, z # t.root, t.color[t.root] = "BLACK",
         NEW p, p = t.parent[z], t.color[p] = "RED", NEW g, g = t.parent[p],
         NEW r, r = SideOf(t, p), NEW un, un = t.child[Other(r)][g]
  PROVE  /\ z \in Nodes /\ p \in 1..N /\ p \in Nodes /\ g \in 1..N /\ g \in Nodes /\ r \in Sides
         /\ t.child[r][g] = p /\ z # p /\ p # g /\ z # g /\ p # t.root /\ p # NULL
         /\ un # NULL => un \in 1..N /\ un \in Nodes /\ t.parent[un] = g /\ un # g /\ un # p /\ un # z
         /\ (t.child[r][p] = z \/ t.child[Other(r)][p] = z)
         /\ N > 0 /\ t.root \in 1..N /\ t.root \in Nodes /\ t.parent[t.root] = NULL /\ g # NULL
  <1>1. /\ t \in Trees /\ NULL \notin Nodes /\ 1..N \subseteq Nodes /\ N > 0 /\ t.root \in 1..N
        /\ t.parent[t.root] = NULL
    <2>1. t \in Trees /\ N \in 0..MaxNodes /\ NULL \notin Nodes /\ MaxNodes \in Nat
      BY DEF Linked, SizesOK
    <2>2. N > 0
      BY <2>1
    <2> QED
      BY <2>1, <2>2 DEF Linked, Nodes
  <1>2. \A n \in 1..N : n # t.root =>
           t.parent[n] \in 1..N /\ \E s \in Sides : t.child[s][t.parent[n]] = n
    BY DEF Linked
  <1>3. \A n \in Nodes, s \in Sides : t.child[s][n] # NULL =>
           n \in 1..N /\ t.child[s][n] \in 1..N /\ t.parent[t.child[s][n]] = n
    BY DEF Linked
  <1>4. p \in 1..N /\ p \in Nodes /\ p # t.root
    BY <1>1, <1>2
  <1>5. g \in 1..N /\ g \in Nodes
    BY <1>1, <1>2, <1>4
  <1>6. r \in Sides /\ t.child[r][g] = p
    BY <1>2, <1>4 DEF SideOf, Sides
  <1>7. \A n \in Nodes, s \in Sides : t.child[s][n] # NULL =>
           /\ n \notin B[t.child[s][n]] /\ t.child[s][n] \in B[t.child[s][n]]
           /\ B[t.child[s][n]] \subseteq B[n]
    <2> SUFFICES ASSUME NEW n \in Nodes, NEW s \in Sides, t.child[s][n] # NULL
                 PROVE  /\ n \notin B[t.child[s][n]] /\ t.child[s][n] \in B[t.child[s][n]]
                        /\ B[t.child[s][n]] \subseteq B[n]
      OBVIOUS
    <2>1. Kid(t, B, s, n) = B[t.child[s][n]] /\ t.child[s][n] \in Nodes
      BY <1>1, <1>3 DEF Kid
    <2> QED
      BY <2>1 DEF Grown
  <1>8. PICK q \in Sides : t.child[q][p] = z
    BY <1>2
  <1>9. p \notin B[z] /\ z \in B[z] /\ B[z] \subseteq B[p] /\ g \notin B[p] /\ p \in B[p]
    BY <1>1, <1>4, <1>5, <1>6, <1>7, <1>8
  <1>10. z # p /\ p # g /\ z # g
    BY <1>9
  <1>11. un # NULL => un \in 1..N /\ un \in Nodes /\ t.parent[un] = g /\ un # g /\ un # p /\ un # z
    <2> SUFFICES ASSUME un # NULL
                 PROVE  un \in 1..N /\ un \in Nodes /\ t.parent[un] = g /\ un # g /\ un # p /\ un # z
      OBVIOUS
    <2>1. Other(r) \in Sides
      BY <1>6, OtherSide
    <2>2. un \in 1..N /\ un \in Nodes /\ t.parent[un] = g
      BY <1>1, <1>3, <1>5, <2>1
    <2>3. un # z
      BY <1>10, <2>2
    <2>4. g \notin B[un] /\ un \in B[un]
      BY <1>5, <1>7, <2>1
    <2>5. Kid(t, B, r, g) = B[p] /\ Kid(t, B, Other(r), g) = B[un]
      BY <1>1, <1>4, <1>6 DEF Kid
    <2>6. B[p] \cap B[un] = {}
      <3>1. Kid(t, B, r, g) \cap Kid(t, B, Other(r), g) = {}
        BY <1>5, <1>6, Zenon DEF Grown
      <3> QED
        BY <2>5, <3>1
    <2> QED
      BY <1>9, <2>2, <2>3, <2>4, <2>6
  <1>12. t.child[r][p] = z \/ t.child[Other(r)][p] = z
    BY <1>6, <1>8, OtherSide
  <1> QED
    BY <1>1, <1>4, <1>5, <1>6, <1>10, <1>11, <1>12

\* What a step of fixinsertion keeps when it goes from z to q: the tree, the
\* colours of the unused nodes and, if only z breaks a rule, that only q does.
Kept(t, u, N, z, q) ==
    /\ Shape(u, N)
    /\ u.color[u.root] = "BLACK" \/ q = u.root
    /\ \A n \in Nodes : n \notin 1..N => u.color[n] = t.color[n]
    /\ OnlyAt(t, z) => OnlyAt(u, q)
    /\ OnlyAt(t, z) => \A h : Level(t, h) => \E k : Level(u, k)

\* A red uncle: the red node with a red parent is now two levels up.
LEMMA RecolourKeeps ==
  ASSUME SizesOK, NEW t, NEW N, NEW B, Linked(t, N), Grown(t, B, N), Sorted(t, B),
         NEW z \in Nodes, NEW p \in 1..N, NEW g \in 1..N, NEW un \in 1..N,
         p \in Nodes, g \in Nodes, un \in Nodes, t.root \in Nodes,
         t.parent[z] = p, t.parent[p] = g, t.parent[un] = g,
         \A s \in Sides : t.child[s][g] = p \/ t.child[s][g] = un, \E s \in Sides : t.child[s][g] = p,
         z # p, p # g, un # g, un # p, p # t.root, t.color[p] = "RED", t.color[un] = "RED",
         t.color[t.root] = "BLACK",
         NEW col \in [Nodes -> {"RED", "BLACK"}],
         col[g] = "RED", col[p] = "BLACK", col[un] = "BLACK",
         \A n \in Nodes : n # g /\ n # p /\ n # un => col[n] = t.color[n],
         NEW u, u = Painted(t, col)
  PROVE  Kept(t, u, N, z, g)
  <1>1. z \in Nodes /\ p \in Nodes /\ g \in Nodes /\ un \in Nodes
    OBVIOUS
  <1>2. t \in Trees /\ t.color \in [Nodes -> {"RED", "BLACK"}] /\ NULL \notin Nodes
    BY DEF Linked, Trees, SizesOK
  <1>3. /\ col \in [Nodes -> {"RED", "BLACK"}] /\ col[g] = "RED" /\ col[p] = "BLACK" /\ col[un] = "BLACK"
        /\ \A n \in Nodes : n # g /\ n # p /\ n # un => col[n] = t.color[n]
    OBVIOUS
  <1>4. /\ Linked(u, N) /\ Grown(u, B, N) /\ Sorted(u, B)
        /\ u.color = col /\ u.child = t.child /\ u.parent = t.parent
        /\ u.root = t.root
    BY <1>3, PaintKeeps
  <1>5. u.color[u.root] = "BLACK" \/ g = u.root
    BY <1>1, <1>3, <1>4
  <1>6. \A n \in Nodes : n \notin 1..N => u.color[n] = t.color[n]
    BY <1>1, <1>3, <1>4
  <1>7. \A n \in Nodes, s \in Sides : t.child[s][n] # NULL =>
           t.child[s][n] \in Nodes /\ t.parent[t.child[s][n]] = n
    <2>1. 1..N \subseteq Nodes
      BY DEF Linked, Nodes, SizesOK
    <2>2. \A n \in Nodes, s \in Sides : t.child[s][n] # NULL =>
             t.child[s][n] \in 1..N /\ t.parent[t.child[s][n]] = n
      BY DEF Linked
    <2> QED
      BY <2>1, <2>2
  <1>8. \A n \in Nodes, s \in Sides : (t.child[s][n] = p \/ t.child[s][n] = un) => n = g
    BY <1>2, <1>7
  <1>9. \A s \in Sides : t.child[s][g] = p \/ t.child[s][g] = un
    OBVIOUS
  <1>10. ASSUME OnlyAt(t, z) PROVE OnlyAt(u, g)
    <2> SUFFICES ASSUME NEW n \in Nodes, NEW s \in Sides, NEW c, c = t.child[s][n], c # NULL,
                        col[n] = "RED", col[c] = "RED", c # g
                 PROVE  FALSE
      BY <1>4 DEF OnlyAt
    <2>1. c \in Nodes /\ t.parent[c] = n
      BY <1>7
    <2>2. n # g
      BY <1>3, <1>9
    <2>3. n # p /\ n # un /\ c # p /\ c # un
      BY <1>3
    <2>4. t.color[n] = "RED" /\ t.color[c] = "RED"
      BY <1>3, <2>1, <2>2, <2>3
    <2>5. c = z
      BY <1>10, <2>4 DEF OnlyAt
    <2> QED
      BY <2>1, <2>3, <2>5
  <1>11. ASSUME OnlyAt(t, z), NEW h, Level(t, h)
         PROVE  \E k : Level(u, k)
    <2>1. PICK k : k = [n \in Nodes |-> IF n = p \/ n = un THEN h[n] + 1 ELSE h[n]]
      OBVIOUS
    <2>2. h \in [Nodes -> Nat] /\ \A n \in Nodes, s \in Sides : h[n] = Tall(t, h, s, n) + Weight(t, n)
      BY <1>11 DEF Level
    <2>3. /\ k \in [Nodes -> Nat] /\ k[p] = h[p] + 1 /\ k[un] = h[un] + 1
          /\ \A n \in Nodes : n # p /\ n # un => k[n] = h[n]
      BY <2>1, <2>2
    <2>4. t.color[g] = "BLACK"
      <3> SUFFICES ASSUME t.color[g] = "RED" PROVE FALSE
        BY <1>1, <1>2
      <3>0. PICK s \in Sides : t.child[s][g] = p
        OBVIOUS
      <3>1. t.child[s][g] = z
        BY <1>2, <1>11, <3>0 DEF OnlyAt
      <3> QED
        BY <3>0, <3>1
    <2>5. ASSUME NEW n \in Nodes, NEW s \in Sides PROVE k[n] = Tall(u, k, s, n) + Weight(u, n)
      <3>0. h[n] = Tall(t, h, s, n) + Weight(t, n)
        BY <2>2, <2>5
      <3>1. CASE n = g
        <4>1. Tall(u, k, s, n) = Tall(t, h, s, n) + 1
          BY <1>2, <1>4, <1>9, <2>3, <2>5, <3>1 DEF Tall
        <4>2. Weight(t, n) = 1 /\ Weight(u, n) = 0 /\ k[n] = h[n]
          BY <1>1, <1>3, <1>4, <2>3, <2>4, <3>1 DEF Weight
        <4>3. Tall(t, h, s, n) \in Nat
          BY <1>7, <2>2, <2>5 DEF Tall
        <4> QED
          BY <3>0, <4>1, <4>2, <4>3
      <3>2. CASE n # g
        <4>1. Tall(u, k, s, n) = Tall(t, h, s, n) /\ Tall(t, h, s, n) \in Nat
          <5>1. CASE t.child[s][n] = NULL
            BY <1>4, <5>1 DEF Tall
          <5>2. CASE t.child[s][n] # NULL
            <6>1. PICK e : e = t.child[s][n]
              OBVIOUS
            <6>2. e \in Nodes /\ e # p /\ e # un
              BY <1>7, <1>8, <2>5, <3>2, <5>2, <6>1
            <6>3. Tall(u, k, s, n) = k[e] /\ Tall(t, h, s, n) = h[e]
              BY <1>4, <5>2, <6>1 DEF Tall
            <6>4. k[e] = h[e] /\ h[e] \in Nat
              BY <2>2, <2>3, <6>2
            <6> QED
              BY <6>3, <6>4
          <5> QED
            BY <5>1, <5>2
        <4>2. CASE n = p \/ n = un
          <5>1. Weight(t, n) = 0 /\ Weight(u, n) = 1 /\ k[n] = h[n] + 1
            BY <1>3, <1>4, <2>3, <4>2 DEF Weight
          <5> QED
            BY <3>0, <4>1, <5>1
        <4>3. CASE n # p /\ n # un
          <5>1. Weight(t, n) = Weight(u, n) /\ k[n] = h[n]
            BY <1>3, <1>4, <2>3, <2>5, <3>2, <4>3 DEF Weight
          <5> QED
            BY <3>0, <4>1, <5>1
        <4> QED
          BY <4>2, <4>3
      <3> QED
        BY <3>1, <3>2
    <2>6. Level(u, k)
      BY <2>3, <2>5 DEF Level
    <2> QED
      BY <2>6
  <1> QED
    BY <1>1, <1>4, <1>5, <1>6, <1>10, <1>11 DEF Kept, Shape

\* A node is the child of one node, on one side.
LEMMA ChildOnce ==
  ASSUME SizesOK, NEW t, NEW N, NEW B, Linked(t, N), Grown(t, B, N),
         NEW n \in Nodes, NEW m \in Nodes, NEW s \in Sides, NEW r \in Sides,
         t.child[s][n] # NULL, t.child[s][n] = t.child[r][m]
  PROVE  n = m /\ s = r /\ t.child[s][n] \in Nodes /\ t.parent[t.child[s][n]] = n
  <1>1. PICK e : e = t.child[s][n]
    OBVIOUS
  <1>2. e \in 1..N /\ t.parent[e] = n /\ t.parent[e] = m
    <2>1. t.child[s][n] # NULL => t.child[s][n] \in 1..N /\ t.parent[t.child[s][n]] = n
      BY Zenon DEF Linked
    <2>2. t.child[r][m] # NULL => t.child[r][m] \in 1..N /\ t.parent[t.child[r][m]] = m
      BY Zenon DEF Linked
    <2> QED
      BY <1>1, <2>1, <2>2
  <1>3. e \in Nodes
    BY <1>2 DEF Linked, Nodes, SizesOK
  <1>4. ASSUME s # r PROVE FALSE
    <2>1. r = Other(s)
      BY <1>4, OtherSide
    <2>2. Kid(t, B, s, n) = B[e] /\ Kid(t, B, r, n) = B[e]
      BY <1>1, <1>2 DEF Kid
    <2>3. Kid(t, B, s, n) \cap Kid(t, B, Other(s), n) = {}
      BY Zenon DEF Grown
    <2>4. e \in B[e]
      <3>1. B[e] = {e} \cup Kid(t, B, s, e) \cup Kid(t, B, Other(s), e)
        BY <1>3, Zenon DEF Grown
      <3> QED
        BY <3>1
    <2> QED
      BY <2>1, <2>2, <2>3, <2>4
  <1> QED
    BY <1>1, <1>2, <1>3, <1>4

OneSide(t) == \A n \in Nodes, s \in Sides, q \in Sides :
                 t.child[s][n] # NULL /\ t.child[s][n] = t.child[q][n] => s = q

\* A node hangs from one side of its parent.
LEMMA ChildOneSide ==
  ASSUME SizesOK, NEW t, NEW N, NEW B, Linked(t, N), Grown(t, B, N)
  PROVE  OneSide(t)
  BY ChildOnce DEF OneSide

\* z hangs on the outside of its red parent p, and the uncle is not red; col
\* is the new colouring.
Outside(t, N, z, p, g, r, o, col) ==
    /\ z \in Nodes /\ p \in 1..N /\ g \in 1..N /\ r \in Sides /\ o \in Sides
    /\ o = Other(r) /\ r = Other(o) /\ r # o /\ \A s \in Sides : s = r \/ s = o
    /\ p \in Nodes /\ g \in Nodes /\ t.root \in Nodes /\ t.parent[t.root] = NULL
    /\ t.parent[z] = p /\ t.parent[p] = g
    /\ t.child[r][g] = p /\ t.child[r][p] = z /\ t.child[o][p] # z
    /\ t.child[o][g] # NULL => t.color[t.child[o][g]] = "BLACK"
    /\ z # p /\ p # g /\ z # g /\ t.color[p] = "RED" /\ t.color[z] = "RED"
    /\ t.color[t.root] = "BLACK"
    /\ col \in [Nodes -> {"RED", "BLACK"}] /\ col[g] = "RED" /\ col[p] = "BLACK"
    /\ \A n \in Nodes : n # g /\ n # p => col[n] = t.color[n]

\* No red uncle, and z hangs on the outside: p takes the place of g.
LEMMA OuterKept ==
  ASSUME SizesOK, NEW t, NEW N, NEW B, Linked(t, N), Grown(t, B, N), Sorted(t, B),
         NEW z, NEW p, NEW g, NEW r, NEW o, NEW col, Outside(t, N, z, p, g, r, o, col),
         NEW v, v = Painted(t, col), NEW u, u = Rotate(v, g, o)
  PROVE  Kept(t, u, N, z, z)
  <1>0. /\ z \in Nodes /\ p \in 1..N /\ g \in 1..N /\ r \in Sides /\ o \in Sides
        /\ o = Other(r) /\ r = Other(o) /\ r # o /\ \A s \in Sides : s = r \/ s = o
        /\ p \in Nodes /\ g \in Nodes /\ t.root \in Nodes /\ t.parent[t.root] = NULL
        /\ t.parent[z] = p /\ t.parent[p] = g
        /\ t.child[r][g] = p /\ t.child[r][p] = z /\ t.child[o][p] # z
        /\ t.child[o][g] # NULL => t.color[t.child[o][g]] = "BLACK"
        /\ z # p /\ p # g /\ z # g /\ t.color[p] = "RED" /\ t.color[z] = "RED"
        /\ t.color[t.root] = "BLACK"
        /\ col \in [Nodes -> {"RED", "BLACK"}] /\ col[g] = "RED" /\ col[p] = "BLACK"
        /\ \A n \in Nodes : n # g /\ n # p => col[n] = t.color[n]
    BY DEF Outside
  <1> USE <1>0
  <1>1. z \in Nodes /\ p \in Nodes /\ g \in Nodes
    OBVIOUS
  <1>2. t \in Trees /\ t.color \in [Nodes -> {"RED", "BLACK"}] /\ NULL \notin Nodes
    BY DEF Linked, Trees, SizesOK
  <1>3. /\ Linked(v, N) /\ Grown(v, B, N) /\ Sorted(v, B)
        /\ v.color = col /\ v.child = t.child /\ v.parent = t.parent /\ v.root = t.root
    BY PaintKeeps
  <1>4. v.child[Other(o)][g] = p /\ v.child[Other(o)][g] # NULL
    BY <1>2, <1>3
  <1>5. \E C : Linked(u, N) /\ Grown(u, C, N) /\ Sorted(u, C)
    <2>1. PICK C : C = Lowered(v, B, g, o)
      OBVIOUS
    <2>2. Linked(u, N)
      BY <1>3, <1>4, RotateLinked
    <2>3. Grown(u, C, N)
      BY <1>3, <1>4, <2>1, RotateGrown
    <2>4. Sorted(u, C)
      BY <1>3, <1>4, <2>1, RotateSorted
    <2> QED
      BY <2>2, <2>3, <2>4
  <1>6. PICK mid, up : mid = t.child[o][p] /\ up = t.parent[g]
    OBVIOUS
  <1>5a. Turned(v, u, g, p, mid, up, o)
    <2>1. mid = v.child[o][p] /\ up = v.parent[g] /\ p = v.child[Other(o)][g] /\ v.child[Other(o)][g] # NULL
      BY <1>3, <1>4, <1>6
    <2> QED
      BY <1>3, <2>1, RotateTurned, Zenon
  <1>7. /\ mid # g /\ mid # p /\ up # g /\ up # p
        /\ u.color = col
        /\ u.root = IF up = NULL THEN p ELSE t.root
        /\ u.child[o][p] = g /\ u.child[r][p] = z
        /\ u.child[o][g] = t.child[o][g] /\ u.child[r][g] = mid
    BY <1>3, <1>5a, <1>6 DEF Turned
  <1>8. PICK q : q = SideOf(v, g)
    OBVIOUS
  <1>9. /\ up # NULL => /\ u.child[q][up] = p /\ t.child[q][up] = g
                        /\ u.child[Other(q)][up] = t.child[Other(q)][up]
        /\ \A n \in Nodes, s \in Sides : n # g /\ n # p /\ n # up => u.child[s][n] = t.child[s][n]
    BY <1>3, <1>5a, <1>8 DEF Turned
  <1>10. q \in Sides /\ \A s \in Sides : s = q \/ s = Other(q)
    BY <1>8 DEF SideOf, Sides, Other
  <1>10a. OneSide(t)
    BY ChildOneSide
  <1>11. \A n \in Nodes, s \in Sides : n # g /\ n # p =>
            (u.child[s][n] = t.child[s][n] \/ (t.child[s][n] = g /\ u.child[s][n] = p))
    BY <1>2, <1>9, <1>10
  <1>12. u.color[u.root] = "BLACK"
    BY <1>6, <1>7
  <1>13. \A n \in Nodes : n \notin 1..N => u.color[n] = t.color[n]
    BY <1>7
  <1>14. \A n \in Nodes, s \in Sides : t.child[s][n] # NULL =>
            t.child[s][n] \in Nodes /\ t.parent[t.child[s][n]] = n
    <2>1. 1..N \subseteq Nodes
      BY DEF Linked, Nodes, SizesOK
    <2>2. \A n \in Nodes, s \in Sides : t.child[s][n] # NULL =>
             t.child[s][n] \in 1..N /\ t.parent[t.child[s][n]] = n
      BY DEF Linked
    <2> QED
      BY <2>1, <2>2
  <1>15. mid # NULL => mid \in Nodes /\ mid # z /\ t.parent[mid] = p
    BY <1>6, <1>14
  <1>16. t.child[o][g] # NULL => t.child[o][g] \in Nodes /\ t.parent[t.child[o][g]] = g /\ t.child[o][g] # p
                                 /\ t.child[o][g] # g
    <2> SUFFICES ASSUME t.child[o][g] # NULL
                 PROVE  t.child[o][g] \in Nodes /\ t.parent[t.child[o][g]] = g /\ t.child[o][g] # p
                        /\ t.child[o][g] # g
      OBVIOUS
    <2>1. t.child[o][g] \in Nodes /\ t.parent[t.child[o][g]] = g
      BY <1>14
    <2>2. t.child[o][g] # p
      BY DEF Linked
    <2>3. t.child[o][g] # g
      <3>1. Kid(t, B, o, g) = B[t.child[o][g]]
        BY DEF Kid
      <3>2. g \notin Kid(t, B, o, g) /\ g \in B[g]
        BY DEF Grown
      <3> QED
        BY <3>1, <3>2
    <2> QED
      BY <2>1, <2>2, <2>3
  <1>17. ASSUME OnlyAt(t, z) PROVE OnlyAt(u, z)
    <2> SUFFICES ASSUME NEW n \in Nodes, NEW s \in Sides, NEW c, c = u.child[s][n], c # NULL,
                        col[n] = "RED", col[c] = "RED", c # z
                 PROVE  FALSE
      BY <1>7 DEF OnlyAt
    <2>1. n # p
      OBVIOUS
    <2>2. CASE n = g
      <3>1. CASE s = r
        <4>1. c = mid /\ mid \in Nodes /\ mid # z
          BY <1>7, <1>15, <2>2, <3>1
        <4>2. t.color[mid] = "RED"
          BY <1>7, <4>1
        <4>3. t.child[o][p] = z
          BY <1>6, <1>17, <4>1, <4>2 DEF OnlyAt
        <4> QED
          BY <4>3
      <3>2. CASE s = o
        <4>1. c = t.child[o][g]
          BY <1>7, <2>2, <3>2
        <4>2. c \in Nodes /\ c # p /\ c # g /\ t.color[c] = "BLACK"
          BY <1>16, <4>1
        <4> QED
          BY <4>2
      <3> QED
        BY <3>1, <3>2
    <2>3. CASE n # g
      <3>1. c = t.child[s][n]
        BY <1>11, <2>1, <2>3
      <3>2. c \in Nodes /\ t.parent[c] = n
        BY <1>14, <3>1
      <3>3. t.color[n] = "RED"
        BY <2>1, <2>3
      <3>4. CASE c = g
        <4>1. up = n /\ up # NULL
          BY <1>2, <1>6, <3>2, <3>4
        <4>2. t.child[q][n] = g /\ u.child[q][n] = p
          BY <1>9, <4>1
        <4>3. s = q
          <5>1. t.child[s][n] # NULL /\ t.child[s][n] = t.child[q][n]
            BY <1>2, <3>1, <3>4, <4>2
          <5> QED
            BY <1>10, <1>10a, <5>1, Zenon DEF OneSide
        <4> QED
          BY <1>7, <4>2, <4>3
      <3>5. CASE c # g
        <4>1. c # p
          BY <3>2, <2>3
        <4>2. t.color[c] = "RED"
          BY <3>2, <3>5, <4>1
        <4>3. c = z
          BY <1>17, <3>1, <3>3, <4>2 DEF OnlyAt
        <4> QED
          BY <4>3
      <3> QED
        BY <3>4, <3>5
    <2> QED
      BY <2>2, <2>3
  <1>18. ASSUME OnlyAt(t, z), NEW h, Level(t, h) PROVE \E k : Level(u, k)
    <2>1. PICK k : k = [n \in Nodes |-> IF n = p THEN h[g] ELSE IF n = g THEN h[p] ELSE h[n]]
      OBVIOUS
    <2>2. h \in [Nodes -> Nat] /\ \A n \in Nodes, s \in Sides : h[n] = Tall(t, h, s, n) + Weight(t, n)
      BY <1>18 DEF Level
    <2>3. /\ k \in [Nodes -> Nat] /\ k[p] = h[g] /\ k[g] = h[p]
          /\ \A n \in Nodes : n # p /\ n # g => k[n] = h[n]
      BY <2>1, <2>2
    <2>4. t.color[g] = "BLACK"
      <3> SUFFICES ASSUME t.color[g] = "RED" PROVE FALSE
        BY <1>2
      <3>1. t.child[r][g] = z
        BY <1>2, <1>18 DEF OnlyAt
      <3> QED
        BY <3>1
    <2>5. h[g] = h[p] + 1 /\ h[p] = h[z] /\ h[p] = Tall(t, h, o, p) /\ h[p] = Tall(t, h, o, g)
      <3>1. Weight(t, g) = 1 /\ Weight(t, p) = 0
        BY <2>4 DEF Weight
      <3>2. Tall(t, h, r, g) = h[p] /\ Tall(t, h, r, p) = h[z]
        BY <1>2 DEF Tall
      <3>3. Tall(t, h, o, p) \in Nat /\ Tall(t, h, o, g) \in Nat
        BY <1>14, <2>2 DEF Tall
      <3>4. h[g] = h[p] + 1 /\ h[p] = h[z] + 0 /\ h[p] = Tall(t, h, o, p) + 0 /\ h[g] = Tall(t, h, o, g) + 1
        BY <2>2, <3>1, <3>2
      <3>5. h[g] \in Nat /\ h[p] \in Nat /\ h[z] \in Nat
        BY <2>2
      <3> QED
        BY <3>3, <3>4, <3>5
    <2>6. ASSUME NEW n \in Nodes, NEW s \in Sides PROVE k[n] = Tall(u, k, s, n) + Weight(u, n)
      <3>1. CASE n = p
        <4>1. Tall(u, k, s, n) = h[p]
          <5>1. CASE s = r
            <6>1. Tall(u, k, s, n) = k[z]
              BY <1>2, <1>7, <3>1, <5>1 DEF Tall
            <6> QED
              BY <2>3, <2>5, <6>1
          <5>2. CASE s = o
            <6>1. Tall(u, k, s, n) = k[g]
              BY <1>2, <1>7, <3>1, <5>2 DEF Tall
            <6> QED
              BY <2>3, <6>1
          <5> QED
            BY <5>1, <5>2
        <4>2. Weight(u, n) = 1
          BY <1>7, <3>1 DEF Weight
        <4> QED
          BY <2>3, <2>5, <3>1, <4>1, <4>2
      <3>2. CASE n = g
        <4>1. Tall(u, k, s, n) = h[p]
          <5>1. CASE s = r
            <6>1. Tall(u, k, s, n) = Tall(t, h, o, p)
              <7>1. u.child[s][n] = mid /\ mid = t.child[o][p]
                BY <1>6, <1>7, <3>2, <5>1
              <7>2. mid # NULL => k[mid] = h[mid]
                BY <1>7, <1>15, <2>3
              <7> QED
                BY <7>1, <7>2 DEF Tall
            <6> QED
              BY <2>5, <6>1
          <5>2. CASE s = o
            <6>1. Tall(u, k, s, n) = Tall(t, h, o, g)
              <7>1. PICK e : e = t.child[o][g]
                OBVIOUS
              <7>2. u.child[s][n] = e
                BY <1>7, <3>2, <5>2, <7>1
              <7>3. e # NULL => k[e] = h[e]
                BY <1>16, <2>3, <7>1
              <7> QED
                BY <7>1, <7>2, <7>3 DEF Tall
            <6> QED
              BY <2>5, <6>1
          <5> QED
            BY <5>1, <5>2
        <4>2. Weight(u, n) = 0
          BY <1>7, <3>2 DEF Weight
        <4>3. h[p] \in Nat
          BY <2>2
        <4> QED
          BY <2>3, <3>2, <4>1, <4>2, <4>3
      <3>3. CASE n # p /\ n # g
        <4>0. PICK e : e = t.child[s][n]
          OBVIOUS
        <4>1. Tall(u, k, s, n) = Tall(t, h, s, n)
          <5>1. CASE e = NULL
            <6>1. u.child[s][n] = NULL
              BY <1>2, <1>11, <2>6, <3>3, <4>0, <5>1, ZenonT(60)
            <6> QED
              BY <4>0, <5>1, <6>1 DEF Tall
          <5>2. CASE e = g
            <6>1. u.child[s][n] = p
              <7>1. n = up /\ up # NULL
                <8>1. t.child[s][n] = g /\ t.child[s][n] # NULL
                  BY <1>2, <4>0, <5>2
                <8>2. t.parent[g] = n
                  BY <1>14, <2>6, <8>1
                <8> QED
                  BY <1>2, <1>6, <2>6, <8>2
              <7>2. t.child[q][n] = g /\ u.child[q][n] = p
                BY <1>9, <7>1
              <7>3. s = q
                <8>1. t.child[s][n] # NULL /\ t.child[s][n] = t.child[q][n]
                  BY <1>2, <4>0, <5>2, <7>2
                <8> QED
                  BY <1>10, <1>10a, <2>6, <8>1, Zenon DEF OneSide
              <7> QED
                BY <7>2, <7>3
            <6> QED
              BY <1>2, <2>3, <4>0, <5>2, <6>1 DEF Tall
          <5>3. CASE e # NULL /\ e # g
            <6>1. u.child[s][n] = e
              BY <1>11, <2>6, <3>3, <4>0, <5>3
            <6>2. e \in Nodes /\ e # p
              <7>1. e \in Nodes /\ t.parent[e] = n
                BY <1>14, <2>6, <4>0, <5>3, Zenon
              <7> QED
                BY <3>3, <7>1
            <6> QED
              BY <2>3, <4>0, <5>3, <6>1, <6>2 DEF Tall
          <5> QED
            BY <5>1, <5>2, <5>3
        <4>2. Weight(u, n) = Weight(t, n) /\ k[n] = h[n]
          <5>1. u.color[n] = t.color[n] /\ k[n] = h[n]
            BY <1>7, <2>3, <2>6, <3>3
          <5> QED
            BY <5>1 DEF Weight
        <4>3. h[n] = Tall(t, h, s, n) + Weight(t, n)
          BY <2>2, <2>6
        <4> QED
          BY <4>1, <4>2, <4>3
      <3> QED
        BY <3>1, <3>2, <3>3
    <2>7. Level(u, k)
      BY <2>3, <2>6 DEF Level
    <2> QED
      BY <2>7
  <1> QED
    BY <1>5, <1>12, <1>13, <1>17, <1>18 DEF Kept, Shape

Turnabout(t, u, N, p) ==
    /\ Shape(u, N)
    /\ u.color[p] = "BLACK"
    /\ \A n \in Nodes : n \notin 1..N => u.color[n] = t.color[n]

\* z hangs on the inside: it goes up two levels, and p is painted black below it.
LEMMA InnerKeeps ==
  ASSUME SizesOK, NEW t, NEW N, NEW B, Linked(t, N), Grown(t, B, N), Sorted(t, B),
         NEW z \in Nodes, NEW p \in 1..N, NEW g \in 1..N, NEW r \in Sides, NEW o \in Sides,
         o = Other(r), r = Other(o), p \in Nodes, g \in Nodes,
         t.parent[p] = g, SideOf(t, p) = r, t.child[o][p] = z,
         NEW col \in [Nodes -> {"RED", "BLACK"}],
         col[p] = "BLACK", \A n \in Nodes : n # g /\ n # p => col[n] = t.color[n],
         NEW v, v = Rotate(t, p, r), NEW w, w = Painted(v, col), NEW u, u = Rotate(w, g, o)
  PROVE  Turnabout(t, u, N, p)
  <1>1. NULL \notin Nodes
    BY DEF SizesOK
  <1>2. t.child[Other(r)][p] = z /\ t.child[Other(r)][p] # NULL
    BY <1>1
  <1>3. PICK D : D = Lowered(t, B, p, r)
    OBVIOUS
  <1>4. Linked(v, N) /\ Grown(v, D, N) /\ Sorted(v, D)
    <2>1. Linked(v, N)
      BY <1>2, RotateLinked
    <2>2. Grown(v, D, N)
      BY <1>2, <1>3, RotateGrown
    <2>3. Sorted(v, D)
      BY <1>2, <1>3, RotateSorted
    <2> QED
      BY <2>1, <2>2, <2>3
  <1>5. v.child[r][g] = z /\ v.color = t.color
    <2>1. PICK mid, up : mid = t.child[r][z] /\ up = t.parent[p]
      OBVIOUS
    <2>2. Turned(t, v, p, z, mid, up, r)
      BY <1>2, <2>1, RotateTurned, Zenon
    <2> QED
      BY <1>1, <2>1, <2>2 DEF Turned
  <1>6. /\ Linked(w, N) /\ Grown(w, D, N) /\ Sorted(w, D)
        /\ w.color = col /\ w.child = v.child
    BY <1>4, PaintKeeps
  <1>7. w.child[Other(o)][g] # NULL
    BY <1>1, <1>5, <1>6
  <1>8. \E C : Linked(u, N) /\ Grown(u, C, N) /\ Sorted(u, C)
    <2>1. PICK C : C = Lowered(w, D, g, o)
      OBVIOUS
    <2>2. Linked(u, N)
      BY <1>6, <1>7, RotateLinked
    <2>3. Grown(u, C, N)
      BY <1>6, <1>7, <2>1, RotateGrown
    <2>4. Sorted(u, C)
      BY <1>6, <1>7, <2>1, RotateSorted
    <2> QED
      BY <2>2, <2>3, <2>4
  <1>9. u.color = col
    <2>1. PICK y, mid, up : y = w.child[Other(o)][g] /\ mid = w.child[o][y] /\ up = w.parent[g]
      OBVIOUS
    <2>2. Turned(w, u, g, y, mid, up, o)
      BY <1>6, <1>7, <2>1, RotateTurned, Zenon
    <2> QED
      BY <1>6, <2>2 DEF Turned
  <1>10. \A n \in Nodes : n \notin 1..N => u.color[n] = t.color[n]
    BY <1>9
  <1> QED
    BY <1>8, <1>9, <1>10 DEF Turnabout, Shape

\* The new node is red and has no children, so only it can break a rule.
LEMMA InsertColours ==
  ASSUME SizesOK, NEW t, NEW N, Linked(t, N), N < MaxNodes, NEW d \in Int,
         NEW n, n = N + 1, NEW w, (IF N = 0 THEN w = NULL ELSE w \in 1..N),
         N > 0 => t.child[SideFor(t, w, d)][w] = NULL,
         NEW u, u = Attached(t, n, w, d), t.color[n] = "RED", OnlyAt(t, NULL)
  PROVE  OnlyAt(u, n) /\ \A h : Level(t, h) => Level(u, h)
  <1>0. PICK r : r = SideFor(t, w, d)
    OBVIOUS
  <1>1. n \in Nodes /\ n \notin 1..N /\ 1..N \subseteq Nodes /\ r \in Sides /\ u.color = t.color
    BY <1>0, AttachedLinks
  <1>2. /\ N > 0 => w \in Nodes /\ w # n /\ w # NULL /\ u.child[r][w] = n
        /\ \A a \in Nodes, s \in Sides : ~(a = w /\ s = r) => u.child[s][a] = t.child[s][a]
        /\ \A s \in Sides : t.child[s][n] = NULL
    BY <1>0, AttachedLinks
  <1>4. N > 0 => t.child[r][w] = NULL
    BY <1>0
  <1>5. N \in Nat /\ n # NULL
    BY <1>1 DEF Linked, SizesOK
  <1>6. \A a \in Nodes, s \in Sides :
           u.child[s][a] = t.child[s][a] \/ (N > 0 /\ a = w /\ s = r /\ t.child[s][a] = NULL /\ u.child[s][a] = n)
    <2> SUFFICES ASSUME NEW a \in Nodes, NEW s \in Sides, a = w, s = r
                 PROVE  N > 0 /\ t.child[s][a] = NULL /\ u.child[s][a] = n
      BY <1>2
    <2>1. N > 0
      BY <1>5 DEF SizesOK
    <2> QED
      BY <1>2, <1>4, <2>1
  <1>7. OnlyAt(u, n)
    <2> SUFFICES ASSUME NEW a \in Nodes, NEW s \in Sides, NEW c, c = u.child[s][a], c # NULL, c # n,
                        t.color[a] = "RED", t.color[c] = "RED"
                 PROVE  FALSE
      BY <1>1 DEF OnlyAt
    <2>1. c = t.child[s][a]
      BY <1>6
    <2> QED
      BY <2>1 DEF OnlyAt
  <1>8. ASSUME NEW h, Level(t, h) PROVE Level(u, h)
    <2>1. h \in [Nodes -> Nat] /\ \A a \in Nodes, s \in Sides : h[a] = Tall(t, h, s, a) + Weight(t, a)
      BY <1>8 DEF Level
    <2>2. h[n] = 0
      <3>1. Tall(t, h, r, n) = 0 /\ Weight(t, n) = 0
        BY <1>1, <1>2 DEF Tall, Weight
      <3>2. h[n] = 0 + 0
        BY <1>1, <2>1, <3>1
      <3> QED
        BY <3>2
    <2>3. ASSUME NEW a \in Nodes, NEW s \in Sides PROVE Tall(u, h, s, a) = Tall(t, h, s, a)
      <3>1. CASE u.child[s][a] = t.child[s][a]
        BY <3>1 DEF Tall
      <3>2. CASE t.child[s][a] = NULL /\ u.child[s][a] = n
        BY <1>5, <2>2, <3>2 DEF Tall
      <3> QED
        BY <1>6, <2>3, <3>1, <3>2
    <2>4. \A a : Weight(u, a) = Weight(t, a)
      BY <1>1 DEF Weight
    <2> QED
      BY <2>1, <2>3, <2>4 DEF Level
  <1> QED
    BY <1>7, <1>8

\* The root is painted black.
LEMMA DoneColours ==
  ASSUME SizesOK, NEW t, NEW N, NEW B, Linked(t, N), Grown(t, B, N), Sorted(t, B),
         NEW z \in Nodes, NEW b, b = t.root, b \in 1..N, b \in Nodes,
         z = b \/ t.color[z] # "RED" \/ t.color[t.parent[z]] # "RED",
         NEW col \in [Nodes -> {"RED", "BLACK"}], col[b] = "BLACK",
         \A n \in Nodes : n # b => col[n] = t.color[n],
         NEW u, u = Painted(t, col)
  PROVE  Kept(t, u, N, z, NULL)
  <1>1. NULL \notin Nodes /\ t \in Trees /\ t.color \in [Nodes -> {"RED", "BLACK"}] /\ 1..N \subseteq Nodes
    BY DEF SizesOK, Linked, Trees, Nodes
  <1>2. /\ Linked(u, N) /\ Grown(u, B, N) /\ Sorted(u, B)
        /\ u.color = col /\ u.child = t.child /\ u.root = t.root
    BY PaintKeeps
  <1>3. \A n \in Nodes, s \in Sides : t.child[s][n] # NULL =>
            t.child[s][n] \in Nodes /\ t.parent[t.child[s][n]] = n
    <2>1. \A n \in Nodes, s \in Sides : t.child[s][n] # NULL =>
             t.child[s][n] \in 1..N /\ t.parent[t.child[s][n]] = n
      BY DEF Linked
    <2> QED
      BY <1>1, <2>1
  <1>4. t.parent[b] = NULL
    BY DEF Linked, SizesOK
  <1>5. \A n \in Nodes, s \in Sides : t.child[s][n] # b
    BY <1>1, <1>3, <1>4
  <1>6. ASSUME OnlyAt(t, z) PROVE OnlyAt(u, NULL)
    <2> SUFFICES ASSUME NEW n \in Nodes, NEW s \in Sides, NEW c, c = t.child[s][n], c # NULL,
                        col[n] = "RED", col[c] = "RED"
                 PROVE  FALSE
      BY <1>2 DEF OnlyAt
    <2>1. c \in Nodes /\ t.parent[c] = n /\ c # b /\ n # b
      BY <1>3, <1>5
    <2>2. t.color[n] = "RED" /\ t.color[c] = "RED"
      BY <2>1
    <2>3. c = z
      BY <1>6, <2>2 DEF OnlyAt
    <2> QED
      BY <2>1, <2>2, <2>3
  <1>7. ASSUME NEW h, Level(t, h) PROVE \E k : Level(u, k)
    <2>1. h \in [Nodes -> Nat] /\ \A a \in Nodes, s \in Sides : h[a] = Tall(t, h, s, a) + Weight(t, a)
      BY <1>7 DEF Level
    <2>2. PICK k : k = [n \in Nodes |-> IF n = b /\ t.color[b] = "RED" THEN h[n] + 1 ELSE h[n]]
      OBVIOUS
    <2>3. /\ k \in [Nodes -> Nat] /\ \A n \in Nodes : n # b => k[n] = h[n]
          /\ k[b] = IF t.color[b] = "RED" THEN h[b] + 1 ELSE h[b]
      BY <2>1, <2>2
    <2>4. ASSUME NEW n \in Nodes, NEW s \in Sides PROVE k[n] = Tall(u, k, s, n) + Weight(u, n)
      <3>1. Tall(u, k, s, n) = Tall(t, h, s, n) /\ Tall(t, h, s, n) \in Nat
        <4>1. PICK c : c = t.child[s][n]
          OBVIOUS
        <4>2. c # NULL => c \in Nodes /\ c # b
          BY <1>3, <1>5, <2>4, <4>1
        <4>3. c # NULL => k[c] = h[c] /\ h[c] \in Nat
          BY <2>1, <2>3, <4>2
        <4> QED
          BY <1>2, <4>1, <4>3 DEF Tall
      <3>2. h[n] = Tall(t, h, s, n) + Weight(t, n)
        BY <2>1, <2>4
      <3>3. CASE n = b
        <4>1. Weight(u, n) = 1 /\ Weight(t, n) = IF t.color[b] = "RED" THEN 0 ELSE 1
          BY <1>1, <1>2, <3>3 DEF Weight
        <4> QED
          BY <2>3, <3>1, <3>2, <3>3, <4>1
      <3>4. CASE n # b
        <4>1. Weight(u, n) = Weight(t, n) /\ k[n] = h[n]
          BY <1>2, <2>3, <2>4, <3>4 DEF Weight
        <4> QED
          BY <3>1, <3>2, <4>1
      <3> QED
        BY <3>3, <3>4
    <2>5. Level(u, k)
      BY <2>3, <2>4 DEF Level
    <2> QED
      BY <2>5
  <1> QED
    BY <1>2, <1>6, <1>7 DEF Kept, Shape

-----------------------------------------------------------------------------
\* Below is the recursive definition of the subtrees.
LEMMA BelowGrown ==
  ASSUME SizesOK, NEW N, NEW B, Linked(tree, N), Grown(tree, B, N)
  PROVE  \A n \in Nodes : Below[n] = B[n]
  <1>1. Linked(tree, N) /\ Grown(tree, B, N)
    OBVIOUS
  <1> DEFINE Kids(n) == {tree.child[s][n] : s \in Sides} \ {NULL}
             R == CHOOSE f : f = [n \in Nodes |-> {n} \cup UNION {f[c] : c \in Kids(n)}]
  <1>2. Below = R
    BY Zenon DEF Below, Children
  <1>3. ASSUME NEW F, NEW n \in Nodes
        PROVE  UNION {F[c] : c \in Kids(n)} = Kid(tree, F, "left", n) \cup Kid(tree, F, "right", n)
    <2>1. Kids(n) = {tree.child["left"][n], tree.child["right"][n]} \ {NULL}
      BY DEF Sides
    <2> QED
      BY <2>1 DEF Kid
  <1>4. \A n \in Nodes : B[n] = {n} \cup UNION {B[c] : c \in Kids(n)}
    <2> SUFFICES ASSUME NEW n \in Nodes PROVE B[n] = {n} \cup UNION {B[c] : c \in Kids(n)}
      OBVIOUS
    <2>1. B[n] = {n} \cup Kid(tree, B, "left", n) \cup Kid(tree, B, Other("left"), n)
      BY <1>1 DEF Grown, Sides
    <2>2. Other("left") = "right"
      BY DEF Other
    <2> QED
      BY <1>3, <2>1, <2>2
  <1>5. B = [n \in Nodes |-> {n} \cup UNION {B[c] : c \in Kids(n)}]
    <2>1. B = [n \in Nodes |-> B[n]]
      BY <1>1 DEF Grown
    <2> QED
      BY <1>4, <2>1, Zenon
  <1>6. R = [n \in Nodes |-> {n} \cup UNION {R[c] : c \in Kids(n)}]
    BY <1>5, Zenon
  <1> HIDE DEF R
  <1>7. \A n \in Nodes : R[n] = {n} \cup UNION {R[c] : c \in Kids(n)}
    BY <1>6, Zenon
  <1> DEFINE Z == {n \in Nodes : R[n] = B[n]}
  <1>8. ASSUME NEW n \in Nodes, \A s \in Sides : tree.child[s][n] # NULL => tree.child[s][n] \in Z
        PROVE  n \in Z
    <2>1. \A s \in Sides : Kid(tree, R, s, n) = Kid(tree, B, s, n)
      BY <1>8 DEF Kid
    <2>2. Kid(tree, R, "left", n) = Kid(tree, B, "left", n) /\ Kid(tree, R, "right", n) = Kid(tree, B, "right", n)
      BY <2>1 DEF Sides
    <2>3. UNION {R[c] : c \in Kids(n)} = Kid(tree, R, "left", n) \cup Kid(tree, R, "right", n)
      BY <1>3, <1>8
    <2>4. UNION {B[c] : c \in Kids(n)} = Kid(tree, B, "left", n) \cup Kid(tree, B, "right", n)
      BY <1>3, <1>8
    <2>5. R[n] = B[n]
      BY <1>4, <1>7, <1>8, <2>2, <2>3, <2>4
    <2> QED
      BY <1>8, <2>5
  <1>9. Nodes \subseteq Z
    <2> HIDE DEF Z
    <2> QED
      BY <1>1, <1>8, FromTheLeaves
  <1> QED
    BY <1>2, <1>9

\* BlackHeights is the recursive definition of h.
LEMMA HeightsLevel ==
  ASSUME SizesOK, NEW N, NEW B, Linked(tree, N), Grown(tree, B, N), NEW h, Level(tree, h)
  PROVE  \A n \in Nodes : BlackHeights[n] = {h[n]}
  <1>1. Linked(tree, N) /\ Grown(tree, B, N) /\ Level(tree, h)
    OBVIOUS
  <1> DEFINE W(n) == IF tree.color[n] = "BLACK" THEN 1 ELSE 0
             Under(f, n) == UNION {IF c = NULL THEN {0} ELSE f[c] : c \in {tree.child[s][n] : s \in Sides}}
             R == CHOOSE f : f = [n \in Nodes |-> {k + W(n) : k \in Under(f, n)}]
             H == [n \in Nodes |-> {h[n]}]
  <1>2. BlackHeights = R
    BY Zenon DEF BlackHeights
  <1>3. ASSUME NEW F, NEW n \in Nodes, \A s \in Sides : tree.child[s][n] # NULL => F[tree.child[s][n]] = {h[tree.child[s][n]]}
        PROVE  {k + W(n) : k \in Under(F, n)} = {h[n]}
    <2>1. \A s \in Sides : (IF tree.child[s][n] = NULL THEN {0} ELSE F[tree.child[s][n]]) = {Tall(tree, h, s, n)}
      BY <1>3 DEF Tall
    <2>2. \A s \in Sides : h[n] = Tall(tree, h, s, n) + W(n) /\ Tall(tree, h, s, n) \in Nat /\ h[n] \in Nat
      <3>1. \A c \in Nodes : h[c] \in Nat
        BY <1>1 DEF Level
      <3>2. \A s \in Sides : tree.child[s][n] # NULL => tree.child[s][n] \in Nodes
        <4>1. \A s \in Sides : tree.child[s][n] # NULL => tree.child[s][n] \in 1..N
          BY <1>1, <1>3 DEF Linked
        <4> QED
          BY <1>1, <4>1 DEF Linked, Nodes, SizesOK
      <3>3. \A s \in Sides : Tall(tree, h, s, n) \in Nat
        BY <3>1, <3>2 DEF Tall
      <3>4. \A s \in Sides : h[n] = Tall(tree, h, s, n) + W(n)
        BY <1>1, <1>3 DEF Level, Weight
      <3> QED
        BY <1>3, <3>1, <3>3, <3>4
    <2>3. PICK v : v = Tall(tree, h, "left", n)
      OBVIOUS
    <2>4. W(n) \in Nat
      OBVIOUS
    <2>5. \A s \in Sides : Tall(tree, h, s, n) = v
      <3>1. "left" \in Sides
        BY DEF Sides
      <3> HIDE DEF W
      <3> QED
        BY <2>2, <2>3, <2>4, <3>1
    <2>6. Under(F, n) = {v}
      <3>1. Under(F, n) = UNION {IF tree.child[s][n] = NULL THEN {0} ELSE F[tree.child[s][n]] : s \in Sides}
        BY DEF Sides
      <3>2. Under(F, n) = UNION {{v} : s \in Sides}
        BY <2>1, <2>5, <3>1
      <3> QED
        BY <3>2 DEF Sides
    <2>7. h[n] = v + W(n)
      BY <2>2, <2>3 DEF Sides
    <2> HIDE DEF W, Under
    <2> QED
      BY <2>6, <2>7
  <1>4. \A n \in Nodes, s \in Sides : tree.child[s][n] # NULL => tree.child[s][n] \in Nodes
    <2>1. \A n \in Nodes, s \in Sides : tree.child[s][n] # NULL => tree.child[s][n] \in 1..N
      BY <1>1 DEF Linked
    <2> QED
      BY <1>1, <2>1 DEF Linked, Nodes, SizesOK
  <1>5. \A n \in Nodes : H[n] = {h[n]}
    OBVIOUS
  <1>6. \A n \in Nodes : {k + W(n) : k \in Under(H, n)} = {h[n]}
    <2> HIDE DEF W, Under, H
    <2> QED
      BY <1>3, <1>4, <1>5
  <1>7. H = [n \in Nodes |-> {k + W(n) : k \in Under(H, n)}]
    <2> HIDE DEF W, Under
    <2> QED
      BY <1>6
  <1>8. R = [n \in Nodes |-> {k + W(n) : k \in Under(R, n)}]
    <2> HIDE DEF W, Under, H
    <2> QED
      BY <1>7, Zenon
  <1> DEFINE Z == {n \in Nodes : R[n] = {h[n]}}
  <1>9. ASSUME NEW n \in Nodes, \A s \in Sides : tree.child[s][n] # NULL => tree.child[s][n] \in Z
        PROVE  n \in Z
    <2> HIDE DEF W, Under, H, R
    <2>1. R[n] = {k + W(n) : k \in Under(R, n)}
      BY <1>8, <1>9, Zenon
    <2>2. \A s \in Sides : tree.child[s][n] # NULL => R[tree.child[s][n]] = {h[tree.child[s][n]]}
      BY <1>9
    <2> QED
      BY <1>3, <1>9, <2>1, <2>2
  <1>10. Nodes \subseteq Z
    <2> HIDE DEF Z
    <2> QED
      BY <1>1, <1>9, FromTheLeaves
  <1> HIDE DEF R
  <1> QED
    BY <1>2, <1>10

-----------------------------------------------------------------------------
\* The inductive invariant, of the state as a whole: one sorted tree of the
\* first N nodes, the others unused; a red node that may have a red parent
\* is below a black root; and the colours, while no inner node was rotated.
Rooted(t, N, z) ==
    /\ \A n \in Nodes : n \notin 1..N => t.color[n] = "RED"
    /\ z = NULL /\ N > 0 => t.color[t.root] = "BLACK"
    /\ z # NULL => z \in 1..N /\ (t.color[t.root] = "BLACK" \/ z = t.root \/ t.color[z] = "BLACK")
Coloured(t, z) == OnlyAt(t, z) /\ \E h : Level(t, h)

TreeInv ==
    /\ Shape(tree, count)
    /\ Rooted(tree, count, newnode)
    /\ ~crooked => Coloured(tree, newnode)
    /\ rotationcount \in Nat
    /\ crooked \in BOOLEAN

\* The empty tree satisfies the invariant.
LEMMA TreeInvInit == ASSUME SizesOK, Init PROVE TreeInv
  <1>1. PICK B : B = [n \in Nodes |-> {n}]
    OBVIOUS
  <1>2. PICK t : t = tree
    OBVIOUS
  <1>3. NULL \notin Nodes /\ MaxNodes \in Nat /\ 1..0 = {} /\ count = 0
    BY DEF SizesOK, Init
  <1>4. t = [root   |-> NULL,
             data   |-> [n \in Nodes |-> 0],
             color  |-> [n \in Nodes |-> "RED"],
             parent |-> [n \in Nodes |-> NULL],
             child  |-> [s \in Sides |-> [n \in Nodes |-> NULL]]]
    BY <1>2 DEF Init
  <1>5. /\ t \in Trees /\ t.root = NULL
        /\ \A n \in Nodes, s \in Sides : t.child[s][n] = NULL
        /\ \A n \in Nodes : t.color[n] = "RED"
    BY <1>4 DEF Trees, Links
  <1>6. Linked(t, 0)
    BY <1>3, <1>5 DEF Linked
  <1>7. \A n \in Nodes, s \in Sides : Kid(t, B, s, n) = {} /\ Kid(t, B, Other(s), n) = {}
    BY <1>5, OtherSide DEF Kid
  <1>8. Grown(t, B, 0)
    BY <1>1, <1>3, <1>7 DEF Grown
  <1>9. Sorted(t, B)
    BY <1>7 DEF Sorted
  <1>10. OnlyAt(t, NULL)
    BY <1>5 DEF OnlyAt
  <1>11. Level(t, [n \in Nodes |-> 0])
    BY <1>5 DEF Level, Tall, Weight
  <1>12. Shape(tree, count)
    BY <1>2, <1>3, <1>6, <1>8, <1>9 DEF Shape
  <1>13. Coloured(tree, newnode)
    BY <1>2, <1>10, <1>11 DEF Coloured, Init
  <1>14. Rooted(tree, count, newnode)
    BY <1>2, <1>3, <1>5 DEF Rooted, Init
  <1>15. rotationcount \in Nat /\ crooked \in BOOLEAN
    BY DEF Init
  <1> QED
    BY <1>12, <1>13, <1>14, <1>15 DEF TreeInv

\* createnode and insertion keep the invariant.
LEMMA InsertStep ==
  ASSUME SizesOK, TreeInv, NEW data \in Values, Insert(data)
  PROVE  TreeInv'
  <1>0. PICK t, N, w, n, u : t = tree /\ N = count /\ w = Leaf(tree, data) /\ n = count + 1 /\ u = tree'
    OBVIOUS
  <1>1. /\ newnode = NULL /\ N < MaxNodes /\ count' = n /\ newnode' = n /\ w = Leaf(t, data) /\ n = N + 1
        /\ rotationcount' = rotationcount /\ crooked' = crooked /\ data \in Int
    BY <1>0 DEF Insert, SizesOK
  <1>2. u = Attached(t, n, w, data)
    <2>1. tree' = [tree EXCEPT
                      !.root = IF w = NULL THEN n ELSE @,
                      !.data[n] = data,
                      !.parent[n] = w,
                      !.child = [s \in Sides |->
                         IF w # NULL /\ s = SideFor(tree, w, data)
                           THEN [@[s] EXCEPT ![w] = n] ELSE @[s]]]
      BY <1>0, Zenon DEF Insert
    <2> QED
      BY <1>0, <2>1, Zenon DEF Attached
  <1>3. PICK B : Linked(t, N) /\ Grown(t, B, N) /\ Sorted(t, B)
    BY <1>0 DEF TreeInv, Shape
  <1>5. Shape(u, n)
    BY <1>1, <1>2, <1>3, InsertKeeps, Zenon
  <1>6. N \in Nat /\ (t.root = NULL <=> N = 0)
    BY <1>3 DEF Linked, SizesOK
  <1>7. (IF N = 0 THEN w = NULL ELSE w \in 1..N) /\ (N > 0 => t.child[SideFor(t, w, data)][w] = NULL)
    <2>1. CASE N = 0
      <3>1. w = NULL
        BY <1>1, <1>6, <2>1, Zenon DEF Leaf
      <3> QED
        BY <2>1, <3>1
    <2>2. CASE N > 0
      <3>1. w \in 1..N /\ t.child[SideFor(t, w, data)][w] = NULL
        BY <1>1, <1>3, <2>2, LeafFound
      <3> QED
        BY <2>2, <3>1
    <2> QED
      BY <1>6, <2>1, <2>2
  <1>8. /\ n \in Nodes /\ n \notin 1..N /\ 1..n = 1..N \cup {n} /\ u.color = t.color
        /\ u.root = IF N = 0 THEN n ELSE t.root
    <2>1. PICK r : r = SideFor(t, w, data)
      OBVIOUS
    <2> QED
      BY <1>1, <1>2, <1>3, <1>7, <2>1, AttachedLinks
  <1>9. Rooted(t, N, NULL)
    BY <1>0, <1>1 DEF TreeInv
  <1>10. Rooted(u, n, n)
    BY <1>6, <1>8, <1>9 DEF Rooted, SizesOK
  <1>11. ~crooked => Coloured(u, n)
    <2> SUFFICES ASSUME ~crooked PROVE Coloured(u, n)
      OBVIOUS
    <2>1. Coloured(t, NULL)
      BY <1>0, <1>1 DEF TreeInv
    <2>2. t.color[n] = "RED"
      BY <1>8, <1>9 DEF Rooted
    <2>3. OnlyAt(u, n) /\ \A h : Level(t, h) => Level(u, h)
      BY <1>1, <1>2, <1>3, <1>7, <2>1, <2>2, InsertColours DEF Coloured
    <2> QED
      BY <2>1, <2>3 DEF Coloured
  <1> QED
    BY <1>0, <1>1, <1>5, <1>10, <1>11 DEF TreeInv

\* An iteration with a red uncle keeps it.
LEMMA RecolourStep ==
  ASSUME SizesOK, TreeInv, FixRecolour
  PROVE  TreeInv'
  <1>0. PICK t, N, z, p, g, r, un, u :
           /\ t = tree /\ N = count /\ z = newnode /\ p = t.parent[z] /\ g = t.parent[p]
           /\ r = SideOf(t, p) /\ un = t.child[Other(r)][g] /\ u = tree'
    OBVIOUS
  <1>1. /\ z # NULL /\ z # t.root /\ t.color[z] = "RED" /\ t.color[p] = "RED"
        /\ un # NULL /\ t.color[un] = "RED" /\ newnode' = g
        /\ count' = N /\ rotationcount' = rotationcount /\ crooked' = crooked
    BY <1>0 DEF FixRecolour, Violated, UncleIsRed, parentnode, grandparnt, unclenode
  <1>2. PICK col : col = [t.color EXCEPT ![g] = "RED", ![p] = "BLACK", ![un] = "BLACK"]
    OBVIOUS
  <1>3. u = Painted(t, col)
    <2>1. u = [tree EXCEPT !.color = Recoloured]
      BY <1>0 DEF FixRecolour
    <2>2. Recoloured = col
      BY <1>0, <1>2, Zenon DEF Recoloured, parentnode, grandparnt, unclenode
    <2> QED
      BY <1>0, <2>1, <2>2, Zenon DEF Painted
  <1>4. PICK B : Linked(t, N) /\ Grown(t, B, N) /\ Sorted(t, B)
    BY <1>0 DEF TreeInv, Shape
  <1>5. Rooted(t, N, z)
    BY <1>0 DEF TreeInv
  <1>6. z \in 1..N /\ t.color[t.root] = "BLACK"
    BY <1>1, <1>5 DEF Rooted
  <1>7. /\ z \in Nodes /\ p \in 1..N /\ p \in Nodes /\ g \in 1..N /\ g \in Nodes /\ r \in Sides
        /\ t.child[r][g] = p /\ z # p /\ p # g /\ p # t.root
        /\ un # NULL => un \in 1..N /\ un \in Nodes /\ t.parent[un] = g /\ un # g /\ un # p
        /\ t.root \in Nodes
    <2>1. /\ p = t.parent[z] /\ g = t.parent[p] /\ r = SideOf(t, p) /\ un = t.child[Other(r)][g]
          /\ z # t.root /\ t.color[p] = "RED"
      BY <1>0, <1>1
    <2>2. z \in Nodes /\ p \in 1..N /\ p \in Nodes /\ g \in 1..N /\ g \in Nodes /\ r \in Sides
      BY <1>4, <1>6, <2>1, Family
    <2>5. t.child[r][g] = p /\ z # p /\ p # g /\ p # t.root
      BY <1>4, <1>6, <2>1, Family
    <2>3. un # NULL => un \in 1..N /\ un \in Nodes /\ t.parent[un] = g /\ un # g /\ un # p
      BY <1>4, <1>6, <2>1, Family
    <2>4. t.root \in Nodes
      BY <1>4, <1>6, <2>1, Family
    <2> QED
      BY <2>2, <2>3, <2>4, <2>5
  <1>8. t.color \in [Nodes -> {"RED", "BLACK"}]
    BY <1>4 DEF Linked, Trees
  <1>9. /\ col \in [Nodes -> {"RED", "BLACK"}] /\ col[g] = "RED" /\ col[p] = "BLACK" /\ col[un] = "BLACK"
        /\ \A n \in Nodes : n # g /\ n # p /\ n # un => col[n] = t.color[n]
    <2>1. PICK c : c = t.color
      OBVIOUS
    <2>2. col = [c EXCEPT ![g] = "RED", ![p] = "BLACK", ![un] = "BLACK"] /\ c \in [Nodes -> {"RED", "BLACK"}]
      BY <1>2, <1>8, <2>1
    <2> QED
      BY <1>1, <1>7, <2>1, <2>2
  <1>10. /\ \A s \in Sides : t.child[s][g] = p \/ t.child[s][g] = un
         /\ \E s \in Sides : t.child[s][g] = p
    BY <1>0, <1>7, OtherSide
  <1>11. t.parent[z] = p /\ t.parent[p] = g /\ t.parent[un] = g /\ un \in 1..N /\ un \in Nodes /\ un # g /\ un # p
    BY <1>0, <1>1, <1>7
  <1>12. Kept(t, u, N, z, g)
    BY <1>1, <1>3, <1>4, <1>6, <1>7, <1>9, <1>10, <1>11, RecolourKeeps, Zenon
  <1>13. Shape(u, N)
    BY <1>12 DEF Kept
  <1>14. Rooted(u, N, g)
    BY <1>5, <1>7, <1>12 DEF Rooted, SizesOK, Kept
  <1>15. ~crooked => Coloured(u, g)
    BY <1>0, <1>12 DEF TreeInv, Coloured, Kept
  <1> QED
    BY <1>0, <1>1, <1>13, <1>14, <1>15 DEF TreeInv

\* The exit of the loop keeps it.
LEMMA DoneStep ==
  ASSUME SizesOK, TreeInv, FixDone
  PROVE  TreeInv'
  <1>0. PICK t, N, z, b, u : t = tree /\ N = count /\ z = newnode /\ b = t.root /\ u = tree'
    OBVIOUS
  <1>1. /\ z # NULL /\ (z = b \/ t.color[z] # "RED" \/ t.color[t.parent[z]] # "RED")
        /\ newnode' = NULL /\ count' = N /\ rotationcount' = rotationcount /\ crooked' = crooked
    BY <1>0 DEF FixDone, Violated
  <1>2. PICK col : col = [t.color EXCEPT ![b] = "BLACK"]
    OBVIOUS
  <1>3. PICK B : Linked(t, N) /\ Grown(t, B, N) /\ Sorted(t, B)
    BY <1>0 DEF TreeInv, Shape
  <1>4. Rooted(t, N, z)
    BY <1>0 DEF TreeInv
  <1>5. z \in 1..N /\ N \in 0..MaxNodes /\ N > 0 /\ 1..N \subseteq Nodes
    <2>1. z \in 1..N
      BY <1>1, <1>4 DEF Rooted
    <2>2. N \in 0..MaxNodes
      BY <1>3 DEF Linked
    <2> QED
      BY <2>1, <2>2 DEF Nodes, SizesOK
  <1>6. z \in Nodes /\ b \in 1..N /\ b \in Nodes /\ t.color \in [Nodes -> {"RED", "BLACK"}] /\ t \in Trees
    BY <1>0, <1>3, <1>5 DEF Linked, Trees
  <1>7. u = Painted(t, col)
    <2>1. u = [t EXCEPT !.color[b] = "BLACK"]
      BY <1>0 DEF FixDone
    <2> QED
      BY <1>2, <1>6, <2>1 DEF Painted, Trees
  <1>8. col \in [Nodes -> {"RED", "BLACK"}] /\ col[b] = "BLACK" /\ \A n \in Nodes : n # b => col[n] = t.color[n]
    BY <1>2, <1>6
  <1>9. Kept(t, u, N, z, NULL)
    <2>1. b = t.root
      BY <1>0
    <2>2. z = b \/ t.color[z] # "RED" \/ t.color[t.parent[z]] # "RED"
      BY <1>1
    <2> QED
      BY <1>3, <1>6, <1>7, <1>8, <2>1, <2>2, DoneColours
  <1>10. Shape(u, N)
    BY <1>9 DEF Kept
  <1>11. Rooted(u, N, NULL)
    <2>1. u.root # NULL
      BY <1>5, <1>10 DEF Shape, Linked, SizesOK
    <2> QED
      BY <1>4, <1>9, <2>1 DEF Rooted, Kept
  <1>12. ~crooked => Coloured(u, NULL)
    BY <1>0, <1>9 DEF TreeInv, Coloured, Kept
  <1> QED
    BY <1>0, <1>1, <1>10, <1>11, <1>12 DEF TreeInv

\* An iteration with one or two rotations keeps it.
LEMMA RotateStep ==
  ASSUME SizesOK, TreeInv, FixRotate
  PROVE  TreeInv'
  <1>0. PICK t, N, z, p, g, r, o, un, u :
           /\ t = tree /\ N = count /\ z = newnode /\ p = t.parent[z] /\ g = t.parent[p]
           /\ r = SideOf(t, p) /\ o = Other(r) /\ un = t.child[Other(r)][g] /\ u = tree'
    OBVIOUS
  <1>1. /\ z # NULL /\ z # t.root /\ t.color[z] = "RED" /\ t.color[p] = "RED"
        /\ ~(un # NULL /\ t.color[un] = "RED")
    BY <1>0 DEF FixRotate, Violated, UncleIsRed, parentnode, grandparnt, unclenode
  <1>2. PICK inner, v : inner = (z = t.child[o][p]) /\ v = IF inner THEN Rotate(t, p, r) ELSE t
    OBVIOUS
  <1>3. /\ u = Rotate([v EXCEPT !.color = [@ EXCEPT ![p] = "BLACK", ![g] = "RED"]], g, o)
        /\ newnode' = IF inner THEN p ELSE z
        /\ rotationcount' = rotationcount + (IF inner THEN 2 ELSE 1)
        /\ crooked' = (crooked \/ inner)
        /\ count' = N
    BY <1>0, <1>2, Zenon DEF FixRotate, parentnode, grandparnt
  <1>4. PICK B : Linked(t, N) /\ Grown(t, B, N) /\ Sorted(t, B)
    BY <1>0 DEF TreeInv, Shape
  <1>5. Rooted(t, N, z)
    BY <1>0 DEF TreeInv
  <1>6. z \in 1..N /\ t.color[t.root] = "BLACK"
    BY <1>1, <1>5 DEF Rooted
  <1>7. /\ z \in Nodes /\ p \in 1..N /\ p \in Nodes /\ g \in 1..N /\ g \in Nodes /\ r \in Sides
        /\ t.child[r][g] = p /\ z # p /\ p # g /\ z # g
        /\ un # NULL => un \in Nodes
        /\ (t.child[r][p] = z \/ t.child[Other(r)][p] = z)
        /\ t.root \in Nodes /\ t.parent[t.root] = NULL
    <2>1. p = t.parent[z] /\ g = t.parent[p] /\ r = SideOf(t, p) /\ un = t.child[Other(r)][g]
      BY <1>0
    <2>2. z \in 1..N /\ z # t.root /\ t.color[t.root] = "BLACK" /\ t.color[p] = "RED"
      BY <1>1, <1>6
    <2> QED
      BY <2>1, <2>2, <1>4, Family
  <1>8. o \in Sides /\ o = Other(r) /\ r = Other(o) /\ r # o /\ \A s \in Sides : s = r \/ s = o
    BY <1>0, <1>7, OtherSide
  <1>9. PICK c, col : c = t.color /\ col = [c EXCEPT ![p] = "BLACK", ![g] = "RED"]
    OBVIOUS
  <1>10. c \in [Nodes -> {"RED", "BLACK"}] /\ t \in Trees
    BY <1>4, <1>9 DEF Linked, Trees
  <1>11. /\ col \in [Nodes -> {"RED", "BLACK"}] /\ col[g] = "RED" /\ col[p] = "BLACK"
         /\ \A n \in Nodes : n # g /\ n # p => col[n] = t.color[n]
    BY <1>7, <1>9, <1>10
  <1>12. t.parent[z] = p /\ t.parent[p] = g /\ SideOf(t, p) = r
    BY <1>0
  <1>13. rotationcount' \in Nat /\ crooked' \in BOOLEAN
    BY <1>3 DEF TreeInv
  <1>14. CASE ~inner
    <2>1. PICK w : w = Painted(t, col)
      OBVIOUS
    <2>2. u = Rotate(w, g, o)
      <3>1. u = Rotate([t EXCEPT !.color = [@ EXCEPT ![p] = "BLACK", ![g] = "RED"]], g, o)
        BY <1>2, <1>3, <1>14
      <3>2. [t EXCEPT !.color = [@ EXCEPT ![p] = "BLACK", ![g] = "RED"]] = w
        BY <1>9, <1>10, <2>1 DEF Painted, Trees
      <3> QED
        BY <3>1, <3>2
    <2>3. t.child[o][p] # z /\ t.child[r][p] = z
      BY <1>2, <1>7, <1>8, <1>14
    <2>4. t.child[o][g] # NULL => t.color[t.child[o][g]] = "BLACK"
      BY <1>0, <1>1, <1>7, <1>9, <1>10
    <2>5. Kept(t, u, N, z, z)
      <3>1. Outside(t, N, z, p, g, r, o, col)
        BY <1>1, <1>6, <1>7, <1>8, <1>11, <1>12, <2>3, <2>4 DEF Outside
      <3> QED
        BY <1>4, <2>1, <2>2, <3>1, OuterKept, Zenon
    <2>6. Shape(u, N)
      BY <2>5 DEF Kept
    <2>7. Rooted(u, N, z)
      BY <1>1, <1>5, <1>6, <2>5 DEF Rooted, Kept
    <2>8. ~crooked => Coloured(u, z)
      BY <1>0, <2>5 DEF TreeInv, Coloured, Kept
    <2>9. newnode' = z /\ crooked' = crooked
      BY <1>3, <1>14 DEF TreeInv
    <2> QED
      BY <1>0, <1>3, <1>13, <2>6, <2>7, <2>8, <2>9 DEF TreeInv
  <1>15. CASE inner
    <2>1. v = Rotate(t, p, r) /\ t.child[o][p] = z
      BY <1>2, <1>15
    <2>2. v.color = t.color /\ v \in Trees
      <3>1. PICK mid : mid = t.child[r][z]
        OBVIOUS
      <3>2. t.child[Other(r)][p] = z /\ t.child[Other(r)][p] # NULL
        BY <1>1, <1>8, <2>1
      <3>3. Turned(t, v, p, z, mid, g, r)
        BY <1>4, <1>7, <1>12, <2>1, <3>1, <3>2, RotateTurned, Zenon
      <3>4. Linked(v, N)
        BY <1>4, <1>7, <2>1, <3>2, RotateLinked
      <3> QED
        BY <3>3, <3>4 DEF Turned, Linked
    <2>3. PICK w : w = Painted(v, col)
      OBVIOUS
    <2>4. u = Rotate(w, g, o)
      <3>1. [v EXCEPT !.color = [@ EXCEPT ![p] = "BLACK", ![g] = "RED"]] = w
        BY <1>9, <2>2, <2>3 DEF Painted, Trees
      <3> QED
        BY <1>3, <3>1
    <2>5. Turnabout(t, u, N, p)
      BY <1>4, <1>7, <1>8, <1>11, <1>12, <2>1, <2>3, <2>4, InnerKeeps, Zenon
    <2>6. Rooted(u, N, p)
      BY <1>5, <1>7, <2>5 DEF Rooted, Turnabout, SizesOK
    <2>7. Shape(u, N)
      BY <2>5 DEF Turnabout
    <2>8. newnode' = p /\ crooked'
      BY <1>3, <1>15
    <2> QED
      BY <1>0, <1>3, <1>13, <2>6, <2>7, <2>8 DEF TreeInv
  <1>16. inner \in BOOLEAN
    BY <1>2
  <1> QED
    BY <1>14, <1>15, <1>16

\* So does every step.
LEMMA TreeInvStep ==
  ASSUME SizesOK, TreeInv, [Next]_vars
  PROVE  TreeInv'
  <1>1. ASSUME UNCHANGED vars PROVE TreeInv'
    BY <1>1 DEF TreeInv, vars
  <1> QED
    BY <1>1, InsertStep, RecolourStep, RotateStep, DoneStep DEF Next

\* SearchTree holds of a tree of this shape.
LEMMA ShapeIsSearchTree ==
  ASSUME SizesOK, Shape(tree, count)
  PROVE  SearchTree
  <1>1. PICK B : Linked(tree, count) /\ Grown(tree, B, count) /\ Sorted(tree, B)
    BY DEF Shape
  <1>2. \A n \in Nodes : Below[n] = B[n]
    BY <1>1, BelowGrown
  <1>3. SUFFICES ASSUME count > 0
                 PROVE  /\ tree.parent[tree.root] = NULL
                        /\ \A n \in Inserted : Children(n) = {c \in Inserted : tree.parent[c] = n}
                        /\ Below[tree.root] = Inserted
                        /\ \A n \in Inserted :
                              /\ \A m \in UNION {Below[c] : c \in {tree.child["left"][n]} \ {NULL}} :
                                    tree.data[m] <= tree.data[n]
                              /\ \A m \in UNION {Below[c] : c \in {tree.child["right"][n]} \ {NULL}} :
                                    tree.data[n] <= tree.data[m]
    BY DEF SearchTree
  <1>4. 1..count \subseteq Nodes /\ NULL \notin Nodes /\ tree.root \in 1..count /\ tree.parent[tree.root] = NULL
    BY <1>1, <1>3 DEF Linked, Nodes, SizesOK
  <1>5. \A n \in Nodes, s \in Sides : tree.child[s][n] # NULL =>
            n \in 1..count /\ tree.child[s][n] \in 1..count /\ tree.parent[tree.child[s][n]] = n
    BY <1>1 DEF Linked
  <1>6. \A n \in 1..count : n # tree.root => \E s \in Sides : tree.child[s][tree.parent[n]] = n
    BY <1>1 DEF Linked
  <1>7. ASSUME NEW n \in 1..count PROVE Children(n) = {c \in 1..count : tree.parent[c] = n}
    <2>1. ASSUME NEW c \in Children(n) PROVE c \in 1..count /\ tree.parent[c] = n
      <3>1. PICK s \in Sides : c = tree.child[s][n] /\ c # NULL
        BY <2>1 DEF Children
      <3> QED
        BY <1>4, <1>5, <1>7, <3>1
    <2>2. ASSUME NEW c \in 1..count, tree.parent[c] = n PROVE c \in Children(n)
      <3>1. c # tree.root /\ c # NULL
        BY <1>4, <1>7, <2>2
      <3>2. PICK s \in Sides : tree.child[s][n] = c
        BY <1>6, <2>2, <3>1
      <3> QED
        BY <3>1, <3>2 DEF Children
    <2> QED
      BY <2>1, <2>2
  <1>8. Below[tree.root] = 1..count
    BY <1>1, <1>2, <1>3, <1>4 DEF Grown
  <1>9. \A n \in Nodes, s \in Sides :
           UNION {Below[c] : c \in {tree.child[s][n]} \ {NULL}} = Kid(tree, B, s, n)
    <2> SUFFICES ASSUME NEW n \in Nodes, NEW s \in Sides
                 PROVE  UNION {Below[c] : c \in {tree.child[s][n]} \ {NULL}} = Kid(tree, B, s, n)
      OBVIOUS
    <2>1. CASE tree.child[s][n] = NULL
      BY <2>1 DEF Kid
    <2>2. CASE tree.child[s][n] # NULL
      <3>1. Below[tree.child[s][n]] = B[tree.child[s][n]]
        BY <1>2, <1>4, <1>5, <2>2
      <3>2. {tree.child[s][n]} \ {NULL} = {tree.child[s][n]}
        BY <2>2
      <3> QED
        BY <2>2, <3>1, <3>2 DEF Kid
    <2> QED
      BY <2>1, <2>2
  <1>10. \A n \in Nodes, s \in Sides : \A m \in Kid(tree, B, s, n) : InOrder(s, tree.data[m], tree.data[n])
    BY <1>1 DEF Sorted
  <1>11. ASSUME NEW n \in 1..count
         PROVE  /\ \A m \in UNION {Below[c] : c \in {tree.child["left"][n]} \ {NULL}} :
                      tree.data[m] <= tree.data[n]
                /\ \A m \in UNION {Below[c] : c \in {tree.child["right"][n]} \ {NULL}} :
                      tree.data[n] <= tree.data[m]
    <2>1. n \in Nodes /\ "left" \in Sides /\ "right" \in Sides
      BY <1>4, <1>11 DEF Sides
    <2>2. \A m \in Kid(tree, B, "left", n) : tree.data[m] <= tree.data[n]
      BY <1>10, <2>1 DEF InOrder
    <2>3. \A m \in Kid(tree, B, "right", n) : tree.data[n] <= tree.data[m]
      BY <1>10, <2>1 DEF InOrder
    <2> QED
      BY <1>9, <2>1, <2>2, <2>3
  <1> QED
    BY <1>4, <1>7, <1>8, <1>11 DEF Inserted

\* With no red pair left, the invariant gives the red-black rules.
LEMMA ColouredIsRedBlack ==
  ASSUME SizesOK, TreeInv
  PROVE  RedBlackRules
  <1> SUFFICES ASSUME newnode = NULL, count > 0, ~crooked
               PROVE  /\ tree.color[tree.root] = "BLACK"
                      /\ \A n \in Inserted, c \in Inserted :
                            (tree.parent[c] = n /\ tree.color[n] = "RED") => tree.color[c] = "BLACK"
                      /\ Cardinality(BlackHeights[tree.root]) = 1
    BY DEF RedBlackRules
  <1>1. PICK B : Linked(tree, count) /\ Grown(tree, B, count) /\ Sorted(tree, B)
    BY DEF TreeInv, Shape
  <1>2. PICK h : Level(tree, h)
    BY DEF TreeInv, Coloured
  <1>3. tree.color[tree.root] = "BLACK"
    BY DEF TreeInv, Rooted
  <1>4. 1..count \subseteq Nodes /\ NULL \notin Nodes /\ tree.root \in 1..count
        /\ tree.parent[tree.root] = NULL /\ tree.color \in [Nodes -> {"RED", "BLACK"}]
    BY <1>1 DEF Linked, Nodes, SizesOK, Trees
  <1>5. ASSUME NEW n \in 1..count, NEW c \in 1..count, tree.parent[c] = n, tree.color[n] = "RED"
        PROVE  tree.color[c] = "BLACK"
    <2>1. c # tree.root
      BY <1>4, <1>5
    <2>2. PICK s \in Sides : tree.child[s][n] = c
      BY <1>1, <1>5, <2>1 DEF Linked
    <2>3. OnlyAt(tree, NULL)
      BY DEF TreeInv, Coloured
    <2>4. tree.color[c] # "RED"
      BY <1>4, <1>5, <2>2, <2>3 DEF OnlyAt
    <2> QED
      BY <1>4, <1>5, <2>4
  <1>6. BlackHeights[tree.root] = {h[tree.root]}
    BY <1>1, <1>2, <1>4, HeightsLevel
  <1>7. Cardinality(BlackHeights[tree.root]) = 1
    BY <1>6, FS_Singleton
  <1> QED
    BY <1>3, <1>5, <1>7 DEF Inserted

\* The invariant gives the types.
LEMMA TreeTypes ==
  ASSUME SizesOK, TreeInv
  PROVE  TypeOK
  <1>1. PICK B : Linked(tree, count) /\ Grown(tree, B, count) /\ Sorted(tree, B)
    BY DEF TreeInv, Shape
  <1>2. tree \in Trees /\ count \in 0..MaxNodes
    BY <1>1 DEF Linked
  <1>3. newnode \in Links
    BY <1>2 DEF TreeInv, Rooted, Links, Nodes, SizesOK
  <1> QED
    BY <1>2, <1>3 DEF TreeInv, TypeOK, Trees
-----------------------------------------------------------------------------
\* The invariant holds in every reachable state.
THEOREM TreeInvariance == SizesOK /\ Spec => []TreeInv
  <1>1. SizesOK /\ Init => TreeInv
    BY TreeInvInit
  <1>2. SizesOK /\ TreeInv /\ [Next]_vars => TreeInv'
    BY TreeInvStep
  <1>3. SizesOK => []SizesOK
    OBVIOUS
  <1> QED
    BY <1>1, <1>2, <1>3, PTL DEF Spec

\* insertion, rotateleft and rotateright keep one tree of all nodes, sorted
\* in order, also halfway through fixinsertion.
THEOREM StaysSearchTree == SizesOK /\ Spec => []SearchTree
  <1>1. SizesOK /\ TreeInv => SearchTree
    BY ShapeIsSearchTree DEF TreeInv
  <1>2. SizesOK => []SizesOK
    OBVIOUS
  <1> QED
    BY <1>1, <1>2, TreeInvariance, PTL

\* fixinsertion restores the red-black rules, as long as no insertion had to
\* rotate an inner node.
THEOREM StaysRedBlack == SizesOK /\ Spec => []RedBlackRules
  <1>1. SizesOK /\ TreeInv => RedBlackRules
    BY ColouredIsRedBlack
  <1>2. SizesOK => []SizesOK
    OBVIOUS
  <1> QED
    BY <1>1, <1>2, TreeInvariance, PTL

\* The variables have their types.
THEOREM StaysTyped == SizesOK /\ Spec => []TypeOK
  <1>1. SizesOK /\ TreeInv => TypeOK
    BY TreeTypes
  <1>2. SizesOK => []SizesOK
    OBVIOUS
  <1> QED
    BY <1>1, <1>2, TreeInvariance, PTL
=============================================================================
