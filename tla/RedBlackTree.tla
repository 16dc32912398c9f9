----------------------------- MODULE RedBlackTree -----------------------------
(***************************************************************************)
(* The red-black tree of src/R-Blacktree-file-2.c and src/RD-Black-tree-1.c*)
(* (the same functions; the first reads data.txt and counts rotations).    *)
(* Nodes are numbered in the order they are allocated.  The two mirror     *)
(* images of every case are one definition with a side as a parameter.  An *)
(* insertion attaches the node (Insert), then every iteration of the loop  *)
(* of fixinsertion is one step and its exit another.                       *)
(***************************************************************************)
EXTENDS Integers, FiniteSets, FiniteSetsExt

CONSTANTS
    Values,     \* the numbers in the input
    MaxNodes,   \* bound: length of the input
    NULL

VARIABLES
    tree,           \* root, and per node data, color, parent and its children
    count,          \* nodes allocated
    newnode,        \* the node fixinsertion is at, NULL outside it
    rotationcount,
    crooked         \* history: was a node rotated from the inner side?

vars == <<tree, count, newnode, rotationcount, crooked>>

Nodes == 1..MaxNodes

\* What the input and the allocator provide: integers, a length, and nodes
\* that are not NULL.
SizesOK == MaxNodes \in Nat /\ NULL \notin Nodes /\ Values \subseteq Int

Links == Nodes \cup {NULL}
Sides == {"left", "right"}

Other(side) == IF side = "left" THEN "right" ELSE "left"

\* The side of its parent that x hangs from.
SideOf(t, x) == IF t.child["left"][t.parent[x]] = x THEN "left" ELSE "right"

\* The side of n that a number belongs to: equal ones to the right.
SideFor(t, n, data) == IF data < t.data[n] THEN "left" ELSE "right"

\* Mutant of Rotate: the subtree that changes sides keeps its old parent.
RotateNoParent(t, x, side) ==
    LET y   == t.child[Other(side)][x]
        mid == t.child[side][y]
        up  == t.parent[x]
    IN  [t EXCEPT
           !.root = IF up = NULL THEN y ELSE @,
           !.child = [s \in Sides |-> [n \in Nodes |->
               IF n = x /\ s = Other(side) THEN mid
               ELSE IF n = y /\ s = side THEN x
               ELSE IF n = up /\ s = SideOf(t, x) THEN y
               ELSE t.child[s][n]]],
           !.parent = [@ EXCEPT ![x] = y, ![y] = up]]

\* rotateleft (side = "left") and rotateright: x goes down on that side and
\* its child y of the other side takes its place; what hung between the two
\* changes from y to x.
Rotate(t, x, side) ==
    LET y   == t.child[Other(side)][x]
        mid == t.child[side][y]
        up  == t.parent[x]
    IN  [t EXCEPT
           !.root = IF up = NULL THEN y ELSE @,
           !.child = [s \in Sides |-> [n \in Nodes |->
               IF n = x /\ s = Other(side) THEN mid
               ELSE IF n = y /\ s = side THEN x
               ELSE IF n = up /\ s = SideOf(t, x) THEN y
               ELSE t.child[s][n]]],
           !.parent = [n \in Nodes |->
               IF n = x THEN y ELSE IF n = y THEN up ELSE IF n = mid THEN x ELSE t.parent[n]]]

\* The node the loop of insertion ends at: below it data has its place.
Leaf(t, data) ==
    LET down[n \in Nodes] ==
            LET next == t.child[SideFor(t, n, data)][n]
            IN  IF next = NULL THEN n ELSE down[next]
    IN  IF t.root = NULL THEN NULL ELSE down[t.root]
-----------------------------------------------------------------------------
Init ==
    /\ tree = [root   |-> NULL,
               data   |-> [n \in Nodes |-> 0],
               color  |-> [n \in Nodes |-> "RED"],
               parent |-> [n \in Nodes |-> NULL],
               child  |-> [s \in Sides |-> [n \in Nodes |-> NULL]]]
    /\ count = 0
    /\ newnode = NULL
    /\ rotationcount = 0
    /\ crooked = FALSE

\* createnode, and insertion up to the call of fixinsertion.
Insert(data) ==
    LET n  == count + 1
        up == Leaf(tree, data)
    IN  /\ newnode = NULL
        /\ count < MaxNodes
        /\ count' = n
        /\ newnode' = n
        /\ tree' = [tree EXCEPT
                      !.root = IF up = NULL THEN n ELSE @,
                      !.data[n] = data,
                      !.parent[n] = up,
                      !.child = [s \in Sides |->
                         IF up # NULL /\ s = SideFor(tree, up, data)
                           THEN [@[s] EXCEPT ![up] = n] ELSE @[s]]]
        /\ UNCHANGED <<rotationcount, crooked>>

\* The condition of the loop of fixinsertion.
Violated ==
    /\ newnode # tree.root
    /\ tree.color[newnode] = "RED"
    /\ tree.color[tree.parent[newnode]] = "RED"

parentnode == tree.parent[newnode]
grandparnt == tree.parent[parentnode]
unclenode  == tree.child[Other(SideOf(tree, parentnode))][grandparnt]
UncleIsRed == unclenode # NULL /\ tree.color[unclenode] = "RED"

\* The colours after a red uncle; the mutant leaves the uncle red.
BothButUncle ==
    [tree.color EXCEPT ![grandparnt] = "RED", ![parentnode] = "BLACK"]
Recoloured ==
    [tree.color EXCEPT ![grandparnt] = "RED", ![parentnode] = "BLACK", ![unclenode] = "BLACK"]

\* A red uncle: recolour and go on two levels up.
FixRecolour ==
    /\ newnode # NULL
    /\ Violated
    /\ UncleIsRed
    /\ tree' = [tree EXCEPT !.color = Recoloured]
    /\ newnode' = grandparnt
    /\ UNCHANGED <<count, rotationcount, crooked>>

\* No red uncle: an inner node is first rotated to the outside, then the
\* grandparent goes down.  After the first rotation parentnode still names
\* the old parent, which is now below, and that is the one painted black.
FixRotate ==
    LET side  == SideOf(tree, parentnode)
        inner == newnode = tree.child[Other(side)][parentnode]
        outer == IF inner THEN Rotate(tree, parentnode, side) ELSE tree
    IN  /\ newnode # NULL
        /\ Violated
        /\ ~UncleIsRed
        /\ tree' = Rotate([outer EXCEPT !.color = [@ EXCEPT ![parentnode] = "BLACK",
                                                            ![grandparnt] = "RED"]],
                          grandparnt, Other(side))
        /\ newnode' = IF inner THEN parentnode ELSE newnode
        /\ rotationcount' = rotationcount + (IF inner THEN 2 ELSE 1)
        /\ crooked' = (crooked \/ inner)
        /\ UNCHANGED count

\* The loop ends and the root is painted black.
FixDone ==
    /\ newnode # NULL
    /\ ~Violated
    /\ tree' = [tree EXCEPT !.color[tree.root] = "BLACK"]
    /\ newnode' = NULL
    /\ UNCHANGED <<count, rotationcount, crooked>>

Next == (\E data \in Values : Insert(data)) \/ FixRecolour \/ FixRotate \/ FixDone

Spec == Init /\ [][Next]_vars
-----------------------------------------------------------------------------
TypeOK ==
    /\ tree \in [root : Links, data : [Nodes -> Int], color : [Nodes -> {"RED", "BLACK"}],
                 parent : [Nodes -> Links], child : [Sides -> [Nodes -> Links]]]
    /\ count \in 0..MaxNodes
    /\ newnode \in Links
    /\ rotationcount \in Nat
    /\ crooked \in BOOLEAN

Inserted == 1..count
Children(n) == {tree.child[s][n] : s \in Sides} \ {NULL}

\* The nodes of the subtree at n.
Below ==
    LET below[n \in Nodes] == {n} \cup UNION {below[c] : c \in Children(n)}
    IN  below

\* The links form one tree of all inserted nodes, also between two rotations
\* of one insertion (lines 30-86): a node is the parent of its children and
\* of nothing else, everything is reached from the root, and the in-order
\* traversal of the nodes is sorted.
SearchTree ==
    count > 0 =>
        /\ tree.parent[tree.root] = NULL
        /\ \A n \in Inserted : Children(n) = {c \in Inserted : tree.parent[c] = n}
        /\ Below[tree.root] = Inserted
        /\ \A n \in Inserted :
              /\ \A m \in UNION {Below[c] : c \in {tree.child["left"][n]} \ {NULL}} :
                    tree.data[m] <= tree.data[n]
              /\ \A m \in UNION {Below[c] : c \in {tree.child["right"][n]} \ {NULL}} :
                    tree.data[n] <= tree.data[m]

\* Black nodes on the way from n down to a missing child, for each of them.
BlackHeights ==
    LET heights[n \in Nodes] ==
            LET below == UNION {IF c = NULL THEN {0} ELSE heights[c]
                                  : c \in {tree.child[s][n] : s \in Sides}}
            IN  {h + (IF tree.color[n] = "BLACK" THEN 1 ELSE 0) : h \in below}
    IN  heights

\* The red-black rules hold after every insertion, as long as no insertion
\* had to rotate an inner node: the root is black, no red node has a red
\* child, and every way down meets as many black nodes.
RedBlackRules ==
    (newnode = NULL /\ count > 0 /\ ~crooked) =>
        /\ tree.color[tree.root] = "BLACK"
        /\ \A n \in Inserted, c \in Inserted :
              (tree.parent[c] = n /\ tree.color[n] = "RED") => tree.color[c] = "BLACK"
        /\ Cardinality(BlackHeights[tree.root]) = 1
=============================================================================
