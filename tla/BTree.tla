------------------------------- MODULE BTree --------------------------------
(***************************************************************************)
(* The B-tree index on an INT column: insertion with its splits, search    *)
(* and range search.  remove answers false and does nothing; a file that    *)
(* saveToFile wrote has the order of an index and nothing of its tree, and  *)
(* loadFromFile takes the order from it and leaves the tree as it is.      *)
(*                                                                         *)
(* Nodes are numbered in the order they are made; children and the chain   *)
(* of leaves are numbers.  A split copies the keys around the middle one   *)
(* and then reads the middle key past the end of the vector it has just    *)
(* cut; the builds of the repository do not check the access and shrinking *)
(* a vector leaves its memory alone, so it reads the key that was there.   *)
(*                                                                         *)
(* History variables: accepted is what the caller was told, the record id  *)
(* of the last insertion of each key that was answered true; fits says     *)
(* that no smaller order than the one before was ever loaded.              *)
(***************************************************************************)
EXTENDS Integers, SequencesExt

CONSTANTS
    Key,       \* the keys callers insert: integers
    RecordId,  \* the record ids they insert them with
    Order,     \* the orders an index may be made with
    MaxNodes   \* bound: nodes of the tree before an insertion

ASSUME BTreeAssumption ==
    /\ Key \subseteq Int /\ RecordId \subseteq Nat
    /\ Order \subseteq Nat \ (0..2)
    /\ MaxNodes \in Nat \ {0}

NotFound == -1

VARIABLES
    order,     \* order_: a node with order - 1 keys is full
    tree,      \* the nodes and the number of the root
    accepted,  \* history
    fits       \* history

vars == <<order, tree, accepted, fits>>

NoLeaf == 0
Leaf(keys, recordIds, next) ==
    [leaf |-> TRUE, keys |-> keys, recordIds |-> recordIds, children |-> <<>>, next |-> next]
Internal(keys, children) ==
    [leaf |-> FALSE, keys |-> keys, recordIds |-> <<>>, children |-> children, next |-> NoLeaf]

Init ==
    /\ order \in Order
    /\ tree = [nodes |-> <<Leaf(<<>>, <<>>, NoLeaf)>>, root |-> 1]
    /\ accepted = [k \in {} |-> NotFound]
    /\ fits = TRUE

UpTo(s, i) == SubSeq(s, 1, i)
After(s, i) == SubSeq(s, i + 1, Len(s))

-----------------------------------------------------------------------------
(* Finding the leaf of a key. *)

\* The number of keys below k: std::lower_bound.
Below(keys, k) == Cardinality({i \in DOMAIN keys : keys[i] < k})

\* Mutant of ChildFor: a key equal to a separator is looked for on its left.
ChildOnLeft(node, k) == node.children[Below(node.keys, k) + 1]

\* A key equal to a separator is in the child on its right.
ChildFor(node, k) ==
    node.children[Below(node.keys, k) + (IF k \in ToSet(node.keys) THEN 2 ELSE 1)]

\* The nodes from the root to the leaf of k.
Path(t, k) ==
    LET walk[n \in DOMAIN t.nodes] ==
            IF t.nodes[n].leaf THEN <<n>> ELSE <<n>> \o walk[ChildFor(t.nodes[n], k)]
    IN  walk[t.root]

searchNode(t, k) == t.nodes[Last(Path(t, k))]

search(k) ==
    LET leaf == searchNode(tree, k)
    IN  IF k \in ToSet(leaf.keys) THEN leaf.recordIds[Below(leaf.keys, k) + 1] ELSE NotFound

\* The keys of the leaves from leaf n on, in the order of the chain.
KeysFrom(n) ==
    LET keys[m \in {NoLeaf} \cup DOMAIN tree.nodes] ==
            IF m = NoLeaf THEN <<>> ELSE tree.nodes[m].keys \o keys[tree.nodes[m].next]
    IN  keys[n]

\* The answer of rangeSearch with <= as the comparator: from the leaf of the
\* first key on, whether or not they are below that key, all keys up to the
\* first one that is above the last.
rangeSearch(first, last) ==
    LET keys == KeysFrom(Last(Path(tree, first)))
    IN  UpTo(keys, Cardinality({i \in DOMAIN keys : \A j \in 1..i : keys[j] <= last}))

-----------------------------------------------------------------------------
(* Insertion. *)

Full(node) == Len(node.keys) >= order - 1

Middle(node) == Len(node.keys) \div 2

\* Mutant of LeftHalf: the new leaf is not linked into the chain.
LeftHalfUnlinked(node, new) ==
    IF node.leaf
    THEN Leaf(UpTo(node.keys, Middle(node)), UpTo(node.recordIds, Middle(node)), node.next)
    ELSE Internal(UpTo(node.keys, Middle(node)), UpTo(node.children, Middle(node) + 1))

\* What a node keeps in a split: the keys before the middle one.
LeftHalf(node, new) ==
    IF node.leaf
    THEN Leaf(UpTo(node.keys, Middle(node)), UpTo(node.recordIds, Middle(node)), new)
    ELSE Internal(UpTo(node.keys, Middle(node)), UpTo(node.children, Middle(node) + 1))

\* Mutant of RightHalf: the children start at the middle one.
RightHalfShifted(node) ==
    IF node.leaf
    THEN Leaf(After(node.keys, Middle(node) + 1), After(node.recordIds, Middle(node) + 1), node.next)
    ELSE Internal(After(node.keys, Middle(node) + 1), After(node.children, Middle(node)))

\* Mutant of RightHalf: the record ids start at the one of the middle key.
RightHalfMisaligned(node) ==
    IF node.leaf
    THEN Leaf(After(node.keys, Middle(node) + 1), After(node.recordIds, Middle(node)), node.next)
    ELSE Internal(After(node.keys, Middle(node) + 1), After(node.children, Middle(node) + 1))

\* What the new node gets: the keys after the middle one.
RightHalf(node) ==
    IF node.leaf
    THEN Leaf(After(node.keys, Middle(node) + 1), After(node.recordIds, Middle(node) + 1), node.next)
    ELSE Internal(After(node.keys, Middle(node) + 1), After(node.children, Middle(node) + 1))

\* Mutant of Split: the middle key goes in after the node it leaves.
SplitBehind(t, n, parent) ==
    LET old == t.nodes[n]
        new == Len(t.nodes) + 1
        children == t.nodes[parent].children
        i == CHOOSE j \in DOMAIN children : children[j] = n
        middle == old.keys[Middle(old) + 1]
        above == Internal(Append(t.nodes[parent].keys, middle), InsertAt(children, i + 1, new))
    IN  [t EXCEPT !.nodes = Append([@ EXCEPT ![n] = LeftHalf(old, new), ![parent] = above],
                                 RightHalf(old))]

\* Node n is cut in two, and its parent gets the middle key and the new node.
Split(t, n, parent) ==
    LET old == t.nodes[n]
        new == Len(t.nodes) + 1
        children == t.nodes[parent].children
        i == CHOOSE j \in DOMAIN children : children[j] = n
        middle == old.keys[Middle(old) + 1]
        above == Internal(InsertAt(t.nodes[parent].keys, i, middle), InsertAt(children, i + 1, new))
    IN  [t EXCEPT !.nodes = Append([@ EXCEPT ![n] = LeftHalf(old, new), ![parent] = above],
                                 RightHalf(old))]

\* A new root over the old one, which is then split.
Grow(t) ==
    LET above == Len(t.nodes) + 1
    IN  Split([nodes |-> Append(t.nodes, Internal(<<>>, <<t.root>>)), root |-> above],
              t.root, above)

\* insert makes room at the root before it looks for the leaf.
RoomAtRoot == IF Full(tree.nodes[tree.root]) THEN Grow(tree) ELSE tree

\* Leaf n, which lacks k, with k in its place.
AddToLeaf(t, n, k, recordId) ==
    LET pos == Below(t.nodes[n].keys, k) + 1
    IN  [t EXCEPT !.nodes[n].keys = InsertAt(@, pos, k),
                  !.nodes[n].recordIds = InsertAt(@, pos, recordId)]

\* The last node of path p is split if it is full; no node above it is.
SplitLeafIfFull(t, p) ==
    IF ~Full(t.nodes[Last(p)]) THEN t
    ELSE IF Len(p) = 1 THEN Grow(t)
    ELSE Split(t, Last(p), p[Len(p) - 1])

\* An insertion that finds its key in the leaf answers false; it may have split
\* the root before.
insert(k, recordId) ==
    LET t == RoomAtRoot
        p == Path(t, k)
    IN  /\ Len(tree.nodes) <= MaxNodes
        /\ \/ /\ k \in ToSet(t.nodes[Last(p)].keys)
              /\ tree' = t
              /\ UNCHANGED accepted
           \/ /\ k \notin ToSet(t.nodes[Last(p)].keys)
              /\ tree' = SplitLeafIfFull(AddToLeaf(t, Last(p), k, recordId), p)
              /\ accepted' = [j \in DOMAIN accepted \cup {k} |->
                                IF j = k THEN recordId ELSE accepted[j]]
        /\ UNCHANGED <<order, fits>>

\* The order of the index that was saved in the file, which may be another one.
loadFromFile(savedOrder) ==
    /\ order' = savedOrder
    /\ fits' = (fits /\ savedOrder >= order)
    /\ UNCHANGED <<tree, accepted>>

Next ==
    \/ \E k \in Key : \E recordId \in RecordId : insert(k, recordId)
    \/ \E savedOrder \in Order : loadFromFile(savedOrder)

Spec == Init /\ [][Next]_vars

-----------------------------------------------------------------------------
(* Views of the tree. *)

Node == DOMAIN tree.nodes
Leaves == {n \in Node : tree.nodes[n].leaf}
Inner == Node \ Leaves

\* The keys that leaves hold, with their record ids, and the keys that inner
\* nodes hold.
Held == UNION {ToSet(tree.nodes[n].keys) : n \in Leaves}
Separators == UNION {ToSet(tree.nodes[n].keys) : n \in Inner}

IsIncreasing(s) == \A i, j \in DOMAIN s : i < j => s[i] < s[j]

\* The nodes below each node, itself included, and its height: 0 for a leaf.
Subtree ==
    LET below[n \in Node] ==
            {n} \cup UNION {below[tree.nodes[n].children[i]] :
                              i \in DOMAIN tree.nodes[n].children}
    IN  below
Height ==
    LET high[n \in Node] ==
            IF n \in Leaves THEN 0 ELSE 1 + high[Head(tree.nodes[n].children)]
    IN  high

\* The leaves from leaf n on, along the chain.
Chain(n) ==
    LET follow[m \in {NoLeaf} \cup DOMAIN tree.nodes] ==
            IF m = NoLeaf THEN <<>> ELSE <<m>> \o follow[tree.nodes[m].next]
    IN  follow[n]

\* The leaves in the order of the tree.
LeafOrder ==
    LET list[n \in Node] ==
            IF n \in Leaves THEN <<n>>
            ELSE FlattenSeq([i \in DOMAIN tree.nodes[n].children |->
                                list[tree.nodes[n].children[i]]])
    IN  list[tree.root]

-----------------------------------------------------------------------------
(* Properties. *)

\* The shape of the tree: every node is below the root; keys increase; a leaf
\* has a record id per key; an inner node has a child more than keys, all of
\* one height; while the order was never reduced, no leaf is full, for insert
\* splits it at once, and the root has at most the keys that make it full.
TypeOK ==
    /\ Subtree[tree.root] = Node
    /\ \A n \in Node : IsIncreasing(tree.nodes[n].keys)
    /\ \A n \in Leaves :
        /\ Len(tree.nodes[n].recordIds) = Len(tree.nodes[n].keys)
        /\ fits => ~Full(tree.nodes[n])
    /\ LET height == Height
       IN  \A n \in Inner :
            /\ Len(tree.nodes[n].children) = Len(tree.nodes[n].keys) + 1
            /\ \A m \in ToSet(tree.nodes[n].children) : height[m] = height[n] - 1
    /\ fits => Len(tree.nodes[tree.root].keys) <= order - 1

\* The keys in and below a child lie between the separators on both sides of
\* it; the one on its left may be among them, inserted again after it went up.
SearchTree ==
    LET subtree == Subtree
    IN  \A n \in Inner : \A i \in DOMAIN tree.nodes[n].children :
            \A m \in subtree[tree.nodes[n].children[i]] : \A k \in ToSet(tree.nodes[m].keys) :
                /\ i > 1 => tree.nodes[n].keys[i - 1] <= k
                /\ i <= Len(tree.nodes[n].keys) => k < tree.nodes[n].keys[i]

\* An accepted key is found, with the record id of its last insertion, unless a
\* split made it a separator and it was not inserted again; nothing else is
\* found.  So what splits lose is exactly what they lift.
OnlySeparatorsAreLost ==
    LET held == Held
    IN  \A k \in Key :
            IF k \in DOMAIN accepted /\ k \in held THEN search(k) = accepted[k]
            ELSE /\ search(k) = NotFound
                 /\ k \in DOMAIN accepted => k \in Separators

\* The index seen from outside: what search answers for the keys it finds.
Map == INSTANCE IndexMap WITH entries <- [k \in Held |-> search(k)]

\* Every insertion does to that view what IndexMap allows: it adds its key,
\* overwrites nothing, and pushes out at most one entry however many nodes it
\* splits, and a refused insertion pushes out none, although it may split the
\* root.  An index that was given a smaller order may have a full leaf for a
\* root: there each of them may push out one more.
ImplementsMap == Map!Spec

\* The chain of leaves goes through every leaf in the order of the tree, so a
\* range search misses no held key of its range and returns them in order; it
\* may return, before them, keys below the range that share a leaf with its
\* first key.
RangeIsComplete ==
    LET held == Held
        leaves == LeafOrder
    IN  /\ Chain(leaves[1]) = leaves
        /\ \A first, last \in Key :
            LET answer == rangeSearch(first, last)
            IN  /\ IsIncreasing(answer)
                /\ {k \in ToSet(answer) : k >= first} = {k \in held : first <= k /\ k <= last}
                /\ \A k \in ToSet(answer) : k < first => k \in ToSet(searchNode(tree, first).keys)

\* What BTreeIndex.h says of search: it answers -1 for a key that is not found;
\* a key whose insertion was answered true is found.  The split of a leaf
\* drops the record id of the key it lifts.
InsertedIsFound == \A k \in DOMAIN accepted : search(k) = accepted[k]
=============================================================================
