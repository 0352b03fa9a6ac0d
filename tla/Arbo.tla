--------------------------------- MODULE Arbo ---------------------------------
(***************************************************************************)
(* The arbo Merkle tree.  A node is stored under its hash, so the database *)
(* is a set of nodes and a node is its own key; distinct nodes have        *)
(* distinct hashes.  A key is the sequence of its path bits.  A leaf sits  *)
(* at the shortest prefix of its key no other leaf shares: Add splits a    *)
(* leaf downwards, Delete takes the neighbours out and adds them again,    *)
(* and both delete the intermediate nodes of the old path.                 *)
(***************************************************************************)
EXTENDS Integers, Sequences, FiniteSets, SequencesExt

CONSTANTS
    MaxLevels,  \* bits of a key
    ArboKeys,   \* the keys used: functions from 1..MaxLevels to {0, 1}
    ArboValues,
    CPULevels   \* log2 of the CPUs that build a virtual tree

VARIABLES
    tree,    \* [root, nodes, nLeafs]
    content  \* the keys and values the tree should hold

arboVars == <<tree, content>>

Empty == [type |-> "empty"]
NewLeafValue(k, v) == [type |-> "leaf", key |-> k, value |-> v]
NewIntermediate(l, r) == [type |-> "mid", l |-> l, r |-> r]
EmptyNode == NewIntermediate(Empty, Empty)

\* setToEmptyTree
EmptyTree == [root |-> Empty, nodes |-> {}, nLeafs |-> 0]

\* path[lvl], for levels counted from 0.
Path(k, lvl) == k[lvl + 1]

Found(n, sibs, mids) == [err |-> "", node |-> n, siblings |-> sibs, intermediates |-> mids]
Failed(e) == [err |-> e, node |-> Empty, siblings |-> <<>>, intermediates |-> {}]

\* downVirtually: empty siblings until the paths diverge, then the old leaf.
DownVirtually(old, k, lvl) ==
    LET Diverge == {i \in lvl..(MaxLevels - 1) : Path(old.key, i) # Path(k, i)}
        d == CHOOSE i \in Diverge : \A j \in Diverge : i <= j
    IN  [i \in 1..(d - lvl) |-> Empty] \o <<old>>

RECURSIVE Down(_, _, _, _, _, _, _)
Down(nodes, k, n, sibs, mids, lvl, getLeaf) ==
    IF lvl > MaxLevels THEN Failed("ErrMaxLevel")
    ELSE IF n = Empty THEN Found(n, sibs, mids)
    ELSE IF n \notin nodes THEN Failed("could not get value")
    ELSE IF n.type = "mid" THEN
        IF Path(k, lvl) = 1
        THEN Down(nodes, k, n.r, Append(sibs, n.l), mids \cup {n}, lvl + 1, getLeaf)
        ELSE Down(nodes, k, n.l, Append(sibs, n.r), mids \cup {n}, lvl + 1, getLeaf)
    ELSE IF getLeaf THEN Found(n, sibs, mids)
    ELSE IF n.key = k THEN Failed("ErrKeyAlreadyExists")
    ELSE Found(n, sibs \o DownVirtually(n, k, lvl), mids)

\* up: the parent of two empty nodes is empty and is not stored.
RECURSIVE Up(_, _, _, _, _)
Up(nodes, n, sibs, k, lvl) ==
    LET sib == sibs[lvl + 1]
        mid == IF Path(k, lvl) = 1 THEN NewIntermediate(sib, n) ELSE NewIntermediate(n, sib)
        up == IF mid = EmptyNode THEN Empty ELSE mid
        stored == IF mid = EmptyNode THEN nodes ELSE nodes \cup {mid}
    IN  IF lvl = 0 THEN [root |-> up, nodes |-> stored] ELSE Up(stored, up, sibs, k, lvl - 1)

\* The tree with node n at the place Down found, the old path deleted.
Replaced(t, d, k, n, nodes) ==
    IF d.siblings = <<>> THEN [t EXCEPT !.root = n, !.nodes = nodes]
    ELSE LET u == Up(nodes, n, d.siblings, k, Len(d.siblings) - 1)
         IN  [t EXCEPT !.root = u.root, !.nodes = u.nodes \ d.intermediates]

Add(t, k, v) ==
    LET d == Down(t.nodes, k, t.root, <<>>, {}, 0, FALSE)
        leaf == NewLeafValue(k, v)
    IN  IF d.err # "" THEN t
        ELSE [Replaced(t, d, k, leaf, t.nodes \cup {leaf}) EXCEPT !.nLeafs = @ + 1]

\* Update leaves the tree alone when the leaf is the same.
Update(t, k, v) ==
    LET d == Down(t.nodes, k, t.root, <<>>, {}, 0, TRUE)
        leaf == NewLeafValue(k, v)
    IN  IF d.err # "" \/ d.node = Empty THEN t
        ELSE IF d.node.key # k \/ d.node = leaf THEN t
        ELSE Replaced(t, d, k, leaf, (t.nodes \ {d.node}) \cup {leaf})

\* getLeavesFromSubPath, and the leaves IterateWithStop visits: left to right.
RECURSIVE LeavesOf(_, _)
LeavesOf(nodes, n) ==
    IF n = Empty \/ n \notin nodes THEN <<>>
    ELSE IF n.type = "leaf" THEN <<n>>
    ELSE LeavesOf(nodes, n.l) \o LeavesOf(nodes, n.r)

\* Faulty: the neighbours stay where they are.
Neighbours_Left(t, d) == <<>>

\* The leaves next to a deleted one, which Delete adds again.
Neighbours(t, d) == LeavesOf(t.nodes, Last(d.siblings))

\* deleteWithTx.  The leaf Down finds is removed, so the key must be in the tree.
RECURSIVE Delete(_, _)
Delete(t, k) ==
    LET d == Down(t.nodes, k, t.root, <<>>, {}, 0, TRUE)
        alone == Last(d.siblings) = Empty
        removed == Replaced(t, d, k, Empty, IF alone THEN t.nodes \ {d.node} ELSE t.nodes)
        ReAdd(u, leaf) == Add(Delete(u, leaf.key), leaf.key, leaf.value)
    IN  IF d.err # "" THEN t
        ELSE IF d.siblings = <<>> THEN [EmptyTree EXCEPT !.nodes = t.nodes \ {d.node}]
        ELSE [FoldLeft(ReAdd, removed, IF alone THEN <<>> ELSE Neighbours(t, d))
                EXCEPT !.nLeafs = @ - 1]

\* Get and GenProof: the leaf at the end of the path, with its siblings.
Get(t, k) ==
    LET d == Down(t.nodes, k, t.root, <<>>, {}, 0, TRUE)
    IN  IF d.err = "" /\ d.node # Empty THEN d.node ELSE Empty

GenProof(t, k) == Down(t.nodes, k, t.root, <<>>, {}, 0, TRUE).siblings

\* UnpackSiblings stops after the last sibling that is not empty.
UnpackSiblings(sibs) ==
    LET Full == {i \in DOMAIN sibs : sibs[i] # Empty}
    IN  SubSeq(sibs, 1, CHOOSE i \in Full \cup {0} : \A j \in Full : j <= i)

CheckProof(k, v, root, packed) ==
    LET sibs == UnpackSiblings(packed)
        Step(n, i) == IF Path(k, i - 1) = 1 THEN NewIntermediate(sibs[i], n)
                      ELSE NewIntermediate(n, sibs[i])
    IN  FoldLeft(Step, NewLeafValue(k, v), Reverse([i \in 1..Len(sibs) |-> i])) = root

-----------------------------------------------------------------------------
\* Virtual trees (vt.go): Empty stands for a nil node.

\* downUntilDivergence
RECURSIVE DownUntilDivergence(_, _, _)
DownUntilDivergence(old, new, lvl) ==
    IF Path(old.key, lvl) # Path(new.key, lvl)
    THEN IF Path(new.key, lvl) = 1 THEN NewIntermediate(old, new) ELSE NewIntermediate(new, old)
    ELSE LET n == DownUntilDivergence(old, new, lvl + 1)
         IN  IF Path(new.key, lvl) = 1 THEN NewIntermediate(Empty, n) ELSE NewIntermediate(n, Empty)

RECURSIVE VtAdd(_, _, _)
VtAdd(n, leaf, lvl) ==
    IF n = Empty THEN leaf
    ELSE IF n.type = "mid" THEN
        IF Path(leaf.key, lvl) = 1 THEN NewIntermediate(n.l, VtAdd(n.r, leaf, lvl + 1))
        ELSE NewIntermediate(VtAdd(n.l, leaf, lvl + 1), n.r)
    ELSE IF n.key = leaf.key THEN n
    ELSE DownUntilDivergence(n, leaf, lvl)

\* keyToBucket: the first bits of the path, the first one the most significant.
KeyToBucket(k) ==
    LET Bit(b, i) == 2 * b + Path(k, i - 1)
    IN  FoldLeft(Bit, 0, [i \in 1..CPULevels |-> i])

SplitInBuckets(leaves, b) == SelectSeq(leaves, LAMBDA l : KeyToBucket(l.key) = b)

\* upFromNodes: a leaf with an empty neighbour takes the place of its parent.
Parent(l, r) ==
    IF r = Empty /\ (l = Empty \/ l.type = "leaf") THEN l
    ELSE IF l = Empty /\ r.type = "leaf" THEN r
    ELSE NewIntermediate(l, r)

RECURSIVE UpFromNodes(_)
UpFromNodes(ns) ==
    IF Len(ns) = 1 THEN ns[1]
    ELSE UpFromNodes([i \in 1..(Len(ns) \div 2) |-> Parent(ns[2 * i - 1], ns[2 * i])])

\* getNodesAtLevel: the nodes at level CPULevels, none below a higher leaf.
RECURSIVE NodesAtLevel(_, _)
NodesAtLevel(n, lvl) ==
    IF n # Empty /\ lvl = CPULevels THEN <<n>>
    ELSE IF n = Empty \/ n.type = "leaf" THEN [i \in 1..(2 ^ (CPULevels - lvl)) |-> Empty]
    ELSE NodesAtLevel(n.l, lvl + 1) \o NodesAtLevel(n.r, lvl + 1)

\* computeHashes of a node: the pairs to store down to level maxLvl.
RECURSIVE NodeHashes(_, _, _)
NodeHashes(n, lvl, maxLvl) ==
    IF n = Empty \/ lvl >= maxLvl THEN {}
    ELSE IF n.type = "leaf" THEN {n}
    ELSE {n} \cup NodeHashes(n.l, lvl + 1, maxLvl) \cup NodeHashes(n.r, lvl + 1, maxLvl)

\* computeHashes of the tree: one goroutine per node at level CPULevels, then
\* the levels above.
ComputeHashes(root) ==
    UNION {NodeHashes(n, CPULevels - 1, MaxLevels) : n \in ToSet(NodesAtLevel(root, 0))}
        \cup NodeHashes(root, 0, CPULevels)

\* addBatch on an empty virtual tree: one goroutine per bucket, from level CPULevels.
VtAddBatch(leaves) ==
    LET Bucket(b) == FoldLeft(LAMBDA n, l : VtAdd(n, l, CPULevels), Empty, SplitInBuckets(leaves, b))
    IN  IF CPULevels = 0 \/ Len(leaves) < 2 ^ CPULevels
        THEN FoldLeft(LAMBDA n, l : VtAdd(n, l, 0), Empty, leaves)
        ELSE UpFromNodes([i \in 1..(2 ^ CPULevels) |-> Bucket(i - 1)])

\* Dump and ImportDump.  A dump is imported into a tree just created.
Dump(t) == LeavesOf(t.nodes, t.root)

ImportDump(leaves) ==
    LET root == VtAddBatch(leaves)
    IN  [root |-> root, nodes |-> ComputeHashes(root), nLeafs |-> Len(leaves)]

-----------------------------------------------------------------------------
ArboInit == tree = EmptyTree /\ content = [k \in {} |-> 0]

With(k, v) == [x \in DOMAIN content \cup {k} |-> IF x = k THEN v ELSE content[x]]

ArboAdd(k, v) ==
    /\ tree' = Add(tree, k, v)
    /\ content' = IF k \in DOMAIN content THEN content ELSE With(k, v)

\* Set of tree.go: Update, and Add when the key is not found.
ArboSet(k, v) ==
    /\ tree' = IF Get(tree, k) # Empty /\ Get(tree, k).key = k
               THEN Update(tree, k, v) ELSE Add(tree, k, v)
    /\ content' = With(k, v)

ArboDelete(k) ==
    /\ k \in DOMAIN content
    /\ tree' = Delete(tree, k)
    /\ content' = [x \in DOMAIN content \ {k} |-> content[x]]

\* The tree is dumped, and the dump imported into a new tree.
ArboCopy ==
    /\ tree' = ImportDump(Dump(tree))
    /\ UNCHANGED content

ArboNext ==
    \/ \E k \in ArboKeys, v \in ArboValues : ArboAdd(k, v) \/ ArboSet(k, v)
    \/ \E k \in ArboKeys : ArboDelete(k)
    \/ ArboCopy

ArboSpec == ArboInit /\ [][ArboNext]_arboVars

\* The reference: the tree of a set of leaves, from level lvl on.
RECURSIVE Canonical(_, _)
Canonical(leaves, lvl) ==
    IF leaves = {} THEN Empty
    ELSE IF Cardinality(leaves) = 1 THEN CHOOSE l \in leaves : TRUE
    ELSE NewIntermediate(Canonical({l \in leaves : Path(l.key, lvl) = 0}, lvl + 1),
                         Canonical({l \in leaves : Path(l.key, lvl) = 1}, lvl + 1))

RECURSIVE NodesUnder(_)
NodesUnder(n) ==
    IF n = Empty THEN {}
    ELSE IF n.type = "leaf" THEN {n}
    ELSE {n} \cup NodesUnder(n.l) \cup NodesUnder(n.r)

\* Whatever the order of additions, updates, deletions and imports, the tree is
\* the one its keys and values determine: all its nodes are stored although old
\* paths were deleted, and a key has a valid proof for a value exactly when the
\* tree holds it.
TreeHoldsItsContent ==
    LET leaves == {NewLeafValue(k, content[k]) : k \in DOMAIN content}
    IN  /\ tree.root = Canonical(leaves, 0)
        /\ NodesUnder(tree.root) \subseteq tree.nodes
        /\ tree.nLeafs = Cardinality(leaves)
        /\ \A k \in ArboKeys, v \in ArboValues :
            CheckProof(k, v, tree.root, GenProof(tree, k)) <=> NewLeafValue(k, v) \in leaves

=============================================================================
