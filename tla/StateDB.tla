------------------------------ MODULE StateDB ------------------------------
(***************************************************************************)
(* The versioned state database (package statedb) as the chain state uses  *)
(* it, and the snapshots that carry it to another node (package snapshot   *)
(* and the state sync methods of the application).                         *)
(*                                                                         *)
(* The state is a hierarchy of Merkle trees that share one database: the   *)
(* main tree, one tree for each entry of MainTrees, and a votes tree for   *)
(* each process. A leaf of a parent tree holds the root of the child tree. *)
(* Hashing is taken to be injective, so the root of a tree is its content: *)
(* a function from keys to leaves [val, root].  Arbo removes the nodes of  *)
(* the path it replaces, so a tree can be read at its latest root only.    *)
(***************************************************************************)
EXTENDS Naturals, FiniteSets, Sequences, FiniteSetsExt

CONSTANTS
    MainTrees,       \* names of the singleton trees under the main tree
    TreeProcess,     \* the one of them that has the votes trees below it
    Pids,            \* process identifiers
    Nullifiers,      \* vote identifiers
    Vals,            \* contents of a process or a vote
    PlainVals,       \* contents of a leaf of the other trees
    NoTree,          \* a tree that the database does not hold yet
    NoSnapshot,
    SnapshotInterval,
    KeepRecent,      \* snapshotKeepNRecent
    SnapshotChunks,  \* number of chunks a snapshot is cut into
    MaxVersion,      \* bound on the block heights
    MaxWrites        \* bound on the writes of a block

VARIABLES
    db,        \* the committed database of the node
    tx,        \* State.tx, the open transaction
    view,      \* the root mainTreeViewValue was opened at
    phase,     \* "open", "prepared": where the block execution stands
    writes,    \* writes of the executing block
    done,      \* what the executing block has written so far
    committed, \* what the saved blocks have written
    snaps,     \* snapshot files of the node
    peer       \* a node that starts from a snapshot

sdbVars == <<db, tx, view, phase, writes, done, committed, snaps, peer>>

Main == <<>>
Empty == <<>>
Trees == {Main} \cup {<<m>> : m \in MainTrees}
                \cup {<<TreeProcess, p>> : p \in Pids}
Parent(t) == SubSeq(t, 1, Len(t) - 1)

(* TreeConfig: the key of the parent's leaf that holds the root of t. *)
LeafKey(t) == t[Len(t)]

(* rootLeafSetRoot and processSetVotesRoot: the rest of the leaf is kept. *)
SetRoot(leaf, root) == [leaf EXCEPT !.root = root]

Put(f, k, v) == [x \in DOMAIN f \cup {k} |-> IF x = k THEN v ELSE f[x]]

---------------------------------------------------------------------------
(* Reading and writing through a transaction u over the database d. *)

TreeOf(d, u, t) == IF t \in DOMAIN u.trees THEN u.trees[t] ELSE d.trees[t]

(* BeginTx: the main tree is set back to the root of the last version. *)
BeginTx(d) ==
    [trees |-> IF d.trees[Main] = d.root THEN <<>> ELSE Put(<<>>, Main, d.root),
     nostate |-> d.nostate, version |-> d.version, root |-> d.root,
     open |-> {}, dirty |-> {}]

(* TreeUpdate.SubTree: opening a tree for the first time creates it. *)
SubTree(d, u, t) ==
    IF t \in u.open THEN u
    ELSE [u EXCEPT !.open = @ \cup {t},
                   !.trees = IF TreeOf(d, u, t) = NoTree
                             THEN Put(@, t, Empty) ELSE @]

(* DeepSubTree opens the path to t, parents first. *)
DeepSubTree(d, u, t) ==
    IF Len(t) = 2 THEN SubTree(d, SubTree(d, u, Parent(t)), t)
                  ELSE SubTree(d, u, t)

(* Set and DeepSet; Add is the same where the key is new. *)
DeepSet(d, u, t, k, leaf) ==
    LET o == DeepSubTree(d, u, t)
    IN [o EXCEPT !.trees = Put(@, t, Put(TreeOf(d, o, t), k, leaf)),
                 !.dirty = @ \cup {t}]

DeepAddable(d, u, t, k) ==
    k \notin DOMAIN TreeOf(d, DeepSubTree(d, u, t), t)

(* MarkDirty: the root of t has to be propagated though nothing was set. *)
MarkDirty_Forgotten(u, t) == u
MarkDirty(u, t) == [u EXCEPT !.dirty = @ \cup {t}]

(* propagateRoot, depth first over the open trees: NoTree where neither t   *)
(* nor a tree opened below it changed, else t with the leaves of its        *)
(* changed children set to their new roots.                                 *)
propagateRoot(d, u) ==
    LET prop[t \in Trees] ==
          LET changed == {c \in u.open : c # Main /\ Parent(c) = t /\ prop[c] # NoTree}
              own     == TreeOf(d, u, t)
          IN IF changed = {} /\ t \notin u.dirty THEN NoTree
             ELSE [k \in DOMAIN own |->
                     IF \E c \in changed : LeafKey(c) = k
                     THEN SetRoot(own[k], prop[CHOOSE c \in changed : LeafKey(c) = k])
                     ELSE own[k]]
    IN prop

(* CommitOnTx: roots are propagated and the version recorded, all of it in  *)
(* the transaction.                                                         *)
CommitOnTx(d, u, v) ==
    LET prop == propagateRoot(d, u)
        touched == {t \in Trees : (t = Main \/ t \in u.open) /\ prop[t] # NoTree}
    IN [u EXCEPT !.trees = [t \in DOMAIN @ \cup touched |->
                              IF t \in touched THEN prop[t] ELSE @[t]],
                 !.open = {}, !.version = v,
                 !.root = IF prop[Main] = NoTree THEN @ ELSE prop[Main]]

(* SaveWithoutCommit: the transaction reaches the database in one batch. *)
SaveWithoutCommit(d, u) ==
    [trees |-> [t \in Trees |-> TreeOf(d, u, t)], nostate |-> u.nostate,
     version |-> u.version, root |-> u.root]

(* initStateDB on an empty database: every singleton tree is created, with  *)
(* its leaf in the main tree.                                               *)
EmptyDB == [trees |-> [t \in Trees |-> NoTree], nostate |-> 0, version |-> 0, root |-> Empty]
initStateDB ==
    LET u == BeginTx(EmptyDB)
        subs == {<<m>> : m \in MainTrees}
        leaves == [m \in MainTrees |-> [val |-> NoTree, root |-> Empty]]
        built == [u EXCEPT !.trees = [t \in subs \cup {Main} |->
                                        IF t = Main THEN leaves ELSE Empty],
                           !.open = subs, !.dirty = {Main}]
    IN SaveWithoutCommit(EmptyDB, CommitOnTx(EmptyDB, built, 0))

---------------------------------------------------------------------------
(* Reading a committed version. *)

(* TreeView and TreeView.SubTree from the main tree opened at root r: the   *)
(* content of each tree, NoTree where it cannot be opened.                  *)
TreeView(d, r) ==
    LET at[t \in Trees] ==
          IF t = Main THEN IF r = d.trees[Main] THEN r ELSE NoTree
          ELSE LET up == at[Parent(t)]
               IN IF up = NoTree THEN NoTree
                  ELSE IF LeafKey(t) \notin DOMAIN up \/ d.trees[t] = NoTree
                       THEN NoTree
                  ELSE IF up[LeafKey(t)].root \in {Empty, d.trees[t]}
                       THEN up[LeafKey(t)].root ELSE NoTree
    IN at

---------------------------------------------------------------------------
(* Block execution (package state). *)

Nothing == [t \in Trees \ {Main} |-> <<>>]
Votes(p) == <<TreeProcess, p>>
Proc == <<TreeProcess>>
Wrote(t, k, v) == done' = [done EXCEPT ![t] = Put(@, k, v)]
Writing == phase = "open" /\ writes < MaxWrites /\ writes' = writes + 1

(* SetTimestamp and the other setters of a singleton tree without children. *)
SetValue(m, v) ==
    /\ Writing /\ <<m>> # Proc
    /\ tx' = DeepSet(db, tx, <<m>>, m, [val |-> v, root |-> Empty])
    /\ Wrote(<<m>>, m, v)
    /\ UNCHANGED <<db, view, phase, committed, snaps, peer>>

(* AddProcess *)
AddProcess(p, v) ==
    /\ Writing /\ DeepAddable(db, tx, Proc, p)
    /\ tx' = DeepSet(db, tx, Proc, p, [val |-> v, root |-> Empty])
    /\ Wrote(Proc, p, v)
    /\ UNCHANGED <<db, view, phase, committed, snaps, peer>>

(* updateProcess keeps the votes root the leaf holds, which is stale when a *)
(* vote of the same block is still to be propagated.                        *)
UpdateProcess(p, v) ==
    /\ Writing
    /\ LET u == SubTree(db, tx, Proc)
           own == TreeOf(db, u, Proc)
       IN /\ p \in DOMAIN own
          /\ tx' = DeepSet(db, u, Proc, p, [val |-> v, root |-> own[p].root])
    /\ Wrote(Proc, p, v)
    /\ UNCHANGED <<db, view, phase, committed, snaps, peer>>

(* AddVote: the leaf of the votes tree, which counts how often the vote was *)
(* overwritten, and the vote counter of the NoState database.               *)
AddVote(p, n, v) ==
    /\ Writing /\ ~DeepAddable(db, tx, Proc, p)
    /\ LET o == DeepSubTree(db, tx, Votes(p))
           own == TreeOf(db, o, Votes(p))
           vote == [choice |-> v,
                    overwrites |-> IF n \in DOMAIN own THEN own[n].val.overwrites + 1 ELSE 0]
       IN /\ tx' = [DeepSet(db, o, Votes(p), n, [val |-> vote, root |-> Empty])
                      EXCEPT !.nostate = @ + 1]
          /\ Wrote(Votes(p), n, vote)
    /\ UNCHANGED <<db, view, phase, committed, snaps, peer>>

(* VoteExists on the open transaction: a read that opens the votes tree. *)
ReadVotes(p) ==
    /\ phase = "open"
    /\ tx' = DeepSubTree(db, tx, Votes(p))
    /\ UNCHANGED <<db, view, phase, writes, done, committed, snaps, peer>>

PrepareCommit ==
    /\ phase = "open" /\ db.version < MaxVersion
    /\ tx' = CommitOnTx(db, tx, db.version + 1)
    /\ phase' = "prepared"
    /\ UNCHANGED <<db, view, writes, done, committed, snaps, peer>>

---------------------------------------------------------------------------
(* Snapshots. *)

(* DeepListStateTrees and DumpTree for each: the trees the last version     *)
(* holds.  A votes tree that was never created is left out.                 *)
DeepListStateTrees(d, r) ==
    LET at == TreeView(d, r)
    IN [t \in {x \in Trees : at[x] # NoTree} |-> at[t]]

(* The NoState pairs, dumped from the transaction opened after the save. *)
ExportNoStateDB(u) == u.nostate

(* SnapshotManager.Do, up to Finish. *)
Snapshot(d, r, written) ==
    [height |-> d.version, root |-> r, nostate |-> ExportNoStateDB(BeginTx(d)),
     blobs |-> DeepListStateTrees(d, r), written |-> written]

(* Prune keeps the newest files. *)
Prune(files) ==
    {s \in files : Cardinality({x \in files : x.height > s.height}) < KeepRecent}

(* StateDB.Import writes the dumped trees next to the open transaction. *)
Import(d, blobs) ==
    [d EXCEPT !.trees = [t \in Trees |-> IF t \in DOMAIN blobs \ {Main} THEN blobs[t] ELSE @[t]]]

(* RestoreStateTree, for each dumped tree but the main one: after Import the *)
(* tree is opened, with the path to it, and marked dirty.                   *)
RestoreStateTree(u, blobs) ==
    LET subs == DOMAIN blobs \ {Main}
    IN [u EXCEPT !.open  = @ \cup ((subs \cup {Parent(t) : t \in subs}) \ {Main}),
                 !.dirty = @ \cup UNION {MarkDirty(u, t).dirty : t \in subs}]

ImportNoStateDB(u, pairs) == [u EXCEPT !.nostate = pairs]

(* Snapshot.Restore into a new state: the blobs, then Commit, which         *)
(* propagates the roots.                                                    *)
Restored(s) ==
    LET d == Import(initStateDB, s.blobs)
        u == RestoreStateTree(ImportNoStateDB(BeginTx(initStateDB), s.nostate), s.blobs)
    IN SaveWithoutCommit(d, CommitOnTx(d, u, s.height))

(* Save, then CommitState's snapshot when the node is in sync. *)
Save(synced) ==
    /\ phase = "prepared"
    /\ LET d == SaveWithoutCommit(db, tx)
       IN /\ db' = d
          /\ tx' = BeginTx(d)
          /\ view' = d.root
          /\ snaps' = IF synced /\ d.version % SnapshotInterval = 0
                      THEN Prune(snaps \cup {Snapshot(d, d.root, done)}) ELSE snaps
    /\ committed' = done
    /\ phase' = "open" /\ writes' = 0
    /\ UNCHANGED <<done, peer>>

(* Rollback at the start of every block execution. *)
Rollback ==
    /\ tx' = BeginTx(db)
    /\ phase' = "open" /\ writes' = 0 /\ done' = committed
    /\ UNCHANGED <<db, view, committed, snaps, peer>>

(* The process dies and State.New opens the database again. *)
Reopen ==
    /\ tx' = BeginTx(db) /\ view' = db.root
    /\ phase' = "open" /\ writes' = 0 /\ done' = committed
    /\ UNCHANGED <<db, committed, snaps, peer>>

(* The node lists the files it holds, by height ... *)
ListSnapshots == {s.height : s \in snaps}

(* ... and cuts the file of a height into chunks; a chunk is known by the   *)
(* file it is cut from.                                                     *)
SliceChunk(h) == CHOOSE s \in snaps : s.height = h

(* OfferSnapshot on the peer: CometBFT offers one snapshot at a time, and   *)
(* another one when it gave up on the first; chunk files are left behind.   *)
OfferSnapshot(h) ==
    /\ peer.db = NoTree
    /\ peer' = [peer EXCEPT !.offered = h]
    /\ UNCHANGED <<db, tx, view, phase, writes, done, committed, snaps>>

(* JoinChunks removes the files it reads, and stops at the first that is    *)
(* missing.                                                                 *)
JoinChunks(files) ==
    LET read == {i \in 0 .. SnapshotChunks - 1 : \A j \in 0 .. i : j \in DOMAIN files}
    IN [i \in DOMAIN files \ read |-> files[i]]

(* ApplySnapshotChunk: chunks come in any order and may come twice.  With   *)
(* all of them on disk the snapshot is put together and restored.  A file   *)
(* put together from chunks of two snapshots does not decode, or fails the  *)
(* app hash verification of CometBFT.                                       *)
ApplySnapshotChunk(i) ==
    /\ peer.db = NoTree /\ peer.offered \in ListSnapshots
    /\ LET chunk == SliceChunk(peer.offered)
           files == Put(peer.chunks, i, chunk)
           whole == Cardinality(DOMAIN files) = SnapshotChunks
           one   == \A j \in DOMAIN files : files[j] = chunk
       IN peer' = IF ~whole THEN [peer EXCEPT !.chunks = files]
                  ELSE [peer EXCEPT !.chunks = JoinChunks(files),
                                    !.db = IF one THEN Restored(chunk) ELSE NoTree,
                                    !.written = IF one THEN chunk.written ELSE @]
    /\ UNCHANGED <<db, tx, view, phase, writes, done, committed, snaps>>

---------------------------------------------------------------------------
SdbInit ==
    /\ db = initStateDB /\ tx = BeginTx(db) /\ view = db.root
    /\ phase = "open" /\ writes = 0
    /\ done = Nothing /\ committed = Nothing
    /\ snaps = {}
    /\ peer = [offered |-> NoSnapshot, chunks |-> <<>>, db |-> NoTree, written |-> Nothing]

SdbNext ==
    \/ \E m \in MainTrees, v \in PlainVals : SetValue(m, v)
    \/ \E p \in Pids, v \in Vals : AddProcess(p, v)
    \/ \E p \in Pids, v \in Vals : UpdateProcess(p, v)
    \/ \E p \in Pids, n \in Nullifiers, v \in Vals : AddVote(p, n, v)
    \/ \E p \in Pids : ReadVotes(p)
    \/ PrepareCommit
    \/ \E synced \in BOOLEAN : Save(synced)
    \/ Rollback
    \/ Reopen
    \/ \E h \in ListSnapshots : OfferSnapshot(h)
    \/ \E i \in 0 .. SnapshotChunks - 1 : ApplySnapshotChunk(i)

SdbSpec == SdbInit /\ [][SdbNext]_sdbVars

---------------------------------------------------------------------------
Content(at, t) ==
    IF at[t] = NoTree THEN <<>> ELSE [k \in DOMAIN at[t] |-> at[t][k].val]

VoteCount(written) ==
    MapThenSumSet(LAMBDA p : MapThenSumSet(LAMBDA n : 1 + written[Votes(p)][n].overwrites,
                                           DOMAIN written[Votes(p)]), Pids)

Holds(d, r, written) ==
    LET at == TreeView(d, r)
    IN /\ \A t \in Trees \ {Main} : Content(at, t) = written[t]
       /\ d.nostate = VoteCount(written)

(* Reading the trees from the root of the last saved block gives exactly    *)
(* what the blocks saved so far wrote, whatever the executing block has     *)
(* written, rolled back or lost since; and the vote counter, which no root  *)
(* covers, agrees with the votes and overwrites of the votes trees.  The    *)
(* same is true of a node that was restored from a snapshot, for the blocks *)
(* up to its height.                                                        *)
CommittedStateIsReadable ==
    /\ Holds(db, view, committed)
    /\ peer.db # NoTree => Holds(peer.db, peer.db.root, peer.written)
=============================================================================
