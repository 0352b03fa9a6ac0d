------------------------------ MODULE MCStores ------------------------------
(* What a node stores and serves, for one TLC run about safety: the SIK      *)
(* trees, the state database with its snapshots, the Merkle tree below it,   *)
(* the key-value databases, the census database, the indexer, the lists and  *)
(* items of the API, the mempool with its vote cache, and the clients that   *)
(* send transactions and wait for them. A behaviour is one of one component; *)
(* the others stay in their initial state.                                   *)
EXTENDS Sik

CONSTANTS
    Procs, Voters, Options, Metas, NoTitle, NoTx, IgnoreLiveResults, MidBlockBootstrap,
    BlockStoreBase, ScheduledEnd, MaxIdxHeight, MaxTxs, MaxOverwrites, MaxIdxCrashes,
    MaxLevels, ArboValues, CPULevels,
    MainTrees, TreeProcess, Pids, Nullifiers, Vals, PlainVals, NoTree, NoSnapshot,
    SnapshotInterval, KeepRecent, SnapshotChunks, MaxVersion, MaxWrites,
    Private, People, NoURI, Error, MaxImports, MaxPublications, MaxCrashes,
    Named, FirstIndexed, Zero, MaxBlocks, MaxItemsPerPage, DefaultItemsPerPage, Limits,
    Accounts,
    MaxByte, KvValues, KvTxs, MaxOps,
    Callers, Signers, Absent, Docs, MaxCalls, MaxBlockTxs, None,
    VoteTxs, Roots, Siks, Anonymous, MaxVoteOverwrites, PoolCensusSize,
    TransactionBlocksTTL, RecheckInterval, MaxPendingTxAttempts,
    PurgeInterval, PurgeThreshold, NoEntry

VARIABLES
    focus,  \* the component of this behaviour
    idxChain, idxSaved, idxOpen, idx, idxDb, blockTx, idxPool, dirty, counts, live, boot, titles,
    tree, content,
    sdb, stx, view, phase, writes, done, committed, snaps, peer,
    refs, trees, status, jobs, removing, ipfs, vouched, imports, publications, crashes,
    tables, walk,
    backend, store, kvTx, ops,
    chain, block, index, pool, pinned, wallets, call, calls, accepted, replies,
    votePool, voteRefs, cache, state, proposed, height, purging, replica, stale, waited

-----------------------------------------------------------------------------
(* Every election ends at the same block.                                    *)
MCEndBlock == [p \in Elections |-> 3]

Index == INSTANCE Indexer WITH
    chain <- idxChain, saved <- idxSaved, open <- idxOpen, db <- idxDb, pool <- idxPool

(* Keys that part at the first, the second and the last level.               *)
Tree == INSTANCE Arbo WITH
    ArboKeys <- {<<0, 0, 0>>, <<0, 0, 1>>, <<0, 1, 1>>, <<1, 1, 0>>}

States == INSTANCE StateDB WITH db <- sdb, tx <- stx

Censuses == INSTANCE Census

NewProcess(id, from) == [type |-> "newProcess", id |-> id, from |-> from]
Vote(id, from, nullifier) == [type |-> "vote", id |-> id, from |-> from, nullifier |-> nullifier]
SetProcess(id, from) == [type |-> "setProcess", id |-> id, from |-> from]
SendTokens(from, to) == [type |-> "sendTokens", id |-> 0, from |-> from, to |-> to]

(* Two elections in the reverse order of their ids, votes in the reverse     *)
(* order of their nullifiers, one vote overwritten, balances that cross.     *)
SampleBlocks ==
    {<<NewProcess(2, 1), NewProcess(1, 2)>>,
     <<NewProcess(3, 1), SendTokens(1, 2)>>,
     <<Vote(1, 1, 2), Vote(1, 2, 1)>>,
     <<Vote(1, 1, 2)>>,
     <<SetProcess(2, 1)>>,
     <<SendTokens(2, 1)>>}

Lists == INSTANCE Listings WITH db <- tables, Blocks <- SampleBlocks, Balances <- <<10, 10>>

(* The database, a prefix at the end of the byte range, and a longer one.    *)
Databases == INSTANCE Kv WITH
    tx <- kvTx, Views <- {<<>>, <<1>>, <<0, 1>>}, LocalKeys <- {<<0>>, <<1>>, <<0, 1>>}

(* Each signer has a document of its own.                                    *)
Clients == INSTANCE Client WITH Draft <- [s \in Signers |-> IF s \in Absent THEN 2 ELSE 1]

(* The votes share a nullifier, so that each may overwrite the other.        *)
Votes == INSTANCE Mempool WITH
    pool <- votePool, refs <- voteRefs, MaxCensusSize <- PoolCensusSize,
    Envelope <- [t \in VoteTxs |-> [nullifier |-> 1, meta |-> 1, root |-> 1, sik |-> 1]]

-----------------------------------------------------------------------------
idxVars == <<idxChain, idxSaved, idxOpen, idx, idxDb, blockTx, idxPool, dirty, counts, live, boot, titles>>
arboVars == <<tree, content>>
sdbVars == <<sdb, stx, view, phase, writes, done, committed, snaps, peer>>
censusVars == <<refs, trees, status, jobs, removing, ipfs, vouched, imports, publications, crashes>>
listVars == <<tables, walk>>
kvVars == <<backend, store, kvTx, ops>>
clientVars == <<chain, block, index, pool, pinned, wallets, call, calls, accepted, replies>>
poolVars == <<votePool, voteRefs, cache, state, proposed, height, purging, replica, stale, waited>>

vars == <<focus, sikVars, idxVars, arboVars, sdbVars, censusVars, listVars, kvVars, clientVars, poolVars>>

Init ==
    /\ focus \in {"sik", "indexer", "arbo", "statedb", "census", "lists", "kv", "client", "mempool"}
    /\ SikInit
    /\ Index!IdxInit
    /\ Tree!ArboInit
    /\ States!SdbInit
    /\ Censuses!CensusInit
    /\ Lists!ListInit
    /\ Databases!KvInit /\ (focus # "kv" => backend = "pebble")
    /\ Clients!ClientInit
    /\ Votes!PoolInit /\ (focus # "mempool" => state.meta = 1)

SikStep == focus = "sik" /\ SikNext
    /\ UNCHANGED <<focus, idxVars, arboVars, sdbVars, censusVars, listVars, kvVars, clientVars, poolVars>>

IndexStep == focus = "indexer" /\ Index!IdxNext
    /\ UNCHANGED <<focus, sikVars, arboVars, sdbVars, censusVars, listVars, kvVars, clientVars, poolVars>>

TreeStep == focus = "arbo" /\ Tree!ArboNext
    /\ UNCHANGED <<focus, sikVars, idxVars, sdbVars, censusVars, listVars, kvVars, clientVars, poolVars>>

StateStep == focus = "statedb" /\ States!SdbNext
    /\ UNCHANGED <<focus, sikVars, idxVars, arboVars, censusVars, listVars, kvVars, clientVars, poolVars>>

CensusStep == focus = "census" /\ Censuses!CensusNext
    /\ UNCHANGED <<focus, sikVars, idxVars, arboVars, sdbVars, listVars, kvVars, clientVars, poolVars>>

ListStep == focus = "lists" /\ Lists!ListNext
    /\ UNCHANGED <<focus, sikVars, idxVars, arboVars, sdbVars, censusVars, kvVars, clientVars, poolVars>>

KvStep == focus = "kv" /\ Databases!KvNext
    /\ UNCHANGED <<focus, sikVars, idxVars, arboVars, sdbVars, censusVars, listVars, clientVars, poolVars>>

ClientStep == focus = "client" /\ Clients!ClientNext
    /\ UNCHANGED <<focus, sikVars, idxVars, arboVars, sdbVars, censusVars, listVars, kvVars, poolVars>>

VoteStep == focus = "mempool" /\ Votes!PoolNext
    /\ UNCHANGED <<focus, sikVars, idxVars, arboVars, sdbVars, censusVars, listVars, kvVars, clientVars>>

Next ==
    \/ SikStep
    \/ IndexStep
    \/ TreeStep
    \/ StateStep
    \/ CensusStep
    \/ ListStep
    \/ KvStep
    \/ ClientStep
    \/ VoteStep

Spec == Init /\ [][Next]_vars

-----------------------------------------------------------------------------
(* The invariants of the components, in the behaviours of the component.     *)
(* Those of Sik are the ones of the module itself.                           *)

(* Indexer: between blocks the votes table is the votes of the saved state.  *)
IndexedVotesAreTheStates == focus = "indexer" => Index!IndexedVotesAreTheStates

(* Indexer: live results are the tally of the votes of the saved state.      *)
LiveResultsFollowState == focus = "indexer" => Index!LiveResultsFollowState

(* Indexer: a title belongs to the metadata the row names.                   *)
TitleOfCurrentMetadata == focus = "indexer" => Index!TitleOfCurrentMetadata

(* Arbo: the tree is the one its keys and values determine.                  *)
TreeHoldsItsContent == focus = "arbo" => Tree!TreeHoldsItsContent

(* StateDB: the saved root reads what the saved blocks wrote.                *)
CommittedStateIsReadable == focus = "statedb" => States!CommittedStateIsReadable

(* Census: a published census keeps answering with the root in its name.     *)
PublishedCensusIsItsRoot == focus = "census" => Censuses!PublishedCensusIsItsRoot

(* Listings: following nextPage misses no row that kept its place.           *)
PagesMissNothing == focus = "lists" => Lists!PagesMissNothing

(* Listings: counts, lists and the endpoints of an item agree.               *)
AnswersAgree == focus = "lists" => Lists!AnswersAgree

(* Kv: an iteration gives what Get answers.                                  *)
IterateAgreesWithGet == focus = "kv" => Databases!IterateAgreesWithGet

(* Client: an election gets the id its creator was told.                     *)
ReplyNamesElection == focus = "client" => Clients!ReplyNamesElection

(* Client: no document of a refused request is published.                    *)
PinnedIsSubmitted == focus = "client" => Clients!PinnedIsSubmitted

(* Client: a client that waited signs its next transaction with a new nonce. *)
NextNonceIsFresh == focus = "client" => Clients!NextNonceIsFresh

(* Client: what the committed state holds, the indexer holds.                *)
CommittedIsIndexed == focus = "client" => Clients!CommittedIsIndexed

(* Mempool: a node without the vote cache reaches the same votes.            *)
ReplayReachesSameVotes == focus = "mempool" => Votes!ReplayReachesSameVotes

(* Mempool: no transaction outlives transactionBlocksTTL in the mempool.     *)
TxsExpire == focus = "mempool" => Votes!TxsExpire

=============================================================================
