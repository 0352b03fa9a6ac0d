------------------------------- MODULE Mempool -------------------------------
(***************************************************************************)
(* The road of a vote transaction through a node: CheckTx admits it to the *)
(* mempool and keeps the checked vote in a memory cache; PrepareProposal   *)
(* tries the mempool; ProcessProposal and FinalizeBlock deliver the        *)
(* transactions of a block; after the block CometBFT checks the rest of    *)
(* the mempool again.  A cached vote is delivered without verifying its    *)
(* proof a second time.                                                    *)
(*                                                                         *)
(* Heights are kept as ages, the number of blocks since an entry was made, *)
(* capped where the code no longer tells them apart, so that blocks go on  *)
(* for ever in a finite state space.  The transactions are votes of one    *)
(* election; updates of the election come last in a block, as the          *)
(* proposer's sort puts them after the votes.                              *)
(***************************************************************************)
EXTENDS Naturals, FiniteSets, Sequences, FiniteSetsExt, SequencesExt

CONSTANTS
    VoteTxs,              \* vote transactions, identified by their hash
    Envelope,             \* what each one holds: nullifier, meta, root, sik
    Metas, Roots, Siks,   \* metadata hashes, census roots and SIK roots
    Anonymous,            \* whether the election is anonymous
    MaxVoteOverwrites,
    MaxCensusSize,
    TransactionBlocksTTL, RecheckInterval, MaxPendingTxAttempts,
    PurgeInterval, PurgeThreshold,
    NoEntry

VARIABLES
    pool,      \* transactions in the CometBFT mempool of this node
    refs,      \* txReferences: the age and the failed attempts of a transaction
    cache,     \* the vote cache: the age of the entry of each transaction
    state,     \* the committed state of the election
    proposed,  \* the block executed by ProcessProposal, and its outcome
    height,    \* the height, modulo the two intervals
    purging,   \* whether the goroutine of CachePurge is still to run
    replica,   \* the state of a node that delivers the same blocks uncached,
               \* followed while stale is false
    stale,     \* whether a vote was ever delivered with an outdated proof
    waited     \* how many blocks a transaction has been in the mempool since
               \* the node last began a reference to it

poolVars == <<pool, refs, cache, state, proposed, height, purging, replica, stale, waited>>

VoteNullifiers == {Envelope[t].nullifier : t \in VoteTxs}

ElectionStates ==
    [ready : BOOLEAN, meta : Metas, root : Roots, siks : SUBSET Siks,
     votes : [VoteNullifiers -> [tx : VoteTxs \cup {NoEntry}, casts : 0 .. MaxVoteOverwrites + 1]]]

PoolTypeOK ==
    /\ pool \subseteq VoteTxs
    /\ refs \in [VoteTxs -> [age : 0 .. TransactionBlocksTTL + 1,
                             failed : 0 .. MaxPendingTxAttempts] \cup {NoEntry}]
    /\ cache \in [VoteTxs -> 0 .. PurgeThreshold \cup {NoEntry}]
    /\ state \in ElectionStates
    /\ replica \in ElectionStates \cup {NoEntry}
    /\ height \in 0 .. RecheckInterval * PurgeInterval - 1
    /\ purging \in BOOLEAN
    /\ stale \in BOOLEAN
    /\ waited \in [VoteTxs -> 0 .. TransactionBlocksTTL + 1]

PoolInit ==
    /\ pool = {}
    /\ refs = [t \in VoteTxs |-> NoEntry]
    /\ cache = [t \in VoteTxs |-> NoEntry]
    /\ \E m \in Metas, r \in Roots :
          state = [ready |-> TRUE, meta |-> m, root |-> r, siks |-> Siks,
                   votes |-> [n \in VoteNullifiers |-> [tx |-> NoEntry, casts |-> 0]]]
    /\ proposed = NoEntry
    /\ height = 0
    /\ purging = FALSE
    /\ replica = state
    /\ stale = FALSE
    /\ waited = [t \in VoteTxs |-> 0]

-----------------------------------------------------------------------------
(* Checking a vote *)

\* The proof is for the census root and, in an anonymous election, for a SIK
\* root that has not expired.
VerifyProof(t, st) ==
    /\ Envelope[t].root = st.root
    /\ Anonymous => Envelope[t].sik \in st.siks

checkVoteMetadataHash(t, st) == Envelope[t].meta = st.meta

Casts(t, st) == st.votes[Envelope[t].nullifier].casts

\* A new vote, or an overwrite below the limit.
checkVoteCanBeCasted(t, st) == Casts(t, st) = 0 \/ Casts(t, st) <= MaxVoteOverwrites

CountVotes(st) == Cardinality({n \in VoteNullifiers : st.votes[n].casts > 0})

\* Faulty: the metadata hash is only checked with the proof.
VoteTxCheck_CachedMetadata(t, st, fromCache) ==
    /\ st.ready
    /\ checkVoteCanBeCasted(t, st)
    /\ CountVotes(st) < MaxCensusSize \/ Casts(t, st) > 0
    /\ fromCache \/ (checkVoteMetadataHash(t, st) /\ VerifyProof(t, st))

\* The checks of a vote; a cached vote has its proof verified already.
VoteTxCheck(t, st, fromCache) ==
    /\ st.ready
    /\ checkVoteMetadataHash(t, st)
    /\ checkVoteCanBeCasted(t, st)
    /\ CountVotes(st) < MaxCensusSize \/ Casts(t, st) > 0
    /\ fromCache \/ VerifyProof(t, st)

AddVote(t, st) ==
    [st EXCEPT !.votes[Envelope[t].nullifier] = [tx |-> t, casts |-> @.casts + 1]]

-----------------------------------------------------------------------------
(* The mempool connection *)

\* Faulty: the reference is renewed whenever the transaction is checked.
Referenced_Renewed(ref) == [age |-> 0, failed |-> IF ref = NoEntry THEN 0 ELSE ref.failed]

\* The height at which a transaction is first seen is remembered.
Referenced(ref) == IF ref = NoEntry THEN [age |-> 0, failed |-> 0] ELSE ref

\* CheckTx of transaction t with its reference and cache entry: whether it is
\* accepted, and the two after it.  A vote that is already in the cache is
\* accepted again.  A recheck only looks at the age, except every
\* RecheckInterval blocks.
CheckTx(t, st, h, ref, entry, recheck) ==
    LET seen == Referenced(ref)
        reply(ok, e) == [ok |-> ok, ref |-> seen, entry |-> e]
    IN  IF seen.age > TransactionBlocksTTL THEN [ok |-> FALSE, ref |-> NoEntry, entry |-> entry]
        ELSE IF recheck /\ h % RecheckInterval # 0 THEN reply(TRUE, entry)
        ELSE IF st.ready /\ entry # NoEntry THEN reply(TRUE, entry)
        ELSE IF VoteTxCheck(t, st, FALSE) THEN reply(TRUE, 0)
        ELSE reply(FALSE, entry)

\* The state that checks see: the on-going one after ProcessProposal.
Current == IF proposed = NoEntry THEN state ELSE proposed.state

\* A client or a peer sends a transaction that is not in the mempool.
Submit(t) ==
    LET o == CheckTx(t, Current, height, refs[t], cache[t], FALSE)
    IN  /\ t \notin pool
        /\ pool' = IF o.ok THEN pool \cup {t} ELSE pool
        /\ refs' = [refs EXCEPT ![t] = o.ref]
        /\ cache' = [cache EXCEPT ![t] = o.entry]
        /\ UNCHANGED <<state, proposed, height, purging, replica, stale, waited>>

\* The cache is shared by all elections and bounded: the votes of others may
\* push an entry out at any time.
Evict(t) ==
    /\ cache[t] # NoEntry
    /\ cache' = [cache EXCEPT ![t] = NoEntry]
    /\ UNCHANGED <<pool, refs, state, proposed, height, purging, replica, stale, waited>>

-----------------------------------------------------------------------------
(* The consensus connection *)

\* Delivering the transactions of a block in order: the state, the cache, the
\* references, the failed transactions, and whether a proof was outdated.  A
\* cached vote leaves the cache whatever the outcome.
Deliver(x, t) ==
    LET cached == x.state.ready /\ x.cache[t] # NoEntry
        ok == VoteTxCheck(t, x.state, cached)
    IN  [state   |-> IF ok THEN AddVote(t, x.state) ELSE x.state,
         cache   |-> IF cached THEN [x.cache EXCEPT ![t] = NoEntry] ELSE x.cache,
         refs    |-> IF ok THEN [x.refs EXCEPT ![t] = NoEntry] ELSE x.refs,
         invalid |-> IF ok THEN x.invalid ELSE x.invalid \cup {t},
         stale   |-> x.stale \/ (ok /\ cached /\ ~VerifyProof(t, x.state))]

ExecuteBlock(txs, st, c) ==
    FoldLeft(Deliver, [state |-> st, cache |-> c, refs |-> refs, invalid |-> {}, stale |-> FALSE], txs)

NoCache == [t \in VoteTxs |-> NoEntry]

\* The votes of a block: some transactions in some order.
VoteBlocks == UNION {SetToSeqs(s) : s \in SUBSET VoteTxs}

\* What the other transactions of a block may do to the election.
Updates ==
    [field : {"status"}] \cup [field : {"meta"}, to : Metas]
      \cup [field : {"root"}, to : Roots] \cup [field : {"sik"}, expired : Siks]

Updated(st, u) ==
    CASE u = NoEntry        -> st
      [] u.field = "status" -> [st EXCEPT !.ready = FALSE]
      [] u.field = "meta"   -> [st EXCEPT !.meta = u.to]
      [] u.field = "root"   -> [st EXCEPT !.root = u.to]
      [] u.field = "sik"    -> [st EXCEPT !.siks = @ \ {u.expired}]

\* Only a transaction with a reference in the mempool waits.
Waited(w) == [t \in VoteTxs |-> IF t \in pool' /\ refs'[t] # NoEntry THEN w[t] ELSE 0]

\* This node tries the mempool on the on-going state and rolls it back.  A
\* transaction that failed too often is removed.
PrepareProposal ==
    \E order \in SetToSeqs(pool) : \E x \in {ExecuteBlock(order, state, cache)} :
       LET over == {t \in x.invalid : refs[t] # NoEntry /\ refs[t].failed = MaxPendingTxAttempts}
       IN  /\ pool # {}
           /\ pool' = pool \ over
           /\ refs' = [t \in VoteTxs |->
                         IF t \in over THEN NoEntry
                         ELSE IF t \in x.invalid /\ refs[t] # NoEntry
                              THEN [refs[t] EXCEPT !.failed = @ + 1] ELSE refs[t]]
           /\ cache' = x.cache
           /\ proposed' = NoEntry
           /\ waited' = Waited(waited)
           /\ UNCHANGED <<state, height, purging, replica, stale>>

\* A validator executes a proposal; one with an invalid transaction is rejected.
ProcessProposal(txs) ==
    \E x \in {ExecuteBlock(txs, state, cache)} :
        /\ refs' = x.refs
        /\ cache' = x.cache
        /\ pool' = pool \ x.invalid
        /\ proposed' = IF x.invalid = {} THEN [txs |-> txs, state |-> x.state, stale |-> x.stale]
                       ELSE NoEntry
        /\ waited' = Waited(waited)
        /\ UNCHANGED <<state, height, purging, replica, stale>>

Older(n, cap) == IF n = cap THEN n ELSE n + 1

AgedRefs(rs) ==
    [t \in VoteTxs |-> IF rs[t] = NoEntry THEN NoEntry
                       ELSE [rs[t] EXCEPT !.age = Older(@, TransactionBlocksTTL + 1)]]

AgedCache(c) == [t \in VoteTxs |-> IF c[t] = NoEntry THEN NoEntry ELSE Older(c[t], PurgeThreshold)]

\* A block is decided.  FinalizeBlock executes it, unless it is the one that
\* ProcessProposal executed; CometBFT drops its transactions from the mempool
\* and checks the rest again.
FinalizeBlock(txs, u) ==
    \E x \in {IF proposed # NoEntry /\ proposed.txs = txs
              THEN [state |-> proposed.state, cache |-> cache, refs |-> refs, stale |-> proposed.stale]
              ELSE ExecuteBlock(txs, state, cache)} :
    \E st \in {Updated(x.state, u)}, ref \in {AgedRefs(x.refs)}, entry \in {AgedCache(x.cache)} :
    LET h == (height + 1) % (RecheckInterval * PurgeInterval)
    IN  \E recheck \in {[t \in pool \ ToSet(txs) |-> CheckTx(t, st, h, ref[t], entry[t], TRUE)]} :
        /\ state' = st
        /\ stale' = (stale \/ x.stale)
        /\ replica' = IF stale' THEN NoEntry
                      ELSE Updated(ExecuteBlock(txs, replica, NoCache).state, u)
        /\ pool' = {t \in DOMAIN recheck : recheck[t].ok}
        /\ refs' = [t \in VoteTxs |-> IF t \in DOMAIN recheck THEN recheck[t].ref ELSE ref[t]]
        /\ cache' = [t \in VoteTxs |-> IF t \in DOMAIN recheck THEN recheck[t].entry ELSE entry[t]]
        /\ waited' = Waited([t \in VoteTxs |->
                               IF ref[t] = NoEntry THEN 0 ELSE Older(waited[t], TransactionBlocksTTL + 1)])
        /\ height' = h
        /\ proposed' = NoEntry
        /\ purging' = (purging \/ h % PurgeInterval = 0)

\* The goroutine that beginBlock starts every PurgeInterval blocks.
CachePurge ==
    /\ purging
    /\ cache' = [t \in VoteTxs |-> IF cache[t] = PurgeThreshold THEN NoEntry ELSE cache[t]]
    /\ purging' = FALSE
    /\ UNCHANGED <<pool, refs, state, proposed, height, replica, stale, waited>>

\* The mempool, the references and the cache are lost.
RestartNode ==
    /\ pool' = {}
    /\ refs' = [t \in VoteTxs |-> NoEntry]
    /\ cache' = NoCache
    /\ proposed' = NoEntry
    /\ purging' = FALSE
    /\ waited' = Waited(waited)
    /\ UNCHANGED <<state, height, replica, stale>>

\* A block with votes and an update is taken apart into two blocks, in the
\* order of the proposer's sort, to keep the number of steps small.
NextBlock ==
    \/ \E txs \in VoteBlocks : FinalizeBlock(txs, NoEntry)
    \/ \E u \in {v \in Updates : Updated(state, v) # state} : FinalizeBlock(<<>>, u)

PoolNext ==
    \/ \E t \in VoteTxs : Submit(t) \/ Evict(t)
    \/ PrepareProposal
    \/ \E txs \in VoteBlocks : ProcessProposal(txs)
    \/ NextBlock
    \/ CachePurge
    \/ RestartNode

PoolSpec == PoolInit /\ [][PoolNext]_poolVars

-----------------------------------------------------------------------------
(* Properties *)

\* The cache of VoteTxCheck only spares the verification of a proof: a node
\* that delivers the same blocks without a cached vote, after a restart or
\* when it catches up, reaches the same votes, unless a cached vote was
\* delivered whose census root or SIK root had been replaced since.
ReplayReachesSameVotes == ~stale => replica = state

\* A transaction does not wait in the mempool for more than transactionBlocksTTL
\* blocks after the node began its reference: a block holds it, it fails too
\* often in PrepareProposal, fails a recheck or expires in CheckTx. Only an
\* executed proposal that delivers it, and is not decided, starts its time again.
TxsExpire == \A t \in pool : waited[t] <= TransactionBlocksTTL

=============================================================================
