------------------------------- MODULE Indexer -------------------------------
(***************************************************************************)
(* The indexer: a relational copy of the chain that the API reads.  It     *)
(* listens to the state and collects a block's rows in one SQL transaction *)
(* (blockTx), which is committed when the block is and rolled back when    *)
(* the execution is.  Live results are not recounted but updated from the  *)
(* votes of the block; after a restart they are recovered once the chain   *)
(* is synced.                                                              *)
(*                                                                         *)
(* The state is abstracted to the elections and the votes the indexer      *)
(* reads from it.  Listeners commit before the state is saved, so a crash  *)
(* in between leaves the tables one block ahead of the state, and the      *)
(* block is executed and indexed again.                                    *)
(***************************************************************************)
EXTENDS Integers, Sequences, FiniteSets, FiniteSetsExt

CONSTANTS
    Procs,             \* process ids
    Voters,            \* a vote's nullifier is the pair process, voter
    Options,           \* the options of the single question of a ballot
    Metas,             \* metadata documents, by URI and hash; each has a title
    NoTitle,           \* a title that was never resolved
    NoTx,              \* blockTx = nil
    IgnoreLiveResults, \* Options.IgnoreLiveResults
    MidBlockBootstrap, \* whether the bootstrap may run while a block is executed
    BlockStoreBase,    \* the lowest height the block store holds
    ScheduledEnd,      \* start time plus duration, of every election
    MaxIdxHeight,      \* bound on the chain height
    MaxTxs,            \* bound on the transactions of a block
    MaxOverwrites,     \* VoteOptions.MaxVoteOverwrites
    MaxIdxCrashes      \* bound on the restarts

VARIABLES
    chain,  \* the decided blocks, sequences of transactions (external)
    saved,  \* the saved state: elections and votes
    open,   \* the state in the open transaction
    idx,    \* the position in the block: phase, the executed transactions, the
            \* saved height, whether the node is synced, the restarts so far
    db,     \* the committed tables
    blockTx,\* the tables as the open SQL transaction sees them, or NoTx
    pool,   \* votePool: the votes of the block that count in the live results
    dirty,  \* blockUpdateProcs
    counts, \* blockUpdateProcVoteCounts
    live,   \* liveResultsProcs
    boot,   \* the next step of AfterSyncBootstrap
    titles  \* titles the API has resolved and not written yet

chainVars == <<chain, saved, open, idx>>
memVars == <<pool, dirty, counts, live>>
idxVars == <<chain, saved, open, idx, db, blockTx, pool, dirty, counts, live, boot, titles>>

Put(f, k, v) == [x \in DOMAIN f \cup {k} |-> IF x = k THEN v ELSE f[x]]
NoKeys == [x \in {} |-> x]

-----------------------------------------------------------------------------
(* Results *)

\* NewEmptyVotes
EmptyResults == [votes |-> [c \in Options |-> 0], weight |-> 0]

\* Results.Add and Results.Sub, with sign 1 and -1.
Combine(r, s, sign) ==
    [votes  |-> [c \in Options |-> r.votes[c] + sign * s.votes[c]],
     weight |-> r.weight + sign * s.weight]

\* The live results of a set of votes, which adding them one by one gives.
Tally(votes, encrypted) ==
    [votes  |-> [c \in Options |->
                   IF encrypted THEN 0 ELSE Cardinality({k \in DOMAIN votes : votes[k].choice = c})],
     weight |-> Cardinality(DOMAIN votes)]

VotesOf(s, p) == [k \in {k \in DOMAIN s.votes : k[1] = p} |-> s.votes[k]]

-----------------------------------------------------------------------------
(* Tables *)

\* blockTxQueries: opens the block's transaction when there is none.
Queries == IF blockTx = NoTx THEN db ELSE blockTx

CreateProcess(t, p, row, h, i) ==
    IF p \in DOMAIN t.procs THEN t
    ELSE [t EXCEPT !.procs = Put(@, p, row), !.history = @ \cup {<<p, h, i, row.meta>>}]

CreateVote(t, k, v, h, i) ==
    IF k[1] \notin DOMAIN t.procs THEN t  \* the foreign key
    ELSE [t EXCEPT !.votes = Put(@, k, [vote |-> v, height |-> h, index |-> i])]

\* SetProcessKeyReveal keeps the earliest transaction.
SetProcessKeyReveal(t, p, h) ==
    IF p \in DOMAIN t.procs /\ (t.procs[p].reveal = 0 \/ t.procs[p].reveal > h)
    THEN [t EXCEPT !.procs[p].reveal = h] ELSE t

\* indexTx: the row is keyed by the hash of the transaction; the transaction
\* that reveals keys is also recorded on the process.
IndexTx(t, tx, h, i) ==
    LET stored == [t EXCEPT !.txs = Put(@, <<h, i>>, tx)]
    IN  IF tx.type = "reveal" THEN SetProcessKeyReveal(stored, tx.pid, h) ELSE stored

\* A block row, complete or as a migration left it.
CreateBlock(t, h) == [t EXCEPT !.blocks = Put(@, h, "complete")]

\* Every paid transaction: OnSpendTokens inserts a row without a natural key,
\* OnSetAccount upserts the payer's row, whose resolved name is kept.
CreateTokenFee(t) == [t EXCEPT !.fees = @ + 1, !.accountNonce = @ + 1]

\* UpdateProcessFromState: new metadata resets the resolved title.
UpdateProcessFromState(row, p) ==
    [row EXCEPT !.title = IF row.meta # open.procs[p].meta THEN NoTitle ELSE @,
                !.meta = open.procs[p].meta,
                !.status = open.procs[p].status,
                !.end = ScheduledEnd]

\* updateProcess: the changes that depend on the status the row had before.
UpdateProcess(t, p, now) ==
    IF p \notin DOMAIN open.procs \cap DOMAIN t.procs THEN t
    ELSE LET before == t.procs[p]
             row == UpdateProcessFromState(before, p)
             becomes(s) == row.status = s /\ before.status # s
         IN  [t EXCEPT !.procs[p] =
                CASE becomes("ENDED") ->
                       [row EXCEPT !.end = now, !.manuallyEnded = now < before.end]
                  [] becomes("RESULTS") ->
                       [row EXCEPT !.haveResults = TRUE, !.final = TRUE, !.end = now,
                                   !.results = open.procs[p].results]
                  [] becomes("CANCELED") ->
                       [row EXCEPT !.haveResults = FALSE, !.final = TRUE, !.end = now,
                                   !.manuallyEnded = TRUE]
                  [] OTHER -> row]

\* UpdateProcessResults: final results are never changed.
UpdateProcessResults(t, p, r) ==
    IF t.procs[p].final THEN t ELSE [t EXCEPT !.procs[p].results = r]

ComputeProcessVoteCount(t, p) ==
    IF p \notin DOMAIN t.procs THEN t
    ELSE [t EXCEPT !.procs[p].voteCount = Cardinality({k \in DOMAIN t.votes : k[1] = p})]

-----------------------------------------------------------------------------
(* The chain: transactions and what they do to the state (external) *)

Transactions ==
    [type : {"newProcess"}, pid : Procs, encrypted : BOOLEAN]
    \cup [type : {"vote"}, pid : Procs, voter : Voters, choice : Options]
    \cup [type : {"metadata"}, pid : Procs, meta : Metas]
    \cup [type : {"end", "cancel", "reveal", "results"}, pid : Procs]

Has(s, p, status) == p \in DOMAIN s.procs /\ s.procs[p].status = status

Key(tx) == <<tx.pid, tx.voter>>

\* The results of an election are published in a later block than its end, and
\* those of an encrypted one once its keys are revealed.
TxValid(tx) ==
    CASE tx.type = "newProcess" -> tx.pid \notin DOMAIN open.procs
      [] tx.type = "vote" ->
           /\ Has(open, tx.pid, "READY")
           /\ Key(tx) \in DOMAIN open.votes => open.votes[Key(tx)].overwrites < MaxOverwrites
      [] tx.type = "metadata" -> Has(open, tx.pid, "READY") /\ open.procs[tx.pid].meta # tx.meta
      [] tx.type \in {"end", "cancel"} -> Has(open, tx.pid, "READY")
      [] tx.type = "reveal" -> /\ Has(saved, tx.pid, "ENDED") /\ Has(open, tx.pid, "ENDED")
                               /\ open.procs[tx.pid].encrypted /\ ~open.procs[tx.pid].revealed
      [] tx.type = "results" -> /\ Has(saved, tx.pid, "ENDED") /\ Has(open, tx.pid, "ENDED")
                                /\ open.procs[tx.pid].encrypted => open.procs[tx.pid].revealed

NewStatus == [end |-> "ENDED", cancel |-> "CANCELED"]

\* The vote as the state stores it.
Ballot(tx) ==
    [choice |-> tx.choice,
     overwrites |-> IF Key(tx) \in DOMAIN open.votes THEN open.votes[Key(tx)].overwrites + 1 ELSE 0]

Applied(s, tx) ==
    CASE tx.type = "newProcess" ->
           [s EXCEPT !.procs = Put(@, tx.pid, [status |-> "READY", encrypted |-> tx.encrypted,
              revealed |-> FALSE, meta |-> CHOOSE m \in Metas : TRUE, results |-> EmptyResults])]
      [] tx.type = "vote" -> [s EXCEPT !.votes = Put(@, Key(tx), Ballot(tx))]
      [] tx.type = "metadata" -> [s EXCEPT !.procs[tx.pid].meta = tx.meta]
      [] tx.type \in {"end", "cancel"} -> [s EXCEPT !.procs[tx.pid].status = NewStatus[tx.type]]
      [] tx.type = "reveal" -> [s EXCEPT !.procs[tx.pid].revealed = TRUE]
      [] tx.type = "results" ->
           [s EXCEPT !.procs[tx.pid].status = "RESULTS",
                     !.procs[tx.pid].results = Tally(VotesOf(s, tx.pid), FALSE)]

-----------------------------------------------------------------------------
(* The listener *)

Now == idx.height + 1

\* OnProcess: newEmptyProcess reads the process from the open state.
NewEmptyProcess(t, tx, i) ==
    CreateProcess(t, tx.pid,
        [status |-> "READY", encrypted |-> tx.encrypted, meta |-> CHOOSE m \in Metas : TRUE,
         title |-> NoTitle, voteCount |-> 0, haveResults |-> ~tx.encrypted, final |-> FALSE,
         results |-> EmptyResults, reveal |-> 0, end |-> ScheduledEnd, manuallyEnded |-> FALSE],
        Now, i)

\* The rows of the events of a transaction: OnProcess, OnVote and
\* OnProcessMetadataChange write, the others only mark the process.
EventRows(t, tx, i) ==
    CASE tx.type = "newProcess" -> NewEmptyProcess(CreateTokenFee(t), tx, i)
      [] tx.type = "vote" -> CreateVote(t, Key(tx), Ballot(tx), Now, i)
      [] tx.type = "metadata" ->
           [CreateTokenFee(t) EXCEPT !.history = @ \cup {<<tx.pid, Now, i, tx.meta>>}]
      [] OTHER -> t

\* Only the last vote of a nullifier in the block is kept.
PoolVote(tx) ==
    IF tx.type = "vote" /\ ~IgnoreLiveResults /\ tx.pid \in live
    THEN Put(pool, Key(tx), Ballot(tx)) ELSE pool

\* OnVote marks the process for a new vote count; OnCancel, OnProcessKeys,
\* OnProcessStatusChange, OnProcessMetadataChange, OnRevealKeys, OnProcessResults
\* and the like mark it for an update; OnProcess adds it to the live results.
Marked(tx) ==
    /\ pool' = PoolVote(tx)
    /\ counts' = IF tx.type = "vote" THEN counts \cup {tx.pid} ELSE counts
    /\ dirty' = IF tx.type \in {"newProcess", "vote"} THEN dirty ELSE dirty \cup {tx.pid}
    /\ live' = IF tx.type = "newProcess" /\ idx.synced THEN live \cup {tx.pid} ELSE live

\* A transaction of the block is executed; OnNewTx comes after its events.
\* The publication of results is no transaction but a scheduled action.
DeliverTx(tx) ==
    LET i == Len(idx.block) + 1
        rows == EventRows(Queries, tx, i)
    IN  /\ idx.phase = "open" /\ Len(idx.block) < MaxTxs
        /\ idx.height < Len(chain) =>
             /\ Len(idx.block) < Len(chain[Now])
             /\ tx = chain[Now][i]
        /\ TxValid(tx)
        /\ open' = Applied(open, tx)
        /\ idx' = [idx EXCEPT !.block = Append(@, tx)]
        /\ Marked(tx)
        /\ IF tx.type # "results" THEN blockTx' = IndexTx(rows, tx, Now, i)
           ELSE UNCHANGED blockTx
        /\ UNCHANGED <<chain, saved, db, boot, titles>>

\* Faulty: the rows of the execution that is rolled back stay.
Rollback_TxKept ==
    /\ pool' = NoKeys /\ dirty' = {} /\ counts' = {}
    /\ UNCHANGED <<blockTx, live>>

\* Indexer.Rollback
Rollback ==
    /\ pool' = NoKeys /\ dirty' = {} /\ counts' = {}
    /\ blockTx' = NoTx
    /\ UNCHANGED live

\* beginBlock: every execution of a block starts with a rollback, also when the
\* block was executed as a proposal before.  The node is synced once CometBFT
\* has caught up.
BeginBlock ==
    /\ idx.phase \in {"idle", "open"} /\ idx.height < MaxIdxHeight
    /\ \E synced \in {idx.synced, idx.height = Len(chain)} :
         idx' = [idx EXCEPT !.phase = "open", !.block = <<>>, !.synced = synced]
    /\ open' = saved
    /\ Rollback
    /\ UNCHANGED <<chain, saved, db, boot, titles>>

\* Commit subtracts the vote of the saved state that a vote replaces.
Overwritten(k) == pool[k].overwrites > 0 /\ k \in DOMAIN saved.votes

\* An overwrite whose count did not increase is left out.
Counted(k) == Overwritten(k) => pool[k].overwrites > saved.votes[k].overwrites

\* commitVotesUnsafe: the stored results, minus the votes that are overwritten,
\* plus those of the pool.
CommitVotes(t, p) ==
    IF p \notin DOMAIN t.procs THEN t
    ELSE LET enc == t.procs[p].encrypted
             keys == {k \in DOMAIN pool : k[1] = p /\ Counted(k)}
             added == Tally([k \in keys |-> pool[k]], enc)
             removed == Tally([k \in {k \in keys : Overwritten(k)} |-> saved.votes[k]], enc)
         IN  UpdateProcessResults(t, p, Combine(Combine(t.procs[p].results, removed, -1), added, 1))

\* Indexer.Commit: the tables it commits.
Committed ==
    LET block == CreateBlock(Queries, Now)
        updated == FoldSet(LAMBDA p, t : UpdateProcess(t, p, Now), block, dirty)
        voted == FoldSet(LAMBDA p, t : CommitVotes(t, p), updated, {k[1] : k \in DOMAIN pool})
    IN  FoldSet(LAMBDA p, t : ComputeProcessVoteCount(t, p), voted, counts)

\* finalizeResults takes the process out of the live results.
Finalized ==
    {p \in dirty \cap DOMAIN open.procs \cap DOMAIN Queries.procs :
       open.procs[p].status = "RESULTS" /\ Queries.procs[p].status # "RESULTS"}

\* State.Save, first part: the listeners commit the block.
CommitListeners ==
    /\ idx.phase = "open"
    /\ chain' = IF idx.height = Len(chain) THEN Append(chain, idx.block) ELSE chain
    /\ idx.block = chain'[Now]
    /\ idx' = [idx EXCEPT !.phase = "indexed"]
    /\ db' = Committed
    /\ blockTx' = NoTx
    /\ pool' = NoKeys /\ dirty' = {} /\ counts' = {}
    /\ live' = live \ Finalized
    /\ UNCHANGED <<saved, open, boot, titles>>

\* State.Save, second part: the state is saved.
SaveState ==
    /\ idx.phase = "indexed"
    /\ saved' = open
    /\ idx' = [idx EXCEPT !.phase = "idle", !.block = <<>>, !.height = Now]
    /\ UNCHANGED <<chain, open, db, blockTx, memVars, boot, titles>>

-----------------------------------------------------------------------------
(* Restart and bootstrap *)

\* startDB: votes older than the oldest indexed block cannot be dated.
MaxUndatedVoteHeight(t) ==
    LET heights == {t.votes[k].height : k \in DOMAIN t.votes}
    IN  CASE heights = {} -> 0
          [] DOMAIN t.blocks = {} -> Max(heights)
          [] Min(heights) < Min(DOMAIN t.blocks) -> Min(DOMAIN t.blocks) - 1
          [] OTHER -> 0

\* The columns the migrations add are empty: the bodies of transactions, the
\* hashes of blocks, the key reveals and the titles of elections.
Migrated(t) ==
    [t EXCEPT !.txs = [k \in DOMAIN @ |-> NoTx],
              !.blocks = [h \in DOMAIN @ |-> "partial"],
              !.procs = [p \in DOMAIN @ |-> [@[p] EXCEPT !.reveal = 0, !.title = NoTitle]]]

\* The node stops at any point and starts again, perhaps with a release that
\* brings a migration: New and startDB.
Restart(migration) ==
    /\ idx.restarts < MaxIdxCrashes
    /\ db' = IF migration THEN Migrated(db) ELSE db
    /\ boot' = [step |-> "blocks", migrated |-> migration, undated |-> MaxUndatedVoteHeight(db)]
    /\ idx' = [phase |-> "idle", block |-> <<>>, height |-> idx.height,
               synced |-> FALSE, restarts |-> idx.restarts + 1]
    /\ open' = saved
    /\ blockTx' = NoTx /\ pool' = NoKeys /\ dirty' = {} /\ counts' = {} /\ live' = {}
    /\ titles' = {}
    /\ UNCHANGED <<chain, saved>>

\* AfterSyncBootstrap runs in a goroutine of its own and takes the lock of the
\* block, but the callbacks of a block take it one by one.
MayBootstrap(step) ==
    /\ boot.step = step
    /\ idx.synced
    /\ MidBlockBootstrap \/ idx.phase = "idle"

\* reindexBlocks over the heights of the block store.
Reindexed(t) ==
    LET heights == BlockStoreBase .. Len(chain)
    IN  FoldSet(LAMBDA h, a :
            FoldSet(LAMBDA i, b : IF chain[h][i].type = "results" THEN b
                                  ELSE IndexTx(b, chain[h][i], h, i),
                    CreateBlock(a, h), DOMAIN chain[h]),
            t, heights)

\* bootstrapBlocks; the transaction is committed at once, with whatever the
\* block that is being executed has put there.
BootstrapBlocks ==
    /\ MayBootstrap("blocks")
    /\ IF boot.migrated \/ (boot.undated > 0 /\ boot.undated >= BlockStoreBase)
       THEN db' = Reindexed(Queries) /\ blockTx' = NoTx
       ELSE UNCHANGED <<db, blockTx>>
    /\ boot' = [step |-> "reveals", migrated |-> FALSE, undated |-> 0]
    /\ UNCHANGED <<chainVars, memVars, titles>>

\* bootstrapKeyReveals writes through the single read-write connection, which an
\* open block transaction holds.
BootstrapKeyReveals ==
    /\ MayBootstrap("reveals") /\ blockTx = NoTx
    /\ db' = FoldSet(LAMBDA k, t : SetProcessKeyReveal(t, db.txs[k].pid, k[1]), db,
                     {k \in DOMAIN db.txs : db.txs[k] # NoTx /\ db.txs[k].type = "reveal"})
    /\ boot' = [boot EXCEPT !.step = IF IgnoreLiveResults THEN "done" ELSE "live"]
    /\ UNCHANGED <<chainVars, blockTx, memVars, titles>>

\* The processes whose results the bootstrap recounts: those without final
\* results, read within the block's transaction, that the committed tables have.
Recovered == {p \in DOMAIN Queries.procs : ~Queries.procs[p].final} \cap DOMAIN db.procs

\* The votes of the saved state; a process without a votes tree is skipped.
WithVotes == {p \in Recovered : DOMAIN VotesOf(saved, p) # {}}

\* Faulty: the results are recounted on top of the stored ones.
Recount_NoReset(t, p) ==
    UpdateProcessResults(t, p, Combine(t.procs[p].results,
                                       Tally(VotesOf(saved, p), t.procs[p].encrypted), 1))

\* UpdateProcessResultByID resets the results, then the votes are counted again.
Recount(t, p) ==
    UpdateProcessResults(t, p, Tally(VotesOf(saved, p), t.procs[p].encrypted))

\* The last part of AfterSyncBootstrap.
RecoverLiveResults ==
    /\ MayBootstrap("live")
    /\ db' = FoldSet(LAMBDA p, t : Recount(t, p), Queries, Recovered)
    /\ blockTx' = NoTx
    /\ live' = live \cup WithVotes
    /\ boot' = [boot EXCEPT !.step = "done"]
    /\ UNCHANGED <<chainVars, pool, dirty, counts, titles>>

-----------------------------------------------------------------------------
(* Titles resolved by the API *)

\* The API reads a process and starts resolving its title.
ResolveTitle(p) ==
    /\ p \in DOMAIN db.procs
    /\ titles = {}
    /\ titles' = {<<p, db.procs[p].meta>>}
    /\ UNCHANGED <<chainVars, db, blockTx, memVars, boot>>

\* Faulty: the title is written whatever the row holds by now.
TitleAccepted_Any(p, m) == p \in DOMAIN db.procs

\* The row still has the document the title was resolved from.
TitleAccepted(p, m) == p \in DOMAIN db.procs /\ db.procs[p].meta = m

\* SetProcessMetadataTitle uses the read-write connection: it waits for the
\* block's transaction, and gives up after metadataWriteTimeout.
SetProcessMetadataTitle(p, m) ==
    /\ <<p, m>> \in titles
    /\ titles' = titles \ {<<p, m>>}
    /\ \/ blockTx = NoTx /\ TitleAccepted(p, m) /\ db' = [db EXCEPT !.procs[p].title = m]
       \/ (blockTx # NoTx \/ ~TitleAccepted(p, m)) /\ UNCHANGED db
    /\ UNCHANGED <<chainVars, blockTx, memVars, boot>>

IdxInit ==
    /\ chain = <<>>
    /\ saved = [procs |-> NoKeys, votes |-> NoKeys]
    /\ open = saved
    /\ idx = [phase |-> "idle", block |-> <<>>, height |-> 0, synced |-> TRUE, restarts |-> 0]
    /\ db = [procs |-> NoKeys, votes |-> NoKeys, txs |-> NoKeys, blocks |-> NoKeys, history |-> {},
             fees |-> 0, accountNonce |-> 0]
    /\ blockTx = NoTx
    /\ pool = NoKeys /\ dirty = {} /\ counts = {} /\ live = {}
    /\ boot = [step |-> "done", migrated |-> FALSE, undated |-> 0]
    /\ titles = {}

IdxNext ==
    \/ BeginBlock
    \/ \E tx \in Transactions : DeliverTx(tx)
    \/ CommitListeners
    \/ SaveState
    \/ \E migration \in BOOLEAN : Restart(migration)
    \/ BootstrapBlocks
    \/ BootstrapKeyReveals
    \/ RecoverLiveResults
    \/ \E p \in Procs : ResolveTitle(p)
    \/ \E p \in Procs, m \in Metas : SetProcessMetadataTitle(p, m)

IdxSpec == IdxInit /\ [][IdxNext]_idxVars

-----------------------------------------------------------------------------
(* Properties *)

\* The chain is saved up to its last block, and no block is executed.
AtRest == idx.phase = "idle" /\ idx.height = Len(chain) /\ blockTx = NoTx

\* Between blocks the votes table holds exactly the votes of the saved state,
\* each as last overwritten, and the vote counts of the elections agree with it,
\* however often a block was executed, rolled back or indexed again.
IndexedVotesAreTheStates ==
    AtRest =>
      /\ DOMAIN db.votes = DOMAIN saved.votes
      /\ \A k \in DOMAIN saved.votes : db.votes[k].vote = saved.votes[k]
      /\ \A p \in DOMAIN saved.procs :
           p \in DOMAIN db.procs /\ db.procs[p].voteCount = Cardinality(DOMAIN VotesOf(saved, p))

\* Between blocks the stored results of a process with live results are those
\* of its votes in the saved state: a vote counts once, as last overwritten.
LiveResultsFollowState ==
    AtRest => \A p \in live \cap DOMAIN db.procs :
                ~db.procs[p].final =>
                  db.procs[p].results = Tally(VotesOf(saved, p), db.procs[p].encrypted)

\* A resolved title is the title of the document the row names, although titles
\* are resolved outside the block and written later.
TitleOfCurrentMetadata ==
    \A p \in DOMAIN db.procs : db.procs[p].title \in {NoTitle, db.procs[p].meta}

=============================================================================
