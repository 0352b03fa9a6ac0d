------------------------------- MODULE Client -------------------------------
(***************************************************************************)
(* The write side of the HTTP API and the client library that drives it.   *)
(* A client call reads the account for its nonce, builds and signs a       *)
(* transaction, posts it to an endpoint and may wait until it is mined.    *)
(* The handler checks the request, sends the transaction to the mempool,   *)
(* whose check does not look at the nonce, answers with the election id    *)
(* predicted on the on-going state, and publishes the document.  Between   *)
(* these steps other calls run and blocks are executed, dropped, indexed   *)
(* and committed.                                                          *)
(*                                                                         *)
(* All elections belong to one organization; its account and the delegates *)
(* sign for it, each with a nonce of its own.  A transaction is what the   *)
(* properties tell apart: the functions that only spend a nonce build the  *)
(* same one.                                                               *)
(***************************************************************************)
EXTENDS Naturals, FiniteSets, Sequences, SequencesExt

CONSTANTS
    Callers,      \* calls that may be on-going at the same time
    Signers,      \* accounts that may sign for the organization
    Absent,       \* the ones that do not exist at the start
    Docs,         \* documents; a document's URI is its content id
    Draft,        \* the document each signer posts
    MaxCalls,     \* bound on the calls started
    MaxBlockTxs,  \* bound on the transactions of a block
    None

VARIABLES
    chain,    \* the committed state
    block,    \* the block being executed: its stage and the on-going state
    index,    \* what the indexer has committed
    pool,     \* transactions in the mempool
    pinned,   \* documents in the node storage, and what published them
    wallets,  \* signers whose key is in the wallet of the node
    call,     \* the calls in progress
    calls,    \* how many were started
    accepted, \* the documents of the transactions the mempool accepted
    replies   \* the election ids handed out

clientVars == <<chain, block, index, pool, pinned, wallets, call, calls, accepted, replies>>

Idle == [step |-> "idle", by |-> None, nonce |-> 0, items |-> <<>>,
         next |-> 1, count |-> 0, prev |-> None]

ClientInit ==
    /\ chain = [nonce |-> [s \in Signers |-> IF s \in Absent THEN None ELSE 0],
                made |-> <<>>, votes |-> {}, mined |-> {}]
    /\ block = None
    /\ index = chain
    /\ pool = {}
    /\ pinned = {}
    /\ wallets = {}
    /\ call = [c \in Callers |-> Idle]
    /\ calls = 0
    /\ accepted = {}
    /\ replies = {}

\* GetAccount(addr, false) and BuildProcessID read the on-going state.
Current == IF block = None THEN chain ELSE block.state

-----------------------------------------------------------------------------
(* The requests of the client library *)

\* A transaction signed by s: its nonce, the URI and the election it names.
Tx(kind, s, n, uri, id) == [kind |-> kind, by |-> s, nonce |-> n, uri |-> uri, id |-> id]

\* SignAndSendTx and the functions that post to chain/transactions.
SignAndSendTx(tx) == [to |-> "transactions", tx |-> tx, doc |-> None]

TransferWithNonce(s, n) == SignAndSendTx(Tx("spend", s, n, None, 0))

Transfer(s, n) == TransferWithNonce(s, n)

AccountSetValidator(s, n) == SignAndSendTx(Tx("spend", s, n, None, 0))

SetElectionStatus(s, n) == SignAndSendTx(Tx("spend", s, n, None, 0))

SetElectionCensusSize(s, n) == SignAndSendTx(Tx("spend", s, n, None, 0))

SetElectionDuration(s, n) == SignAndSendTx(Tx("spend", s, n, None, 0))

SetElectionCensus(s, n) == SignAndSendTx(Tx("spend", s, n, None, 0))

SetSIK(s) == SignAndSendTx(Tx("sik", s, None, None, 0))

DelSIK(s) == SignAndSendTx(Tx("sik", s, None, None, 0))

RegisterSIKForVote(s, id) == SignAndSendTx(Tx("register", s, None, None, id))

AccountBootstrap(s, d) ==
    [to |-> "accounts", tx |-> Tx("create", s, None, d, 0), doc |-> d]

AccountSetMetadata(s, n, d) ==
    [to |-> "accounts", tx |-> Tx("info", s, n, d, 0), doc |-> d]

NewElectionRaw(s, n, d) ==
    [to |-> "elections", tx |-> Tx("new", s, n, d, 0), doc |-> None]

NewElection(s, n, d) ==
    [to |-> "elections", tx |-> Tx("new", s, n, d, 0), doc |-> d]

setElectionMetadataTx(s, n, id, d) == Tx("metadata", s, n, d, id)

SetElectionMetadata(s, n, id, d) ==
    [to |-> "metadata", tx |-> setElectionMetadataTx(s, n, id, d), doc |-> d]

SetElectionMetadataURI(s, n, id, d) == SignAndSendTx(setElectionMetadataTx(s, n, id, d))

\* The vote attests the metadata of the election as the client fetched it.
Vote(s, id) ==
    [to |-> "votes", tx |-> Tx("vote", s, None, index.made[id].uri, id), doc |-> None]

\* The wallet of the node signs on behalf of the owner of a token.
walletSignAndSendTx(tx, d) == [to |-> "wallet", tx |-> tx, doc |-> d]

walletCreateHandler(s) == walletSignAndSendTx(Tx("info", s, 0, None, 0), None)

walletTransferHandler(s, n) == walletSignAndSendTx(Tx("spend", s, n, None, 0), None)

walletElectionHandler(s, n, d) == walletSignAndSendTx(Tx("new", s, n, d, 0), d)

\* What a call may post once it has read nonce n; elections are the indexed ones.
Requests(s, n, d) ==
    {SetSIK(s), DelSIK(s), AccountBootstrap(s, d)}
      \cup UNION {{Vote(s, id), RegisterSIKForVote(s, id)} : id \in DOMAIN index.made}
      \cup IF n = None THEN {walletCreateHandler(s)} ELSE
             {Transfer(s, n), AccountSetValidator(s, n), SetElectionStatus(s, n),
              SetElectionCensusSize(s, n), SetElectionDuration(s, n), SetElectionCensus(s, n),
              walletTransferHandler(s, n), AccountSetMetadata(s, n, d), NewElectionRaw(s, n, d),
              NewElection(s, n, d), walletElectionHandler(s, n, d)}
               \cup UNION {{SetElectionMetadata(s, n, id, d), SetElectionMetadataURI(s, n, id, d)} :
                              id \in DOMAIN index.made}

-----------------------------------------------------------------------------
(* The handlers *)

\* The metadata of a request is the document its transaction points to.
checkMetadataContent(r) == r.doc # None => r.tx.uri = r.doc

accountSetHandler(r) == r.to = "accounts" /\ checkMetadataContent(r)

electionCreateHandler(r) == r.to = "elections" /\ r.tx.kind = "new" /\ checkMetadataContent(r)

electionMetadataUpdateHandler(r) ==
    /\ r.to = "metadata"
    /\ r.tx.kind = "metadata"
    /\ r.doc # None
    /\ r.tx.id \in DOMAIN index.made
    /\ checkMetadataContent(r)

submitVoteHandler(r) == r.to = "votes" /\ r.tx.kind = "vote"

chainSendTxHandler(r) == r.to = "transactions"

\* The token leads to a key of the wallet.
walletFromToken(r) == r.to = "wallet" /\ r.tx.by \in wallets

Handled(r) ==
    \/ accountSetHandler(r) \/ electionCreateHandler(r) \/ electionMetadataUpdateHandler(r)
    \/ submitVoteHandler(r) \/ chainSendTxHandler(r) \/ walletFromToken(r)

\* What the check of a transaction asks of the state, besides its nonce.  The
\* checks that depend on other data, costs and proofs, may fail at any time: such
\* a transaction finds the mempool full, or no block has it.
CheckTx(tx, st) ==
    CASE tx.kind = "create"   -> st.nonce[tx.by] = None
      [] tx.kind = "vote"     -> /\ tx.id \in DOMAIN st.made
                                 /\ st.made[tx.id].uri = tx.uri
                                 /\ [by |-> tx.by, id |-> tx.id] \notin st.votes
      [] tx.kind = "register" -> tx.id \in DOMAIN st.made
      [] tx.kind = "metadata" -> st.nonce[tx.by] # None /\ tx.id \in DOMAIN st.made
      [] tx.kind = "info"     -> st.nonce[tx.by] # None /\ tx.uri # None
      [] OTHER                -> st.nonce[tx.by] # None

\* sendTx: a transaction that the mempool holds or has seen mined is refused.
sendTx(tx) == tx \notin pool \cup Current.mined /\ CheckTx(tx, Current)

\* The id BuildProcessID gives the election that comes delta after the next.
BuildProcessID(st, delta) == Len(st.made) + 1 + delta

Reply(tx, delta, before) ==
    [tx |-> tx, id |-> BuildProcessID(Current, delta), base |-> Current.nonce[tx.by],
     delta |-> delta, before |-> before, seen |-> Current.made]

-----------------------------------------------------------------------------
(* A call *)

\* The first request of a call reads the account in the committed state.
Account(c, s) ==
    /\ call[c].step = "idle"
    /\ calls < MaxCalls
    /\ calls' = calls + 1
    /\ call' = [call EXCEPT ![c] = [@ EXCEPT !.step = "account", !.by = s,
                                             !.nonce = chain.nonce[s]]]
    /\ UNCHANGED <<chain, block, index, pool, pinned, wallets, accepted, replies>>

Ended(c) == [Idle EXCEPT !.prev = call[c].prev]

\* The client waits for a transaction, or goes on without waiting.
Waiting(c, tx) == [Ended(c) EXCEPT !.step = "wait", !.items = <<tx>>]

Doc(r) == {r.doc} \ {None}

\* The handler of one request.  The mempool may be full; a request that is
\* retried then is one that comes later.  The wallet publishes before it sends,
\* the others after.
Post(c) ==
    /\ call[c].step = "account"
    /\ \E r \in Requests(call[c].by, call[c].nonce, Draft[call[c].by]) :
       \E full \in BOOLEAN :
          LET ok == Handled(r) /\ ~full /\ sendTx(r.tx)
              by == IF r.to = "wallet" THEN "wallet" ELSE "request"
          IN  /\ pool' = IF ok THEN pool \cup {r.tx} ELSE pool
              /\ pinned' = IF ok \/ walletFromToken(r) THEN pinned \cup (Doc(r) \X {by}) ELSE pinned
              /\ accepted' = IF ok THEN accepted \cup Doc(r) ELSE accepted
              /\ replies' = IF ok /\ r.tx.kind = "new" THEN replies \cup {Reply(r.tx, 0, {})}
                            ELSE replies
              /\ call' = [call EXCEPT ![c] = IF ok THEN Waiting(c, r.tx) ELSE Ended(c)]
    /\ UNCHANGED <<chain, block, index, wallets, calls>>

\* A batch: transactions with contiguous nonces and, for new elections, the
\* documents the client means them to point to.
Item(tx, d) == [to |-> "batch", tx |-> tx, doc |-> d]

Batches(s, n, d) ==
    IF n = None THEN {} ELSE
    {<<first, Item(Tx("new", s, n + 1, e, 0), f)>> :
       first \in {Item(Tx("new", s, n, d, 0), d), Item(Tx("spend", s, n, None, 0), None)},
       e \in Docs \ {d}, f \in Docs}

checkBatchItemMetadata(r) == r.doc # None => r.tx.kind = "new" /\ r.tx.uri = r.doc

\* chainSendTxBatchHandler starts: one bad document refuses the whole batch.
SendTxBatch(c) ==
    /\ call[c].step = "account"
    /\ \E items \in Batches(call[c].by, call[c].nonce, Draft[call[c].by]) :
          call' = [call EXCEPT ![c] =
                     IF \A i \in DOMAIN items : checkBatchItemMetadata(items[i])
                     THEN [@ EXCEPT !.step = "batch", !.items = items] ELSE Ended(c)]
    /\ UNCHANGED <<chain, block, index, pool, pinned, wallets, calls, accepted, replies>>

\* The new elections before item i of a batch.
batchProcessDelta(items, i) == Cardinality({j \in 1 .. i - 1 : items[j].tx.kind = "new"})

Before(items, i) == {items[j].tx : j \in 1 .. i - 1}

\* Faulty: a transaction that is refused does not stop the batch.
Stops_Never(ok) == FALSE

\* The first failure stops the batch.
Stops(ok) == ~ok

\* Each item of a batch is predicted and sent in turn.
classifyTransactionBatch(c) ==
    /\ call[c].step = "batch"
    /\ \E full \in BOOLEAN :
          LET items == call[c].items
              i == call[c].next
              r == items[i]
              ok == ~full /\ sendTx(r.tx)
          IN  /\ pool' = IF ok THEN pool \cup {r.tx} ELSE pool
              /\ accepted' = IF ok THEN accepted \cup Doc(r) ELSE accepted
              /\ replies' = IF ok /\ r.tx.kind = "new"
                            THEN replies \cup {Reply(r.tx, batchProcessDelta(items, i),
                                                     Before(items, i))}
                            ELSE replies
              /\ call' = [call EXCEPT ![c] =
                            [@ EXCEPT !.next = i + 1,
                                      !.count = IF ok THEN @ + 1 ELSE @,
                                      !.step = IF i < Len(items) /\ ~Stops(ok) THEN "batch"
                                               ELSE "pin"]]
    /\ UNCHANGED <<chain, block, index, pinned, wallets, calls>>

\* The documents of the submitted items are published: the leading ones.
PinBatch(c) ==
    /\ call[c].step = "pin"
    /\ LET items == call[c].items
           n == call[c].count
       IN  /\ pinned' = pinned \cup ((UNION {Doc(items[i]) : i \in 1 .. n}) \X {"request"})
           /\ call' = [call EXCEPT ![c] = IF n = 0 THEN Ended(c) ELSE Waiting(c, items[n].tx)]
    /\ UNCHANGED <<chain, block, index, pool, wallets, calls, accepted, replies>>

\* The queries: the indexer answers for transactions and vote envelopes, the
\* committed state for whether a vote exists.
TransactionReference(tx) == tx \in index.mined

getVoteHandler(s, id) == [by |-> s, id |-> id] \in index.votes

verifyVoteHandler(s, id) == [by |-> s, id |-> id] \in chain.votes

\* WaitUntilTxIsMined finds the transaction in the indexer, or times out.
WaitUntilTxIsMined(c) ==
    /\ call[c].step = "wait"
    /\ \/ /\ TransactionReference(call[c].items[1])
          /\ call' = [call EXCEPT ![c].step = "mined"]
       \/ call' = [call EXCEPT ![c] = Ended(c)]
    /\ UNCHANGED <<chain, block, index, pool, pinned, wallets, calls, accepted, replies>>

\* Faulty: the client does not wait for the commit.
Slept_No == TRUE

\* "wait a bit longer to make sure the tx is committed": half a poll interval,
\* in which a commit that has reached the indexer also reaches the state.
Slept == IF block = None THEN TRUE ELSE block.stage # "indexed"

\* The wait is over; the nonce of the transaction is known to be spent.
Mined(c) ==
    /\ call[c].step = "mined"
    /\ Slept
    /\ LET tx == call[c].items[1]
       IN  call' = [call EXCEPT ![c] = [Idle EXCEPT !.prev =
                       IF tx.nonce = None THEN call[c].prev ELSE [by |-> tx.by, nonce |-> tx.nonce]]]
    /\ UNCHANGED <<chain, block, index, pool, pinned, wallets, calls, accepted, replies>>

walletCheckKeyExists(s) == s \in wallets

\* A key is added to the wallet of the node, unless it is there.
walletAddHandler(s) ==
    /\ calls < MaxCalls
    /\ calls' = calls + 1
    /\ ~walletCheckKeyExists(s)
    /\ wallets' = wallets \cup {s}
    /\ UNCHANGED <<chain, block, index, pool, pinned, call, accepted, replies>>

-----------------------------------------------------------------------------
(* Blocks *)

\* Faulty: any nonce will do.
checkAccountNonce_Any(tx, st) == TRUE

\* Only the delivery of a transaction looks at its nonce; the ones that set or
\* delete a SIK carry none, and still advance the account's.
checkAccountNonce(tx, st) == tx.nonce = None \/ st.nonce[tx.by] = tx.nonce

Deliverable(tx, st) == checkAccountNonce(tx, st) /\ CheckTx(tx, st)

Delivered(tx, st) ==
    LET spent == IF tx.nonce = None /\ tx.kind # "sik" THEN st
                 ELSE [st EXCEPT !.nonce[tx.by] = @ + 1]
        next == [spent EXCEPT !.mined = @ \cup {tx}]
    IN  CASE tx.kind = "create"   -> [next EXCEPT !.nonce[tx.by] = 0]
          [] tx.kind = "new"      -> [next EXCEPT !.made = Append(@, [by |-> tx.by, tx |-> tx,
                                                                     uri |-> tx.uri])]
          [] tx.kind = "metadata" -> [next EXCEPT !.made[tx.id].uri = tx.uri]
          [] tx.kind = "vote"     -> [next EXCEPT !.votes = @ \cup {[by |-> tx.by, id |-> tx.id]}]
          [] OTHER                -> next

\* A proposal with valid transactions of the mempool is executed.
ProcessProposal(tx) ==
    /\ IF block = None THEN TRUE
       ELSE block.stage = "executed" /\ Cardinality(block.txs) < MaxBlockTxs
    /\ tx \in pool \ Current.mined
    /\ Deliverable(tx, Current)
    /\ block' = [stage |-> "executed", state |-> Delivered(tx, Current),
                 txs |-> {tx} \cup (IF block = None THEN {} ELSE block.txs)]
    /\ UNCHANGED <<chain, index, pool, pinned, wallets, call, calls, accepted, replies>>

\* The round ends without a decision.
Rollback ==
    /\ block # None
    /\ block.stage = "executed"
    /\ block' = None
    /\ UNCHANGED <<chain, index, pool, pinned, wallets, call, calls, accepted, replies>>

\* Faulty: the listeners are not called.
SaveListeners_Skipped ==
    /\ block # None
    /\ block.stage = "executed"
    /\ block' = [block EXCEPT !.stage = "indexed"]
    /\ UNCHANGED <<chain, index>>

\* Save of a decided block calls the listeners first: the indexer commits.
SaveListeners ==
    /\ block # None
    /\ block.stage = "executed"
    /\ index' = block.state
    /\ block' = [block EXCEPT !.stage = "indexed"]
    /\ UNCHANGED chain

IndexerCommit ==
    /\ SaveListeners
    /\ UNCHANGED <<pool, pinned, wallets, call, calls, accepted, replies>>

\* Then the trees are committed, and CometBFT updates its mempool.
SaveTrees ==
    /\ block # None
    /\ block.stage = "indexed"
    /\ chain' = block.state
    /\ pool' = pool \ block.state.mined
    /\ block' = None
    /\ UNCHANGED <<index, pinned, wallets, call, calls, accepted, replies>>

\* A transaction that cannot be delivered leaves the mempool.
Expire(tx) ==
    /\ tx \in pool
    /\ ~Deliverable(tx, chain)
    /\ block = None
    /\ pool' = pool \ {tx}
    /\ UNCHANGED <<chain, block, index, pinned, wallets, call, calls, accepted, replies>>

ClientNext ==
    \/ \E c \in Callers :
          \/ \E s \in Signers : Account(c, s)
          \/ Post(c) \/ SendTxBatch(c)
          \/ classifyTransactionBatch(c) \/ PinBatch(c) \/ WaitUntilTxIsMined(c) \/ Mined(c)
    \/ \E s \in Signers : walletAddHandler(s)
    \/ \E tx \in pool : ProcessProposal(tx) \/ Expire(tx)
    \/ Rollback \/ IndexerCommit \/ SaveTrees

ClientSpec == ClientInit /\ [][ClientNext]_clientVars

-----------------------------------------------------------------------------
(* Properties *)

\* An election gets the id its creator was told by electionCreateHandler,
\* walletElectionHandler or chainSendTxBatchHandler, if the transactions of the
\* signer it was predicted to follow were mined, its prediction started from the
\* nonce that was next, the proposal it was checked against was not dropped, and
\* no other signer created an election in between.
ReplyNamesElection ==
    \A r \in replies :
       LET made == chain.made
           own == {i \in DOMAIN made : made[i].tx = r.tx}
       IN  \A i \in own :
              /\ r.base + Cardinality(r.before) = r.tx.nonce
              /\ r.before \subseteq chain.mined
              /\ [k \in DOMAIN r.seen |-> r.seen[k].tx] = [k \in 1 .. Len(r.seen) |-> made[k].tx]
              /\ \A k \in Len(r.seen) + 1 .. i : made[k].by = r.tx.by
              => i = r.id

\* The node storage holds no document of a transaction the mempool refused: the
\* handlers publish after sendTx, and the batch handler publishes the leading
\* items because a refused one stops it.  Only the wallet publishes first.
PinnedIsSubmitted == \A p \in pinned : p[2] = "request" => p[1] \in accepted

\* A client that waited with WaitUntilTxIsMined reads a later nonce in its next
\* call: it never signs a second transaction with a nonce that is spent.
NextNonceIsFresh ==
    \A c \in Callers :
       LET last == call[c].prev
       IN  (call[c].step # "idle" /\ last # None /\ last.by = call[c].by)
             => call[c].nonce > last.nonce

\* What the committed state holds, the indexer holds, because Save calls the
\* listeners before it commits the trees: a vote that verifyVoteHandler finds is
\* found by getVoteHandler, and a nonce is only seen spent when the transaction
\* that spent it has a reference.
CommittedIsIndexed ==
    /\ \A s \in Signers, id \in DOMAIN chain.made :
          verifyVoteHandler(s, id) => getVoteHandler(s, id)
    /\ \A tx \in chain.mined : TransactionReference(tx)

=============================================================================
