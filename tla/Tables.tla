------------------------------- MODULE Tables -------------------------------
(* The indexer's sqlite tables as readers see them: every committed block adds *)
(* its rows at once (one sqlite transaction per block), the queries of         *)
(* indexer/db select, order and cut them, and the list functions of the        *)
(* indexer package answer a page of rows and the number of rows that match.    *)
(* A table is the sequence of its rows in row-id order, the order in which     *)
(* sqlite leaves the rows an ORDER BY does not tell apart.                     *)
EXTENDS Naturals, Sequences, FiniteSets, SequencesExt

CONSTANTS
    Blocks,         \* the blocks the chain may commit: sequences of transactions
    Balances,       \* the accounts of the genesis and their balances
    Named,          \* the accounts whose metadata gives a name at the start
    FirstIndexed,   \* the first height whose block row is indexed (pruned below)
    Zero,           \* the zero value of a filter: no filter
    MaxBlocks       \* bound on the blocks committed

VARIABLE db

NoName == 0         \* the name of an account whose metadata resolves none

-----------------------------------------------------------------------------
(* Writing: the rows one transaction adds or changes.                          *)

Upsert(table, i, row) == [table EXCEPT ![i] = row]

At(table, Is(_)) == CHOOSE i \in DOMAIN table : Is(table[i])

CreateAccount(d, a, balance) ==
    LET i == At(d.accounts, LAMBDA r : r.account = a)
    IN  [d EXCEPT !.accounts = Upsert(@, i, [@[i] EXCEPT !.balance = balance])]

BalanceOf(d, a) == d.accounts[At(d.accounts, LAMBDA r : r.account = a)].balance

(* OnSpendTokens: the fee row; the account row follows the state's account.    *)
SpendTokens(d, tx, reference) ==
    [CreateAccount(d, tx.from, BalanceOf(d, tx.from) - 1) EXCEPT
        !.fees = Append(@, [id |-> Len(@) + 1, from |-> tx.from, type |-> tx.type,
                            reference |-> reference, time |-> d.height])]

CreateTokenTransfer(d, tx) ==
    LET paid == CreateAccount(d, tx.from, BalanceOf(d, tx.from) - 1)
        got  == CreateAccount(paid, tx.to, BalanceOf(paid, tx.to) + 1)
    IN  [got EXCEPT !.transfers =
            Append(@, [hash |-> Len(d.transactions), from |-> tx.from, to |-> tx.to,
                       time |-> d.height])]

NewProcessRow(d, tx) ==
    [d EXCEPT !.processes = Append(@, [id |-> tx.id, entity |-> tx.from,
                                       created |-> d.height, status |-> "READY"])]

(* REPLACE deletes the row of the nullifier and inserts a new one.             *)
VoteRow(d, tx, index) ==
    [d EXCEPT !.votes = Append(SelectSeq(@, LAMBDA r : r.nullifier # tx.nullifier),
                               [nullifier |-> tx.nullifier, process |-> tx.id,
                                height |-> d.height, index |-> index])]

StatusRow(d, tx) ==
    LET i == At(d.processes, LAMBDA r : r.id = tx.id)
    IN  [d EXCEPT !.processes = Upsert(@, i, [@[i] EXCEPT !.status = "ENDED"])]

TransactionRow(d, tx, index) ==
    [d EXCEPT !.transactions = Append(@, [hash |-> Len(@) + 1, height |-> d.height, index |-> index,
                                          type |-> tx.type, signer |-> tx.from])]

Indexed(d, tx, index) ==
    LET t == TransactionRow(d, tx, index)
    IN  CASE tx.type = "newProcess" -> SpendTokens(NewProcessRow(t, tx), tx, tx.id)
          [] tx.type = "vote"       -> VoteRow(t, tx, index)
          [] tx.type = "setProcess" -> SpendTokens(StatusRow(t, tx), tx, tx.id)
          [] tx.type = "sendTokens" -> SpendTokens(CreateTokenTransfer(t, tx), tx, Zero)

(* Which transactions the chain accepts in the state the tables describe.      *)
Accepted(d, tx) ==
    LET known == \E i \in DOMAIN d.processes : d.processes[i].id = tx.id /\ d.processes[i].status = "READY"
    IN  CASE tx.type = "newProcess" -> ~\E i \in DOMAIN d.processes : d.processes[i].id = tx.id
          [] tx.type = "vote"       -> known
          [] tx.type = "setProcess" -> known
          [] OTHER                  -> TRUE

BlockRow(d) ==
    IF d.height < FirstIndexed THEN d
    ELSE [d EXCEPT !.blocks = Append(@, [height |-> d.height, hash |-> <<"block", d.height>>,
                                            proposer |-> d.height % 2])]

CommitBlock ==
    /\ db.height < MaxBlocks
    /\ \E txs \in Blocks :
        LET next   == [db EXCEPT !.height = @ + 1]
            step   == [i \in 1 .. Len(txs) |-> <<i, txs[i]>>]
        IN  /\ \A i \in DOMAIN txs : Accepted(db, txs[i])
            /\ db' = BlockRow(FoldLeft(LAMBDA d, s : Indexed(d, s[2], s[1] - 1), next, step))

(* The metadata backfill writes the name an account's metadata resolves to,    *)
(* outside any block.                                                          *)
SetAccountMetadata ==
    \E i \in DOMAIN db.accounts :
        /\ db.accounts[i].name = NoName
        /\ db.processes # <<>>
        /\ db' = [db EXCEPT !.accounts = Upsert(@, i, [@[i] EXCEPT !.name = db.accounts[i].account])]

TablesInit ==
    db = [height |-> 0, processes |-> <<>>, votes |-> <<>>, transactions |-> <<>>,
          blocks |-> <<>>, fees |-> <<>>, transfers |-> <<>>,
          accounts |-> [i \in 1 .. Len(Balances) |->
                          [account |-> i, balance |-> Balances[i],
                           name |-> IF i \in Named THEN i ELSE NoName]]]

-----------------------------------------------------------------------------
(* Reading: SELECT ... WHERE ... ORDER BY ... LIMIT ... OFFSET.                *)

OrderBy(table, Before(_, _)) ==
    LET lt(i, j) == \/ Before(table[i], table[j])
                    \/ ~Before(table[j], table[i]) /\ i < j
        rank == [i \in DOMAIN table |-> Cardinality({j \in DOMAIN table : lt(j, i)}) + 1]
    IN  [k \in 1 .. Len(table) |-> table[CHOOSE i \in DOMAIN table : rank[i] = k]]

(* The window COUNT(star) OVER() comes with each row: a page without rows has no count. *)
LimitOffset(rows, limit, offset) ==
    LET last == IF offset + limit < Len(rows) THEN offset + limit ELSE Len(rows)
        page == SubSeq(rows, offset + 1, last)
    IN  [err |-> "none", rows |-> page, total |-> IF page = <<>> THEN 0 ELSE Len(rows)]

QueryFailed == [err |-> "indexerQueryFailed", rows |-> <<>>, total |-> 0]

IsOr(filter, value) == filter = Zero \/ filter = value

ProcessMatches(f, r) == IsOr(f.org, r.entity) /\ IsOr(f.election, r.id) /\ IsOr(f.status, r.status)

SearchProcesses(f, limit, offset) ==
    LimitOffset(OrderBy(SelectSeq(db.processes, LAMBDA r : ProcessMatches(f, r)),
                        LAMBDA r, s : r.created > s.created \/ (r.created = s.created /\ r.id < s.id)),
                limit, offset)

VoteMatches(f, r) == IsOr(f.election, r.process)

SearchVotes(f, limit, offset) ==
    LimitOffset(OrderBy(SelectSeq(db.votes, LAMBDA r : VoteMatches(f, r)),
                        LAMBDA r, s : r.height > s.height \/ (r.height = s.height /\ r.nullifier < s.nullifier)),
                limit, offset)

TransactionMatches(f, r) == IsOr(f.height, r.height) /\ IsOr(f.type, r.type) /\ IsOr(f.signer, r.signer)

SearchTransactionsQuery(f, limit, offset) ==
    LimitOffset(OrderBy(SelectSeq(db.transactions, LAMBDA r : TransactionMatches(f, r)),
                        LAMBDA r, s : r.height > s.height \/ (r.height = s.height /\ r.index > s.index)),
                limit, offset)

BlockMatches(f, r) == f.proposer = Zero \/ f.proposer = r.proposer + 1

SearchBlocks(f, limit, offset) ==
    LimitOffset(OrderBy(SelectSeq(db.blocks, LAMBDA r : BlockMatches(f, r)),
                        LAMBDA r, s : r.height > s.height),
                limit, offset)

CountBlocksQuery(f) == Len(SelectSeq(db.blocks, LAMBDA r : BlockMatches(f, r)))

(* No row: the query fails with sql.ErrNoRows.                                 *)
LastBlockHeight == IF db.blocks = <<>> THEN [err |-> "noRows", n |-> 0]
                   ELSE [err |-> "none", n |-> db.blocks[Len(db.blocks)].height]

AccountMatches(f, r) == IsOr(f.account, r.account)

SearchAccounts(f, limit, offset) ==
    LimitOffset(OrderBy(SelectSeq(db.accounts, LAMBDA r : AccountMatches(f, r)),
                        LAMBDA r, s : r.balance > s.balance),
                limit, offset)

FeeMatches(f, r) == IsOr(f.account, r.from) /\ IsOr(f.type, r.type) /\ IsOr(f.reference, r.reference)

SearchTokenFees(f, limit, offset) ==
    LimitOffset(OrderBy(SelectSeq(db.fees, LAMBDA r : FeeMatches(f, r)),
                        LAMBDA r, s : r.time > s.time),
                limit, offset)

TransferMatches(f, r) ==
    /\ f.account = Zero \/ f.account \in {r.from, r.to}
    /\ IsOr(f.from, r.from)
    /\ IsOr(f.to, r.to)

SearchTokenTransfers(f, limit, offset) ==
    LimitOffset(OrderBy(SelectSeq(db.transfers, LAMBDA r : TransferMatches(f, r)),
                        LAMBDA r, s : r.time > s.time),
                limit, offset)

(* One row per entity of a matching process, with its name and its count.      *)
EntityRows(f) ==
    LET of(e)  == SelectSeq(db.processes, LAMBDA r : r.entity = e)
        row(e) == [entity |-> e, elections |-> Len(of(e)), created |-> of(e)[1].created,
                   name |-> db.accounts[At(db.accounts, LAMBDA r : r.account = e)].name]
    IN  {row(e) : e \in {p.entity : p \in {r \in ToSet(db.processes) : IsOr(f.org, r.entity)}}}

EntityMatches(f, r) == IsOr(f.name, r.name)

(* sort_name_empty, sort_key_asc, sort_key_desc DESC, entity_id.               *)
EntityBefore(sortBy, order, r, s) ==
    LET last(e) == sortBy = "name" /\ e.name = NoName
        key(e)  == CASE sortBy = "electionCount" -> e.elections
                     [] sortBy = "name"          -> e.name
                     [] sortBy = "createdAt"     -> e.created
        ahead   == IF order = "asc" THEN key(r) < key(s) ELSE key(r) > key(s)
    IN  IF last(r) # last(s) THEN last(s)
        ELSE ahead \/ (key(r) = key(s) /\ r.entity < s.entity)

SearchEntities(f, limit, offset) ==
    LimitOffset(OrderBy(SetToSeq({r \in EntityRows(f) : EntityMatches(f, r)}),
                        LAMBDA r, s : EntityBefore(f.sortBy, f.order, r, s)),
                limit, offset)

-----------------------------------------------------------------------------
(* The list functions of the indexer.                                          *)

ProcessList(limit, offset, f) ==
    IF offset < 0 \/ limit <= 0 THEN QueryFailed ELSE SearchProcesses(f, limit, offset)

ProcessExists(p) ==
    ProcessList(1, 0, [org |-> Zero, election |-> p, status |-> Zero]).total > 0

VoteList(limit, offset, f) ==
    IF offset < 0 \/ limit <= 0 THEN QueryFailed ELSE SearchVotes(f, limit, offset)

SearchTransactions(limit, offset, f) ==
    IF offset < 0 \/ limit <= 0 THEN QueryFailed ELSE SearchTransactionsQuery(f, limit, offset)

(* Without a filter the last height stands for the number of blocks.           *)
CountBlocks(f) ==
    IF f.proposer = Zero THEN LastBlockHeight ELSE [err |-> "none", n |-> CountBlocksQuery(f)]

BlockList(limit, offset, f) ==
    IF offset < 0 \/ limit <= 0 \/ CountBlocks(f).err # "none" THEN QueryFailed
    ELSE [SearchBlocks(f, limit, offset) EXCEPT !.total = CountBlocks(f).n]

AccountList(limit, offset, f) ==
    IF offset < 0 \/ limit <= 0 THEN QueryFailed ELSE SearchAccounts(f, limit, offset)

AccountExists(a) == AccountList(1, 0, [account |-> a]).total > 0

TokenFeesList(limit, offset, f) ==
    IF offset < 0 \/ limit <= 0 THEN QueryFailed ELSE SearchTokenFees(f, limit, offset)

TokenTransfersList(limit, offset, f) ==
    IF offset < 0 \/ limit <= 0 THEN QueryFailed ELSE SearchTokenTransfers(f, limit, offset)

DefaultOrder == [sortBy \in {"createdAt", "electionCount", "name"} |->
                    IF sortBy = "name" THEN "asc" ELSE "desc"]

NormalizeEntitySort(f) ==
    LET by == IF f.sortBy = Zero THEN "createdAt" ELSE f.sortBy
    IN  [f EXCEPT !.sortBy = by, !.order = IF f.order = Zero THEN DefaultOrder[by] ELSE f.order]

EntityList(limit, offset, f) ==
    IF offset < 0 \/ limit <= 0 THEN QueryFailed
    ELSE SearchEntities(NormalizeEntitySort(f), limit, offset)

-----------------------------------------------------------------------------
(* The counts of the indexer.                                                  *)

CountTotalProcesses == Len(db.processes)

CountTotalEntities == Cardinality({r.entity : r \in ToSet(db.processes)})

CountProcessesByStatus(status) == Len(SelectSeq(db.processes, LAMBDA r : r.status = status))

CountTotalVotes == Len(db.votes)

CountTotalTransactions == Len(db.transactions)

CountTransactionsByType(type) == Len(SelectSeq(db.transactions, LAMBDA r : r.type = type))

CountTotalAccounts == Len(db.accounts)

CountTokenTransfersByAccount(a) ==
    Len(SelectSeq(db.transfers, LAMBDA r : r.to = a \/ r.from = a))

(* The votes of an election by the period of their block; the votes whose      *)
(* block is not indexed have no date.                                          *)
Dated(r) == \E b \in ToSet(db.blocks) : b.height = r.height

VoteActivityQuery(p, bucket, period) ==
    Len(SelectSeq(db.votes, LAMBDA r : r.process = p /\ Dated(r) /\ r.height \div bucket = period))

VoteActivity(p, bucket) ==
    [buckets |-> [t \in 0 .. db.height \div bucket |-> VoteActivityQuery(p, bucket, t)],
     undated |-> Len(SelectSeq(db.votes, LAMBDA r : r.process = p /\ ~Dated(r)))]

-----------------------------------------------------------------------------
(* The lookups of one row: LIMIT 1, or sql.ErrNoRows.                          *)

NoRows == [err |-> "noRows"]

FirstOf(rows) == IF rows = <<>> THEN NoRows ELSE [err |-> "none", row |-> rows[1]]

(* What a lookup of the indexer answers: its own error in place of ErrNoRows.  *)
Found(q, notFound) == IF q.err = "noRows" THEN [err |-> notFound] ELSE q

GetProcess(p) == FirstOf(SelectSeq(db.processes, LAMBDA r : r.id = p))

GetBlockByHeight(h) == FirstOf(SelectSeq(db.blocks, LAMBDA r : r.height = h))

GetBlockByHash(hash) == FirstOf(SelectSeq(db.blocks, LAMBDA r : r.hash = hash))

GetTransactionByHashQuery(hash) == FirstOf(SelectSeq(db.transactions, LAMBDA r : r.hash = hash))

GetTransactionByHeightAndIndexQuery(h, index) ==
    FirstOf(SelectSeq(db.transactions, LAMBDA r : r.height = h /\ r.index = index))

(* The transactions of the block alone, without the index within it.           *)
JoinedTransaction_Height(v) ==
    SelectSeq(db.transactions, LAMBDA t : t.height = v.height)

JoinedTransaction(v) ==
    SelectSeq(db.transactions, LAMBDA t : t.height = v.height /\ t.index = v.index)

(* The left joins leave a vote without its transaction's hash or its date.     *)
GetVote(nullifier) ==
    LET q == FirstOf(SelectSeq(db.votes, LAMBDA r : r.nullifier = nullifier))
        t == FirstOf(JoinedTransaction(q.row))
        b == GetBlockByHeight(q.row.height)
    IN  IF q.err # "none" THEN q
        ELSE [err |-> "none",
              row |-> [vote |-> q.row, txHash |-> IF t.err = "none" THEN t.row.hash ELSE Zero,
                       date |-> IF b.err = "none" THEN b.row.height ELSE Zero]]

ProcessInfo(p) == Found(GetProcess(p), "processNotFound")

BlockByHeight(h) == Found(GetBlockByHeight(h), "blockNotFound")

BlockByHash(hash) == Found(GetBlockByHash(hash), "blockNotFound")

GetTxMetadataByHash(hash) == Found(GetTransactionByHashQuery(hash), "transactionNotFound")

GetTransactionByHash(hash) == Found(GetTransactionByHashQuery(hash), "transactionNotFound")

GetTransactionByHeightAndIndex(h, index) ==
    Found(GetTransactionByHeightAndIndexQuery(h, index), "transactionNotFound")

CountTransactionsByHeight(h) == Len(SelectSeq(db.transactions, LAMBDA r : r.height = h))

GetEnvelope(nullifier) == Found(GetVote(nullifier), "voteNotFound")

=============================================================================
