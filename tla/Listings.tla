------------------------------ MODULE Listings ------------------------------
(* The list endpoints of the HTTP API (api/chain.go, elections.go, accounts.go, *)
(* vote.go): each handler parses its parameters, asks the indexer for a page    *)
(* and answers the rows with a Pagination. A client walks a list from the       *)
(* first page to the last along nextPage while blocks are committed.            *)
EXTENDS Tables

CONSTANTS
    MaxItemsPerPage,
    DefaultItemsPerPage,
    Limits,             \* the limits a client asks for, Zero for none
    Accounts            \* the accounts and organisations a client filters by

VARIABLE walk           \* the list a client walks: [handler |-> "none"] before it starts

listVars == <<db, walk>>

NoPage == 0 - 1         \* a nil page pointer

-----------------------------------------------------------------------------
(* Parameters and pagination (api/helpers.go).                                 *)

parsePage(p) == IF p = Zero THEN 0 ELSE p

parseLimit(l) ==
    LET n == IF l = Zero THEN 0 ELSE l
        capped == IF n > MaxItemsPerPage THEN MaxItemsPerPage ELSE n
    IN  IF capped <= 0 THEN DefaultItemsPerPage ELSE capped

parsePaginationParams(page, limit) == [page |-> parsePage(page), limit |-> parseLimit(limit)]

(* The rounding down a plain integer division would give.                      *)
LastPage_Floor(limit, total) == IF total < limit THEN 0 ELSE (total \div limit) - 1

LastPage(limit, total) == IF total = 0 THEN 0 ELSE ((total + limit - 1) \div limit) - 1

Failure(e) == [err |-> e, rows |-> <<>>, total |-> 0, next |-> NoPage]

calculatePagination(page, limit, q) ==
    IF page > LastPage(limit, q.total) \/ page < 0 THEN Failure("pageNotFound")
    ELSE [err |-> "none", rows |-> q.rows, total |-> q.total,
          next |-> IF page < LastPage(limit, q.total) THEN page + 1 ELSE NoPage]

Listed(p, q) == IF q.err # "none" THEN Failure(q.err) ELSE calculatePagination(p.page, p.limit, q)

(* The answer of a legacy endpoint to a page that does not exist.              *)
Legacy(answer, instead) == IF answer.err = "pageNotFound" THEN Failure(instead) ELSE answer

emptyList == "none"     \* an empty list, or {}, in place of the error

-----------------------------------------------------------------------------
(* The lists behind the handlers.                                              *)

electionList(f, p) ==
    IF f.org # Zero /\ ~AccountExists(f.org) THEN Failure("orgNotFound")
    ELSE Listed(p, ProcessList(p.limit, p.page * p.limit, f))

votesList(f, p) ==
    IF f.election # Zero /\ ~ProcessExists(f.election) THEN Failure("electionNotFound")
    ELSE Listed(p, VoteList(p.limit, p.page * p.limit, f))

organizationList(f, p) == Listed(p, EntityList(p.limit, p.page * p.limit, f))

transactionList(f, p) == Listed(p, SearchTransactions(p.limit, p.page * p.limit, f))

sendBlockList(f, p) == Listed(p, BlockList(p.limit, p.page * p.limit, f))

accountList(f, p) == Listed(p, AccountList(p.limit, p.page * p.limit, f))

feesList(f, p) ==
    IF f.account # Zero /\ ~AccountExists(f.account) THEN Failure("accountNotFound")
    ELSE Listed(p, TokenFeesList(p.limit, p.page * p.limit, f))

transfersList(f, p) ==
    IF \E a \in {f.account, f.from, f.to} \ {Zero} : ~AccountExists(a) THEN Failure("accountNotFound")
    ELSE Listed(p, TokenTransfersList(p.limit, p.page * p.limit, f))

-----------------------------------------------------------------------------
(* What a list is made of, whatever its pages: the rows that match with the    *)
(* columns that order them.                                                    *)

Placed(list, f) ==
    CASE list = "elections" ->
            {<<r.id, r.created>> : r \in {r \in ToSet(db.processes) : ProcessMatches(f, r)}}
      [] list = "votes" ->
            {<<r.nullifier, r.height>> : r \in {r \in ToSet(db.votes) : VoteMatches(f, r)}}
      [] list = "transactions" ->
            {<<<<r.height, r.index>>, r.height>> :
                r \in {r \in ToSet(db.transactions) : TransactionMatches(f, r)}}
      [] list = "blocks" ->
            {<<r.height, r.height>> : r \in {r \in ToSet(db.blocks) : BlockMatches(f, r)}}
      [] list = "accounts" ->
            {<<r.account, r.balance>> : r \in {r \in ToSet(db.accounts) : AccountMatches(f, r)}}
      [] list = "fees" ->
            {<<r.id, r.time>> : r \in {r \in ToSet(db.fees) : FeeMatches(f, r)}}
      [] list = "transfers" ->
            {<<r.hash, r.time>> : r \in {r \in ToSet(db.transfers) : TransferMatches(f, r)}}
      [] list = "organizations" ->
            {<<r.entity, r.created>> : r \in {r \in EntityRows(f) : EntityMatches(f, r)}}

Key(list, r) ==
    CASE list = "elections"     -> r.id
      [] list = "votes"         -> r.nullifier
      [] list = "transactions"  -> <<r.height, r.index>>
      [] list = "blocks"        -> r.height
      [] list = "accounts"      -> r.account
      [] list = "fees"          -> r.id
      [] list = "transfers"     -> r.hash
      [] list = "organizations" -> r.entity

-----------------------------------------------------------------------------
(* A client asks for the first page, then for nextPage until there is none.    *)

Received(w, answer) ==
    [w EXCEPT !.seen = @ \o [i \in DOMAIN answer.rows |-> Key(w.list, answer.rows[i])],
              !.next = answer.next, !.err = answer.err]

FirstRequests(handler, list, filters, limits) ==
    {[handler |-> handler, list |-> list, f |-> f, limit |-> l, seen |-> <<>>, err |-> "none",
      start |-> Placed(list, f), changed |-> FALSE, next |-> Zero] : f \in filters, l \in limits}

Walk(handler, list, filters, limits, Answer(_, _, _)) ==
    /\ \E w \in CASE walk.handler = "none" -> FirstRequests(handler, list, filters, limits)
               [] walk.handler = handler /\ walk.next # NoPage -> {walk}
               [] OTHER -> {} :
         walk' = Received(w, Answer(w.f, w.next, w.limit))
    /\ UNCHANGED db

ElectionFilter(org, status) == [org |-> org, election |-> Zero, status |-> status]
NoLimit == {Zero}

(* GET /elections.                                                             *)
electionListHandler ==
    Walk("electionListHandler", "elections",
         {ElectionFilter(o, s) : o \in Accounts \cup {Zero}, s \in {Zero, "READY"}}, Limits,
         LAMBDA f, p, l : electionList(f, parsePaginationParams(p, l)))

(* GET /elections/page/{page}.                                                 *)
electionListByPageHandler ==
    Walk("electionListByPageHandler", "elections", {ElectionFilter(Zero, Zero)}, NoLimit,
         LAMBDA f, p, l : Legacy(electionList(f, parsePaginationParams(p, Zero)), emptyList))

(* POST /elections/filter: page and limit come in the body, unparsed.          *)
electionListByFilterHandler ==
    Walk("electionListByFilterHandler", "elections", {ElectionFilter(Zero, "READY")}, Limits,
         LAMBDA f, p, l :
            Legacy(electionList(f, [page |-> parsePage(p), limit |-> IF l = Zero THEN 0 ELSE l]), emptyList))

(* POST /elections/filter/page/{page}: a limit in the body replaces the default. *)
electionListByFilterAndPageHandler ==
    Walk("electionListByFilterAndPageHandler", "elections", {ElectionFilter(Zero, Zero)}, Limits,
         LAMBDA f, p, l :
            Legacy(electionList(f, [page  |-> parsePage(p),
                                    limit |-> IF l = Zero THEN parseLimit(Zero) ELSE l]), emptyList))

(* GET /accounts/{organizationId}/elections/page/{page}.                       *)
accountElectionsListByPageHandler ==
    Walk("accountElectionsListByPageHandler", "elections", {ElectionFilter(o, Zero) : o \in Accounts}, NoLimit,
         LAMBDA f, p, l : Legacy(electionList(f, parsePaginationParams(p, Zero)), emptyList))

(* GET /accounts/{organizationId}/elections/status/{status}/page/{page}.       *)
accountElectionsListByStatusAndPageHandler ==
    Walk("accountElectionsListByStatusAndPageHandler", "elections",
         {ElectionFilter(o, "READY") : o \in Accounts}, NoLimit,
         LAMBDA f, p, l : Legacy(electionList(f, parsePaginationParams(p, Zero)), emptyList))

VoteFilter(election) == [election |-> election]

VoteFilters == {VoteFilter(e) : e \in {Zero} \cup {r.id : r \in ToSet(db.processes)}}

(* GET /votes.                                                                 *)
votesListHandler ==
    Walk("votesListHandler", "votes", VoteFilters, Limits,
         LAMBDA f, p, l : votesList(f, parsePaginationParams(p, l)))

(* GET /elections/{electionId}/votes/page/{page}.                              *)
electionVotesListByPageHandler ==
    Walk("electionVotesListByPageHandler", "votes", VoteFilters \ {VoteFilter(Zero)}, NoLimit,
         LAMBDA f, p, l : Legacy(votesList(f, parsePaginationParams(p, Zero)), emptyList))

OrganizationFilter(org, sortBy, order) ==
    [org |-> org, name |-> Zero, sortBy |-> sortBy, order |-> order]

(* GET /chain/organizations.                                                   *)
organizationListHandler ==
    Walk("organizationListHandler", "organizations",
         {OrganizationFilter(Zero, s, o) : s \in {Zero, "electionCount", "name"}, o \in {Zero, "asc"}}, Limits,
         LAMBDA f, p, l : organizationList(f, parsePaginationParams(p, l)))

(* GET /chain/organizations/page/{page}.                                       *)
organizationListByPageHandler ==
    Walk("organizationListByPageHandler", "organizations", {OrganizationFilter(Zero, Zero, Zero)}, NoLimit,
         LAMBDA f, p, l : Legacy(organizationList(f, parsePaginationParams(p, Zero)), emptyList))

(* POST /chain/organizations/filter/page/{page}.                               *)
organizationListByFilterAndPageHandler ==
    Walk("organizationListByFilterAndPageHandler", "organizations",
         {OrganizationFilter(o, Zero, Zero) : o \in Accounts}, Limits,
         LAMBDA f, p, l :
            Legacy(organizationList(f, [page  |-> parsePage(p),
                                        limit |-> IF l = Zero THEN parseLimit(Zero) ELSE l]), emptyList))

TransactionFilter(height, type, signer) == [height |-> height, type |-> type, signer |-> signer]

(* GET /chain/transactions.                                                    *)
chainTxListHandler ==
    Walk("chainTxListHandler", "transactions",
         {TransactionFilter(Zero, t, s) : t \in {Zero, "newProcess"}, s \in Accounts \cup {Zero}}, Limits,
         LAMBDA f, p, l : transactionList(f, parsePaginationParams(p, l)))

(* GET /chain/transactions/page/{page}: 204 in place of the error.             *)
chainTxListByPageHandler ==
    Walk("chainTxListByPageHandler", "transactions", {TransactionFilter(Zero, Zero, Zero)}, NoLimit,
         LAMBDA f, p, l : Legacy(transactionList(f, parsePaginationParams(p, Zero)), "transactionNotFound"))

(* GET /chain/blocks/{height}/transactions/page/{page}.                        *)
chainTxListByHeightAndPageHandler ==
    Walk("chainTxListByHeightAndPageHandler", "transactions",
         {TransactionFilter(h, Zero, Zero) : h \in 1 .. db.height}, NoLimit,
         LAMBDA f, p, l : Legacy(transactionList(f, parsePaginationParams(p, Zero)), emptyList))

BlockFilter(proposer) == [proposer |-> proposer]

(* GET /chain/blocks.                                                          *)
chainBlockListHandler ==
    Walk("chainBlockListHandler", "blocks", {BlockFilter(x) : x \in {Zero, 1}}, Limits,
         LAMBDA f, p, l : sendBlockList(f, parsePaginationParams(p, l)))

FeeFilter(account, type, reference) == [account |-> account, type |-> type, reference |-> reference]

(* GET /chain/fees.                                                            *)
chainFeesListHandler ==
    Walk("chainFeesListHandler", "fees", {FeeFilter(a, Zero, Zero) : a \in Accounts \cup {Zero}}, Limits,
         LAMBDA f, p, l : feesList(f, parsePaginationParams(p, l)))

(* GET /chain/fees/page/{page}.                                                *)
chainFeesListByPageHandler ==
    Walk("chainFeesListByPageHandler", "fees", {FeeFilter(Zero, Zero, Zero)}, NoLimit,
         LAMBDA f, p, l : Legacy(feesList(f, parsePaginationParams(p, Zero)), emptyList))

(* GET /chain/fees/reference/{reference}/page/{page}.                          *)
chainFeesListByReferenceAndPageHandler ==
    Walk("chainFeesListByReferenceAndPageHandler", "fees",
         {FeeFilter(Zero, Zero, r.id) : r \in ToSet(db.processes)}, NoLimit,
         LAMBDA f, p, l : Legacy(feesList(f, parsePaginationParams(p, Zero)), emptyList))

(* GET /chain/fees/type/{type}/page/{page}.                                    *)
chainFeesListByTypeAndPageHandler ==
    Walk("chainFeesListByTypeAndPageHandler", "fees", {FeeFilter(Zero, "newProcess", Zero)}, NoLimit,
         LAMBDA f, p, l : Legacy(feesList(f, parsePaginationParams(p, Zero)), emptyList))

(* GET /accounts/{accountId}/fees/page/{page}.                                 *)
tokenFeesHandler ==
    Walk("tokenFeesHandler", "fees", {FeeFilter(a, Zero, Zero) : a \in Accounts}, NoLimit,
         LAMBDA f, p, l : Legacy(feesList(f, parsePaginationParams(p, Zero)), emptyList))

TransferFilter(account, from, to) == [account |-> account, from |-> from, to |-> to]

(* GET /chain/transfers.                                                       *)
chainTransfersListHandler ==
    Walk("chainTransfersListHandler", "transfers",
         {TransferFilter(Zero, a, Zero) : a \in Accounts} \cup {TransferFilter(Zero, Zero, a) : a \in Accounts},
         Limits,
         LAMBDA f, p, l : transfersList(f, parsePaginationParams(p, l)))

(* GET /accounts/{accountId}/transfers/page/{page}.                            *)
tokenTransfersListHandler ==
    Walk("tokenTransfersListHandler", "transfers", {TransferFilter(a, Zero, Zero) : a \in Accounts}, NoLimit,
         LAMBDA f, p, l : Legacy(transfersList(f, parsePaginationParams(p, Zero)), emptyList))

AccountFilter(account) == [account |-> account]

(* GET /accounts.                                                              *)
accountListHandler ==
    Walk("accountListHandler", "accounts", {AccountFilter(Zero)}, Limits,
         LAMBDA f, p, l : accountList(f, parsePaginationParams(p, l)))

(* GET /accounts/page/{page}.                                                  *)
accountListByPageHandler ==
    Walk("accountListByPageHandler", "accounts", {AccountFilter(Zero)}, NoLimit,
         LAMBDA f, p, l : Legacy(accountList(f, parsePaginationParams(p, Zero)), emptyList))

-----------------------------------------------------------------------------
(* The indexer commits while the client walks.                                 *)

Walking == walk.handler # "none"

Noted == walk' = IF Walking THEN [walk EXCEPT !.changed = TRUE] ELSE walk

IndexBlock == (Walking => walk.next # NoPage) /\ CommitBlock /\ Noted

NameAccount == (Walking => walk.next # NoPage) /\ SetAccountMetadata /\ Noted

ListInit == TablesInit /\ walk = [handler |-> "none"]

ListNext ==
    \/ IndexBlock
    \/ NameAccount
    \/ electionListHandler
    \/ electionListByPageHandler
    \/ electionListByFilterHandler
    \/ electionListByFilterAndPageHandler
    \/ accountElectionsListByPageHandler
    \/ accountElectionsListByStatusAndPageHandler
    \/ votesListHandler
    \/ electionVotesListByPageHandler
    \/ organizationListHandler
    \/ organizationListByPageHandler
    \/ organizationListByFilterAndPageHandler
    \/ chainTxListHandler
    \/ chainTxListByPageHandler
    \/ chainTxListByHeightAndPageHandler
    \/ chainBlockListHandler
    \/ chainFeesListHandler
    \/ chainFeesListByPageHandler
    \/ chainFeesListByReferenceAndPageHandler
    \/ chainFeesListByTypeAndPageHandler
    \/ tokenFeesHandler
    \/ chainTransfersListHandler
    \/ tokenTransfersListHandler
    \/ accountListHandler
    \/ accountListByPageHandler

ListSpec == ListInit /\ [][ListNext]_listVars

-----------------------------------------------------------------------------
(* The lists whose rows never move behind a row already listed and never leave: *)
(* newest first, without a filter on a column that changes. Accounts are        *)
(* ordered by balance, elections may be filtered by status, and organisations   *)
(* may be ordered by their count or their name: those move.                     *)
NewestFirst(w) ==
    CASE w.list = "elections"     -> w.f.status = Zero
      [] w.list = "organizations" -> w.f.sortBy \in {Zero, "createdAt"} /\ w.f.order \in {Zero, "desc"}
      [] w.list = "accounts"      -> FALSE
      [] OTHER                    -> TRUE

(* A client that follows nextPage from the first page to the last has been     *)
(* given every row that matched when it started and has kept its place since   *)
(* (an overwritten vote moves to the front of its list), although blocks were  *)
(* committed between its requests; when the tables did not change it has been  *)
(* given each row exactly once.                                                *)
PagesMissNothing ==
    Walking /\ walk.next = NoPage /\ walk.err = "none" =>
        /\ NewestFirst(walk) \/ ~walk.changed =>
              \A r \in walk.start \cap Placed(walk.list, walk.f) : r[1] \in ToSet(walk.seen)
        /\ ~walk.changed =>
              /\ Len(walk.seen) = Cardinality(walk.start)
              /\ ToSet(walk.seen) = {r[1] : r \in walk.start}

-----------------------------------------------------------------------------
(* The count endpoints.                                                        *)

organizationCountHandler == CountTotalEntities
chainTxCountHandler == CountTotalTransactions
tokenTransfersCountHandler(a) == CountTokenTransfersByAccount(a)

chainStatsHandler ==
    [txCountByType |-> [t \in {"newProcess", "vote", "setProcess", "sendTokens"} |-> CountTransactionsByType(t)],
     electionCountByStatus |-> [s \in {"READY", "ENDED"} |-> CountProcessesByStatus(s)],
     accountCount |-> CountTotalAccounts, electionCount |-> CountTotalProcesses,
     voteCount |-> CountTotalVotes]

electionVotesActivityHandler(p, bucket) ==
    LET activity == VoteActivity(p, bucket)
    IN  [undated |-> activity.undated,
         total |-> FoldFunctionOnSet(+, 0, activity.buckets, DOMAIN activity.buckets)]

TotalItems(answer) == answer.total

First == [page |-> 0, limit |-> 1]

(* The deprecated count endpoints and the statistics give the number of items  *)
(* that the pagination of the list endpoint in their place reports, at every   *)
(* moment: the bucketed votes of an election and its undated ones are all its  *)
(* votes, the elections by status and the transactions by type add up to the   *)
(* lists filtered by that status and type.                                     *)
CountsAreTotals ==
    ~Walking =>
        /\ organizationCountHandler = TotalItems(organizationList(OrganizationFilter(Zero, Zero, Zero), First))
        /\ chainTxCountHandler = TotalItems(transactionList(TransactionFilter(Zero, Zero, Zero), First))
        /\ \A a \in Accounts :
              tokenTransfersCountHandler(a) = TotalItems(transfersList(TransferFilter(a, Zero, Zero), First))
        /\ \A r \in ToSet(db.processes) : \A bucket \in {1, 2} :
              LET activity == electionVotesActivityHandler(r.id, bucket)
              IN  activity.total + activity.undated = TotalItems(votesList(VoteFilter(r.id), First))
        /\ \A s \in DOMAIN chainStatsHandler.electionCountByStatus :
              chainStatsHandler.electionCountByStatus[s] = TotalItems(electionList(ElectionFilter(Zero, s), First))
        /\ \A t \in DOMAIN chainStatsHandler.txCountByType :
              chainStatsHandler.txCountByType[t] = TotalItems(transactionList(TransactionFilter(Zero, t, Zero), First))
        /\ chainStatsHandler.electionCount = TotalItems(electionList(ElectionFilter(Zero, Zero), First))
        /\ chainStatsHandler.voteCount = TotalItems(votesList(VoteFilter(Zero), First))
        /\ chainStatsHandler.accountCount = TotalItems(accountList(AccountFilter(Zero), First))

-----------------------------------------------------------------------------
(* The endpoints of one item.                                                  *)

electionHandler(p) == ProcessInfo(p)
getVoteHandler(nullifier) == GetEnvelope(nullifier)
chainTxRefByHashHandler(hash) == GetTxMetadataByHash(hash)
chainTxByHashHandler(hash) == GetTransactionByHash(hash)
chainTxByHeightAndIndexHandler(h, index) == GetTransactionByHeightAndIndex(h, index)

chainBlockByHeightHandler(h) ==
    LET b == BlockByHeight(h)
    IN  IF b.err # "none" THEN b ELSE [err |-> "none", row |-> b.row, txCount |-> CountTransactionsByHeight(h)]

chainBlockByHashHandler(hash) ==
    LET b == BlockByHash(hash)
    IN  IF b.err # "none" THEN b
        ELSE [err |-> "none", row |-> b.row, txCount |-> CountTransactionsByHeight(b.row.height)]

(* All the rows of a list, on one page.                                        *)
Whole == [page |-> 0, limit |-> 100]

Rows(answer) == ToSet(answer.rows)

(* What a list shows, the endpoint of the item shows too, and the endpoints    *)
(* agree with each other: the transaction hash that GET /votes/{voteId} gives  *)
(* leads to the transaction that cast the vote as it stands after overwrites,  *)
(* at the height and index the vote names; it has a date exactly when its      *)
(* block can be looked up; the block by height and by hash are the same block, *)
(* and its TxCount is the length of the list of its transactions.              *)
ItemsAgreeWithLists ==
    ~Walking =>
        /\ \A r \in Rows(votesList(VoteFilter(Zero), Whole)) :
              LET v == getVoteHandler(r.nullifier)
                  t == chainTxByHashHandler(v.row.txHash)
              IN  /\ v.err = "none" /\ v.row.vote = r
                  /\ t.err = "none" /\ t.row.type = "vote"
                  /\ t = chainTxByHeightAndIndexHandler(r.height, r.index)
                  /\ (v.row.date # Zero) = (chainBlockByHeightHandler(r.height).err = "none")
        /\ \A r \in Rows(transactionList(TransactionFilter(Zero, Zero, Zero), Whole)) :
              chainTxRefByHashHandler(r.hash) = chainTxByHeightAndIndexHandler(r.height, r.index)
        /\ \A r \in Rows(sendBlockList(BlockFilter(Zero), Whole)) :
              LET b == chainBlockByHeightHandler(r.height)
              IN  /\ b.err = "none" /\ b = chainBlockByHashHandler(r.hash)
                  /\ b.txCount = TotalItems(transactionList(TransactionFilter(r.height, Zero, Zero), First))
        /\ \A s \in {"READY", "ENDED"} : \A r \in Rows(electionList(ElectionFilter(Zero, s), Whole)) :
              electionHandler(r.id).err = "none" /\ electionHandler(r.id).row.status = s

(* The endpoints of the API tell one story of the tables: the counts are the   *)
(* totals of the lists, and the endpoint of an item shows what the lists show. *)
AnswersAgree == CountsAreTotals /\ ItemsAgreeWithLists

=============================================================================
