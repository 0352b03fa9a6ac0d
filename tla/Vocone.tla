------------------------------- MODULE Vocone -------------------------------
(***************************************************************************)
(* The single-node chain (package vocone): a persistent mempool, a block   *)
(* store and the loop that produces blocks.  One block is produced in      *)
(* several writes to three databases (block store, state, mempool), and    *)
(* the process may stop between any two of them.                           *)
(***************************************************************************)
EXTENDS Naturals, Sequences, FiniteSets, SequencesExt

CONSTANTS
    Txs,          \* transactions
    Nonce,        \* transactions of equal nonce exclude each other
    MempoolSize,  \* DefaultMempoolSize
    TxsPerBlock,
    MaxEmpty,     \* bound on the heights reached by empty blocks
    MaxFaults     \* bound on the failed writes and on the crashes

VARIABLES
    height,    \* vc.height, the block to produce next
    current,   \* State.CurrentHeight
    chain,     \* the saved state: [version, applied]
    open,      \* transactions executed in the state transaction, not saved
    meta,      \* block store: heights whose metadata is stored
    stored,    \* block store: height |-> transactions
    pool,      \* mempool database: sequence number |-> transaction
    lastSeq,   \* the sequence number the mempool database holds
    keys,      \* mempoolKeys, in memory
    block,     \* the block under production: [step, txs, consumed]
    accepted,  \* transactions addTx answered with code 0
    refused,   \* transactions found invalid, or pruned, after that
    faults

voconeVars == <<height, current, chain, open, meta, stored, pool, lastSeq,
                keys, block, accepted, refused, faults>>

Idle == [step |-> "idle", txs |-> <<>>, consumed |-> <<>>]
Put(f, k, v) == [x \in DOMAIN f \cup {k} |-> IF x = k THEN v ELSE f[x]]
Without(f, ks) == [x \in DOMAIN f \ ks |-> f[x]]

(* CheckTx and the execution of a transaction (external: the application).  *)
Valid(t, applied) == ~\E u \in applied : Nonce[u] = Nonce[t]

(* ExecuteBlock: transactions in order, those that fail change nothing. *)
Execute(txs, applied) ==
    FoldLeft(LAMBDA done, t : IF Valid(t, done) THEN done \cup {t} ELSE done, applied, txs)

---------------------------------------------------------------------------
(* addTx: validated, given the next sequence number and written to disk. *)
AddTx(t) ==
    /\ t \notin accepted
    /\ Valid(t, chain.applied \cup open) /\ Len(keys) < MempoolSize
    /\ pool' = Put(pool, lastSeq + 1, t)
    /\ lastSeq' = lastSeq + 1
    /\ keys' = Append(keys, lastSeq + 1)
    /\ accepted' = accepted \cup {t}
    /\ UNCHANGED <<height, current, chain, open, meta, stored, block, refused, faults>>

(* mempoolPrune of a pending transaction. *)
MempoolPrune(t) ==
    /\ \E i \in 1 .. Len(keys) :
         /\ keys[i] \in DOMAIN pool /\ pool[keys[i]] = t
         /\ pool' = Without(pool, {keys[i]})
         /\ keys' = RemoveAt(keys, i)
    /\ refused' = refused \cup {t}
    /\ UNCHANGED <<height, current, chain, open, meta, stored, lastSeq, block, accepted, faults>>

---------------------------------------------------------------------------
(* produceBlock, one action for each write. *)

(* prepareBlock: the first keys of the queue; what no longer passes CheckTx *)
(* is consumed without being included.                                      *)
PrepareBlock ==
    /\ block.step = "idle" /\ (keys # <<>> \/ height < MaxEmpty)
    /\ LET consumed == SubSeq(keys, 1, IF Len(keys) < TxsPerBlock THEN Len(keys) ELSE TxsPerBlock)
           txs == SelectSeq([i \in 1 .. Len(consumed) |-> pool[consumed[i]]],
                            LAMBDA t : Valid(t, chain.applied \cup open))
       IN /\ block' = [step |-> "prepared", txs |-> txs, consumed |-> consumed]
          /\ refused' = refused \cup ({pool[consumed[i]] : i \in 1 .. Len(consumed)} \ ToSet(txs))
    /\ UNCHANGED <<height, current, chain, open, meta, stored, pool, lastSeq, keys, accepted, faults>>

(* ExecuteBlock: rollback, then the transactions in a new state transaction. *)
ExecuteBlock ==
    /\ block.step = "prepared"
    /\ current' = height
    /\ open' = Execute(block.txs, chain.applied) \ chain.applied
    /\ block' = [block EXCEPT !.step = "executed"]
    /\ UNCHANGED <<height, chain, meta, stored, pool, lastSeq, keys, accepted, refused, faults>>

StoreBlockMeta ==
    /\ block.step = "executed"
    /\ meta' = meta \cup {height}
    /\ block' = [block EXCEPT !.step = "meta"]
    /\ UNCHANGED <<height, current, chain, open, stored, pool, lastSeq, keys, accepted, refused, faults>>

StoreTxs ==
    /\ block.step = "meta"
    /\ stored' = Put(stored, height, block.txs)
    /\ block' = [block EXCEPT !.step = "stored"]
    /\ UNCHANGED <<height, current, chain, open, meta, pool, lastSeq, keys, accepted, refused, faults>>

Saved == [version |-> current, applied |-> chain.applied \cup open]

CommitState ==
    /\ block.step = "stored"
    /\ chain' = Saved /\ open' = {}
    /\ block' = [block EXCEPT !.step = "committed"]
    /\ refused' = refused \cup (ToSet(block.txs) \ Saved.applied)
    /\ UNCHANGED <<height, current, meta, stored, pool, lastSeq, keys, accepted, faults>>

(* commitMempoolCleanup, and the block is done.  The fault: the consumed    *)
(* keys are taken from the front of the queue as it is now.                 *)
CleanedKeys_Front(ks, consumed) == SubSeq(ks, 1 + Len(consumed), Len(ks))
CleanedKeys(ks, consumed) == SelectSeq(ks, LAMBDA k : k \notin ToSet(consumed))

CommitMempoolCleanup ==
    /\ block.step = "committed"
    /\ pool' = Without(pool, ToSet(block.consumed))
    /\ keys' = CleanedKeys(keys, block.consumed)
    /\ block' = Idle
    /\ height' = height + 1
    /\ UNCHANGED <<current, chain, open, meta, stored, lastSeq, accepted, refused, faults>>

(* A write fails: produceBlock returns, and the loop tries again. *)
ProduceBlockError ==
    /\ block.step \in {"prepared", "executed", "meta", "stored"}
    /\ faults < MaxFaults /\ faults' = faults + 1
    /\ block' = Idle
    /\ UNCHANGED <<height, current, chain, open, meta, stored, pool, lastSeq, keys, accepted, refused>>

(* CreateAccount, SetTxCost, SetBulkTxCosts: commit() saves whatever the    *)
(* state transaction holds, at the current height.                          *)
AdminCommit ==
    /\ block.step = "idle"
    /\ chain' = Saved /\ open' = {}
    /\ UNCHANGED <<height, current, meta, stored, pool, lastSeq, keys, block, accepted, refused, faults>>

(* loadMempool: pending transactions in the order of their numbers. *)
LoadMempool == SetToSortSeq(DOMAIN pool, <)

(* The process stops; NewVocone recovers the height from the state and the  *)
(* block store, and SetKeyKeeper commits the state at that height.          *)
NextHeight == IF chain.version \in meta THEN chain.version + 1 ELSE chain.version
Restart ==
    /\ faults < MaxFaults /\ faults' = faults + 1
    /\ height' = NextHeight /\ current' = NextHeight
    /\ chain' = [chain EXCEPT !.version = NextHeight]
    /\ open' = {} /\ block' = Idle
    /\ keys' = LoadMempool
    /\ UNCHANGED <<meta, stored, pool, lastSeq, accepted, refused>>

---------------------------------------------------------------------------
VoconeInit ==
    /\ height = 0 /\ current = 0
    /\ chain = [version |-> 0, applied |-> {}] /\ open = {}
    /\ meta = {} /\ stored = <<>>
    /\ pool = <<>> /\ lastSeq = 0 /\ keys = <<>>
    /\ block = Idle /\ accepted = {} /\ refused = {} /\ faults = 0

ProduceBlock ==
    \/ PrepareBlock
    \/ ExecuteBlock
    \/ StoreBlockMeta
    \/ StoreTxs
    \/ CommitState
    \/ CommitMempoolCleanup

VoconeNext ==
    \/ \E t \in Txs : AddTx(t)
    \/ \E t \in Txs : MempoolPrune(t)
    \/ ProduceBlock
    \/ ProduceBlockError
    \/ AdminCommit
    \/ Restart

(* Start loops over produceBlock for as long as the process runs. *)
VoconeFairness == WF_voconeVars(ProduceBlock)
VoconeSpec == VoconeInit /\ [][VoconeNext]_voconeVars /\ VoconeFairness

---------------------------------------------------------------------------
(* Again and again a moment comes at which every transaction that addTx     *)
(* accepted is applied to the saved state or refused: no crash, failed      *)
(* write, restart of the mempool or transaction that arrives while a block  *)
(* is made leaves one behind.                                               *)
AcceptedTxsAreSettled == []<>(accepted \subseteq chain.applied \cup refused)

=============================================================================
