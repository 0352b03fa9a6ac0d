------------------------------ MODULE KeyKeeper ------------------------------
(***************************************************************************)
(* The key keeper of one validator.  It listens to the state: a new        *)
(* encrypted election queues the publication of the validator's public     *)
(* key, an ended one the revelation of its private key.  When the block is *)
(* committed every queued item is sent by a goroutine of its own as a      *)
(* transaction to the mempool, and nothing is tried again: what a restart  *)
(* loses is only rescued, for the revelations, by RevealUnpublished.       *)
(*                                                                         *)
(* The heights of blocks are abstracted, so that a behaviour may have any  *)
(* number of blocks.                                                       *)
(***************************************************************************)
EXTENDS Naturals

CONSTANTS
    EncProcs,    \* elections, encrypted
    MaxRestarts  \* bound on the restarts of the node

VARIABLES
    kOpen,    \* elections in the open state: status, and the validator's key
    kSaved,   \* the saved state
    kBlock,   \* "none", or the block executed: "proposal" or "decided"
    kSynced,  \* BaseApplication.isSynced
    toAdd,    \* pidsToAddKeys
    toReveal, \* pidsToRevealKeys
    sending,  \* goroutines started by Commit
    mempool,  \* transactions in the mempool
    rescue,   \* "wait" until RevealUnpublished has run
    restarts

kkVars == <<kOpen, kSaved, kBlock, kSynced, toAdd, toReveal, sending, mempool, rescue, restarts>>

KeyInit ==
    /\ kOpen = [p \in EncProcs |-> [status |-> "none", key |-> "none"]]
    /\ kSaved = kOpen
    /\ kBlock = "none" /\ kSynced = FALSE
    /\ toAdd = {} /\ toReveal = {}
    /\ sending = {} /\ mempool = {}
    /\ rescue = "wait"
    /\ restarts = 0

\* beginBlock updates isSynced and rolls back, which clears both queues.  Any
\* number of proposals may be executed before the decided block.
KBeginBlock(b) ==
    /\ kBlock # "decided"
    /\ kBlock' = b
    /\ kSynced' \in {kSynced, TRUE}
    /\ kOpen' = kSaved
    /\ toAdd' = {} /\ toReveal' = {}
    /\ UNCHANGED <<kSaved, sending, mempool, rescue, restarts>>

\* NewProcess and OnProcess: the key cannot be there yet.
KOnProcess(p) ==
    /\ kBlock # "none" /\ kOpen[p].status = "none"
    /\ kOpen' = [kOpen EXCEPT ![p].status = "READY"]
    /\ toAdd' = toAdd \cup {p}
    /\ UNCHANGED <<kSaved, kBlock, kSynced, toReveal, sending, mempool, rescue, restarts>>

\* An election ends: OnProcessStatusChange reads the process from the open state.
KOnEnded(p) ==
    /\ kBlock # "none" /\ kOpen[p].status = "READY"
    /\ kOpen' = [kOpen EXCEPT ![p].status = "ENDED"]
    /\ toReveal' = IF kOpen[p].key # "none" THEN toReveal \cup {p} ELSE toReveal
    /\ UNCHANGED <<kSaved, kBlock, kSynced, toAdd, sending, mempool, rescue, restarts>>

\* AdminTxCheck
AdminTxCheck(tx, s) ==
    \/ tx.type = "add" /\ s[tx.pid].status = "READY" /\ s[tx.pid].key = "none"
    \/ tx.type = "reveal" /\ s[tx.pid].status = "ENDED" /\ s[tx.pid].key = "added"

\* A transaction of the mempool is part of the block.
KDeliver(tx) ==
    /\ kBlock # "none" /\ tx \in mempool /\ AdminTxCheck(tx, kOpen)
    /\ kOpen' = [kOpen EXCEPT ![tx.pid].key = IF tx.type = "add" THEN "added" ELSE "revealed"]
    /\ UNCHANGED <<kSaved, kBlock, kSynced, toAdd, toReveal, sending, mempool, rescue, restarts>>

\* The results follow the revelation, in a later block.
KPublishResults(p) ==
    /\ kBlock # "none" /\ kSaved[p] = [status |-> "ENDED", key |-> "revealed"] /\ kOpen[p] = kSaved[p]
    /\ kOpen' = [kOpen EXCEPT ![p].status = "RESULTS"]
    /\ UNCHANGED <<kSaved, kBlock, kSynced, toAdd, toReveal, sending, mempool, rescue, restarts>>

Tx(type, p) == [type |-> type, pid |-> p]

\* The proposer takes every valid transaction of the mempool.  Commit starts the
\* goroutines and leaves the queues to the next Rollback; the mempool drops the
\* transactions that are no longer valid.
KCommit ==
    /\ kBlock = "decided"
    /\ \A tx \in mempool : ~AdminTxCheck(tx, kOpen)
    /\ kBlock' = "none"
    /\ kSaved' = kOpen
    /\ sending' = sending \cup {Tx("add", p) : p \in toAdd} \cup {Tx("reveal", p) : p \in toReveal}
    /\ mempool' = {}
    /\ UNCHANGED <<kOpen, kSynced, toAdd, toReveal, rescue, restarts>>

\* signAndSendTx: CheckTx refuses a transaction the open state does not allow.
SendTx(txs) == mempool \cup {tx \in txs : AdminTxCheck(tx, kOpen)}

\* addKeys or revealKeys in its goroutine.
KSend(tx) ==
    /\ tx \in sending
    /\ sending' = sending \ {tx}
    /\ mempool' = SendTx({tx})
    /\ UNCHANGED <<kOpen, kSaved, kBlock, kSynced, toAdd, toReveal, rescue, restarts>>

\* Faulty: looks for elections that already have results.
Unpublished_Results(p) == kSaved[p].status = "RESULTS" /\ kSaved[p].key # "none"

\* An ended election of the saved state with a key of this validator.
Unpublished(p) == kSaved[p].status = "ENDED" /\ kSaved[p].key # "none"

\* RevealUnpublished, once after the start, when the node is synced.
RevealUnpublished ==
    /\ rescue = "wait" /\ kSynced
    /\ rescue' = "done"
    /\ mempool' = SendTx({Tx("reveal", p) : p \in {q \in EncProcs : Unpublished(q)}})
    /\ UNCHANGED <<kOpen, kSaved, kBlock, kSynced, toAdd, toReveal, sending, restarts>>

\* Queues, goroutines and mempool are in memory.
KRestart ==
    /\ restarts < MaxRestarts
    /\ restarts' = restarts + 1
    /\ kOpen' = kSaved
    /\ kBlock' = "none" /\ kSynced' = FALSE
    /\ toAdd' = {} /\ toReveal' = {} /\ sending' = {} /\ mempool' = {}
    /\ rescue' = "wait"
    /\ UNCHANGED kSaved

KeyTxs == [type : {"add", "reveal"}, pid : EncProcs]

KeyNext ==
    \/ \E b \in {"proposal", "decided"} : KBeginBlock(b)
    \/ \E p \in EncProcs : KOnProcess(p) \/ KOnEnded(p) \/ KPublishResults(p)
    \/ \E tx \in KeyTxs : KDeliver(tx) \/ KSend(tx)
    \/ KCommit
    \/ RevealUnpublished
    \/ KRestart

\* The chain keeps deciding blocks, and a decided block is saved (beginBlock and
\* Commit); a block carries the valid transactions of the mempool; goroutines
\* and the rescue run; once caught up, the node stays synced.
KeyFairness ==
    /\ SF_kkVars(KBeginBlock("decided") /\ kSynced') /\ WF_kkVars(KCommit)
    /\ WF_kkVars(RevealUnpublished)
    /\ \A tx \in KeyTxs :
        /\ WF_kkVars(KSend(tx))
        /\ WF_kkVars(kBlock = "decided" /\ KDeliver(tx))

KeySpec == KeyInit /\ [][KeyNext]_kkVars /\ KeyFairness

\* Again and again a moment comes at which the private key of every ended
\* election whose public key was published is revealed: every one is in the end
\* (elections do not end twice), although the node may stop between the end of
\* an election and the inclusion of the transaction that reveals its key.
EndedKeysAreRevealed ==
    []<>(\A p \in EncProcs : kSaved[p].status = "ENDED" => kSaved[p].key # "added")

=============================================================================
