---------------------------- MODULE MCServices ----------------------------
(* The services that a node runs beside the chain, for one TLC run about     *)
(* what must eventually happen: the key keeper, the downloader of off-chain  *)
(* data, and the single-node vocone. A behaviour is one of one service; the  *)
(* others stay in their initial state.                                       *)
EXTENDS Naturals

CONSTANTS
    EncProcs, MaxRestarts,
    URIs, Missing, ImportQueueBuffer, ImportQueueRoutines, MaxDlRestarts,
    Txs, MempoolSize, TxsPerBlock, MaxEmpty, MaxFaults, t3

VARIABLES
    focus,  \* the service of this behaviour
    kOpen, kSaved, kBlock, kSynced, toAdd, toReveal, sending, mempool, rescue, restarts,
    importOnlyNew, oBlock, oSynced, oQueue, onChain, enqueuers, channel, fetching,
    failed, retrying, cached, callbacks, expected, imported, dlRestarts,
    height, current, chain, open, meta, stored, pool, lastSeq, keys, block,
    accepted, refused, faults

Keys == INSTANCE KeyKeeper

Data == INSTANCE OffChain

(* t3 spends the nonce that follows the one of the others.                   *)
Single == INSTANCE Vocone WITH Nonce <- [t \in Txs |-> IF t = t3 THEN 2 ELSE 1]

keyVars == <<kOpen, kSaved, kBlock, kSynced, toAdd, toReveal, sending, mempool, rescue, restarts>>

dataVars == <<importOnlyNew, oBlock, oSynced, oQueue, onChain, enqueuers, channel, fetching,
              failed, retrying, cached, callbacks, expected, imported, dlRestarts>>

singleVars == <<height, current, chain, open, meta, stored, pool, lastSeq, keys, block,
                accepted, refused, faults>>

vars == <<focus, keyVars, dataVars, singleVars>>

Init ==
    /\ focus \in {"keykeeper", "offchain", "vocone"}
    /\ Keys!KeyInit
    /\ Data!DlInit
    /\ Single!VoconeInit
    /\ focus # "offchain" => ~importOnlyNew /\ onChain = {}

KeyStep == focus = "keykeeper" /\ Keys!KeyNext
           /\ UNCHANGED <<focus, dataVars, singleVars>>

DataStep == focus = "offchain" /\ Data!DlNext
            /\ UNCHANGED <<focus, keyVars, singleVars>>

SingleStep == focus = "vocone" /\ Single!VoconeNext
              /\ UNCHANGED <<focus, keyVars, dataVars>>

Next == KeyStep \/ DataStep \/ SingleStep

(* The fairness each service assumes, in the behaviours of that service.     *)
On(service) == focus = service

KeyFairness ==
    /\ SF_keyVars(On("keykeeper") /\ Keys!KBeginBlock("decided") /\ kSynced')
    /\ WF_keyVars(On("keykeeper") /\ Keys!KCommit)
    /\ WF_keyVars(On("keykeeper") /\ Keys!RevealUnpublished)
    /\ \A tx \in Keys!KeyTxs :
        /\ WF_keyVars(On("keykeeper") /\ Keys!KSend(tx))
        /\ WF_keyVars(On("keykeeper") /\ kBlock = "decided" /\ Keys!KDeliver(tx))

DlFairness ==
    /\ WF_dataVars(On("offchain") /\ Data!ImportQueueDaemon)
    /\ WF_dataVars(On("offchain") /\ Data!ImportFailedQueue)
    /\ \A u \in URIs :
        /\ SF_dataVars(On("offchain") /\ Data!AddToQueue(u))
        /\ WF_dataVars(On("offchain") /\ Data!Callback(u))
        /\ WF_dataVars(On("offchain") /\ \E r \in Data!Outcomes : Data!HandleImport(u, r))
        /\ WF_dataVars(On("offchain") /\ \E r \in Data!Outcomes : Data!HandleImportFailedQueue(u, r))
        /\ SF_dataVars(On("offchain") /\ Data!HandleImportFailedQueue(u, "ok"))

Spec ==
    /\ Init /\ [][Next]_vars
    /\ KeyFairness
    /\ DlFairness
    /\ WF_singleVars(On("vocone") /\ Single!ProduceBlock)

(* KeyKeeper: the key of an ended election is revealed despite restarts.     *)
EndedKeysAreRevealed == Keys!EndedKeysAreRevealed

(* OffChain: a committed file that a peer has is imported.                   *)
CommittedFilesImported == Data!CommittedFilesImported

(* Vocone: a transaction addTx accepted is applied or refused.               *)
AcceptedTxsAreSettled == Single!AcceptedTxsAreSettled

=============================================================================
