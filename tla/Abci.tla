--------------------------------- MODULE Abci ---------------------------------
(***************************************************************************)
(* The block life cycle of one node: CometBFT proposes blocks, decides one *)
(* per height and drives BaseApplication through PrepareProposal,          *)
(* ProcessProposal, FinalizeBlock and Commit.  A validator executes a      *)
(* proposal optimistically in ProcessProposal and remembers its block hash *)
(* and root, so that FinalizeBlock can skip the execution.                 *)
(*                                                                         *)
(* A state of the application is abstracted to the sequence of blocks      *)
(* executed to reach it; the Merkle root stands for the same sequence.     *)
(* The node may crash between any two calls; CometBFT then replays the     *)
(* decided blocks that the application does not report in Info.            *)
(***************************************************************************)
EXTENDS Naturals, Sequences

CONSTANTS
    Blocks,        \* blocks that can be proposed at a height
    InvalidBlocks, \* those that hold a transaction whose execution fails
    IsProposer,    \* whether this node is ever asked for a proposal
    Roles,         \* whether the node may be a validator, a full node, or both
    Nil,
    MaxHeight,     \* bound on the number of decided blocks
    MaxCrashes     \* bound on the number of crashes

ASSUME AbciAssumption ==
    /\ InvalidBlocks \subseteq Blocks
    /\ IsProposer \in BOOLEAN
    /\ Roles \subseteq BOOLEAN
    /\ MaxHeight \in Nat
    /\ MaxCrashes \in Nat

VARIABLES
    decided,   \* the chain CometBFT has decided (external)
    engine,    \* what CometBFT does next: "propose", "apply" or "commit";
               \* "failed" after an error of FinalizeBlock
    applying,  \* the height CometBFT is applying
    crashes,   \* number of crashes so far
    saved,     \* the state in persistent storage
    tx,        \* the on-going state, in the open StateDB transaction
    last,      \* lastBlockHash and lastRootHash
    appHash,   \* the root returned by the last FinalizeBlock
    validator  \* whether the node is a validator in the committed state

vars == <<decided, engine, applying, crashes, saved, tx, last, appHash, validator>>

\* chain: the executed blocks; version: the StateDB version, which is the last
\* height; scores: heights whose validator score update is scheduled.
StateDB == [chain : Seq(Blocks), version : Nat, scores : SUBSET Nat]

\* The block hash covers the height.
BlockHash(h, b) == <<h, b>>

Init ==
    /\ decided = <<>>
    /\ engine = "propose"
    /\ applying = 0
    /\ crashes = 0
    /\ saved = [chain |-> <<>>, version |-> 0, scores |-> {}]
    /\ tx = saved
    /\ last = Nil
    /\ appHash = <<>>
    /\ validator \in Roles

-----------------------------------------------------------------------------
(* The application *)

\* Faulty: the on-going state is not rolled back first.
Executed_NoRollback(b, h) ==
    [chain   |-> Append(tx.chain, b),
     version |-> h,
     scores  |-> {s \in tx.scores : s + 1 > h}]

\* The on-going state after ExecuteBlock, which starts with a rollback, runs
\* the score updates that are due and ends with PrepareCommit.
Executed(b, h) ==
    [chain   |-> Append(saved.chain, b),
     version |-> h,
     scores  |-> {s \in saved.scores : s + 1 > h}]

\* The transactions are tried on the on-going state, between two rollbacks.
PrepareProposal ==
    /\ engine = "propose"
    /\ IsProposer /\ validator
    /\ tx' = saved
    /\ UNCHANGED <<decided, engine, applying, crashes, saved, last, appHash, validator>>

\* A full node forgets what it remembers and accepts.  A validator executes
\* the block, and remembers the result unless a transaction failed.
ProcessProposal(b) ==
    /\ engine = "propose"
    /\ LET h == Len(decided) + 1
       IN  \/ /\ ~validator
              /\ last' = Nil
              /\ UNCHANGED tx
           \/ /\ validator
              /\ tx' = Executed(b, h)
              /\ last' = IF b \in InvalidBlocks THEN last
                         ELSE [hash |-> BlockHash(h, b), root |-> Executed(b, h).chain]
    /\ UNCHANGED <<decided, engine, applying, crashes, saved, appHash, validator>>

\* Faulty: any remembered root is taken for the root of the decided block.
ResultsKnown_AnyHash(hash) == last # Nil

\* FinalizeBlock skips the execution when the block is the remembered one.
ResultsKnown(hash) == last # Nil /\ last.hash = hash

\* The remembered or the computed result, then the score update of this block
\* is scheduled for the next one; Schedule refuses a second one.
FinalizeBlock ==
    LET b == decided[applying]
        known == ResultsKnown(BlockHash(applying, b))
        done == IF known THEN tx ELSE Executed(b, applying)
    IN  /\ engine = "apply"
        /\ \/ /\ applying \notin done.scores
              /\ tx' = [done EXCEPT !.scores = @ \cup {applying}]
              /\ appHash' = IF known THEN last.root ELSE done.chain
              /\ engine' = "commit"
           \/ /\ applying \in done.scores
              /\ tx' = done
              /\ engine' = "failed"
              /\ UNCHANGED appHash
        /\ UNCHANGED <<decided, applying, crashes, saved, last, validator>>

\* CommitState saves the on-going state and opens a new transaction on it.
Commit ==
    /\ engine = "commit"
    /\ saved' = tx
    /\ validator' \in Roles
    /\ IF applying = Len(decided)
       THEN engine' = "propose" /\ UNCHANGED applying
       ELSE engine' = "apply" /\ applying' = applying + 1
    /\ UNCHANGED <<decided, crashes, tx, last, appHash>>

-----------------------------------------------------------------------------
(* CometBFT *)

\* Two thirds of the validators accept a block only when it executes without
\* failing transactions.
Decide(b) ==
    /\ engine = "propose"
    /\ Len(decided) < MaxHeight
    /\ b \notin InvalidBlocks
    /\ decided' = Append(decided, b)
    /\ applying' = Len(decided) + 1
    /\ engine' = "apply"
    /\ UNCHANGED <<crashes, saved, tx, last, appHash, validator>>

\* Faulty: the application reports one height too many, and CometBFT does not
\* replay the block that was being applied.
LastHeight_Next == saved.version + 1

\* State.LastHeight, as Info reports it.
LastHeight == saved.version

\* A crash and the handshake of the restart: what was not saved is lost, and
\* the blocks after the last height of the application are applied again.
Restart ==
    /\ crashes < MaxCrashes
    /\ crashes' = crashes + 1
    /\ tx' = saved
    /\ last' = Nil
    /\ IF LastHeight < Len(decided)
       THEN engine' = "apply" /\ applying' = LastHeight + 1
       ELSE engine' = "propose" /\ applying' = Len(decided)
    /\ UNCHANGED <<decided, saved, appHash, validator>>

\* The bounded chain is over, or the node cannot go on.
Over ==
    /\ engine = "failed" \/ (engine = "propose" /\ Len(decided) = MaxHeight)
    /\ UNCHANGED vars

Next ==
    \/ PrepareProposal
    \/ \E b \in Blocks : ProcessProposal(b) \/ Decide(b)
    \/ FinalizeBlock
    \/ Commit
    \/ Restart
    \/ Over

\* CometBFT applies a decided block without waiting for anything else.
Fairness == WF_vars(FinalizeBlock) /\ WF_vars(Commit)

Spec == Init /\ [][Next]_vars /\ Fairness

-----------------------------------------------------------------------------
(* Properties *)

\* Every variable holds a value of the kind the code stores there.
TypeOK ==
    /\ decided \in Seq(Blocks)
    /\ engine \in {"propose", "apply", "commit", "failed"}
    /\ applying \in Nat
    /\ crashes \in Nat
    /\ saved \in StateDB
    /\ tx \in StateDB
    /\ last \in [hash : Nat \X Blocks, root : Seq(Blocks)] \cup {Nil}
    /\ appHash \in Seq(Blocks)
    /\ validator \in BOOLEAN

\* The application hash that FinalizeBlock returns is the root of the decided
\* block executed on the saved state, whether it was executed now or in
\* ProcessProposal, and whatever other proposals came in between.
FinalizeReturnsDecidedRoot ==
    engine = "commit" => appHash = Append(saved.chain, decided[applying])

\* The saved state is the execution of the decided blocks up to the height it
\* reports, and of all of them when CometBFT goes on to the next height:
\* lastRootHash is "the last root hash of the current on-going state", so a
\* skipped execution leaves in tx what Commit has to save.
SavedStateIsDecidedState ==
    /\ saved.version <= Len(decided)
    /\ saved.chain = SubSeq(decided, 1, saved.version)
    /\ engine = "propose" => saved.version = Len(decided)

\* Each saved block leaves exactly its own validator score update to the next
\* one: the updates are neither lost nor applied twice by a replay.
OneScoreUpdatePerBlock ==
    saved.scores = IF saved.version = 0 THEN {} ELSE {saved.version}

\* Every decided block reaches persistent storage, also when the node crashes
\* while it applies it.
DecidedBlocksAreSaved ==
    \A h \in 1..MaxHeight : Len(decided) >= h ~> saved.version >= h
=============================================================================
