----------------------------- MODULE AbciProofs -----------------------------
(***************************************************************************)
(* Proofs about the block life cycle, for every set of blocks, every       *)
(* number of heights and every number of crashes.                          *)
(*                                                                         *)
(* FinalizeBlock returns the root of the decided block on any node         *)
(* (RootInv).  On a node that never proposes and is offered no proposal    *)
(* that fails, the on-going transaction is besides what the remembered     *)
(* root says (FollowerInv), and the saved state is the decided one.        *)
(***************************************************************************)
EXTENDS Abci, SequenceTheorems, TLAPS

\* What the engine is about to apply, or to vote on.
NextHeight == IF engine = "propose" THEN Len(decided) + 1 ELSE applying

\* The height being applied was decided.
EngineInv ==
    /\ engine \in {"apply", "commit"} => applying \in 1 .. Len(decided)
    /\ engine = "propose" => applying = Len(decided)

\* A remembered root is of no later height than the next one, and of the next
\* one only if it extends the saved state by the remembered block.
MemoryInv ==
    last # Nil =>
        /\ engine # "failed" => last.hash[1] <= NextHeight
        /\ engine \in {"propose", "apply"} /\ last.hash[1] = NextHeight
             => last.root = Append(saved.chain, last.hash[2])

RootInv == TypeOK /\ EngineInv /\ MemoryInv /\ FinalizeReturnsDecidedRoot

\* The state in which block b is executed on top of s, with no score update
\* left over.
Extended(s, b, scores) ==
    [chain |-> Append(s.chain, b), version |-> s.version + 1, scores |-> scores]

\* The next height is the one after the saved state.  A block that was executed
\* in advance is in the on-going transaction while its root is remembered, and
\* so is the finalized block, with its score update.
FollowerInv ==
    /\ engine # "failed"
    /\ NextHeight = saved.version + 1
    /\ engine \in {"propose", "apply"} /\ last # Nil /\ last.hash[1] = NextHeight
         => tx = Extended(saved, last.hash[2], {})
    /\ engine = "commit" => tx = Extended(saved, decided[applying], {applying})

\* A node that is never asked for a proposal, and sees only proposals that
\* execute without failing transactions.
Follower == ~IsProposer /\ InvalidBlocks = {}

SafetyInv == SavedStateIsDecidedState /\ OneScoreUpdatePerBlock

-----------------------------------------------------------------------------
\* An executed block gives a state of the application.
LEMMA ExecutedType ==
    ASSUME TypeOK, NEW b \in Blocks, NEW h \in Nat
    PROVE  Executed(b, h) \in StateDB
<1>1. Append(saved.chain, b) \in Seq(Blocks)
  BY AppendProperties DEF TypeOK, StateDB
<1> QED
  BY <1>1 DEF TypeOK, StateDB, Executed

\* Every state is well-formed and FinalizeBlock returns the root of the decided
\* block: the invariant holds initially.
LEMMA RootInit == Init => RootInv
  BY AbciAssumption DEF Init, RootInv, TypeOK, StateDB, EngineInv, MemoryInv, FinalizeReturnsDecidedRoot

\* The steps of CometBFT and of the application keep the well-formedness.
LEMMA TypeStep == TypeOK /\ EngineInv /\ [Next]_vars => TypeOK'
<1> SUFFICES ASSUME TypeOK, EngineInv, [Next]_vars PROVE TypeOK'
  OBVIOUS
<1> USE AbciAssumption
<1>0. Len(decided) \in Nat
  BY DEF TypeOK
<1>1. CASE PrepareProposal
  BY <1>1 DEF PrepareProposal, TypeOK
<1>2. ASSUME NEW b \in Blocks, ProcessProposal(b) PROVE TypeOK'
  <2>1. Executed(b, Len(decided) + 1) \in StateDB
    BY <1>0, ExecutedType
  <2>2. CASE ~validator
    BY <1>2, <2>2 DEF ProcessProposal, TypeOK
  <2>3. CASE validator
    <3>1. [hash |-> BlockHash(Len(decided) + 1, b), root |-> Executed(b, Len(decided) + 1).chain]
             \in [hash : Nat \X Blocks, root : Seq(Blocks)]
      BY <1>0, <2>1 DEF BlockHash, StateDB
    <3>2. last' \in [hash : Nat \X Blocks, root : Seq(Blocks)] \cup {Nil}
      BY <1>2, <2>3, <3>1 DEF ProcessProposal, TypeOK
    <3> QED
      BY <1>2, <2>1, <2>3, <3>2 DEF ProcessProposal, TypeOK
  <2> QED
    BY <2>2, <2>3
<1>3. ASSUME NEW b \in Blocks, Decide(b) PROVE TypeOK'
  <2>1. Append(decided, b) \in Seq(Blocks)
    BY AppendProperties DEF TypeOK
  <2> QED
    BY <1>0, <1>3, <2>1 DEF Decide, TypeOK
<1>4. CASE FinalizeBlock
  <2> DEFINE b == decided[applying]
             known == ResultsKnown(BlockHash(applying, b))
             done == IF known THEN tx ELSE Executed(b, applying)
  <2>1. applying \in 1 .. Len(decided) /\ b \in Blocks
    BY <1>0, <1>4, ElementOfSeq DEF FinalizeBlock, EngineInv, TypeOK
  <2>2. done \in StateDB
    BY <2>1, ExecutedType DEF TypeOK
  <2>3. known => last.root \in Seq(Blocks)
    BY DEF ResultsKnown, TypeOK
  <2>4. tx' \in StateDB
    <3>1. [done EXCEPT !.scores = @ \cup {applying}] \in StateDB
      BY <2>1, <2>2 DEF StateDB
    <3> QED
      BY <1>4, <2>2, <3>1 DEF FinalizeBlock
  <2>5. appHash' \in Seq(Blocks)
    BY <1>4, <2>2, <2>3 DEF FinalizeBlock, TypeOK, StateDB
  <2> QED
    BY <1>4, <2>4, <2>5 DEF FinalizeBlock, TypeOK
<1>5. CASE Commit
  BY <1>0, <1>5 DEF Commit, TypeOK
<1>6. CASE Restart
  BY <1>0, <1>6 DEF Restart, LastHeight, TypeOK, StateDB
<1>7. CASE Over \/ UNCHANGED vars
  BY <1>7 DEF Over, vars, TypeOK
<1> QED
  BY <1>1, <1>2, <1>3, <1>4, <1>5, <1>6, <1>7 DEF Next

-----------------------------------------------------------------------------
\* Decided heights are applied one after the other.
LEMMA EngineStep == TypeOK /\ EngineInv /\ [Next]_vars => EngineInv'
<1> SUFFICES ASSUME TypeOK, EngineInv, [Next]_vars PROVE EngineInv'
  OBVIOUS
<1>0. Len(decided) \in Nat /\ applying \in Nat /\ saved.version \in Nat
  BY DEF TypeOK, StateDB
<1>1. CASE PrepareProposal \/ Over \/ UNCHANGED vars
  BY <1>1 DEF PrepareProposal, Over, vars, EngineInv
<1>2. ASSUME NEW b \in Blocks, ProcessProposal(b) PROVE EngineInv'
  BY <1>2 DEF ProcessProposal, EngineInv
<1>3. ASSUME NEW b \in Blocks, Decide(b) PROVE EngineInv'
  <2>1. Len(decided') = Len(decided) + 1
    BY <1>3, AppendProperties DEF Decide, TypeOK
  <2> QED
    BY <1>0, <1>3, <2>1 DEF Decide, EngineInv
<1>4. CASE FinalizeBlock
  BY <1>4 DEF FinalizeBlock, EngineInv
<1>5. CASE Commit
  BY <1>0, <1>5 DEF Commit, EngineInv
<1>6. CASE Restart
  BY <1>0, <1>6 DEF Restart, LastHeight, EngineInv
<1> QED
  BY <1>1, <1>2, <1>3, <1>4, <1>5, <1>6 DEF Next

\* A remembered root stays the root of the saved state and its block, until its
\* height is over, and it is what FinalizeBlock returns.
LEMMA MemoryStep == RootInv /\ [Next]_vars => MemoryInv' /\ FinalizeReturnsDecidedRoot'
<1> SUFFICES ASSUME RootInv, [Next]_vars PROVE MemoryInv' /\ FinalizeReturnsDecidedRoot'
  OBVIOUS
<1> USE DEF RootInv
<1>0. Len(decided) \in Nat /\ applying \in Nat /\ (last # Nil => last.hash[1] \in Nat)
  BY DEF TypeOK
<1>1. CASE PrepareProposal \/ Over \/ UNCHANGED vars
  BY <1>1 DEF PrepareProposal, Over, vars, MemoryInv, NextHeight, FinalizeReturnsDecidedRoot
<1>2. ASSUME NEW b \in Blocks, ProcessProposal(b) PROVE MemoryInv' /\ FinalizeReturnsDecidedRoot'
  <2>1. FinalizeReturnsDecidedRoot'
    BY <1>2 DEF ProcessProposal, FinalizeReturnsDecidedRoot
  <2>2. CASE ~validator
    BY <1>2, <2>1, <2>2 DEF ProcessProposal, MemoryInv
  <2>3. CASE validator /\ b \in InvalidBlocks
    BY <1>2, <2>1, <2>3 DEF ProcessProposal, MemoryInv, NextHeight
  <2>4. CASE validator /\ b \notin InvalidBlocks
    BY <1>0, <1>2, <2>1, <2>4 DEF ProcessProposal, MemoryInv, NextHeight, BlockHash, Executed
  <2> QED
    BY <2>2, <2>3, <2>4
<1>3. ASSUME NEW b \in Blocks, Decide(b) PROVE MemoryInv' /\ FinalizeReturnsDecidedRoot'
  BY <1>0, <1>3 DEF Decide, MemoryInv, NextHeight, FinalizeReturnsDecidedRoot
<1>4. CASE FinalizeBlock
  <2>1. MemoryInv'
    BY <1>4 DEF FinalizeBlock, MemoryInv, NextHeight
  <2>2. CASE ResultsKnown(BlockHash(applying, decided[applying]))
    <3>1. last.root = Append(saved.chain, decided[applying])
      BY <1>4, <2>2 DEF FinalizeBlock, ResultsKnown, BlockHash, MemoryInv, NextHeight
    <3> QED
      BY <1>4, <2>1, <2>2, <3>1 DEF FinalizeBlock, FinalizeReturnsDecidedRoot
  <2>3. CASE ~ResultsKnown(BlockHash(applying, decided[applying]))
    BY <1>4, <2>1, <2>3 DEF FinalizeBlock, FinalizeReturnsDecidedRoot, Executed
  <2> QED
    BY <2>2, <2>3
<1>5. CASE Commit
  BY <1>0, <1>5 DEF Commit, EngineInv, MemoryInv, NextHeight, FinalizeReturnsDecidedRoot
<1>6. CASE Restart
  BY <1>6 DEF Restart, MemoryInv, FinalizeReturnsDecidedRoot
<1> QED
  BY <1>1, <1>2, <1>3, <1>4, <1>5, <1>6 DEF Next

\* RootInv is an invariant of every node.
THEOREM AnyNodeInductive == Spec => []RootInv
<1>1. RootInv /\ [Next]_vars => RootInv'
  BY TypeStep, EngineStep, MemoryStep DEF RootInv
<1> QED
  BY <1>1, RootInit, PTL DEF Spec

\* Every state of the block life cycle is well-formed.
THEOREM AbciTypeCorrect == Spec => []TypeOK
  BY AnyNodeInductive, PTL DEF RootInv

\* On every node, also one that proposes and sees invalid proposals, the
\* application hash of FinalizeBlock is that of the decided block.
THEOREM DecidedRootReturned == Spec => []FinalizeReturnsDecidedRoot
  BY AnyNodeInductive, PTL DEF RootInv

-----------------------------------------------------------------------------
(* A node that never proposes and sees only valid proposals.               *)

FullInv == RootInv /\ FollowerInv /\ SafetyInv

\* Executing the next block on the saved state leaves no score update: the one
\* of the saved block is due.
LEMMA ExecutedIsExtended ==
    ASSUME TypeOK, OneScoreUpdatePerBlock, NEW b \in Blocks
    PROVE  Executed(b, saved.version + 1) = Extended(saved, b, {})
<1>1. saved.version \in Nat
  BY DEF TypeOK, StateDB
<1>2. {s \in saved.scores : s + 1 > saved.version + 1} = {}
  BY <1>1 DEF OneScoreUpdatePerBlock
<1> QED
  BY <1>2 DEF Executed, Extended

\* A longer chain has the same blocks up to an earlier height.
LEMMA PrefixOfAppend ==
    ASSUME NEW S, NEW s \in Seq(S), NEW b \in S, NEW n \in 0 .. Len(s)
    PROVE  SubSeq(Append(s, b), 1, n) = SubSeq(s, 1, n)
<1>1. /\ Append(s, b) \in Seq(S) /\ Len(Append(s, b)) = Len(s) + 1
      /\ \A i \in 1 .. Len(s) : Append(s, b)[i] = s[i]
  BY AppendProperties
<1> DEFINE u == SubSeq(Append(s, b), 1, n)
           v == SubSeq(s, 1, n)
<1>2. Len(s) \in Nat /\ n \in Nat
  OBVIOUS
<1>3. /\ u \in Seq(S) /\ Len(u) = n /\ \A i \in 1 .. n : u[i] = Append(s, b)[i]
      /\ v \in Seq(S) /\ Len(v) = n /\ \A i \in 1 .. n : v[i] = s[i]
  BY <1>1, <1>2
<1>4. \A i \in 1 .. n : u[i] = v[i]
  BY <1>1, <1>2, <1>3
<1> HIDE DEF u, v
<1>5. u = v
  BY <1>3, <1>4, SeqEqual
<1> QED
  BY <1>5 DEF u, v

\* The decided blocks up to a height, and the block of the next.
LEMMA PrefixGrows ==
    ASSUME NEW S, NEW s \in Seq(S), NEW n \in Nat, n + 1 \in 1 .. Len(s)
    PROVE  SubSeq(s, 1, n + 1) = Append(SubSeq(s, 1, n), s[n + 1])
<1>1. SubSeq(s, 1, n + 1) = SubSeq(s, 1, n) \o << s[n + 1] >>
  BY SubSeqRecursiveSecond
<1>2. SubSeq(s, 1, n) \in Seq(S) /\ s[n + 1] \in S
  BY SubSeqProperties, ElementOfSeq
<1> QED
  BY <1>1, <1>2, AppendIsConcat

\* A node starts with the empty chain saved and nothing remembered.
LEMMA FollowerInit == Init => FollowerInv /\ SafetyInv
<1> SUFFICES ASSUME Init PROVE FollowerInv /\ SafetyInv
  OBVIOUS
<1>1. Len(decided) = 0 /\ SubSeq(decided, 1, 0) = <<>>
  BY DEF Init
<1>2. FollowerInv
  BY <1>1 DEF Init, FollowerInv, NextHeight
<1>3. SavedStateIsDecidedState
  BY <1>1 DEF Init, SavedStateIsDecidedState
<1>4. OneScoreUpdatePerBlock
  BY DEF Init, OneScoreUpdatePerBlock
<1> QED
  BY <1>2, <1>3, <1>4 DEF SafetyInv

\* Proposals, decisions, execution, saving and crashes keep the on-going
\* transaction in step with the remembered root, and the saved state in step
\* with the decided chain.
LEMMA FollowerStep ==
    ASSUME Follower, FullInv, [Next]_vars
    PROVE  FollowerInv' /\ SafetyInv'
<1> USE DEF FullInv, RootInv, SafetyInv
<1>0. /\ Len(decided) \in Nat /\ applying \in Nat /\ saved.version \in Nat
      /\ last # Nil => last.hash[1] \in Nat
  BY DEF TypeOK, StateDB
<1>1. CASE PrepareProposal
  BY <1>1 DEF PrepareProposal, Follower
<1>2. ASSUME NEW b \in Blocks, ProcessProposal(b) PROVE FollowerInv' /\ SafetyInv'
  <2>1. SafetyInv'
    BY <1>2 DEF ProcessProposal, SavedStateIsDecidedState, OneScoreUpdatePerBlock
  <2>2. CASE ~validator
    BY <1>2, <2>1, <2>2 DEF ProcessProposal, FollowerInv, NextHeight
  <2>3. CASE validator
    <3>1. saved.version + 1 = Len(decided) + 1
      BY <1>0, <1>2 DEF ProcessProposal, FollowerInv, NextHeight
    <3>2. tx' = Extended(saved, b, {})
      BY <1>2, <2>3, <3>1, ExecutedIsExtended DEF ProcessProposal
    <3>3. last' # Nil => last'.hash = <<Len(decided) + 1, b>>
      BY <1>2, <2>3 DEF ProcessProposal, BlockHash, Follower
    <3>4. /\ engine = "propose" /\ engine' = "propose"
          /\ decided' = decided /\ saved' = saved /\ NextHeight' = saved'.version + 1
      BY <1>2, <3>1 DEF ProcessProposal, NextHeight
    <3>5. last' # Nil => tx' = Extended(saved', last'.hash[2], {})
      <4> SUFFICES ASSUME last' # Nil PROVE tx' = Extended(saved', last'.hash[2], {})
        OBVIOUS
      <4>1. last'.hash[2] = b
        BY <3>3
      <4> QED
        BY <3>2, <3>4, <4>1
    <3>6. FollowerInv'
      BY <3>4, <3>5 DEF FollowerInv
    <3> QED
      BY <2>1, <3>6
  <2> QED
    BY <2>2, <2>3
<1>3. ASSUME NEW b \in Blocks, Decide(b) PROVE FollowerInv' /\ SafetyInv'
  <2>1. FollowerInv'
    BY <1>0, <1>3 DEF Decide, FollowerInv, NextHeight, Extended
  <2>2. Len(decided') = Len(decided) + 1
    BY <1>3, AppendProperties DEF Decide, TypeOK
  <2>3. SubSeq(decided', 1, saved.version) = SubSeq(decided, 1, saved.version)
    BY <1>0, <1>3, PrefixOfAppend DEF Decide, TypeOK, SavedStateIsDecidedState
  <2>4. SavedStateIsDecidedState'
    BY <1>0, <1>3, <2>2, <2>3 DEF Decide, SavedStateIsDecidedState
  <2> QED
    BY <1>3, <2>1, <2>4 DEF Decide, OneScoreUpdatePerBlock
<1>4. CASE FinalizeBlock
  <2> DEFINE b == decided[applying]
             known == ResultsKnown(BlockHash(applying, b))
             done == IF known THEN tx ELSE Executed(b, applying)
  <2>1. applying = saved.version + 1 /\ b \in Blocks
    BY <1>0, <1>4, ElementOfSeq DEF FinalizeBlock, FollowerInv, NextHeight, EngineInv, TypeOK
  <2>4. done = Extended(saved, b, {})
    <3>1. known => tx = Extended(saved, b, {})
      BY <1>4, <2>1 DEF FinalizeBlock, ResultsKnown, BlockHash, FollowerInv, NextHeight
    <3>2. ~known => Executed(b, applying) = Extended(saved, b, {})
      BY <2>1, ExecutedIsExtended
    <3> QED
      BY <3>1, <3>2
  <2>5. engine' = "commit" /\ tx' = Extended(saved, b, {applying})
    BY <1>4, <2>4 DEF FinalizeBlock, Extended
  <2>6. FollowerInv'
    BY <1>4, <2>1, <2>5 DEF FinalizeBlock, FollowerInv, NextHeight, Extended
  <2> QED
    BY <1>4, <2>5, <2>6 DEF FinalizeBlock, SavedStateIsDecidedState, OneScoreUpdatePerBlock
<1>5. CASE Commit
  <2>1. /\ applying = saved.version + 1 /\ applying \in 1 .. Len(decided)
        /\ saved' = Extended(saved, decided[applying], {applying})
    BY <1>5 DEF Commit, FollowerInv, NextHeight, EngineInv
  <2>2. /\ saved'.version = applying /\ saved'.scores = {applying}
        /\ saved'.chain = Append(saved.chain, decided[applying])
    BY <1>0, <2>1 DEF Extended
  <2>3. saved'.chain = SubSeq(decided, 1, applying)
    <3>1. decided \in Seq(Blocks) /\ saved.version + 1 \in 1 .. Len(decided)
      BY <2>1 DEF TypeOK
    <3>2. SubSeq(decided, 1, saved.version + 1)
            = Append(SubSeq(decided, 1, saved.version), decided[saved.version + 1])
      BY <1>0, <3>1, PrefixGrows
    <3> QED
      BY <2>1, <2>2, <3>2 DEF SavedStateIsDecidedState
  <2>4. SavedStateIsDecidedState'
    <3>1. decided' = decided /\ (engine' = "propose" => applying = Len(decided))
      BY <1>5 DEF Commit
    <3>2. saved'.version <= Len(decided')
      BY <2>1, <2>2, <3>1
    <3>3. saved'.chain = SubSeq(decided', 1, saved'.version)
      BY <2>2, <2>3, <3>1
    <3> QED
      BY <2>2, <3>1, <3>2, <3>3 DEF SavedStateIsDecidedState
  <2>7. OneScoreUpdatePerBlock'
    <3>1. saved'.version # 0
      BY <2>1, <2>2
    <3> QED
      BY <2>2, <3>1 DEF OneScoreUpdatePerBlock
  <2>5. last' # Nil => last'.hash[1] # NextHeight'
    BY <1>0, <1>5, <2>1 DEF Commit, MemoryInv, NextHeight
  <2>6. NextHeight' = applying + 1 /\ engine' \in {"propose", "apply"}
    BY <1>0, <1>5 DEF Commit, NextHeight
  <2> QED
    BY <1>0, <2>2, <2>4, <2>5, <2>6, <2>7 DEF FollowerInv
<1>6. CASE Restart
  <2>1. SafetyInv'
    BY <1>0, <1>6 DEF Restart, LastHeight, SavedStateIsDecidedState, OneScoreUpdatePerBlock
  <2> QED
    BY <1>0, <1>6, <2>1 DEF Restart, LastHeight, FollowerInv, NextHeight, SavedStateIsDecidedState
<1>7. CASE Over \/ UNCHANGED vars
  <2>1. UNCHANGED vars
    BY <1>7 DEF Over
  <2> QED
    BY <2>1 DEF vars, FollowerInv, NextHeight, Extended, SavedStateIsDecidedState, OneScoreUpdatePerBlock
<1> QED
  BY <1>1, <1>2, <1>3, <1>4, <1>5, <1>6, <1>7 DEF Next

\* The on-going transaction of a follower holds what the remembered root says.
THEOREM FollowerInductive == ASSUME Follower PROVE Spec => []FullInv
<1>1. Init => FullInv
  BY RootInit, FollowerInit DEF FullInv
<1>2. FullInv /\ [Next]_vars => FullInv'
  BY TypeStep, EngineStep, MemoryStep, FollowerStep DEF FullInv, RootInv
<1> QED
  BY <1>1, <1>2, PTL DEF Spec

\* On a follower every saved state is the execution of the decided blocks up to
\* its height, whatever proposals, crashes and replays there were.
THEOREM FollowerSavesDecidedState ==
    ASSUME Follower PROVE Spec => []SavedStateIsDecidedState
  BY FollowerInductive, PTL DEF FullInv, SafetyInv

\* On a follower each block leaves exactly one score update to the next.
THEOREM FollowerScoresOnce ==
    ASSUME Follower PROVE Spec => []OneScoreUpdatePerBlock
  BY FollowerInductive, PTL DEF FullInv, SafetyInv
=============================================================================
