------------------------------ MODULE SikProofs ------------------------------
(***************************************************************************)
(* Proofs of the two invariants of the SIK tree, for every set of          *)
(* addresses, SIKs and elections, every length of the hysteresis and every *)
(* number of blocks.                                                       *)
(*                                                                         *)
(* The purge of an election cannot remove the SIK of another one because   *)
(* an address is assigned to one election at a time (AssignedOnce): a      *)
(* second registration finds the leaf of the first.  A young root survives *)
(* a restart because its block key is still stored (RootsInv).             *)
(***************************************************************************)
EXTENDS Sik, TLAPS

IsRecord(s) ==
    s = [tree |-> s.tree, roots |-> s.roots, counter |-> s.counter,
         assigned |-> s.assigned, status |-> s.status, registry |-> s.registry]

AssignedExist(s) ==
    \A p \in Elections, a \in Addrs : <<p, a>> \in s.assigned => a \in DOMAIN s.tree

AssignedOnce(s) ==
    \A p, q \in Elections, a \in Addrs :
        <<p, a>> \in s.assigned /\ <<q, a>> \in s.assigned => p = q

TreeInv(s) == IsRecord(s) /\ AssignedExist(s) /\ AssignedOnce(s)

AssignedInv == TreeInv(open) /\ TreeInv(saved)

\* A root younger than the hysteresis is stored under its block, and valid.
RootsInv ==
    /\ IsRecord(open) /\ IsRecord(saved)
    /\ sikHeight \in Nat
    /\ open.roots = saved.roots
    /\ \A r \in added :
         /\ r[1] \in Nat /\ r[1] < sikHeight
         /\ sikHeight <= r[1] + Hysteresis + 1 =>
              r[1] \in DOMAIN saved.roots /\ saved.roots[r[1]] = r[2] /\ r[2] \in validSIKRoots

\* A step of a block: the open transaction changes, the stored roots do not.
InBlockStep ==
    \/ \E p \in Elections : \/ NewElection(p)
                            \/ UpdateElection(p)
                            \/ EndElectionTx(p)
                            \/ EndElectionIST(p)
                            \/ CommitResults(p)
    \/ \E a \in Addrs : \/ DelSIK(a)
                        \/ \E k \in SIKs : SetSIK(a, k)
                        \/ \E k \in SIKs, p \in Elections : RegisterSIK(a, k, p)

------------------------------------------------------------------------------
\* The transactions and scheduled actions of a block keep the temporary SIKs of
\* the elections in the tree.
LEMMA InBlockAssigned ==
    ASSUME TreeInv(open), InBlockStep
    PROVE  TreeInv(open)'
<1> USE DEF TreeInv, IsRecord, AssignedExist, AssignedOnce
<1>1. ASSUME NEW p \in Elections, NewElection(p) \/ UpdateElection(p) \/ EndElectionTx(p) \/ EndElectionIST(p)
      PROVE  TreeInv(open)'
  BY <1>1 DEF NewElection, UpdateElection, EndElectionTx, EndElectionIST
<1>2. ASSUME NEW p \in Elections, CommitResults(p) PROVE TreeInv(open)'
  <2>1. PICK done \in SUBSET {a \in AssignedTo(p) : HasLeaf(a)} : open' = Purged(p, done)
    BY <1>2 DEF CommitResults, PurgeSIKsByElection
  <2>2. \A a \in done : <<p, a>> \in open.assigned /\ a \in Addrs
    BY <2>1 DEF AssignedTo
  <2>3. /\ DOMAIN open'.tree = DOMAIN open.tree \ done
        /\ open'.assigned = open.assigned \ ({p} \X done)
        /\ IsRecord(open')
    BY <2>1 DEF Purged
  <2>4. AssignedExist(open')
    BY <2>2, <2>3
  <2> QED
    BY <2>3, <2>4
<1>3. ASSUME NEW a \in Addrs, DelSIK(a) PROVE TreeInv(open)'
  BY <1>3 DEF DelSIK, InvalidateSIK
<1>4. ASSUME NEW a \in Addrs, NEW k \in SIKs, SetSIK(a, k) PROVE TreeInv(open)'
  BY <1>4 DEF SetSIK, SetAddressSIK
<1>5. ASSUME NEW a \in Addrs, NEW k \in SIKs, NEW p \in Elections, RegisterSIK(a, k, p)
      PROVE  TreeInv(open)'
  <2>1. a \notin DOMAIN open.tree
    BY <1>5 DEF RegisterSIK, RegisterSIKTxCheck, HasLeaf
  <2>2. /\ DOMAIN open'.tree = DOMAIN open.tree \cup {a}
        /\ open'.assigned \in {open.assigned, open.assigned \cup {<<p, a>>}}
        /\ IsRecord(open')
    BY <1>5 DEF RegisterSIK, SetAddressSIK
  <2> QED
    BY <2>1, <2>2
<1> QED
  BY <1>1, <1>2, <1>3, <1>4, <1>5 DEF InBlockStep

\* What the steps of a block leave alone.
LEMMA InBlockFrame ==
    ASSUME InBlockStep, IsRecord(open)
    PROVE  /\ UNCHANGED <<saved, validSIKRoots, sikHeight, added>>
           /\ IsRecord(open)' /\ open'.roots = open.roots
<1> USE DEF InBlock, IsRecord
<1>1. ASSUME NEW p \in Elections, NewElection(p) \/ UpdateElection(p) \/ EndElectionTx(p) \/ EndElectionIST(p)
      PROVE  /\ UNCHANGED <<saved, validSIKRoots, sikHeight, added>>
             /\ IsRecord(open)' /\ open'.roots = open.roots
  BY <1>1 DEF NewElection, UpdateElection, EndElectionTx, EndElectionIST
<1>2. ASSUME NEW p \in Elections, CommitResults(p)
      PROVE  /\ UNCHANGED <<saved, validSIKRoots, sikHeight, added>>
             /\ IsRecord(open)' /\ open'.roots = open.roots
  BY <1>2 DEF CommitResults, PurgeSIKsByElection, Purged
<1>3. ASSUME NEW a \in Addrs,
             DelSIK(a) \/ (\E k \in SIKs : SetSIK(a, k))
               \/ (\E k \in SIKs, p \in Elections : RegisterSIK(a, k, p))
      PROVE  /\ UNCHANGED <<saved, validSIKRoots, sikHeight, added>>
             /\ IsRecord(open)' /\ open'.roots = open.roots
  BY <1>3 DEF DelSIK, SetSIK, RegisterSIK
<1> QED
  BY <1>1, <1>2, <1>3 DEF InBlockStep

\* Every address assigned to an election has a leaf in the SIK tree, in the open
\* and in the saved state, so that the purge of the election removes them all.
THEOREM AssignedHaveSIKs == SikSpec => []AssignedSIKsExist
<1>1. SikInit => AssignedInv
  BY DEF SikInit, AssignedInv, TreeInv, IsRecord, AssignedExist, AssignedOnce
<1>2. ASSUME AssignedInv, [SikNext]_sikVars PROVE AssignedInv'
  <2>1. CASE InBlockStep
    BY <1>2, <2>1, InBlockAssigned, InBlockFrame DEF AssignedInv, TreeInv, IsRecord, AssignedExist, AssignedOnce
  <2>2. CASE SaveBlock
    <3>1. TreeInv(open)'
      BY <1>2, <2>2 DEF SaveBlock, AssignedInv, TreeInv, IsRecord, AssignedExist, AssignedOnce
    <3> QED
      BY <2>2, <3>1 DEF SaveBlock, AssignedInv, TreeInv, IsRecord, AssignedExist, AssignedOnce
  <2>3. CASE RollbackBlock \/ RestartNode
    BY <1>2, <2>3 DEF RollbackBlock, RestartNode, AssignedInv, TreeInv, IsRecord, AssignedExist, AssignedOnce
  <2>4. CASE UNCHANGED sikVars
    BY <1>2, <2>4 DEF sikVars, AssignedInv, TreeInv, IsRecord, AssignedExist, AssignedOnce
  <2> QED
    BY <1>2, <2>1, <2>2, <2>3, <2>4 DEF SikNext, InBlockStep
<1>3. AssignedInv => AssignedSIKsExist
  BY DEF AssignedInv, TreeInv, AssignedExist, AssignedSIKsExist
<1> QED
  BY <1>1, <1>2, <1>3, PTL DEF SikSpec

\* The roots after UpdateSIKRoots: the new root is stored under the present
\* block, and those of the last Hysteresis blocks are kept.
LEMMA YoungRootsKept ==
    ASSUME Hysteresis \in Nat, sikHeight \in Nat, open.tree \notin validSIKRoots
    PROVE  /\ sikHeight \in DOMAIN RootsAfterUpdate
           /\ RootsAfterUpdate[sikHeight] = open.tree
           /\ \A b \in DOMAIN open.roots :
                b \in Nat /\ b < sikHeight /\ sikHeight <= b + Hysteresis =>
                  b \in DOMAIN RootsAfterUpdate /\ RootsAfterUpdate[b] = open.roots[b]
  BY DEF RootsAfterUpdate, ToPurge

\* A root that UpdateSIKRoots stores is valid for the whole hysteresis, across
\* rollbacks, restarts and later roots.
THEOREM NewRootsStayValid ==
    ASSUME Hysteresis \in Nat
    PROVE  SikSpec => []NewRootStaysValid
<1>1. SikInit => RootsInv
  BY DEF SikInit, RootsInv, IsRecord
<1>2. ASSUME RootsInv, [SikNext]_sikVars PROVE RootsInv'
  <2>1. CASE InBlockStep
    BY <1>2, <2>1, InBlockFrame DEF RootsInv, IsRecord
  <2>2. CASE SaveBlock
    <3>1. /\ IsRecord(open)' /\ saved' = open' /\ sikHeight' = sikHeight + 1
          /\ open'.roots = RootsAfterUpdate /\ validSIKRoots \subseteq validSIKRoots'
          /\ open.tree \in validSIKRoots'
      BY <1>2, <2>2 DEF SaveBlock, RootsInv, IsRecord
    <3>2. CASE open.tree \in validSIKRoots
      <4>1. RootsAfterUpdate = saved.roots /\ added' = added
        BY <1>2, <2>2, <3>2 DEF SaveBlock, RootsAfterUpdate, RootsInv
      <4> QED
        BY <1>2, <3>1, <4>1 DEF RootsInv, IsRecord
    <3>3. CASE open.tree \notin validSIKRoots
      <4>1. added' = added \cup {<<sikHeight, open.tree>>}
        BY <2>2, <3>3 DEF SaveBlock
      <4>2. sikHeight \in Nat /\ open.roots = saved.roots
        BY <1>2 DEF RootsInv
      <4>3. ASSUME NEW r \in added'
            PROVE  /\ r[1] \in Nat /\ r[1] < sikHeight'
                   /\ sikHeight' <= r[1] + Hysteresis + 1 =>
                        r[1] \in DOMAIN saved'.roots /\ saved'.roots[r[1]] = r[2] /\ r[2] \in validSIKRoots'
        <5>1. CASE r = <<sikHeight, open.tree>>
          BY <3>1, <3>3, <4>2, <5>1, YoungRootsKept
        <5>2. CASE r \in added
          BY <1>2, <3>1, <3>3, <4>2, <5>2, YoungRootsKept DEF RootsInv
        <5> QED
          BY <4>1, <4>3, <5>1, <5>2
      <4> QED
        BY <3>1, <4>2, <4>3 DEF RootsInv, IsRecord
    <3> QED
      BY <3>2, <3>3
  <2>3. CASE RollbackBlock
    BY <1>2, <2>3 DEF RollbackBlock, RootsInv, IsRecord
  <2>4. CASE RestartNode
    <3>1. \A b \in DOMAIN saved.roots : saved.roots[b] \in validSIKRoots'
      BY <2>4 DEF RestartNode, FetchValidSIKRoots, Range
    <3> QED
      BY <1>2, <2>4, <3>1 DEF RestartNode, RootsInv, IsRecord
  <2>5. CASE UNCHANGED sikVars
    BY <1>2, <2>5 DEF sikVars, RootsInv, IsRecord
  <2> QED
    BY <1>2, <2>1, <2>2, <2>3, <2>4, <2>5 DEF SikNext, InBlockStep
<1>3. RootsInv => NewRootStaysValid
  BY DEF RootsInv, NewRootStaysValid, ExpiredSIKRoot
<1> QED
  BY <1>1, <1>2, <1>3, PTL DEF SikSpec
==============================================================================
