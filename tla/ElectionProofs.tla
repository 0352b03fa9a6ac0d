---------------------------- MODULE ElectionProofs ----------------------------
(***************************************************************************)
(* The properties of Election, proved for all elections, voters, keys and  *)
(* bounds: the steps of the IST, the inductive invariant, and what follows *)
(* from it.                                                                *)
(***************************************************************************)
EXTENDS ElectionSteps

-----------------------------------------------------------------------------
(* Blocks and scheduled actions *)

LEMMA BeginBlockStep ==
  ASSUME IndInv, NEW dt \in TimeSteps, BeginBlock(dt)
  PROVE  IndInv'
  <1>0. TypeOK /\ dt \in Nat /\ now \in Nat /\ height \in Nat
    BY ElectionAssumption DEF IndInv, TypeOK
  <1>1. /\ height' = height + 1 /\ now' = now + dt
        /\ phase' = "txs" /\ pending' = {} /\ votesCommitted' = votes
        /\ UNCHANGED <<process, startBlocks, votes, results, actions, halted>>
    BY DEF BeginBlock
  <1>2. TypeOK' /\ now' # 0
    BY <1>0, <1>1 DEF IndInv, TypeOK
  <1>3. EndIsScheduled' /\ EndActionsFit' /\ CommitActionsUnique' /\ EndedHasCommit'
    BY <1>1 DEF IndInv, EndIsScheduled, EndActionsFit, CommitActionsUnique, EndedHasCommit
  <1>4. CommitActionsFit'
    BY <1>1 DEF IndInv, CommitActionsFit
  <1>5. PendingFits'
    BY <1>1 DEF PendingFits
  <1>6. KeyAccounting' /\ ResultsCountEveryVote'
    BY <1>1 DEF IndInv, KeyAccounting, ResultsCountEveryVote
  <1> QED BY <1>1, <1>2, <1>3, <1>4, <1>5, <1>6 DEF IndInv

LEMMA FindPendingActionsStep ==
  ASSUME IndInv, FindPendingActions
  PROVE  IndInv'
  <1>1. /\ phase' = "ist"
        /\ pending' = {i \in ActionIds : Due(actions[i])}
        /\ UNCHANGED <<height, now, process, startBlocks, votes, votesCommitted,
                       results, actions, halted>>
    BY DEF FindPendingActions
  <1>2. TypeOK' /\ now' # 0
    BY <1>1 DEF IndInv, TypeOK
  <1>3. EndIsScheduled' /\ EndActionsFit' /\ CommitActionsUnique' /\ EndedHasCommit'
    BY <1>1 DEF IndInv, EndIsScheduled, EndActionsFit, CommitActionsUnique, EndedHasCommit
  <1>4. CommitActionsFit'
    BY <1>1 DEF IndInv, CommitActionsFit
  <1>5. PendingFits'
    <2>1. \A i \in pending' : Due(actions[i])'
      BY <1>1 DEF Due
    <2>2. ASSUME NEW p \in Pids, Open(p), now >= EndTime(process[p])
          PROVE  p \in pending'
      <3>1. /\ p \in ActionIds /\ actions[p].type = "EndProcess"
            /\ actions[p].time # 0 /\ now >= actions[p].time
        BY <2>2 DEF IndInv, EndIsScheduled, Open, ActionIds
      <3> QED BY <1>1, <3>1 DEF Due, NoAction
    <2> QED BY <1>1, <2>1, <2>2 DEF PendingFits, Open
  <1>6. KeyAccounting' /\ ResultsCountEveryVote'
    BY <1>1 DEF IndInv, KeyAccounting, ResultsCountEveryVote
  <1> QED BY <1>1, <1>2, <1>3, <1>4, <1>5, <1>6 DEF IndInv

\* An election whose scheduled end runs has reached its end time.
LEMMA DueEnd ==
  ASSUME IndInv, NEW i \in pending, actions[i].type = "EndProcess"
  PROVE  /\ i \in Pids /\ i = actions[i].pid
         /\ process[i].status \in {"READY", "PAUSED", "CANCELED"}
         /\ now >= EndTime(process[i])
  <1>1. TypeOK /\ i \in ActionIds
    BY DEF IndInv, TypeOK
  <1>2. /\ i \in Pids /\ i = actions[i].pid
        /\ process[i].status \in {"READY", "PAUSED", "CANCELED"}
    BY <1>1, ScheduledType DEF IndInv, EndActionsFit
  <1>3. now >= EndTime(process[i])
    BY <1>1 DEF IndInv, PendingFits, Due, EndActionsFit
  <1> QED BY <1>2, <1>3

\* When scheduled results run, every vote is in the committed state.
LEMMA DueResults ==
  ASSUME IndInv, NEW i \in pending, actions[i].type = "CommitResults"
  PROVE  /\ actions[i].pid \in Pids
         /\ process[actions[i].pid].status = "ENDED"
         /\ votesCommitted[actions[i].pid] = votes[actions[i].pid]
  <1>0. TypeOK /\ i \in ActionIds
    BY DEF IndInv, TypeOK
  <1>1. /\ actions[i].pid \in Pids /\ actions[i] \in Actions
        /\ process[actions[i].pid].status = "ENDED"
        /\ actions[i].time = 0
    BY <1>0, ScheduledType DEF IndInv, CommitActionsFit
  <1>2. height >= actions[i].height
    BY <1>1 DEF IndInv, PendingFits, Due
  <1>3. ~(actions[i].height > height)
    BY <1>0, <1>1, <1>2 DEF Actions, TypeOK
  <1> QED BY <1>0, <1>1, <1>3 DEF IndInv, CommitActionsFit

LEMMA EndElectionStep ==
  ASSUME IndInv, NEW i \in ActionIds, RunAction(i), actions[i].type = "EndProcess"
  PROVE  IndInv'
  <1>0. /\ TypeOK /\ i \in Pids /\ i = actions[i].pid
        /\ process[i].status \in {"READY", "PAUSED", "CANCELED"}
        /\ phase = "ist" /\ i \in pending
    BY DueEnd DEF IndInv, RunAction
  <1>1. now >= EndTime(process[i])
    BY <1>0, DueEnd
  <1>2. /\ EndElection(i)
        /\ pending' = pending \ {i}
        /\ UNCHANGED <<height, now, phase, votes, votesCommitted>>
    BY DEF RunAction
  <1>3. CASE process[i].status = "CANCELED"
    <2>1. /\ actions' = [actions EXCEPT ![i] = NoAction]
          /\ UNCHANGED <<process, startBlocks, results, halted>>
      BY <1>0, <1>2, <1>3 DEF EndElection
    <2>2. /\ actions'[i] = NoAction
          /\ \A j \in ActionIds : j # i => actions'[j] = actions[j]
          /\ NoAction.type = "none"
      BY <1>0, <2>1 DEF TypeOK, NoAction
    <2>3. TypeOK'
      BY <1>0, <1>2, <2>1 DEF TypeOK
    <2>4. EndIsScheduled' /\ EndActionsFit'
      BY <1>0, <1>3, <2>1, <2>2 DEF IndInv, EndIsScheduled, EndActionsFit, ActionIds
    <2>5. CommitActionsFit'
      BY <1>2, <2>1, <2>2 DEF IndInv, CommitActionsFit
    <2>6. CommitActionsUnique'
      BY <2>2 DEF IndInv, CommitActionsUnique
    <2>7. EndedHasCommit'
      BY <2>1, <2>2 DEF IndInv, EndedHasCommit
    <2>8. PendingFits'
      <3>1. \A j \in pending' : Due(actions[j])'
        BY <1>0, <1>2, <2>2 DEF IndInv, PendingFits, Due, TypeOK
      <3> QED BY <1>0, <1>2, <1>3, <2>1, <3>1 DEF IndInv, PendingFits, Open
    <2>9. KeyAccounting' /\ ResultsCountEveryVote'
      BY <1>2, <2>1 DEF IndInv, KeyAccounting, ResultsCountEveryVote
    <2> QED BY <1>2, <2>1, <2>3, <2>4, <2>5, <2>6, <2>7, <2>8, <2>9, SMTT(30) DEF IndInv
  <1>4. CASE Open(i)
    <2>1. StatusChangeAllowed(process[i], "ENDED", now)
      BY <1>1, <1>4 DEF StatusChangeAllowed, MayEnd, Open
    <2>2. PICK r \in RandomIds :
             /\ UpdateProcess(i, [process[i] EXCEPT !.status = "ENDED"])
             /\ actions[r] = NoAction
             /\ actions' = [actions EXCEPT ![r] = ResultsOf(i), ![i] = NoAction]
             /\ UNCHANGED <<results, halted>>
      BY <1>0, <1>2, <1>4, <2>1 DEF EndElection, Open
    <2>3. r # i /\ r \in {i} \cup RandomIds /\ r \notin pending
      BY <1>0, <2>2, ElectionAssumption DEF IndInv, PendingFits, Due
    <2>4. actions' = [actions EXCEPT ![i] = NoAction, ![r] = ResultsOf(i)]
      BY <1>0, <2>2, <2>3, Zenon DEF TypeOK
    <2> QED BY <1>0, <1>2, <1>4, <2>2, <2>3, <2>4, EndStep, Zenon
  <1> QED BY <1>0, <1>3, <1>4 DEF Open

\* When no key is hidden, every published key is known.
LEMMA AllKeysKnown ==
  ASSUME NEW q \in Process, KeysFit(q), KeysRevealed(q)
  PROVE  q.privateKeys = q.publicKeys
  <1>1. /\ q.publicKeys \in SUBSET KeyIndexes
        /\ q.privateKeys \in SUBSET q.publicKeys
    BY DEF Process, KeysFit
  <1>2. CASE q.keyIndex = Nil
    BY <1>1, <1>2, Zenon DEF KeysFit
  <1>3. CASE q.keyIndex # Nil
    <2>1. Cardinality(q.publicKeys) - Cardinality(q.privateKeys) = 0
      BY <1>3 DEF KeysFit, KeysRevealed
    <2>2. Cardinality(q.publicKeys) = Cardinality(q.privateKeys)
      BY <1>1, <2>1, KeysFinite
    <2> QED BY <1>1, <2>2, KeysFinite, FS_Subset
  <1> QED BY <1>2, <1>3

LEMMA CommitResultsStep ==
  ASSUME IndInv, NEW i \in ActionIds, RunAction(i), actions[i].type = "CommitResults"
  PROVE  IndInv'
  <1> DEFINE a == actions[i]
             p == a.pid
             old == process[p]
  <1>0. /\ TypeOK /\ a \in Actions /\ p \in Pids
        /\ a # NoAction
        /\ old \in Process /\ old.status = "ENDED" /\ KeysFit(old)
        /\ a.height # 0 /\ a.time = 0
        /\ phase = "ist" /\ i \in pending
        /\ height \in Nat
    BY ScheduledType DEF IndInv, CommitActionsFit, RunAction, TypeOK, KeyAccounting, NoAction
  <1>1. votesCommitted[p] = votes[p]
    BY <1>0, DueResults
  <1>2. /\ CommitResults(i)
        /\ pending' = pending \ {i}
        /\ UNCHANGED <<height, now, phase, votes, votesCommitted>>
    BY DEF RunAction
  <1>3. \A j \in ActionIds :
           actions[j].type = "CommitResults" /\ actions[j].pid = p => j = i
    BY DEF IndInv, CommitActionsUnique
  <1>4. CASE ~KeysRevealed(old)
    <2> DEFINE b == [a EXCEPT !.height = height + 1 + 2 * a.attempts,
                              !.time = 0, !.attempts = @ + 1]
    <2>1. /\ actions' = [actions EXCEPT
                  ![i].height = height + 1 + 2 * a.attempts,
                  ![i].time = 0,
                  ![i].attempts = @ + 1]
          /\ UNCHANGED <<process, startBlocks, results, halted>>
      BY <1>0, <1>2, <1>4 DEF CommitResults
    <2>2. /\ b \in Actions /\ b # NoAction
          /\ b.type = "CommitResults" /\ b.pid = p /\ b.time = 0
          /\ b.height > height /\ b.height # 0
      <3>1. a.attempts \in Nat
        BY <1>0 DEF Actions
      <3> DEFINE h == height + 1 + 2 * a.attempts
                 n == a.attempts + 1
      <3>2. h \in Nat /\ h > height /\ h # 0 /\ n \in Nat
        BY <1>0, <3>1
      <3>3. b = [a EXCEPT !.height = h, !.time = 0, !.attempts = n]
        BY <1>0 DEF Actions
      <3> HIDE DEF b, h, n
      <3> QED BY <1>0, <3>2, <3>3, Zenon DEF Actions, NoAction
    <2>3. actions' = [actions EXCEPT ![i] = b]
      BY <1>0, <2>1, Zenon DEF TypeOK
    <2> HIDE DEF b
    <2>4. /\ actions'[i] = b
          /\ \A j \in ActionIds : j # i => actions'[j] = actions[j]
      BY <1>0, <2>3 DEF TypeOK
    <2>5. TypeOK'
      <3>1. actions' \in [ActionIds -> Actions \cup {NoAction}]
        BY <1>0, <2>2, <2>3 DEF TypeOK
      <3> QED BY <1>0, <1>2, <2>1, <3>1 DEF TypeOK
    <2>6. EndIsScheduled'
      <3> SUFFICES ASSUME NEW x \in Pids, process[x].status \in {"READY", "PAUSED"}
                   PROVE  actions'[x] = actions[x]
        BY <2>1, ZenonT(40) DEF IndInv, EndIsScheduled
      <3>1. x # i /\ x \in ActionIds
        BY DEF IndInv, EndIsScheduled, ActionIds
      <3> QED BY <2>4, <3>1
    <2>7. EndActionsFit'
      <3> SUFFICES ASSUME NEW j \in ActionIds, actions'[j].type = "EndProcess"
                   PROVE  actions'[j] = actions[j]
        BY <2>1, Zenon DEF IndInv, EndActionsFit
      <3> QED BY <2>2, <2>4
    <2>8. CommitActionsFit'
      <3> SUFFICES ASSUME NEW j \in ActionIds, actions'[j].type = "CommitResults"
                   PROVE  /\ j \in Pids => j = actions'[j].pid
                          /\ process[actions'[j].pid].status = "ENDED"
                          /\ actions'[j].time = 0
                          /\ actions'[j].height # 0
                          /\ \/ actions'[j].height > height
                             \/ votesCommitted[actions'[j].pid] = votes[actions'[j].pid]
        BY <1>2, <2>1, ZenonT(40) DEF CommitActionsFit
      <3>1. i \in Pids => i = p
        BY DEF IndInv, CommitActionsFit
      <3>2. CASE j = i
        BY <1>0, <2>2, <2>4, <3>1, <3>2
      <3>3. CASE j # i
        BY <2>4, <3>3 DEF IndInv, CommitActionsFit
      <3> QED BY <3>2, <3>3, SMTT(30)
    <2>9. CommitActionsUnique'
      BY <1>0, <2>2, <2>4 DEF IndInv, CommitActionsUnique
    <2>10. EndedHasCommit'
      <3> SUFFICES ASSUME NEW x \in Pids, process[x].status = "ENDED"
                   PROVE  \E j \in ActionIds : /\ actions'[j].type = "CommitResults"
                                               /\ actions'[j].pid = x
        BY <2>1, Zenon DEF EndedHasCommit
      <3>1. PICK j \in ActionIds : actions[j].type = "CommitResults" /\ actions[j].pid = x
        BY DEF IndInv, EndedHasCommit
      <3>2. actions'[j].type = "CommitResults" /\ actions'[j].pid = x
        BY <2>2, <2>4, <3>1
      <3> QED BY <3>2
    <2>11. PendingFits'
      <3>1. \A j \in pending' : Due(actions[j])'
        BY <1>0, <1>2, <2>4 DEF IndInv, PendingFits, Due, TypeOK
      <3>2. ASSUME NEW x \in Pids, Open(x), now >= EndTime(process[x])
            PROVE  x \in pending'
        BY <1>0, <1>2, <3>2 DEF IndInv, PendingFits, EndIsScheduled, Open
      <3> QED BY <1>0, <1>2, <2>1, <3>1, <3>2, ZenonT(40) DEF PendingFits, Open
    <2>12. KeyAccounting' /\ ResultsCountEveryVote'
      BY <1>2, <2>1 DEF IndInv, KeyAccounting, ResultsCountEveryVote
    <2> QED BY <1>2, <2>1, <2>5, <2>6, <2>7, <2>8, <2>9, <2>10, <2>11, <2>12, SMTT(30) DEF IndInv
  <1>5. CASE KeysRevealed(old)
    <2> DEFINE new == [old EXCEPT !.status = "RESULTS"]
    <2>1. /\ UpdateProcess(p, new)
          /\ results' = [results EXCEPT ![p] = votesCommitted[p]]
          /\ actions' = [actions EXCEPT ![i] = NoAction]
          /\ UNCHANGED halted
      BY <1>0, <1>2, <1>5 DEF CommitResults, ResultsAllowed
    <2>2. /\ new \in Process
          /\ new.status = "RESULTS"
          /\ new.publicKeys = old.publicKeys
          /\ new.privateKeys = old.privateKeys
          /\ new.keyIndex = old.keyIndex
      BY <1>0, SMTT(30) DEF Process, Status
    <2>3. KeysFit(new) /\ new.privateKeys = new.publicKeys
      BY <1>0, <1>5, <2>2, AllKeysKnown, SMTT(30) DEF KeysFit
    <2> HIDE DEF new
    <2>4. /\ process' \in [Pids -> Process]
          /\ startBlocks' \in [Pids -> Nat \cup {Nil}]
          /\ process'[p] = new
          /\ \A x \in Pids : x # p => process'[x] = process[x]
      BY <1>0, <2>1, <2>2, UpdateFacts, SMTT(30)
    <2>5. /\ actions'[i] = NoAction /\ NoAction.type = "none"
          /\ \A j \in ActionIds : j # i => actions'[j] = actions[j]
      BY <1>0, <2>1 DEF TypeOK, NoAction
    <2>6. /\ results' \in [Pids -> [Voters -> Nat] \cup {Nil}]
          /\ results'[p] = votes[p]
          /\ \A x \in Pids : x # p => results'[x] = results[x]
      BY <1>0, <1>1, <2>1, SMTT(30) DEF TypeOK
    <2>7. TypeOK'
      BY <1>0, <1>2, <2>1, <2>4, <2>6 DEF TypeOK
    <2>8. EndIsScheduled'
      <3> SUFFICES ASSUME NEW x \in Pids, process'[x].status \in {"READY", "PAUSED"}
                   PROVE  process'[x] = process[x] /\ actions'[x] = actions[x]
        BY DEF IndInv, EndIsScheduled
      <3>1. process'[x] = process[x]
        BY <2>2, <2>4
      <3>2. x # i /\ x \in ActionIds
        BY <3>1 DEF IndInv, EndIsScheduled, ActionIds
      <3> QED BY <2>5, <3>1, <3>2
    <2>9. EndActionsFit'
      <3> SUFFICES ASSUME NEW j \in ActionIds, j # i, actions[j].type = "EndProcess"
                   PROVE  process'[j] = process[j]
        BY <2>5 DEF IndInv, EndActionsFit
      <3>1. j \in Pids /\ process[j].status # "ENDED"
        BY <1>0, ScheduledType DEF IndInv, EndActionsFit
      <3> QED BY <1>0, <2>4, <3>1
    <2>10. CommitActionsFit'
      <3> SUFFICES ASSUME NEW j \in ActionIds, j # i, actions[j].type = "CommitResults"
                   PROVE  process'[actions[j].pid] = process[actions[j].pid]
        BY <1>2, <2>5 DEF IndInv, CommitActionsFit
      <3> QED BY <1>0, <1>3, <2>4, ScheduledType
    <2>11. CommitActionsUnique'
      BY <2>5 DEF IndInv, CommitActionsUnique
    <2>12. EndedHasCommit'
      <3> SUFFICES ASSUME NEW x \in Pids, process'[x].status = "ENDED"
                   PROVE  \E j \in ActionIds : /\ actions'[j].type = "CommitResults"
                                               /\ actions'[j].pid = x
        BY DEF EndedHasCommit
      <3>1. x # p /\ process'[x] = process[x]
        BY <2>2, <2>4
      <3>2. PICK j \in ActionIds : actions[j].type = "CommitResults" /\ actions[j].pid = x
        BY <3>1 DEF IndInv, EndedHasCommit
      <3>3. j # i
        BY <3>1, <3>2
      <3> QED BY <2>5, <3>2, <3>3
    <2>13. PendingFits'
      <3>1. \A j \in pending' : Due(actions[j])'
        BY <1>0, <1>2, <2>5, SMTT(30) DEF IndInv, PendingFits, Due, TypeOK
      <3>2. ASSUME NEW x \in Pids, Open(x)', now >= EndTime(process'[x])
            PROVE  x \in pending'
        <4>1. process'[x] = process[x]
          BY <2>2, <2>4, <3>2 DEF Open
        <4> QED BY <1>0, <1>2, <3>2, <4>1, SMTT(30) DEF IndInv, PendingFits, EndIsScheduled, Open
      <3> QED BY <1>0, <1>2, <3>1, <3>2, SMTT(30) DEF PendingFits, Open
    <2>14. KeyAccounting'
      BY <2>3, <2>4 DEF IndInv, KeyAccounting
    <2>15. ResultsCountEveryVote'
      BY <1>2, <2>3, <2>4, <2>6 DEF IndInv, ResultsCountEveryVote
    <2> QED BY <1>2, <2>1, <2>7, <2>8, <2>9, <2>10, <2>11, <2>12, <2>13, <2>14, <2>15, SMTT(30)
            DEF IndInv
  <1> QED BY <1>4, <1>5

-----------------------------------------------------------------------------
(* Invariants *)

LEMMA InitInv == Init => IndInv
  <1> SUFFICES ASSUME Init PROVE IndInv
    BY SMTT(30)
  <1> USE DEF Init
  <1>0. NoProcess \in Process /\ NoProcess.status = "UNKNOWN" /\ KeysFit(NoProcess)
    BY DEF NoProcess, Process, Status, KeysFit
  <1>1. /\ \A p \in Pids : process[p] = NoProcess
        /\ \A i \in ActionIds : actions[i] = NoAction /\ actions[i].type = "none"
    BY DEF NoAction
  <1>2. TypeOK
    BY <1>0, ElectionAssumption, Zenon DEF TypeOK
  <1>3. EndIsScheduled /\ EndActionsFit /\ CommitActionsFit /\ CommitActionsUnique
    BY <1>0, <1>1
       DEF EndIsScheduled, EndActionsFit, CommitActionsFit, CommitActionsUnique
  <1>4. EndedHasCommit /\ PendingFits /\ KeyAccounting /\ ResultsCountEveryVote
    BY <1>0, <1>1
       DEF EndedHasCommit, PendingFits, Open, KeyAccounting, ResultsCountEveryVote
  <1> QED BY <1>2, <1>3, <1>4, ElectionAssumption DEF IndInv

LEMMA TransactionStep ==
  ASSUME IndInv, NEW p \in Pids, Transaction(p)
  PROVE  IndInv'
  BY NewProcessTxnStep, SetProcessStatusStep, SetProcessDurationStep,
     SetProcessCensusStep, SetProcessMetadataStep, AddProcessKeysStep,
     RevealProcessKeysStep, AddVoteStep DEF Transaction

LEMMA NextInv == IndInv /\ [Next]_vars => IndInv'
  <1> SUFFICES ASSUME IndInv, [Next]_vars PROVE IndInv'
    OBVIOUS
  <1>1. CASE \E p \in Pids : Transaction(p)
    BY <1>1, TransactionStep
  <1>2. CASE \E dt \in TimeSteps : BeginBlock(dt)
    BY <1>2, BeginBlockStep
  <1>3. CASE FindPendingActions
    BY <1>3, FindPendingActionsStep
  <1>4. CASE \E i \in ActionIds : RunAction(i)
    <2>1. PICK i \in ActionIds : RunAction(i)
      BY <1>4
    <2>2. actions[i].type \in {"EndProcess", "CommitResults"}
      BY <2>1 DEF RunAction
    <2> QED BY <2>1, <2>2, EndElectionStep, CommitResultsStep
  <1>5. CASE UNCHANGED vars
    <2> USE <1>5 DEF vars
    <2>1. TypeOK' /\ now' # 0 /\ ~halted'
      BY SMTT(30) DEF IndInv, TypeOK
    <2>2. EndIsScheduled' /\ EndActionsFit' /\ CommitActionsUnique' /\ EndedHasCommit'
      BY DEF IndInv, EndIsScheduled, EndActionsFit, CommitActionsUnique, EndedHasCommit
    <2>3. CommitActionsFit'
      BY DEF IndInv, CommitActionsFit
    <2>4. PendingFits'
      BY SMTT(30) DEF IndInv, PendingFits, Due, Open
    <2>5. KeyAccounting' /\ ResultsCountEveryVote'
      BY DEF IndInv, KeyAccounting, ResultsCountEveryVote
    <2> QED BY <2>1, <2>2, <2>3, <2>4, <2>5 DEF IndInv
  <1> QED BY <1>1, <1>2, <1>3, <1>4, <1>5 DEF Next, EndOfChain

\* The inductive invariant holds in every execution of the chain.
THEOREM Inductive == Spec => []IndInv
  BY InitInv, NextInv, PTL DEF Spec

\* Every transaction and every scheduled action of a block leaves values of
\* the right kind in the state; KeyIndex in particular never goes below zero.
THEOREM TypeCorrect == Spec => []TypeOK
  <1>1. IndInv => TypeOK
    BY DEF IndInv
  <1> QED BY <1>1, Inductive, PTL

\* Controller.Commit never fails, so no sequence of transactions can stop the
\* chain: every scheduled action finds its election in a status it accepts.
THEOREM CommitNeverFails == Spec => []IstCommitNeverFails
  <1>1. IndInv => IstCommitNeverFails
    BY DEF IndInv, IstCommitNeverFails
  <1> QED BY <1>1, Inductive, PTL

\* An open election always has its end scheduled for its current end time.
THEOREM EndScheduled == Spec => []EndIsScheduled
  <1>1. IndInv => EndIsScheduled
    BY DEF IndInv
  <1> QED BY <1>1, Inductive, PTL

\* Results are scheduled exactly once, and exactly while an election is ENDED.
THEOREM CommitScheduledOnce == Spec => []OneCommitWhileEnded
  <1>1. ASSUME IndInv, NEW p \in Pids
        PROVE  IF process[p].status = "ENDED"
               THEN \E i \in ActionIds : CommitsOf(p) = {i}
               ELSE CommitsOf(p) = {}
    <2>1. CASE process[p].status = "ENDED"
      <3>1. PICK i \in ActionIds : actions[i].type = "CommitResults" /\ actions[i].pid = p
        BY <1>1, <2>1 DEF IndInv, EndedHasCommit
      <3>2. CommitsOf(p) = {i}
        BY <1>1, <3>1 DEF IndInv, CommitActionsUnique, CommitsOf
      <3> QED BY <2>1, <3>2
    <2>2. CASE process[p].status # "ENDED"
      <3>1. CommitsOf(p) = {}
        BY <1>1, <2>2 DEF IndInv, CommitActionsFit, CommitsOf
      <3> QED BY <2>2, <3>1
    <2> QED BY <2>1, <2>2
  <1>2. IndInv => OneCommitWhileEnded
    BY <1>1 DEF OneCommitWhileEnded
  <1> QED BY <1>2, Inductive, PTL

\* KeyIndex is the number of published keys that are still hidden.
THEOREM KeysAccounted == Spec => []KeyAccounting
  <1>1. IndInv => KeyAccounting
    BY DEF IndInv
  <1> QED BY <1>1, Inductive, PTL

\* Committed results count every vote although they are computed from the
\* committed version of the state, and all encryption keys are then known.
THEOREM ResultsComplete == Spec => []ResultsCountEveryVote
  <1>1. IndInv => ResultsCountEveryVote
    BY DEF IndInv
  <1> QED BY <1>1, Inductive, PTL

\* At the end of a block no election is open past its end time.
THEOREM NoneOverdue == Spec => []NoElectionOverdue
  <1>1. ASSUME IndInv, phase = "ist", pending = {},
               NEW p \in Pids, process[p].status \in {"READY", "PAUSED"}
        PROVE  now < EndTime(process[p])
    <2>1. now \in Nat /\ EndTime(process[p]) \in Nat
      BY <1>1, EndTimeType DEF IndInv, TypeOK
    <2>2. ~(now >= EndTime(process[p]))
      BY <1>1 DEF IndInv, PendingFits, Open
    <2> QED BY <2>1, <2>2
  <1>2. IndInv => NoElectionOverdue
    BY <1>1 DEF NoElectionOverdue
  <1> QED BY <1>2, Inductive, PTL
=============================================================================
