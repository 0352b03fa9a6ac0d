----------------------------- MODULE ElectionSteps -----------------------------
(***************************************************************************)
(* Every transaction preserves the inductive invariant of Election.        *)
(***************************************************************************)
EXTENDS Election, FiniteSetTheorems, TLAPS

\* uint32 arithmetic yields natural numbers.
LEMMA U32Type == \A n \in Int : U32(n) \in Nat
  BY ProcessAssumption DEF U32

LEMMA EndTimeType == \A q \in Process : EndTime(q) \in Nat
  BY U32Type DEF EndTime, Process

\* Only scheduled actions have one of the two types.
LEMMA ScheduledType ==
  ASSUME TypeOK, NEW i \in ActionIds
  PROVE  /\ actions[i].type \in {"EndProcess", "CommitResults"} =>
                actions[i] \in Actions /\ actions[i].pid \in Pids
         /\ actions[i] # NoAction =>
                actions[i].type \in {"EndProcess", "CommitResults"}
  BY DEF TypeOK, Actions, NoAction

\* What UpdateProcess does to the processes and the registry of starts.
LEMMA UpdateFacts ==
  ASSUME TypeOK, NEW p \in Pids, NEW new \in Process, UpdateProcess(p, new)
  PROVE  /\ process' \in [Pids -> Process]
         /\ startBlocks' \in [Pids -> Nat \cup {Nil}]
         /\ process'[p] = new
         /\ \A x \in Pids : x # p => process'[x] = process[x]
  <1>1. new.startBlock \in Nat
    BY DEF Process
  <1>2. /\ process' \in [Pids -> Process]
        /\ process'[p] = new
        /\ \A x \in Pids : x # p => process'[x] = process[x]
    BY DEF TypeOK, UpdateProcess
  <1>3. startBlocks' \in [Pids -> Nat \cup {Nil}]
    BY <1>1 DEF TypeOK, UpdateProcess
  <1> QED BY <1>2, <1>3

\* An update of an election that keeps its end time and neither ends nor
\* revives it preserves the invariant.
LEMMA KeepSchedule ==
  ASSUME IndInv, phase = "txs", NEW p \in Pids, NEW new \in Process,
         UpdateProcess(p, new),
         UNCHANGED <<height, now, phase, votes, votesCommitted, results,
                     actions, pending, halted>>,
         KeysFit(new),
         EndTime(new) = EndTime(process[p]),
         \/ new.status = process[p].status
         \/ /\ Open(p)
            /\ new.status \in {"READY", "PAUSED", "CANCELED"},
         new.status = "RESULTS" => new.privateKeys = new.publicKeys
  PROVE  IndInv'
  <1> USE DEF Open
  <1>0. TypeOK BY DEF IndInv
  <1>1. /\ process' \in [Pids -> Process]
        /\ startBlocks' \in [Pids -> Nat \cup {Nil}]
        /\ process'[p] = new
        /\ \A x \in Pids : x # p => process'[x] = process[x]
    BY <1>0, UpdateFacts
  <1>2. TypeOK'
    BY <1>0, <1>1 DEF TypeOK
  <1>3. EndIsScheduled'
    BY <1>1 DEF IndInv, EndIsScheduled
  <1>4. EndActionsFit'
    BY <1>1 DEF IndInv, TypeOK, EndActionsFit, Actions, NoAction, ActionIds
  <1>5. CommitActionsFit'
    <2> SUFFICES ASSUME NEW i \in ActionIds, actions[i].type = "CommitResults"
                 PROVE  process'[actions[i].pid].status = "ENDED"
      BY DEF IndInv, CommitActionsFit
    <2>1. actions[i].pid \in Pids
      BY <1>0, ScheduledType
    <2>2. process[actions[i].pid].status = "ENDED"
      BY DEF IndInv, CommitActionsFit
    <2> QED BY <1>1, <2>1, <2>2
  <1>6. CommitActionsUnique'
    BY DEF IndInv, CommitActionsUnique
  <1>7. EndedHasCommit'
    BY <1>1 DEF IndInv, EndedHasCommit
  <1>8. PendingFits'
    BY DEF IndInv, PendingFits, Due
  <1>9. KeyAccounting'
    BY <1>1 DEF IndInv, KeyAccounting
  <1>10. ResultsCountEveryVote'
    BY <1>1 DEF IndInv, ResultsCountEveryVote
  <1> QED BY <1>2, <1>3, <1>4, <1>5, <1>6, <1>7, <1>8, <1>9, <1>10 DEF IndInv

-----------------------------------------------------------------------------
(* Transactions *)

LEMMA NewProcessType ==
  ASSUME NEW tx \in Requests, NEW h \in Nat, NEW t \in Nat
  PROVE  NewProcess(tx, h, t) \in Process
  <1>1. tx \in NewProcessTx
    BY ElectionAssumption
  <1>2. TxStartTime(tx, h, t) \in Nat
    <2>1. t + (tx.startBlock - h) * BlockTime \in Int
      BY <1>1, ProcessAssumption DEF NewProcessTx
    <2> QED BY <1>1, <2>1, U32Type DEF TxStartTime, NewProcessTx
  <1>3. TxDuration(tx) \in Nat
    <2>1. tx.blockCount * BlockTime \in Int
      BY <1>1, ProcessAssumption DEF NewProcessTx
    <2> QED BY <1>1, <2>1, U32Type DEF TxDuration, NewProcessTx
  <1> QED BY <1>1, <1>2, <1>3 DEF NewProcess, Process, NewProcessTx, TxStartBlock

LEMMA NewProcessTxnStep ==
  ASSUME IndInv, NEW p \in Pids, NEW tx \in Requests, NewProcessTxn(p, tx)
  PROVE  IndInv'
  <1> DEFINE new == NewProcess(tx, height, now)
             a   == Action("EndProcess", p, 0, EndTime(new))
  <1>0. TypeOK /\ p \in ActionIds
    BY DEF IndInv, ActionIds
  <1>1. new \in Process
    BY <1>0, NewProcessType, Zenon DEF TypeOK
  <1>2. /\ new.status \in {"READY", "PAUSED"}
        /\ new.publicKeys = {} /\ new.privateKeys = {} /\ new.keyIndex = Nil
        /\ new.startTime = TxStartTime(tx, height, now)
        /\ new.duration = TxDuration(tx)
    BY DEF NewProcessTxn, NewProcess, NewProcessTxCheck
  <1>3. EndTime(new) \in Nat /\ EndTime(new) >= now /\ EndTime(new) # 0
    <2>1. EndTime(new) \in Nat
      BY <1>1, EndTimeType
    <2>2. EndTime(new) >= now
      BY <1>2 DEF NewProcessTxn, NewProcessTxCheck, EndTime
    <2> QED BY <2>1, <2>2 DEF IndInv, TypeOK
  <1>4. process[p].status = "UNKNOWN"
    BY DEF NewProcessTxn, NoProcess
  <1>5. actions[p] = NoAction
    <2>1. actions[p] \in Actions \cup {NoAction}
      BY <1>0 DEF TypeOK
    <2>2. actions[p].type # "EndProcess"
      BY <1>0, <1>4 DEF IndInv, EndActionsFit
    <2>3. actions[p].type # "CommitResults"
      <3> SUFFICES ASSUME actions[p].type = "CommitResults" PROVE FALSE
        OBVIOUS
      <3> QED BY <1>0, <1>4 DEF IndInv, CommitActionsFit
    <2> QED BY <2>1, <2>2, <2>3 DEF Actions
  <1>6. /\ process' = [process EXCEPT ![p] = new]
        /\ actions' = [actions EXCEPT ![p] = a]
        /\ phase = "txs"
        /\ UNCHANGED <<height, now, phase, startBlocks, votes, votesCommitted,
                       results, pending, halted>>
    BY <1>5 DEF NewProcessTxn, Deliver
  <1>7. /\ a \in Actions /\ a # NoAction
        /\ a.type = "EndProcess" /\ a.pid = p
        /\ a.height = 0 /\ a.time = EndTime(new)
    BY <1>3 DEF Action, Actions, NoAction
  <1> HIDE DEF new, a
  <1>8. /\ process'[p] = new
        /\ \A x \in Pids : x # p => process'[x] = process[x]
        /\ actions'[p] = a
        /\ \A i \in ActionIds : i # p => actions'[i] = actions[i]
    BY <1>0, <1>6 DEF TypeOK
  <1>9. TypeOK'
    BY <1>0, <1>1, <1>6, <1>7 DEF TypeOK
  <1>10. EndIsScheduled'
    BY <1>3, <1>7, <1>8 DEF IndInv, EndIsScheduled, ActionIds
  <1>11. EndActionsFit'
    BY <1>0, <1>2, <1>7, <1>8, ScheduledType, SMTT(30) DEF IndInv, EndActionsFit, ActionIds
  <1>12. CommitActionsFit'
    <2> SUFFICES ASSUME NEW i \in ActionIds, i # p,
                        actions[i].type = "CommitResults"
                 PROVE  process'[actions[i].pid].status = "ENDED"
      BY <1>6, <1>7, <1>8 DEF IndInv, CommitActionsFit
    <2>1. actions[i].pid \in Pids
      BY <1>0, ScheduledType
    <2> QED BY <1>4, <1>8, <2>1, SMTT(30) DEF IndInv, CommitActionsFit
  <1>13. CommitActionsUnique'
    BY <1>7, <1>8 DEF IndInv, CommitActionsUnique
  <1>14. EndedHasCommit'
    BY <1>2, <1>5, <1>8 DEF IndInv, EndedHasCommit, NoAction
  <1>15. PendingFits'
    BY <1>6 DEF IndInv, PendingFits
  <1>16. KeyAccounting'
    <2>1. KeysFit(new)
      BY <1>2 DEF KeysFit
    <2> QED BY <2>1, <1>8 DEF IndInv, KeyAccounting
  <1>17. ResultsCountEveryVote'
    BY <1>2, <1>6, <1>8 DEF IndInv, ResultsCountEveryVote
  <1> QED BY <1>6, <1>9, <1>10, <1>11, <1>12, <1>13, <1>14, <1>15, <1>16, <1>17
          DEF IndInv

\* Ending an election by hand or by the IST: election p, which was open, is
\* ENDED, its scheduled end is gone and its results are scheduled under r.
LEMMA EndStep ==
  ASSUME IndInv, NEW p \in Pids, Open(p), NEW r \in {p} \cup RandomIds,
         r # p => actions[r] = NoAction,
         UpdateProcess(p, [process[p] EXCEPT !.status = "ENDED"]),
         actions' = [actions EXCEPT ![p] = NoAction, ![r] = ResultsOf(p)],
         pending' = pending \ {p}, r # p => r \notin pending,
         phase = "txs" => pending = {},
         UNCHANGED <<height, now, phase, votes, votesCommitted, results, halted>>
  PROVE  IndInv'
  <1> DEFINE new == [process[p] EXCEPT !.status = "ENDED"]
             c   == ResultsOf(p)
  <1>0. TypeOK /\ p \in ActionIds /\ r \in ActionIds
    BY DEF IndInv, ActionIds
  <1>1. new \in Process /\ new.status = "ENDED" /\ KeysFit(new)
    <2>1. process[p] \in Process /\ KeysFit(process[p])
      BY DEF IndInv, TypeOK, KeyAccounting
    <2>2. /\ new \in Process
          /\ new.status = "ENDED"
          /\ new.publicKeys = process[p].publicKeys
          /\ new.privateKeys = process[p].privateKeys
          /\ new.keyIndex = process[p].keyIndex
      BY <2>1 DEF Process, Status
    <2> QED BY <2>1, <2>2 DEF KeysFit
  <1>2. /\ c \in Actions /\ c # NoAction
        /\ c.type = "CommitResults" /\ c.pid = p
        /\ c.height > height /\ c.height # 0 /\ c.time = 0
    BY <1>0 DEF ResultsOf, Action, Actions, NoAction, TypeOK
  <1>3. /\ process' \in [Pids -> Process]
        /\ startBlocks' \in [Pids -> Nat \cup {Nil}]
        /\ process'[p] = new
        /\ \A x \in Pids : x # p => process'[x] = process[x]
    BY <1>0, <1>1, UpdateFacts
  <1> HIDE DEF new, c
  <1>4. /\ actions' \in [ActionIds -> Actions \cup {NoAction}]
        /\ actions'[r] = c
        /\ r # p => actions'[p] = NoAction
        /\ \A i \in ActionIds \ {r, p} : actions'[i] = actions[i]
    BY <1>0, <1>2 DEF TypeOK, c
  <1>5. \A i \in ActionIds : actions[i].type = "CommitResults" =>
           i \notin {r, p} /\ actions[i].pid # p /\ actions[i].pid \in Pids
    <2> SUFFICES ASSUME NEW i \in ActionIds, actions[i].type = "CommitResults"
                 PROVE  i \notin {r, p} /\ actions[i].pid # p /\ actions[i].pid \in Pids
      OBVIOUS
    <2>1. process[actions[i].pid].status = "ENDED" /\ actions[i].pid \in Pids
      BY <1>0, ScheduledType DEF IndInv, CommitActionsFit
    <2>2. actions[p].type = "EndProcess"
      BY DEF IndInv, EndIsScheduled, Open
    <2> QED BY <2>1, <2>2 DEF Open, NoAction
  <1>6. TypeOK'
    BY <1>0, <1>3, <1>4 DEF TypeOK
  <1>7. EndIsScheduled'
    <2> SUFFICES ASSUME NEW x \in Pids, process'[x].status \in {"READY", "PAUSED"}
                 PROVE  /\ actions'[x].type = "EndProcess" /\ actions'[x].pid = x
                        /\ actions'[x].time = EndTime(process'[x])
                        /\ actions'[x].time # 0
      BY Zenon DEF EndIsScheduled
    <2>1. x # p /\ process'[x] = process[x]
      BY <1>1, <1>3
    <2>2. x \in ActionIds \ {r, p}
      BY <2>1, ElectionAssumption DEF ActionIds
    <2> QED BY <1>4, <2>1, <2>2 DEF IndInv, EndIsScheduled
  <1>8. EndActionsFit'
    <2> SUFFICES ASSUME NEW i \in ActionIds, actions'[i].type = "EndProcess"
                 PROVE  /\ i = actions'[i].pid
                        /\ process'[i].status \in {"READY", "PAUSED", "CANCELED"}
                        /\ actions'[i].height = 0
                        /\ actions'[i].time = EndTime(process'[i])
      BY Zenon DEF EndActionsFit
    <2>1. i \notin {r, p} /\ actions'[i] = actions[i]
      BY <1>2, <1>4 DEF NoAction
    <2>2. i \in Pids
      BY <1>0, <2>1, ScheduledType DEF IndInv, EndActionsFit
    <2> QED BY <1>3, <2>1, <2>2 DEF IndInv, EndActionsFit
  <1>9. CommitActionsFit'
    <2> SUFFICES ASSUME NEW i \in ActionIds, actions'[i].type = "CommitResults"
                 PROVE  /\ i \in Pids => i = actions'[i].pid
                        /\ process'[actions'[i].pid].status = "ENDED"
                        /\ actions'[i].time = 0
                        /\ actions'[i].height # 0
                        /\ \/ actions'[i].height > height
                           \/ votesCommitted[actions'[i].pid] = votes[actions'[i].pid]
      BY Zenon DEF CommitActionsFit
    <2>1. CASE i = r
      BY <1>1, <1>2, <1>3, <1>4, <2>1, ElectionAssumption
    <2>2. CASE i # r
      <3>1. i # p /\ actions'[i] = actions[i]
        BY <1>4, <2>2 DEF NoAction
      <3>2. actions[i].pid # p /\ actions[i].pid \in Pids
        BY <1>5, <3>1
      <3> QED BY <1>3, <3>1, <3>2 DEF IndInv, CommitActionsFit
    <2> QED BY <2>1, <2>2
  <1>10. CommitActionsUnique'
    <2> SUFFICES ASSUME NEW i \in ActionIds, NEW j \in ActionIds,
                        actions'[i].type = "CommitResults",
                        actions'[j].type = "CommitResults",
                        actions'[i].pid = actions'[j].pid
                 PROVE  i = j
      BY DEF CommitActionsUnique
    <2>1. \A k \in {i, j} : k # r => actions'[k] = actions[k] /\ actions[k].pid # p
      BY <1>4, <1>5 DEF NoAction
    <2> QED BY <1>2, <1>4, <2>1 DEF IndInv, CommitActionsUnique
  <1>11. EndedHasCommit'
    <2> SUFFICES ASSUME NEW x \in Pids, process'[x].status = "ENDED"
                 PROVE  \E i \in ActionIds : /\ actions'[i].type = "CommitResults"
                                             /\ actions'[i].pid = x
      BY Zenon DEF EndedHasCommit
    <2>1. CASE x = p
      BY <1>0, <1>2, <1>4, <2>1
    <2>2. CASE x # p
      <3>1. PICK i \in ActionIds : actions[i].type = "CommitResults" /\ actions[i].pid = x
        BY <1>3, <2>2 DEF IndInv, EndedHasCommit
      <3> QED BY <1>4, <1>5, <3>1
    <2> QED BY <2>1, <2>2, Zenon
  <1>12. PendingFits'
    <2>1. phase' = "txs" => pending' = {}
      BY DEF IndInv, PendingFits
    <2>2. \A i \in pending' : Due(actions[i])'
      <3> SUFFICES ASSUME NEW i \in pending \ {p} PROVE Due(actions[i])'
        BY Zenon
      <3>1. i \in ActionIds \ {r, p}
        BY <1>0 DEF TypeOK
      <3> QED BY <1>4, <3>1 DEF IndInv, PendingFits, Due, NoAction
    <2>3. phase' = "ist" => \A x \in Pids :
              (Open(x) /\ now >= EndTime(process[x]) => x \in pending)'
      BY <1>1, <1>3 DEF IndInv, PendingFits, Open
    <2> QED BY <2>1, <2>2, <2>3, Zenon DEF PendingFits
  <1>13. KeyAccounting'
    BY <1>1, <1>3 DEF IndInv, KeyAccounting
  <1>14. ResultsCountEveryVote'
    BY <1>1, <1>3 DEF IndInv, ResultsCountEveryVote
  <1> QED BY <1>6, <1>7, <1>8, <1>9, <1>10, <1>11, <1>12, <1>13, <1>14 DEF IndInv

LEMMA SetProcessStatusStep ==
  ASSUME IndInv, NEW p \in Pids, NEW s \in Status \ {"UNKNOWN", "RESULTS"},
         SetProcessStatus(p, s)
  PROVE  IndInv'
  <1> DEFINE new == [process[p] EXCEPT !.status = s]
  <1>0. /\ phase = "txs" /\ pending = {}
        /\ process[p] \in Process /\ KeysFit(process[p])
    BY DEF IndInv, TypeOK, KeyAccounting, PendingFits, SetProcessStatus, Deliver
  <1>1. CASE s = "ENDED"
    <2>1. Open(p)
      BY <1>1 DEF SetProcessStatus, StatusChangeAllowed, MayEnd, Open
    <2>2. actions' = [actions EXCEPT ![p] = NoAction, ![p] = ResultsOf(p)]
      BY <1>1, Zenon DEF SetProcessStatus, EndScheduleReplaced, IndInv, TypeOK
    <2>3. /\ UpdateProcess(p, [process[p] EXCEPT !.status = "ENDED"])
          /\ pending' = pending \ {p}
          /\ UNCHANGED <<height, now, phase, votes, votesCommitted, results, halted>>
      BY <1>0, <1>1 DEF SetProcessStatus
    <2> QED BY <1>0, <2>1, <2>2, <2>3, EndStep, Zenon
  <1>2. CASE s # "ENDED"
    <2>1. /\ new \in Process
          /\ new.status = s
          /\ new.publicKeys = process[p].publicKeys
          /\ new.privateKeys = process[p].privateKeys
          /\ new.keyIndex = process[p].keyIndex
          /\ EndTime(new) = EndTime(process[p])
      BY <1>0 DEF Process, EndTime
    <2>2. KeysFit(new)
      BY <1>0, <2>1 DEF KeysFit
    <2>3. \/ process[p].status = s
          \/ Open(p) /\ s \in {"READY", "PAUSED", "CANCELED"}
      BY <1>0, <1>2 DEF SetProcessStatus, StatusChangeAllowed, MayCancel, Open,
                        Process, Status
    <2>4. /\ UpdateProcess(p, new)
          /\ UNCHANGED <<height, now, phase, votes, votesCommitted, results,
                         actions, pending, halted>>
      BY <1>2 DEF SetProcessStatus
    <2> HIDE DEF new
    <2> QED BY <1>0, <2>1, <2>2, <2>3, <2>4, KeepSchedule
  <1> QED BY <1>1, <1>2

LEMMA SetProcessCensusStep ==
  ASSUME IndInv, NEW p \in Pids, NEW root \in Roots \cup {Nil},
         NEW size \in CensusSizes, SetProcessCensus(p, root, size)
  PROVE  IndInv'
  <1> DEFINE new == [process[p] EXCEPT
                        !.censusRoot = IF root = Nil THEN @ ELSE root,
                        !.maxCensusSize = IF size = 0 THEN @ ELSE size]
  <1>0. phase = "txs" /\ process[p] \in Process /\ KeysFit(process[p]) /\ Open(p)
    BY DEF IndInv, TypeOK, KeyAccounting, SetProcessCensus, Deliver,
           CensusChangeAllowed, Open
  <1>1. /\ new \in Process
        /\ new.status = process[p].status
        /\ new.publicKeys = process[p].publicKeys
        /\ new.privateKeys = process[p].privateKeys
        /\ new.keyIndex = process[p].keyIndex
        /\ EndTime(new) = EndTime(process[p])
    BY <1>0, ElectionAssumption, ZenonT(40) DEF Process, EndTime
  <1>2. KeysFit(new)
    BY <1>0, <1>1 DEF KeysFit
  <1>3. /\ UpdateProcess(p, new)
        /\ UNCHANGED <<height, now, phase, votes, votesCommitted, results,
                       actions, pending, halted>>
    BY DEF SetProcessCensus
  <1> HIDE DEF new
  <1> QED BY <1>0, <1>1, <1>2, <1>3, KeepSchedule DEF Open

LEMMA SetProcessMetadataStep ==
  ASSUME IndInv, NEW p \in Pids, NEW hash \in Metadatas, SetProcessMetadata(p, hash)
  PROVE  IndInv'
  <1> DEFINE new == [process[p] EXCEPT !.metadata = hash]
  <1>0. phase = "txs" /\ process[p] \in Process /\ KeysFit(process[p]) /\ Open(p)
    BY DEF IndInv, TypeOK, KeyAccounting, SetProcessMetadata, Deliver,
           MetadataChangeAllowed, Open
  <1>1. /\ new \in Process
        /\ new.status = process[p].status
        /\ new.publicKeys = process[p].publicKeys
        /\ new.privateKeys = process[p].privateKeys
        /\ new.keyIndex = process[p].keyIndex
        /\ EndTime(new) = EndTime(process[p])
    BY <1>0 DEF Process, EndTime
  <1>2. KeysFit(new)
    BY <1>0, <1>1 DEF KeysFit
  <1>3. /\ UpdateProcess(p, new)
        /\ UNCHANGED <<height, now, phase, votes, votesCommitted, results,
                       actions, pending, halted>>
    BY DEF SetProcessMetadata
  <1> HIDE DEF new
  <1> QED BY <1>0, <1>1, <1>2, <1>3, KeepSchedule DEF Open

\* Any set of keys is finite.
LEMMA KeysFinite ==
  ASSUME NEW K \in SUBSET KeyIndexes
  PROVE  IsFiniteSet(K) /\ Cardinality(K) \in Nat
  BY ElectionAssumption, FS_Subset, FS_CardinalityType

LEMMA AddProcessKeysStep ==
  ASSUME IndInv, NEW p \in Pids, NEW k \in KeyIndexes, AddProcessKeys(p, k)
  PROVE  IndInv'
  <1> DEFINE old == process[p]
             new == [old EXCEPT !.publicKeys = @ \cup {k},
                                !.keyIndex = IF @ = Nil THEN 1 ELSE @ + 1]
  <1>0. /\ phase = "txs" /\ old \in Process /\ KeysFit(old) /\ Open(p)
        /\ k \notin old.publicKeys
    BY DEF IndInv, TypeOK, KeyAccounting, AddProcessKeys, Deliver,
           AddKeysAllowed, Open, Process, Status
  <1>1. /\ new \in Process
        /\ new.status = old.status
        /\ new.publicKeys = old.publicKeys \cup {k}
        /\ new.privateKeys = old.privateKeys
        /\ new.keyIndex = IF old.keyIndex = Nil THEN 1 ELSE old.keyIndex + 1
        /\ EndTime(new) = EndTime(old)
    <2>1. (IF old.keyIndex = Nil THEN 1 ELSE old.keyIndex + 1) \in Nat
      BY <1>0 DEF Process
    <2> QED BY <1>0, <2>1, ZenonT(40) DEF Process, EndTime
  <1> HIDE DEF new
  <1>2. KeysFit(new)
    <2>1. /\ Cardinality(old.publicKeys) \in Nat
          /\ Cardinality(old.privateKeys) \in Nat
          /\ Cardinality(new.publicKeys) = Cardinality(old.publicKeys) + 1
      <3>1. old.publicKeys \in SUBSET KeyIndexes /\ old.privateKeys \in SUBSET KeyIndexes
        BY <1>0 DEF Process
      <3>2. Cardinality(old.publicKeys \cup {k}) = Cardinality(old.publicKeys) + 1
        BY <1>0, <3>1, KeysFinite, FS_AddElement
      <3> QED BY <1>1, <3>1, <3>2, KeysFinite
    <2>2. new.privateKeys \subseteq new.publicKeys /\ new.publicKeys # {}
      BY <1>0, <1>1 DEF KeysFit
    <2>3. new.keyIndex # Nil
      BY <1>0, <1>1, ProcessAssumption DEF Process
    <2>4. new.keyIndex = Cardinality(new.publicKeys) - Cardinality(new.privateKeys)
      <3>1. CASE old.keyIndex = Nil
        <4>1. old.publicKeys = {} /\ old.privateKeys = {}
          BY <1>0, <3>1, SMTT(30) DEF KeysFit
        <4> QED BY <1>1, <2>1, <3>1, <4>1, FS_EmptySet
      <3>2. CASE old.keyIndex # Nil
        BY <1>0, <1>1, <2>1, <3>2 DEF KeysFit
      <3> QED BY <3>1, <3>2
    <2> QED BY <2>2, <2>3, <2>4 DEF KeysFit
  <1>3. /\ UpdateProcess(p, new)
        /\ UNCHANGED <<height, now, phase, votes, votesCommitted, results,
                       actions, pending, halted>>
    BY DEF AddProcessKeys, new
  <1> QED BY <1>0, <1>1, <1>2, <1>3, KeepSchedule DEF Open

LEMMA RevealProcessKeysStep ==
  ASSUME IndInv, NEW p \in Pids, NEW k \in KeyIndexes, RevealProcessKeys(p, k)
  PROVE  IndInv'
  <1> DEFINE old == process[p]
             new == [old EXCEPT !.privateKeys = @ \cup {k}, !.keyIndex = @ - 1]
  <1>0. /\ phase = "txs" /\ old \in Process /\ KeysFit(old)
        /\ k \in old.publicKeys /\ k \notin old.privateKeys
        /\ old.keyIndex \notin {Nil, 0}
        /\ old.status # "RESULTS"
    BY DEF IndInv, TypeOK, KeyAccounting, RevealProcessKeys, Deliver,
           RevealKeysAllowed, ResultsCountEveryVote
  <1>1. /\ new \in Process
        /\ new.status = old.status
        /\ new.publicKeys = old.publicKeys
        /\ new.privateKeys = old.privateKeys \cup {k}
        /\ new.keyIndex = old.keyIndex - 1
        /\ new.keyIndex \in Nat
        /\ EndTime(new) = EndTime(old)
    <2>1. old.keyIndex - 1 \in Nat
      BY <1>0 DEF Process
    <2> QED BY <1>0, <2>1, Zenon DEF Process, EndTime
  <1> HIDE DEF new
  <1>2. KeysFit(new)
    <2>1. old.publicKeys \in SUBSET KeyIndexes /\ old.privateKeys \in SUBSET KeyIndexes
      BY <1>0 DEF Process
    <2>2. Cardinality(old.privateKeys \cup {k}) = Cardinality(old.privateKeys) + 1
      BY <1>0, <2>1, KeysFinite, FS_AddElement, SMTT(30)
    <2>3. Cardinality(old.publicKeys) \in Nat /\ Cardinality(old.privateKeys) \in Nat
      BY <2>1, KeysFinite
    <2>4. new.keyIndex # Nil
      BY <1>1, ProcessAssumption
    <2> QED BY <1>0, <1>1, <2>2, <2>3, <2>4 DEF KeysFit
  <1>3. /\ UpdateProcess(p, new)
        /\ UNCHANGED <<height, now, phase, votes, votesCommitted, results,
                       actions, pending, halted>>
    BY DEF RevealProcessKeys, new
  <1> QED BY <1>0, <1>1, <1>2, <1>3, KeepSchedule

LEMMA SetProcessDurationStep ==
  ASSUME IndInv, NEW p \in Pids, NEW d \in Durations, SetProcessDuration(p, d)
  PROVE  IndInv'
  <1> DEFINE old == process[p]
             new == [old EXCEPT !.duration = d]
             end == U32(old.startTime + d)
             a   == [actions[p] EXCEPT !.time = end, !.height = 0]
  <1>0. /\ TypeOK /\ p \in ActionIds
        /\ phase = "txs" /\ pending = {}
        /\ old \in Process /\ KeysFit(old) /\ Open(p)
        /\ d \in Nat /\ now < end /\ now \in Nat
    BY ElectionAssumption
       DEF IndInv, TypeOK, KeyAccounting, PendingFits, SetProcessDuration, Deliver,
           DurationChangeAllowed, Open, ActionIds
  <1>1. /\ new \in Process
        /\ new.status = old.status
        /\ new.publicKeys = old.publicKeys
        /\ new.privateKeys = old.privateKeys
        /\ new.keyIndex = old.keyIndex
        /\ EndTime(new) = end
        /\ end \in Nat /\ end # 0
    <2>1. end \in Nat
      BY <1>0, U32Type DEF Process
    <2> QED BY <1>0, <2>1 DEF Process, EndTime
  <1>2. KeysFit(new)
    BY <1>0, <1>1 DEF KeysFit
  <1>3. actions[p].type = "EndProcess" /\ actions[p].pid = p /\ actions[p] \in Actions
    BY <1>0, ScheduledType DEF IndInv, EndIsScheduled, Open
  <1>4. actions[p] # NoAction
    BY <1>3 DEF NoAction
  <1>5. /\ a \in Actions /\ a # NoAction
        /\ a.type = "EndProcess" /\ a.pid = p /\ a.height = 0 /\ a.time = end
    BY <1>1, <1>3, Zenon DEF Actions, NoAction
  <1>6. /\ UpdateProcess(p, new)
        /\ actions' = [actions EXCEPT ![p] = a]
        /\ UNCHANGED <<height, now, phase, votes, votesCommitted, results, pending, halted>>
    <2>1. ~(end <= now)
      BY <1>0, <1>1
    <2>2. actions' = [actions EXCEPT ![p].time = end, ![p].height = 0]
      BY <1>4, <2>1 DEF SetProcessDuration, Rescheduled
    <2> QED BY <1>0, <2>2, Zenon DEF SetProcessDuration, TypeOK
  <1> HIDE DEF new, a, end
  <1>7. /\ process' \in [Pids -> Process]
        /\ startBlocks' \in [Pids -> Nat \cup {Nil}]
        /\ process'[p] = new
        /\ \A x \in Pids : x # p => process'[x] = process[x]
    BY <1>0, <1>1, <1>6, UpdateFacts, SMTT(30)
  <1>8. /\ actions'[p] = a
        /\ \A i \in ActionIds : i # p => actions'[i] = actions[i]
    BY <1>0, <1>6, SMTT(30) DEF TypeOK
  <1>9. TypeOK'
    BY <1>0, <1>5, <1>6, <1>7, SMTT(30) DEF TypeOK
  <1>10. EndIsScheduled'
    BY <1>1, <1>5, <1>7, <1>8, SMTT(30) DEF IndInv, EndIsScheduled, ActionIds
  <1>11. EndActionsFit'
    BY <1>0, <1>1, <1>5, <1>7, <1>8, ScheduledType, SMTT(30)
       DEF IndInv, EndActionsFit, ActionIds, Open
  <1>12. CommitActionsFit'
    <2> SUFFICES ASSUME NEW i \in ActionIds, i # p,
                        actions[i].type = "CommitResults"
                 PROVE  process'[actions[i].pid].status = "ENDED"
      BY <1>5, <1>6, <1>8, ZenonT(40) DEF IndInv, CommitActionsFit
    <2>1. actions[i].pid \in Pids
      BY <1>0, ScheduledType
    <2> QED BY <1>1, <1>7, <2>1, SMTT(30) DEF IndInv, CommitActionsFit
  <1>13. CommitActionsUnique'
    BY <1>5, <1>8 DEF IndInv, CommitActionsUnique
  <1>14. EndedHasCommit'
    BY <1>0, <1>1, <1>3, <1>7, <1>8, SMTT(30) DEF IndInv, EndedHasCommit, Open
  <1>15. PendingFits'
    BY <1>0, <1>6 DEF PendingFits
  <1>16. KeyAccounting'
    BY <1>2, <1>7, SMTT(30) DEF IndInv, KeyAccounting
  <1>17. ResultsCountEveryVote'
    BY <1>0, <1>1, <1>6, <1>7 DEF IndInv, ResultsCountEveryVote, Open
  <1> QED BY <1>6, <1>9, <1>10, <1>11, <1>12, <1>13, <1>14, <1>15, <1>16, <1>17
          DEF IndInv

LEMMA AddVoteStep ==
  ASSUME IndInv, NEW p \in Pids, NEW v \in Voters, AddVote(p, v)
  PROVE  IndInv'
  <1>0. TypeOK /\ process[p].status = "READY"
    BY SMTT(30) DEF IndInv, AddVote, VoteAllowed
  <1>1. /\ votes' \in [Pids -> [Voters -> Nat]]
        /\ \A x \in Pids : x # p => votes'[x] = votes[x]
    BY <1>0 DEF AddVote, TypeOK
  <1>2. UNCHANGED <<height, now, phase, process, startBlocks, votesCommitted,
                    results, actions, pending, halted>>
    BY DEF AddVote
  <1>3. TypeOK'
    BY <1>0, <1>1, <1>2, SMTT(30) DEF TypeOK
  <1>4. EndIsScheduled' /\ EndActionsFit' /\ CommitActionsUnique' /\ EndedHasCommit'
    BY <1>2 DEF IndInv, EndIsScheduled, EndActionsFit, CommitActionsUnique, EndedHasCommit
  <1>5. PendingFits' /\ KeyAccounting'
    BY <1>2 DEF IndInv, PendingFits, Due, Open, KeyAccounting
  <1>6. CommitActionsFit'
    <2> SUFFICES ASSUME NEW i \in ActionIds, actions[i].type = "CommitResults"
                 PROVE  votes'[actions[i].pid] = votes[actions[i].pid]
      BY <1>2, SMTT(30) DEF IndInv, CommitActionsFit
    <2>1. actions[i].pid \in Pids /\ actions[i].pid # p
      BY <1>0, ScheduledType, SMTT(30) DEF IndInv, CommitActionsFit
    <2> QED BY <1>1, <2>1, SMTT(30)
  <1>7. ResultsCountEveryVote'
    BY <1>0, <1>1, <1>2 DEF IndInv, ResultsCountEveryVote
  <1> QED BY <1>2, <1>3, <1>4, <1>5, <1>6, <1>7 DEF IndInv
=============================================================================
