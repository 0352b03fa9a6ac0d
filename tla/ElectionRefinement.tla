-------------------------- MODULE ElectionRefinement --------------------------
(***************************************************************************)
(* What a step of the chain may do to an election: the action properties   *)
(* of Election, and that Election implements Poll.                         *)
(***************************************************************************)
EXTENDS ElectionProofs

OthersKept(p) == \A x \in Pids \ {p} : process'[x].status = process[x].status

\* Nothing that a voter or organiser sees changes.
Quiet ==
    /\ \A x \in Pids : process'[x].status = process[x].status
    /\ UNCHANGED <<votes, results>>

Created(p) ==
    /\ process[p].status = "UNKNOWN"
    /\ process'[p].status \in {"READY", "PAUSED"}
    /\ OthersKept(p)
    /\ UNCHANGED <<votes, results>>

Moved(p) ==
    /\ process[p].status \in {"READY", "PAUSED"}
    /\ process'[p].status \in {"READY", "PAUSED", "ENDED", "CANCELED"}
    /\ StatusChangeAllowed(process[p], process'[p].status, now)
    /\ OthersKept(p)
    /\ UNCHANGED <<votes, results>>

Counted(p) ==
    /\ process[p].status = "ENDED"
    /\ process'[p].status = "RESULTS"
    /\ OthersKept(p)
    /\ results' = [results EXCEPT ![p] = votes[p]]
    /\ UNCHANGED votes

Voted(p) ==
    /\ process[p].status = "READY"
    /\ \E v \in Voters : votes' = [votes EXCEPT ![p][v] = @ + 1]
    /\ UNCHANGED <<process, results>>

Kind == Quiet \/ \E p \in Pids : Created(p) \/ Moved(p) \/ Counted(p) \/ Voted(p)

\* An update changes the status of its election only.
LEMMA StatusUpdate ==
  ASSUME TypeOK, NEW p \in Pids, NEW new, UpdateProcess(p, new)
  PROVE  process'[p] = new /\ OthersKept(p)
  BY DEF TypeOK, UpdateProcess, OthersKept

LEMMA StatusOfUpdate ==
  ASSUME NEW q \in Process, NEW s \in Status
  PROVE  [q EXCEPT !.status = s].status = s
  BY DEF Process

\* Transactions other than status changes, creations and votes.
LEMMA QuietUpdate ==
  ASSUME TypeOK, NEW p \in Pids, NEW new, UpdateProcess(p, new),
         new.status = process[p].status, UNCHANGED <<votes, results>>
  PROVE  Quiet
  BY StatusUpdate DEF Quiet, OthersKept

LEMMA TransactionKind ==
  ASSUME IndInv, NEW p \in Pids, Transaction(p)
  PROVE  Kind
  <1>0. TypeOK /\ process[p] \in Process
    BY DEF IndInv, TypeOK
  <1>1. CASE \E tx \in Requests : NewProcessTxn(p, tx)
    <2>1. PICK tx \in Requests : NewProcessTxn(p, tx)
      BY <1>1
    <2>2. process[p].status = "UNKNOWN" /\ tx.status \in {"READY", "PAUSED"}
      BY <2>1 DEF NewProcessTxn, NoProcess, NewProcessTxCheck
    <2>3. /\ process' = [process EXCEPT ![p] = NewProcess(tx, height, now)]
          /\ UNCHANGED <<votes, results>>
      BY <2>1 DEF NewProcessTxn
    <2>4. NewProcess(tx, height, now).status = tx.status
      BY DEF NewProcess
    <2>5. Created(p)
      BY <1>0, <2>2, <2>3, <2>4 DEF Created, OthersKept, TypeOK
    <2> QED BY <2>5 DEF Kind
  <1>2. CASE \E s \in Status \ {"UNKNOWN", "RESULTS"} : SetProcessStatus(p, s)
    <2>1. PICK s \in Status \ {"UNKNOWN", "RESULTS"} : SetProcessStatus(p, s)
      BY <1>2
    <2>2. process'[p].status = s /\ OthersKept(p)
      BY <1>0, <2>1, StatusUpdate, StatusOfUpdate DEF SetProcessStatus
    <2>3. StatusChangeAllowed(process[p], s, now) /\ UNCHANGED <<votes, results>>
      BY <2>1 DEF SetProcessStatus
    <2>4. process[p].status \in {"READY", "PAUSED"}
      BY <1>0, <2>1, <2>3 DEF StatusChangeAllowed, MayEnd, MayCancel, Process, Status
    <2>5. Moved(p)
      BY <2>1, <2>2, <2>3, <2>4 DEF Moved, Status
    <2> QED BY <2>5 DEF Kind
  <1>3. CASE \E v \in Voters : AddVote(p, v)
    <2>1. Voted(p)
      BY <1>3 DEF AddVote, VoteAllowed, Voted
    <2> QED BY <2>1 DEF Kind
  <1>4. CASE \E d \in Durations : SetProcessDuration(p, d)
    <2>1. PICK d \in Durations : SetProcessDuration(p, d)
      BY <1>4
    <2> DEFINE new == [process[p] EXCEPT !.duration = d]
    <2>2. new.status = process[p].status
      BY <1>0 DEF Process
    <2>3. UpdateProcess(p, new) /\ UNCHANGED <<votes, results>>
      BY <2>1 DEF SetProcessDuration
    <2> HIDE DEF new
    <2> QED BY <1>0, <2>2, <2>3, QuietUpdate DEF Kind
  <1>5. CASE \E root \in Roots \cup {Nil}, size \in CensusSizes :
                SetProcessCensus(p, root, size)
    <2>1. PICK root \in Roots \cup {Nil}, size \in CensusSizes :
             SetProcessCensus(p, root, size)
      BY <1>5
    <2> DEFINE new == [process[p] EXCEPT
                          !.censusRoot = IF root = Nil THEN @ ELSE root,
                          !.maxCensusSize = IF size = 0 THEN @ ELSE size]
    <2>2. new.status = process[p].status
      BY <1>0 DEF Process
    <2>3. UpdateProcess(p, new) /\ UNCHANGED <<votes, results>>
      BY <2>1 DEF SetProcessCensus
    <2> HIDE DEF new
    <2> QED BY <1>0, <2>2, <2>3, QuietUpdate DEF Kind
  <1>6. CASE \E hash \in Metadatas : SetProcessMetadata(p, hash)
    <2>1. PICK hash \in Metadatas : SetProcessMetadata(p, hash)
      BY <1>6
    <2> DEFINE new == [process[p] EXCEPT !.metadata = hash]
    <2>2. new.status = process[p].status
      BY <1>0 DEF Process
    <2>3. UpdateProcess(p, new) /\ UNCHANGED <<votes, results>>
      BY <2>1 DEF SetProcessMetadata
    <2> HIDE DEF new
    <2> QED BY <1>0, <2>2, <2>3, QuietUpdate DEF Kind
  <1>7. CASE \E k \in KeyIndexes : AddProcessKeys(p, k)
    <2>1. PICK k \in KeyIndexes : AddProcessKeys(p, k)
      BY <1>7
    <2> DEFINE new == [process[p] EXCEPT !.publicKeys = @ \cup {k},
                                         !.keyIndex = IF @ = Nil THEN 1 ELSE @ + 1]
    <2>2. new.status = process[p].status
      BY <1>0 DEF Process
    <2>3. UpdateProcess(p, new) /\ UNCHANGED <<votes, results>>
      BY <2>1 DEF AddProcessKeys
    <2> HIDE DEF new
    <2> QED BY <1>0, <2>2, <2>3, QuietUpdate DEF Kind
  <1>8. CASE \E k \in KeyIndexes : RevealProcessKeys(p, k)
    <2>1. PICK k \in KeyIndexes : RevealProcessKeys(p, k)
      BY <1>8
    <2> DEFINE new == [process[p] EXCEPT !.privateKeys = @ \cup {k}, !.keyIndex = @ - 1]
    <2>2. new.status = process[p].status
      BY <1>0 DEF Process
    <2>3. UpdateProcess(p, new) /\ UNCHANGED <<votes, results>>
      BY <2>1 DEF RevealProcessKeys
    <2> HIDE DEF new
    <2> QED BY <1>0, <2>2, <2>3, QuietUpdate DEF Kind
  <1> QED BY <1>1, <1>2, <1>3, <1>4, <1>5, <1>6, <1>7, <1>8 DEF Transaction

LEMMA RunActionKind ==
  ASSUME IndInv, NEW i \in ActionIds, RunAction(i)
  PROVE  Kind
  <1> DEFINE p == actions[i].pid
  <1>0. TypeOK /\ i \in pending /\ UNCHANGED votes
    BY DEF IndInv, RunAction
  <1>1. CASE actions[i].type = "EndProcess"
    <2>1. /\ i \in Pids /\ i = p /\ process[i] \in Process
          /\ process[i].status \in {"READY", "PAUSED", "CANCELED"}
          /\ now >= EndTime(process[i])
          /\ EndElection(i)
      BY <1>0, <1>1, DueEnd DEF RunAction, TypeOK
    <2>2. CASE process[i].status = "CANCELED"
      <3>1. Quiet
        BY <1>0, <2>1, <2>2 DEF EndElection, Quiet
      <3> QED BY <3>1 DEF Kind
    <2>3. CASE process[i].status # "CANCELED"
      <3>1. StatusChangeAllowed(process[i], "ENDED", now)
        BY <2>1, <2>3 DEF StatusChangeAllowed, MayEnd
      <3>2. UpdateProcess(i, [process[i] EXCEPT !.status = "ENDED"]) /\ UNCHANGED results
        BY <2>1, <2>3, <3>1 DEF EndElection
      <3>3. process'[i].status = "ENDED" /\ OthersKept(i)
        <4>1. /\ process'[i] = [process[i] EXCEPT !.status = "ENDED"]
              /\ OthersKept(i)
          BY <1>0, <2>1, <3>2, StatusUpdate
        <4> QED BY <2>1, <4>1 DEF Process
      <3>4. Moved(i)
        BY <1>0, <2>1, <2>3, <3>1, <3>2, <3>3 DEF Moved
      <3> QED BY <2>1, <3>4 DEF Kind
    <2> QED BY <2>2, <2>3
  <1>2. CASE actions[i].type = "CommitResults"
    <2>1. /\ p \in Pids /\ process[p] \in Process /\ process[p].status = "ENDED"
          /\ votesCommitted[p] = votes[p]
          /\ CommitResults(i)
      BY <1>0, <1>2, DueResults DEF RunAction, TypeOK
    <2>2. CASE ~KeysRevealed(process[p])
      <3>1. Quiet
        BY <1>0, <2>1, <2>2 DEF CommitResults, Quiet
      <3> QED BY <3>1 DEF Kind
    <2>3. CASE KeysRevealed(process[p])
      <3>1. /\ UpdateProcess(p, [process[p] EXCEPT !.status = "RESULTS"])
            /\ results' = [results EXCEPT ![p] = votesCommitted[p]]
        BY <2>1, <2>3 DEF CommitResults, ResultsAllowed
      <3>2. process'[p].status = "RESULTS" /\ OthersKept(p)
        <4>1. /\ process'[p] = [process[p] EXCEPT !.status = "RESULTS"]
              /\ OthersKept(p)
          BY <1>0, <2>1, <3>1, StatusUpdate
        <4> QED BY <2>1, <4>1 DEF Process
      <3>3. Counted(p)
        BY <1>0, <2>1, <3>1, <3>2 DEF Counted
      <3> QED BY <2>1, <3>3 DEF Kind
    <2> QED BY <2>2, <2>3
  <1> QED BY <1>1, <1>2 DEF RunAction

LEMMA NextKind == IndInv /\ [Next]_vars => Kind
  <1> SUFFICES ASSUME IndInv, [Next]_vars PROVE Kind
    OBVIOUS
  <1>1. CASE \E p \in Pids : Transaction(p)
    BY <1>1, TransactionKind
  <1>2. CASE \E i \in ActionIds : RunAction(i)
    BY <1>2, RunActionKind
  <1>3. CASE (\E dt \in TimeSteps : BeginBlock(dt)) \/ FindPendingActions \/ UNCHANGED vars
    BY <1>3 DEF BeginBlock, FindPendingActions, vars, Kind, Quiet
  <1> QED BY <1>1, <1>2, <1>3 DEF Next, EndOfChain

-----------------------------------------------------------------------------
(* Action properties *)

\* A closed election stays closed, with its votes and results unchanged.
THEOREM ClosedStaysClosed == Spec => ClosedForGood
  <1>1. ASSUME IndInv, Kind, NEW p \in Pids,
               process[p].status \in {"CANCELED", "ENDED", "RESULTS"}
        PROVE  /\ votes'[p] = votes[p]
               /\ \/ process'[p].status = process[p].status /\ results'[p] = results[p]
                  \/ process[p].status = "ENDED" /\ process'[p].status = "RESULTS"
    <2>1. CASE Quiet
      BY <2>1 DEF Quiet
    <2>2. CASE \E x \in Pids : Created(x)
      BY <1>1, <2>2 DEF Created, OthersKept
    <2>3. CASE \E x \in Pids : Moved(x)
      BY <1>1, <2>3 DEF Moved, OthersKept
    <2>4. CASE \E x \in Pids : Counted(x)
      BY <1>1, <2>4 DEF Counted, OthersKept, IndInv, TypeOK
    <2>5. CASE \E x \in Pids : Voted(x)
      BY <1>1, <2>5 DEF Voted, IndInv, TypeOK
    <2> QED BY <1>1, <2>1, <2>2, <2>3, <2>4, <2>5 DEF Kind
  <1> DEFINE A == \A p \in Pids :
          process[p].status \in {"CANCELED", "ENDED", "RESULTS"} =>
              /\ votes'[p] = votes[p]
              /\ \/ process'[p].status = process[p].status /\ results'[p] = results[p]
                 \/ process[p].status = "ENDED" /\ process'[p].status = "RESULTS"
  <1>2. IndInv /\ [Next]_vars => [A]_vars
    BY <1>1, NextKind
  <1> QED BY <1>2, Inductive, PTL DEF Spec, ClosedForGood

\* An election that is not interruptible stays READY until its end time.
THEOREM RunsToItsEnd == Spec => NonInterruptibleRunsToItsEnd
  <1>1. ASSUME Kind, NEW p \in Pids,
               process[p].status = "READY", ~process[p].interruptible
        PROVE  \/ process'[p].status = "READY"
               \/ process'[p].status = "ENDED" /\ now >= EndTime(process[p])
    <2>1. CASE Quiet \/ \E x \in Pids : Created(x) \/ Counted(x) \/ Voted(x)
      BY <1>1, <2>1 DEF Quiet, Created, Counted, Voted, OthersKept
    <2>2. CASE \E x \in Pids : Moved(x)
      BY <1>1, <2>2 DEF Moved, OthersKept, StatusChangeAllowed, MayEnd, MayCancel
    <2> QED BY <1>1, <2>1, <2>2 DEF Kind
  <1> DEFINE A == \A p \in Pids :
          (process[p].status = "READY" /\ ~process[p].interruptible) =>
              \/ process'[p].status = "READY"
              \/ process'[p].status = "ENDED" /\ now >= EndTime(process[p])
  <1>2. IndInv /\ [Next]_vars => [A]_vars
    BY <1>1, NextKind
  <1> QED BY <1>2, Inductive, PTL DEF Spec, NonInterruptibleRunsToItsEnd

-----------------------------------------------------------------------------
(* Refinement *)

LEMMA Stages ==
  /\ StageOf("UNKNOWN") = "none"
  /\ StageOf("READY") = "open"
  /\ StageOf("PAUSED") = "suspended"
  /\ StageOf("ENDED") = "closed"
  /\ StageOf("CANCELED") = "void"
  /\ StageOf("RESULTS") = "counted"
  BY DEF StageOf

\* A change of one status is a change of one stage.
LEMMA StageMove ==
  ASSUME NEW p \in Pids, OthersKept(p), NEW t, StageOf(process'[p].status) = t
  PROVE  stageOf' = [stageOf EXCEPT ![p] = t]
  <1>1. \A x \in Pids : stageOf'[x] = [stageOf EXCEPT ![p] = t][x]
    BY DEF OthersKept, stageOf
  <1> QED BY <1>1 DEF stageOf

LEMMA KindRefines ==
  ASSUME IndInv, Kind
  PROVE  P!PollNext \/ UNCHANGED P!pollVars
  <1>1. CASE Quiet
    <2>1. stageOf' = stageOf
      BY <1>1 DEF Quiet, stageOf
    <2> QED BY <1>1, <2>1 DEF Quiet, P!pollVars
  <1>2. ASSUME NEW p \in Pids, Created(p)
        PROVE  P!Announce(p)
    <2>1. stageOf[p] = "none"
      BY <1>2, Stages DEF Created, stageOf
    <2>2. \/ stageOf' = [stageOf EXCEPT ![p] = "open"]
          \/ stageOf' = [stageOf EXCEPT ![p] = "suspended"]
      BY <1>2, Stages, StageMove DEF Created
    <2> QED BY <1>2, <2>1, <2>2 DEF Created, P!Announce, P!Move
  <1>3. ASSUME NEW p \in Pids, Moved(p)
        PROVE  P!Suspend(p) \/ P!Resume(p) \/ P!Close(p) \/ P!Void(p)
    <2>1. /\ process[p].status = "READY" => stageOf[p] = "open"
          /\ process[p].status = "PAUSED" => stageOf[p] = "suspended"
      BY <1>3, Stages DEF stageOf
    <2>2. OthersKept(p) /\ UNCHANGED <<votes, results>>
      BY <1>3 DEF Moved
    <2>3. CASE process'[p].status = "READY"
      <3>1. process[p].status = "PAUSED"
        BY <1>3, <2>3 DEF Moved, StatusChangeAllowed
      <3>2. stageOf' = [stageOf EXCEPT ![p] = "open"]
        BY <2>2, <2>3, Stages, StageMove
      <3> QED BY <2>1, <2>2, <3>1, <3>2 DEF P!Resume, P!Move
    <2>4. CASE process'[p].status = "PAUSED"
      <3>1. process[p].status = "READY"
        BY <1>3, <2>4 DEF Moved, StatusChangeAllowed
      <3>2. stageOf' = [stageOf EXCEPT ![p] = "suspended"]
        BY <2>2, <2>4, Stages, StageMove
      <3> QED BY <2>1, <2>2, <3>1, <3>2 DEF P!Suspend, P!Move
    <2>5. CASE process'[p].status = "ENDED"
      <3>1. stageOf' = [stageOf EXCEPT ![p] = "closed"]
        BY <2>2, <2>5, Stages, StageMove
      <3> QED BY <1>3, <2>1, <2>2, <3>1 DEF Moved, P!Close, P!Move
    <2>6. CASE process'[p].status = "CANCELED"
      <3>1. stageOf' = [stageOf EXCEPT ![p] = "void"]
        BY <2>2, <2>6, Stages, StageMove
      <3> QED BY <1>3, <2>1, <2>2, <3>1 DEF Moved, P!Void, P!Move
    <2> QED BY <1>3, <2>3, <2>4, <2>5, <2>6 DEF Moved
  <1>4. ASSUME NEW p \in Pids, Counted(p)
        PROVE  P!Count(p)
    <2>1. stageOf[p] = "closed"
      BY <1>4, Stages DEF Counted, stageOf
    <2>2. stageOf' = [stageOf EXCEPT ![p] = "counted"]
      BY <1>4, Stages, StageMove DEF Counted
    <2> QED BY <1>4, <2>1, <2>2 DEF Counted, P!Count, P!Move
  <1>5. ASSUME NEW p \in Pids, Voted(p)
        PROVE  \E v \in Voters : P!Cast(p, v)
    <2>1. stageOf[p] = "open" /\ stageOf' = stageOf
      BY <1>5, Stages DEF Voted, stageOf
    <2> QED BY <1>5, <2>1 DEF Voted, P!Cast
  <1> QED BY <1>1, <1>2, <1>3, <1>4, <1>5 DEF Kind, P!PollNext

\* The chain implements Poll: an election as its voters and organisers see it.
THEOREM Refinement == Spec => ImplementsPoll
  <1>1. Init => P!PollInit
    <2> SUFFICES ASSUME Init PROVE P!PollInit
      OBVIOUS
    <2>1. stageOf = [p \in Pids |-> "none"]
      BY Stages DEF Init, stageOf, NoProcess
    <2> QED BY <2>1 DEF Init, P!PollInit
  <1>2. IndInv /\ [Next]_vars => [P!PollNext]_(P!pollVars)
    BY NextKind, KindRefines
  <1> QED BY <1>1, <1>2, Inductive, PTL DEF Spec, ImplementsPoll, P!PollSpec
=============================================================================
