------------------------------- MODULE Election -------------------------------
(***************************************************************************)
(* The life of elections on the chain: the election transactions of a      *)
(* block, the votes, the encryption keys that validators add and reveal,   *)
(* and the Internal State Transition Controller (IST), which ends          *)
(* elections and commits their results from a store of scheduled actions.  *)
(*                                                                         *)
(* A behaviour is the sequence of blocks a node executes.  Block execution *)
(* (BaseApplication.ExecuteBlock) is: set height and time (BeginBlock),    *)
(* deliver the transactions (phase "txs"), collect the due actions         *)
(* (FindPendingActions) and run them one by one (phase "ist").  Sender     *)
(* authorisation, fees and nonces do not appear: a transaction that        *)
(* reaches an action below has passed them, and they change no variable of *)
(* this module.                                                            *)
(***************************************************************************)
EXTENDS Process, FiniteSets

CONSTANTS
    Pids,        \* election identifiers
    RandomIds,   \* what util.RandomBytes(32) can return
    Voters,      \* vote nullifiers
    Requests,    \* NewProcess transactions that may be sent
    Durations,   \* durations that SetProcess may ask for
    CensusSizes, \* census sizes that SetProcess may ask for (0: keep)
    TimeSteps,   \* seconds between two consecutive blocks
    GenesisTime, \* the block time that InitChain stores
    MaxHeight,   \* bound on the chain height
    MaxTime      \* bound on the block time

ASSUME ElectionAssumption ==
    /\ Pids \cap RandomIds = {}
    /\ Requests \subseteq NewProcessTx
    /\ Durations \subseteq Nat
    /\ CensusSizes \subseteq Nat
    /\ TimeSteps \subseteq Nat
    /\ GenesisTime \in Nat \ {0}
    /\ IsFiniteSet(KeyIndexes)
    /\ MaxHeight \in Nat
    /\ MaxTime \in Nat

VARIABLES
    height,         \* State.currentHeight
    now,            \* State.Timestamp(false)
    phase,          \* "txs" or "ist"
    process,        \* the processes tree
    startBlocks,    \* ProcessBlockRegistry
    votes,          \* how often each voter voted in each election
    votesCommitted, \* the same in the last committed version of the state
    results,        \* the votes that the committed results count, or Nil
    actions,        \* the IST action store, by action ID
    pending,        \* IDs of the due actions still to run in this block
    halted          \* Istc.Commit returned an error: the block cannot be executed

vars == <<height, now, phase, process, startBlocks, votes, votesCommitted,
          results, actions, pending, halted>>

ActionIds == Pids \cup RandomIds

NoAction == [type |-> "none"]

\* ist.Action.  A zero height or time is "not set".
Action(type, pid, h, t) ==
    [type |-> type, pid |-> pid, height |-> h, time |-> t, attempts |-> 0]

Actions == [type : {"EndProcess", "CommitResults"}, pid : Pids,
            height : Nat, time : Nat, attempts : Nat]

\* Faulty: an action that falls due exactly now waits.
Due_Late(a) == /\ a # NoAction
               /\ \/ a.height # 0 /\ height >= a.height
                  \/ a.time # 0 /\ now > a.time

\* The condition of findPendingActions.
Due(a) == /\ a # NoAction
          /\ \/ a.height # 0 /\ height >= a.height
             \/ a.time # 0 /\ now >= a.time

Init ==
    /\ height = 0
    /\ now = GenesisTime
    /\ phase = "ist"
    /\ process = [p \in Pids |-> NoProcess]
    /\ startBlocks = [p \in Pids |-> Nil]
    /\ votes = [p \in Pids |-> [v \in Voters |-> 0]]
    /\ votesCommitted = votes
    /\ results = [p \in Pids |-> Nil]
    /\ actions = [i \in ActionIds |-> NoAction]
    /\ pending = {}
    /\ halted = FALSE

-----------------------------------------------------------------------------
(* Transactions *)

\* State.UpdateProcess: every update also maintains the registry of starts.
UpdateProcess(p, new) ==
    /\ process' = [process EXCEPT ![p] = new]
    /\ startBlocks' = [startBlocks EXCEPT ![p] =
           CASE new.status = "READY"  -> new.startBlock
             [] new.status = "PAUSED" -> height
             [] new.status = "ENDED"  -> Nil
             [] OTHER                 -> @]

Deliver == phase = "txs" /\ ~halted

NewProcessTxn(p, tx) ==
    /\ Deliver
    /\ process[p] = NoProcess
    /\ NewProcessTxCheck(tx, height, now)
    /\ LET new == NewProcess(tx, height, now)
       IN  /\ process' = [process EXCEPT ![p] = new]
           /\ actions' = [actions EXCEPT ![p] =
                  IF @ = NoAction THEN Action("EndProcess", p, 0, EndTime(new)) ELSE @]
    /\ UNCHANGED <<height, now, phase, startBlocks, votes, votesCommitted,
                   results, pending, halted>>

\* Faulty: results are computed in the block that ends the election.
ResultsOf_SameBlock(p) == Action("CommitResults", p, height, 0)

\* The action that computes the results of election p in the next block.
ResultsOf(p) == Action("CommitResults", p, height + 1, 0)

\* Faulty: the scheduled end is not removed, so Schedule refuses the new action.
EndScheduleReplaced_EndKept(p) ==
    [actions EXCEPT ![p] = IF @ = NoAction THEN ResultsOf(p) ELSE @]

\* Ending an election by hand replaces its scheduled end by its results.
EndScheduleReplaced(p) == [actions EXCEPT ![p] = ResultsOf(p)]

\* SET_PROCESS_STATUS
SetProcessStatus(p, new) ==
    /\ Deliver
    /\ StatusChangeAllowed(process[p], new, now)
    /\ UpdateProcess(p, [process[p] EXCEPT !.status = new])
    /\ actions' = IF new = "ENDED" THEN EndScheduleReplaced(p) ELSE actions
    /\ UNCHANGED <<height, now, phase, votes, votesCommitted, results, pending, halted>>

\* Faulty: the scheduled end stays where it was.
Rescheduled_Never(p, end) == actions

\* Controller.Reschedule to a time: refused when nothing is scheduled or the
\* time has passed.
Rescheduled(p, end) ==
    IF actions[p] = NoAction \/ end <= now THEN actions
    ELSE [actions EXCEPT ![p].time = end, ![p].height = 0]

\* SET_PROCESS_DURATION.  The duration is stored before the scheduled end is
\* moved, and stays when moving it fails.
SetProcessDuration(p, d) ==
    /\ Deliver
    /\ DurationChangeAllowed(process[p], d, now)
    /\ UpdateProcess(p, [process[p] EXCEPT !.duration = d])
    /\ actions' = Rescheduled(p, U32(process[p].startTime + d))
    /\ UNCHANGED <<height, now, phase, votes, votesCommitted, results, pending, halted>>

\* SET_PROCESS_CENSUS
SetProcessCensus(p, root, size) ==
    /\ Deliver
    /\ CensusChangeAllowed(process[p], root, size)
    /\ UpdateProcess(p, [process[p] EXCEPT
           !.censusRoot = IF root = Nil THEN @ ELSE root,
           !.maxCensusSize = IF size = 0 THEN @ ELSE size])
    /\ UNCHANGED <<height, now, phase, votes, votesCommitted, results, actions,
                   pending, halted>>

\* SET_PROCESS_METADATA
SetProcessMetadata(p, hash) ==
    /\ Deliver
    /\ MetadataChangeAllowed(process[p], hash, height)
    /\ UpdateProcess(p, [process[p] EXCEPT !.metadata = hash])
    /\ UNCHANGED <<height, now, phase, votes, votesCommitted, results, actions,
                   pending, halted>>

\* ADD_PROCESS_KEYS by the validator with key index k.
AddProcessKeys(p, k) ==
    /\ Deliver
    /\ AddKeysAllowed(process[p], k)
    /\ UpdateProcess(p, [process[p] EXCEPT
           !.publicKeys = @ \cup {k},
           !.keyIndex = IF @ = Nil THEN 1 ELSE @ + 1])
    /\ UNCHANGED <<height, now, phase, votes, votesCommitted, results, actions,
                   pending, halted>>

\* REVEAL_PROCESS_KEYS by the validator with key index k.
RevealProcessKeys(p, k) ==
    /\ Deliver
    /\ RevealKeysAllowed(process[p], k, now)
    /\ UpdateProcess(p, [process[p] EXCEPT
           !.privateKeys = @ \cup {k},
           !.keyIndex = @ - 1])
    /\ UNCHANGED <<height, now, phase, votes, votesCommitted, results, actions,
                   pending, halted>>

\* A vote whose census proof verifies and whose metadata hash matches.
AddVote(p, v) ==
    /\ Deliver
    /\ VoteAllowed(process[p], votes[p][v],
                   Cardinality({u \in Voters : votes[p][u] > 0}), height, now)
    /\ votes' = [votes EXCEPT ![p][v] = @ + 1]
    /\ UNCHANGED <<height, now, phase, process, startBlocks, votesCommitted,
                   results, actions, pending, halted>>

-----------------------------------------------------------------------------
(* Blocks and the Internal State Transition Controller *)

\* The previous block is committed and a new one starts.
BeginBlock(dt) ==
    /\ phase = "ist" /\ pending = {} /\ ~halted
    /\ height < MaxHeight
    /\ now + dt <= MaxTime
    /\ height' = height + 1
    /\ now' = now + dt
    /\ phase' = "txs"
    /\ votesCommitted' = votes
    /\ UNCHANGED <<process, startBlocks, votes, results, actions, pending, halted>>

\* Controller.Commit looks up the due actions once, before it runs any.
FindPendingActions ==
    /\ Deliver
    /\ phase' = "ist"
    /\ pending' = {i \in ActionIds : Due(actions[i])}
    /\ UNCHANGED <<height, now, process, startBlocks, votes, votesCommitted,
                   results, actions, halted>>

Halt ==
    /\ halted' = TRUE
    /\ UNCHANGED <<process, startBlocks, results, actions>>

\* Controller.endElection, then the removal of the action.
EndElection(i) ==
    LET p == process[actions[i].pid]
    IN  \/ /\ p.status \in {"CANCELED", "ENDED", "RESULTS"}
           /\ actions' = [actions EXCEPT ![i] = NoAction]
           /\ UNCHANGED <<process, startBlocks, results, halted>>
        \/ /\ p.status \notin {"CANCELED", "ENDED", "RESULTS"}
           /\ StatusChangeAllowed(p, "ENDED", now)
           /\ UpdateProcess(actions[i].pid, [p EXCEPT !.status = "ENDED"])
           /\ \E r \in RandomIds :
                 /\ actions[r] = NoAction
                 /\ actions' = [actions EXCEPT
                       ![r] = ResultsOf(actions[i].pid),
                       ![i] = NoAction]
           /\ UNCHANGED <<results, halted>>
        \/ /\ p.status \notin {"CANCELED", "ENDED", "RESULTS"}
           /\ ~StatusChangeAllowed(p, "ENDED", now)
           /\ Halt

\* State.SetProcessResults
ResultsAllowed(p) ==
    \/ p.status = "ENDED"
    \/ p.status = "READY" /\ p.startBlock <= height

\* The commit-results case of Controller.Commit: results are computed from
\* the committed version of the state, and put off while keys are missing.
CommitResults(i) ==
    LET a == actions[i]
        p == process[a.pid]
    IN  \/ /\ p.status # "UNKNOWN"
           /\ ~KeysRevealed(p)
           /\ actions' = [actions EXCEPT
                  ![i].height = height + 1 + 2 * a.attempts,
                  ![i].time = 0,
                  ![i].attempts = @ + 1]
           /\ UNCHANGED <<process, startBlocks, results, halted>>
        \/ /\ KeysRevealed(p)
           /\ ResultsAllowed(p)
           /\ UpdateProcess(a.pid, [p EXCEPT !.status = "RESULTS"])
           /\ results' = [results EXCEPT ![a.pid] = votesCommitted[a.pid]]
           /\ actions' = [actions EXCEPT ![i] = NoAction]
           /\ UNCHANGED halted
        \/ /\ p.status = "UNKNOWN" \/ (KeysRevealed(p) /\ ~ResultsAllowed(p))
           /\ Halt

\* One iteration of the loop of Controller.Commit.
RunAction(i) ==
    /\ phase = "ist" /\ ~halted
    /\ i \in pending
    /\ pending' = pending \ {i}
    /\ \/ actions[i].type = "EndProcess" /\ EndElection(i)
       \/ actions[i].type = "CommitResults" /\ CommitResults(i)
    /\ UNCHANGED <<height, now, phase, votes, votesCommitted>>

-----------------------------------------------------------------------------

Transaction(p) ==
    \/ \E tx \in Requests : NewProcessTxn(p, tx)
    \/ \E s \in Status \ {"UNKNOWN", "RESULTS"} : SetProcessStatus(p, s)
    \/ \E d \in Durations : SetProcessDuration(p, d)
    \/ \E root \in Roots \cup {Nil}, size \in CensusSizes : SetProcessCensus(p, root, size)
    \/ \E hash \in Metadatas : SetProcessMetadata(p, hash)
    \/ \E k \in KeyIndexes : AddProcessKeys(p, k) \/ RevealProcessKeys(p, k)
    \/ \E v \in Voters : AddVote(p, v)

\* The bounded chain is over: its last block is complete.
EndOfChain ==
    /\ phase = "ist" /\ pending = {} /\ ~halted
    /\ height = MaxHeight \/ \A dt \in TimeSteps : now + dt > MaxTime
    /\ UNCHANGED vars

Next ==
    \/ \E p \in Pids : Transaction(p)
    \/ \E dt \in TimeSteps : BeginBlock(dt)
    \/ FindPendingActions
    \/ \E i \in ActionIds : RunAction(i)
    \/ EndOfChain

Spec == Init /\ [][Next]_vars

-----------------------------------------------------------------------------
(* Properties *)

\* Every variable holds a value of the kind the code stores there.
TypeOK ==
    /\ height \in Nat
    /\ now \in Nat
    /\ phase \in {"txs", "ist"}
    /\ process \in [Pids -> Process]
    /\ startBlocks \in [Pids -> Nat \cup {Nil}]
    /\ votes \in [Pids -> [Voters -> Nat]]
    /\ votesCommitted \in [Pids -> [Voters -> Nat]]
    /\ results \in [Pids -> [Voters -> Nat] \cup {Nil}]
    /\ actions \in [ActionIds -> Actions \cup {NoAction}]
    /\ pending \subseteq ActionIds
    /\ halted \in BOOLEAN

\* Controller.Commit never returns an error, so that every block a node is
\* given can be executed: no scheduled action ever meets an election in a
\* status that refuses it (endElection, SetProcessResults).
IstCommitNeverFails == ~halted

\* An election that can still receive votes has its end scheduled under its
\* own ID for the end time it has now, whatever was done to its duration and
\* status, and that time is not the zero that findPendingActions ignores.
EndIsScheduled ==
    \A p \in Pids : process[p].status \in {"READY", "PAUSED"} =>
        /\ actions[p].type = "EndProcess"
        /\ actions[p].pid = p
        /\ actions[p].time = EndTime(process[p])
        /\ actions[p].time # 0

CommitsOf(p) ==
    {i \in ActionIds : actions[i].type = "CommitResults" /\ actions[i].pid = p}

\* The computation of results is scheduled exactly while the election is
\* ENDED, and only once, whether the owner or the IST ended it: results are
\* neither lost nor committed twice.
OneCommitWhileEnded ==
    \A p \in Pids : IF process[p].status = "ENDED"
                    THEN \E i \in ActionIds : CommitsOf(p) = {i}
                    ELSE CommitsOf(p) = {}

KeysFit(q) ==
    /\ q.privateKeys \subseteq q.publicKeys
    /\ (q.keyIndex = Nil) <=> (q.publicKeys = {})
    /\ q.keyIndex # Nil =>
           q.keyIndex = Cardinality(q.publicKeys) - Cardinality(q.privateKeys)

\* KeyIndex counts the keys that were published and not yet revealed, so that
\* zero means all of them are known (checkRevealedKeys).
KeyAccounting == \A p \in Pids : KeysFit(process[p])

\* The committed results count the last vote of every voter, although they
\* are computed from the committed version of the state while the votes of
\* the running block are not in it, and all the encryption keys are known.
ResultsCountEveryVote ==
    \A p \in Pids : process[p].status = "RESULTS" =>
        /\ results[p] = votes[p]
        /\ process[p].privateKeys = process[p].publicKeys

\* When a block is complete no election is open past its end time: the IST
\* has ended it in the first block whose time reached it.
NoElectionOverdue ==
    (phase = "ist" /\ pending = {}) =>
        \A p \in Pids : process[p].status \in {"READY", "PAUSED"} =>
            now < EndTime(process[p])

\* An election that is not interruptible stays READY until its end time, even
\* when its duration changes meanwhile: only then may it be ended.
NonInterruptibleRunsToItsEnd ==
    [][\A p \in Pids :
          (process[p].status = "READY" /\ ~process[p].interruptible) =>
              \/ process'[p].status = "READY"
              \/ process'[p].status = "ENDED" /\ now >= EndTime(process[p])]_vars

\* A closed election stays closed: CANCELED and RESULTS are final, ENDED only
\* turns into RESULTS, and neither its votes nor its results change any more.
ClosedForGood ==
    [][\A p \in Pids :
          process[p].status \in {"CANCELED", "ENDED", "RESULTS"} =>
              /\ votes'[p] = votes[p]
              /\ \/ process'[p].status = process[p].status /\ results'[p] = results[p]
                 \/ process[p].status = "ENDED" /\ process'[p].status = "RESULTS"]_vars

-----------------------------------------------------------------------------
(* The inductive invariant behind the properties above *)

Open(p) == process[p].status \in {"READY", "PAUSED"}

\* A scheduled end belongs to the election whose ID it has, which is open or
\* was canceled, and is set for its end time.
EndActionsFit ==
    \A i \in ActionIds : actions[i].type = "EndProcess" =>
        /\ i = actions[i].pid
        /\ process[i].status \in {"READY", "PAUSED", "CANCELED"}
        /\ actions[i].height = 0
        /\ actions[i].time = EndTime(process[i])

\* Scheduled results belong to an ENDED election, and once they are due all
\* its votes are in the committed version of the state.
CommitActionsFit ==
    \A i \in ActionIds : actions[i].type = "CommitResults" =>
        /\ i \in Pids => i = actions[i].pid
        /\ process[actions[i].pid].status = "ENDED"
        /\ actions[i].time = 0
        /\ actions[i].height # 0
        /\ \/ actions[i].height > height
           \/ votesCommitted[actions[i].pid] = votes[actions[i].pid]

CommitActionsUnique ==
    \A i, j \in ActionIds :
        (/\ actions[i].type = "CommitResults"
         /\ actions[j].type = "CommitResults"
         /\ actions[i].pid = actions[j].pid) => i = j

EndedHasCommit ==
    \A p \in Pids : process[p].status = "ENDED" =>
        \E i \in ActionIds : actions[i].type = "CommitResults" /\ actions[i].pid = p

\* The due actions of this block are the scheduled ones that still wait.
PendingFits ==
    /\ phase = "txs" => pending = {}
    /\ \A i \in pending : Due(actions[i])
    /\ phase = "ist" => \A p \in Pids :
           Open(p) /\ now >= EndTime(process[p]) => p \in pending

IndInv ==
    /\ TypeOK
    /\ now # 0
    /\ ~halted
    /\ EndIsScheduled
    /\ EndActionsFit
    /\ CommitActionsFit
    /\ CommitActionsUnique
    /\ EndedHasCommit
    /\ PendingFits
    /\ KeyAccounting
    /\ ResultsCountEveryVote

-----------------------------------------------------------------------------
(* What comments of the code say, and the code does not do *)

\* ProcessBlockRegistry "allows to keep in track the block number when the
\* current on going processes start": an election is registered exactly while
\* it is on-going.
RegistryTracksOngoing ==
    \A p \in Pids : startBlocks[p] # Nil <=> process[p].status \in {"READY", "PAUSED"}

\* AdminTxCheck, before a key is revealed: "check process is finished".  At
\* the end of a block no election is open with one of its keys revealed.
RevealedIsFinished ==
    (phase = "ist" /\ pending = {}) =>
        \A p \in Pids : process[p].privateKeys # {} => process[p].status # "READY"

-----------------------------------------------------------------------------
(* Refinement of Poll *)

StageOf(status) ==
    CASE status = "UNKNOWN"  -> "none"
      [] status = "READY"    -> "open"
      [] status = "PAUSED"   -> "suspended"
      [] status = "ENDED"    -> "closed"
      [] status = "CANCELED" -> "void"
      [] status = "RESULTS"  -> "counted"

stageOf == [p \in Pids |-> StageOf(process[p].status)]

P == INSTANCE Poll WITH Polls <- Pids, stage <- stageOf, ballots <- votes,
                        tally <- results

\* The chain keeps the promises of Poll: the transactions, the IST and the
\* two versions of the state together implement an election whose published
\* tally is made of exactly the votes cast while it was open.
ImplementsPoll == P!PollSpec
=============================================================================
