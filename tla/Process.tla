------------------------------- MODULE Process -------------------------------
(***************************************************************************)
(* The election ("process") record that vochain keeps in its state, and    *)
(* the pure checks on it: what a NewProcess transaction turns into, which  *)
(* status changes and duration changes are legal, when a vote is           *)
(* accepted.  Election.tla builds the state machine from these operators.  *)
(*                                                                         *)
(* Times are seconds and heights are block numbers; both are uint32 in the *)
(* code, so every sum that can overflow goes through U32.                  *)
(***************************************************************************)
EXTENDS Integers

CONSTANTS
    Uint32,         \* the modulus of uint32 arithmetic (2^32 in the code)
    BlockTime,      \* types.DefaultBlockTime in seconds
    MaxProcessSize, \* global limit on a census size; 0 disables it
    MetadataFork,   \* first height at which election metadata may be edited
    KeyIndexes,     \* key indexes of the validators that keep keys
    Roots,          \* census roots
    Metadatas,      \* metadata hashes
    Nil             \* Go's nil

ASSUME ProcessAssumption ==
    /\ Uint32 \in Nat \ {0}
    /\ BlockTime \in Nat
    /\ MaxProcessSize \in Nat
    /\ MetadataFork \in Nat
    /\ Nil \notin Nat \cup Roots \cup Metadatas

U32(n) == n % Uint32

\* models.ProcessStatus; UNKNOWN is the zero value, here "not in the state".
Status == {"UNKNOWN", "READY", "PAUSED", "ENDED", "CANCELED", "RESULTS"}

\* The fields of models.Process that some modelled operation reads or writes.
Process ==
    [status        : Status,
     startTime     : Nat,
     duration      : Nat,
     startBlock    : Nat,
     interruptible : BOOLEAN,
     encrypted     : BOOLEAN,
     dynamicCensus : BOOLEAN,
     censusRoot    : Roots \cup {Nil},
     metadata      : Metadatas \cup {Nil},
     maxCensusSize : Nat,
     maxOverwrites : Nat,
     keyIndex      : Nat \cup {Nil},
     publicKeys    : SUBSET KeyIndexes,
     privateKeys   : SUBSET KeyIndexes]

\* The election part of a NewProcess transaction.
NewProcessTx ==
    [status        : Status,
     startTime     : Nat,
     duration      : Nat,
     startBlock    : Nat,
     blockCount    : Nat,
     interruptible : BOOLEAN,
     encrypted     : BOOLEAN,
     dynamicCensus : BOOLEAN,
     censusRoot    : Roots,
     metadata      : Metadatas,
     maxCensusSize : Nat,
     maxOverwrites : Nat]

NoProcess ==
    [status |-> "UNKNOWN", startTime |-> 0, duration |-> 0, startBlock |-> 0,
     interruptible |-> FALSE, encrypted |-> FALSE, dynamicCensus |-> FALSE,
     censusRoot |-> Nil, metadata |-> Nil, maxCensusSize |-> 0,
     maxOverwrites |-> 0, keyIndex |-> Nil, publicKeys |-> {},
     privateKeys |-> {}]

-----------------------------------------------------------------------------
(* NewProcess *)

\* Start time, duration and start block after the translation of block-count
\* elections into timed ones; a start time of zero means "now".
TxStartTime(tx, height, now) ==
    LET asked == IF tx.blockCount = 0 THEN tx.startTime
                 ELSE IF tx.startBlock = 0 THEN 0
                 ELSE U32(now + (tx.startBlock - height) * BlockTime)
    IN  IF asked = 0 THEN now ELSE asked

TxDuration(tx) ==
    IF tx.blockCount = 0 THEN tx.duration ELSE U32(tx.blockCount * BlockTime)

TxStartBlock(tx) == IF tx.blockCount = 0 THEN tx.startBlock ELSE 0

\* checkMaxCensusSize
CensusSizeAllowed(size) ==
    /\ size # 0
    /\ MaxProcessSize > 0 => size <= MaxProcessSize

NewProcessTxCheck(tx, height, now) ==
    LET start == TxStartTime(tx, height, now)
    IN  /\ tx.status \in {"READY", "PAUSED"}
        /\ ~(tx.blockCount > 0 /\ tx.duration > 0)
        /\ start >= now
        /\ U32(start + TxDuration(tx)) >= now
        /\ CensusSizeAllowed(tx.maxCensusSize)

\* The process that AddProcess stores.
NewProcess(tx, height, now) ==
    [status        |-> tx.status,
     startTime     |-> TxStartTime(tx, height, now),
     duration      |-> TxDuration(tx),
     startBlock    |-> TxStartBlock(tx),
     interruptible |-> tx.interruptible,
     encrypted     |-> tx.encrypted,
     dynamicCensus |-> tx.dynamicCensus,
     censusRoot    |-> tx.censusRoot,
     metadata      |-> tx.metadata,
     maxCensusSize |-> tx.maxCensusSize,
     maxOverwrites |-> tx.maxOverwrites,
     keyIndex      |-> Nil,
     publicKeys    |-> {},
     privateKeys   |-> {}]

-----------------------------------------------------------------------------
(* Changing an election *)

EndTime(p) == U32(p.startTime + p.duration)

\* Faulty: the end time is not looked at.
MayEnd_AnyTime(p, now) == p.status \in {"READY", "PAUSED"}

MayEnd(p, now) ==
    /\ p.status \in {"READY", "PAUSED"}
    /\ p.interruptible \/ now >= EndTime(p)

MayCancel(p) ==
    /\ p.status \notin {"UNKNOWN", "ENDED", "RESULTS"}
    /\ p.status = "PAUSED" \/ p.interruptible

\* The transition table of SetProcessStatus.
StatusChangeAllowed(p, new, now) ==
    /\ p.status # new
    /\ \/ new = "READY" /\ p.status = "PAUSED"
       \/ new = "PAUSED" /\ p.status = "READY" /\ p.interruptible
       \/ new = "ENDED" /\ MayEnd(p, now)
       \/ new = "CANCELED" /\ MayCancel(p)
       \/ new = "RESULTS" /\ p.status = "ENDED"

DurationChangeAllowed(p, new, now) ==
    /\ new # 0
    /\ new # p.duration
    /\ p.status \in {"READY", "PAUSED"}
    /\ now < U32(p.startTime + new)
    /\ p.interruptible \/ new >= p.duration

\* SetProcessTxCheck and SetProcessCensus for an off-chain tree census: root
\* is Nil when only the size changes, size is 0 when only the root changes.
CensusChangeAllowed(p, root, size) ==
    /\ (size # 0 /\ size # p.maxCensusSize) =>
           /\ size > p.maxCensusSize
           /\ CensusSizeAllowed(p.maxCensusSize)
    /\ (root # Nil /\ root # p.censusRoot) => p.dynamicCensus
    /\ p.status \in {"READY", "PAUSED"}
    /\ size = 0 => root \notin {Nil, p.censusRoot}

MetadataChangeAllowed(p, hash, height) ==
    /\ height >= MetadataFork
    /\ p.status \in {"READY", "PAUSED"}
    /\ hash # p.metadata

-----------------------------------------------------------------------------
(* Keys and votes *)

AddKeysAllowed(p, k) ==
    /\ p.encrypted
    /\ p.status \notin {"UNKNOWN", "CANCELED", "ENDED", "RESULTS"}
    /\ k \notin p.publicKeys

RevealKeysAllowed(p, k, now) ==
    /\ p.encrypted
    /\ now >= EndTime(p) \/ p.status = "ENDED"
    /\ k \notin p.privateKeys
    /\ k \in p.publicKeys
    /\ p.keyIndex \notin {Nil, 0}

KeysRevealed(p) == p.keyIndex \in {Nil, 0}

\* The voting window, both bounds included.  A zero duration is the window of
\* a block-count election, whose block count is always zero by now.
InVotingWindow(p, height, now) ==
    IF p.duration > 0 THEN p.startTime <= now /\ now <= EndTime(p)
    ELSE height = p.startBlock

\* Faulty: the status of the election is not checked.
VoteAllowed_AnyStatus(p, casts, count, height, now) ==
    /\ InVotingWindow(p, height, now)
    /\ p.encrypted => p.keyIndex # 0
    /\ IF casts > 0 THEN casts - 1 < p.maxOverwrites
                    ELSE count < p.maxCensusSize

\* casts is how often this voter voted, count how many voters voted.
VoteAllowed(p, casts, count, height, now) ==
    /\ p.status = "READY"
    /\ InVotingWindow(p, height, now)
    /\ p.encrypted => p.keyIndex # 0
    /\ IF casts > 0 THEN casts - 1 < p.maxOverwrites
                    ELSE count < p.maxCensusSize
=============================================================================
