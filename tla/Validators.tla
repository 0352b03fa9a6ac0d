------------------------------ MODULE Validators ------------------------------
(***************************************************************************)
(* The validator set: the leaves of TreeValidators, the two markers that   *)
(* the internal state transitions keep per validator in TreeExtra, and the *)
(* validator set that CometBFT derives from the updates FinalizeBlock      *)
(* returns.                                                                *)
(*                                                                         *)
(* A block runs its SET_ACCOUNT_VALIDATOR transactions, then               *)
(* updateValidatorScore on the votes that the previous block recorded, and *)
(* then emits every leaf to CometBFT.  An eviction takes two blocks: a     *)
(* leaf with power 0 is emitted by the first and reaped by the second.     *)
(*                                                                         *)
(* Names, public keys, key indices and proposal counts are left out.       *)
(***************************************************************************)
EXTENDS Integers, Sequences, FiniteSets

CONSTANTS
    Addr,     \* signing addresses: numbers, in the order of their hex strings
    Genesis,  \* power of the validators of the genesis file, 0 for the others
    Steady,   \* validators that sign every block they can (bound on the input)
    maxPower, minPower, newValidatorPower, powerIncrement,
    updatePowerPeriod, positiveScoreThreshold, inactiveGraceBlocks,
    Nil,
    MaxHeight \* bound on the number of blocks

ASSUME ValidatorsAssumption ==
    /\ Addr \subseteq Nat /\ IsFiniteSet(Addr)
    /\ Genesis \in [Addr -> Nat] /\ \E a \in Addr : Genesis[a] > 0
    /\ Steady \subseteq Addr
    /\ minPower \in Nat \ {0} /\ maxPower \in Nat /\ minPower < maxPower
    /\ newValidatorPower \in Nat /\ newValidatorPower > minPower
    /\ powerIncrement \in Nat \ {0}
    /\ updatePowerPeriod \in Nat \ {0}
    /\ positiveScoreThreshold \in 0..100
    /\ inactiveGraceBlocks \in Nat
    /\ MaxHeight \in Nat

VARIABLES
    height,  \* the last block
    val,     \* TreeValidators: the leaf of each address, or Nil
    since,   \* vldIS/: the height at which the validator reached the floor, or Nil
    window,  \* vldSW/: the last score computation, or Nil
    pending, \* the votes of the scheduled score update, or Nil
    engine,  \* CometBFT: the power of each address after all updates (external)
    sets,    \* CometBFT: members of its set one block ago, now and in one block
    halted,  \* CometBFT has refused a validator update
    floored, \* history: blocks each validator has been at the floor, without break
    signed   \* history: score updates in a row that counted a vote of it

vars == <<height, val, since, window, pending, engine, sets, halted, floored, signed>>

\* height is the join height, votes the lifetime count of signed blocks.
Leaf == [power : Nat, score : Nat, votes : Nat, height : Nat]
Window == [height : Nat, votes : Nat]

ASSUME NilAssumption ==
    /\ Nil \notin Nat /\ Nil \notin Leaf /\ Nil \notin Window
    /\ \A votes \in SUBSET Addr : votes # Nil

AtMost(m, n) == IF n <= m THEN n ELSE m
AtLeast(m, n) == IF n >= m THEN n ELSE m

\* A leaf of power 0 is a tombstone: not a validator any more.
Live(vs) == {a \in Addr : vs[a] # Nil /\ vs[a].power > 0}
Tombstones(vs) == {a \in Addr : vs[a] # Nil /\ vs[a].power = 0}
Powers(vs) == [a \in Addr |-> IF a \in Live(vs) THEN vs[a].power ELSE 0]

GenesisLeaf(a) == [power |-> Genesis[a], score |-> 0, votes |-> 0, height |-> 0]

Init ==
    /\ height = 0
    /\ val = [a \in Addr |-> IF Genesis[a] > 0 THEN GenesisLeaf(a) ELSE Nil]
    /\ since = [a \in Addr |-> Nil]
    /\ window = [a \in Addr |-> Nil]
    /\ pending = Nil
    /\ engine = Genesis
    /\ sets = <<{}, Live(val), Live(val)>>
    /\ halted = FALSE
    /\ floored = [a \in Addr |-> 0]
    /\ signed = [a \in Addr |-> 0]

-----------------------------------------------------------------------------
(* Transactions *)

\* SET_ACCOUNT_VALIDATOR refuses a validator, but not a tombstone.
CanJoin == Addr \ Live(val)

\* The new leaf replaces a tombstone.  The markers of the address are left as
\* they are.
Joined(joining, h) ==
    [a \in Addr |-> IF a \in joining
                    THEN [power |-> newValidatorPower, score |-> 0, votes |-> 0, height |-> h]
                    ELSE val[a]]

-----------------------------------------------------------------------------
(* Score and power of one validator *)

\* Faulty: a window of an earlier life of the address still counts.
HasWindow_AnyLife(v, w) == w # Nil

\* Whether there is a window, opened since the validator joined.
HasWindow(v, w) == w # Nil /\ w.height >= v.height

\* The percentage of the blocks of the window that the validator signed.  The
\* two guards are those of the code against a window ahead of the height.
NewScore(v, w, h) ==
    LET gap == IF w.height < h THEN h - w.height ELSE updatePowerPeriod
        windowVotes == IF v.votes >= w.votes THEN v.votes - w.votes ELSE 0
    IN  (windowVotes * 100) \div gap

\* Faulty: a score that is not better than the last one is a negative signal.
NewPower_SteadyDecays(v, score) ==
    IF score > v.score
    THEN AtMost(maxPower, v.power + powerIncrement)
    ELSE AtLeast(minPower, (v.power * 9) \div 10)

\* A better score, or the same good one, raises the power; a worse one or zero
\* lowers it by a tenth (powerDecayRate).
NewPower(v, score) ==
    IF score > v.score \/ (score >= positiveScoreThreshold /\ score = v.score)
    THEN AtMost(maxPower, v.power + powerIncrement)
    ELSE IF score < v.score \/ score = 0
    THEN AtLeast(minPower, (v.power * 9) \div 10)
    ELSE v.power

Scored(v, w, h) ==
    [v EXCEPT !.power = NewPower(v, NewScore(v, w, h)), !.score = NewScore(v, w, h)]

\* Faulty: the marker survives a recovery.
NewSince_NeverCleared(v, s, h) == IF v.power <= minPower /\ s = Nil THEN h ELSE s

\* The marker is set when the validator reaches the floor, and cleared when it
\* is above it.
NewSince(v, s, h) ==
    IF v.power > minPower THEN Nil ELSE IF s = Nil THEN h ELSE s

\* At the floor since before this block, and for the whole grace period.
PastGrace(v, s, h) ==
    /\ v.power <= minPower
    /\ s # Nil
    /\ h >= s /\ h - s >= inactiveGraceBlocks

\* Faulty: every candidate may go.
EvictionSlots_NoFloor(candidates, n) == candidates

\* How many of the candidates may go: three of n validators stay.
EvictionSlots(candidates, n) == AtLeast(0, AtMost(candidates, n - 3))

\* The first candidates in the order of the addresses.
Evicted(candidates, n) ==
    {gone \in SUBSET candidates :
        /\ Cardinality(gone) = EvictionSlots(Cardinality(candidates), n)
        /\ \A a \in gone, b \in candidates \ gone : a < b}

-----------------------------------------------------------------------------
(* updateValidatorScore *)

\* The votes of the scheduled update; addresses without a leaf are skipped.
Counted(vs) ==
    [a \in Addr |-> IF vs[a] # Nil /\ a \in pending
                    THEN [vs[a] EXCEPT !.votes = @ + 1] ELSE vs[a]]

\* Faulty: tombstones stay in the tree.
Reaped_Never(vs) == vs

\* RemoveValidator of the tombstones.
Reaped(vs) == [a \in Addr |-> IF a \in Tombstones(vs) THEN Nil ELSE vs[a]]

\* RemoveValidator clears a marker with its leaf.
ReapedMarker(vs, marker) == [a \in Addr |-> IF a \in Tombstones(vs) THEN Nil ELSE marker[a]]

\* Faulty: the leaf of an evicted validator is removed at once.
Tombstone_Removed(v) == Nil

\* An evicted validator keeps its leaf, with power 0, until the next block.
Tombstone(v) == [v EXCEPT !.power = 0]

\* The marker of an evicted validator is cleared with its power.
TombstoneSince(s) == Nil

\* The score window that a boundary block opens.
OpenWindow(v, w, h) == [height |-> h, votes |-> v.votes]

\* Between two boundaries only votes are counted and tombstones reaped.
CountTick(vs) ==
    /\ val' = Reaped(Counted(vs))
    /\ since' = ReapedMarker(vs, since)
    /\ window' = ReapedMarker(vs, window)

\* At a boundary, validators without a window get one and are not scored; the
\* others are scored, and some of those past the grace period are evicted.
ScoreTick(vs, h) ==
    LET counted == Reaped(Counted(vs))
        all == {a \in Addr : counted[a] # Nil}
        rated == {a \in all : HasWindow(counted[a], window[a])}
        after == [a \in rated |-> Scored(counted[a], window[a], h)]
        candidates == {a \in rated : PastGrace(after[a], since[a], h)}
    IN  \E gone \in Evicted(candidates, Cardinality(all)) :
        /\ val' = [a \in Addr |-> IF a \in gone THEN Tombstone(after[a])
                                  ELSE IF a \in rated THEN after[a]
                                  ELSE counted[a]]
        /\ since' = [a \in Addr |-> IF a \in gone THEN TombstoneSince(since[a])
                                    ELSE IF a \in rated THEN NewSince(after[a], since[a], h)
                                    ELSE IF a \in all THEN Nil
                                    ELSE ReapedMarker(vs, since)[a]]
        /\ window' = [a \in Addr |-> IF a \in all \ gone
                                     THEN OpenWindow(counted[a], window[a], h)
                                     ELSE ReapedMarker(vs, window)[a]]

\* The first block of a chain has no scheduled update.
UpdateValidatorScore(vs, h) ==
    \/ pending = Nil /\ val' = vs /\ UNCHANGED <<since, window>>
    \/ pending # Nil /\ h % updatePowerPeriod # 0 /\ CountTick(vs)
    \/ pending # Nil /\ h % updatePowerPeriod = 0 /\ ScoreTick(vs, h)

-----------------------------------------------------------------------------
(* Blocks *)

\* CometBFT takes an update with power 0 as a removal.  It refuses to remove a
\* validator it does not have, and to be left with none.
ApplyUpdates(vs) ==
    LET updated == [a \in Addr |-> IF vs[a] # Nil THEN vs[a].power ELSE engine[a]]
        refused == \/ \E a \in Tombstones(vs) : engine[a] = 0
                   \/ \A a \in Addr : updated[a] = 0
    IN  /\ engine' = IF refused THEN engine ELSE updated
        /\ halted' = refused
        /\ sets' = IF refused THEN sets
                   ELSE <<sets[2], sets[3], {a \in Addr : updated[a] > 0}>>

\* One block, in which addresses that are not validators join.  The votes are
\* those of the commit of the block before, by the validators CometBFT had
\* then; they wait for the next block.
FinalizeBlock(joining, votes) ==
    LET h == height + 1
    IN  /\ ~halted
        /\ height < MaxHeight
        /\ height' = h
        /\ UpdateValidatorScore(Joined(joining, h), h)
        /\ pending' = votes
        /\ ApplyUpdates(val')
        /\ floored' = [a \in Addr |-> IF a \in Live(val') /\ val'[a].power <= minPower
                                      THEN floored[a] + 1 ELSE 0]
        /\ signed' = [a \in Addr |-> IF a \in Live(val') /\ pending # Nil /\ a \in pending
                                     THEN AtMost(updatePowerPeriod, signed[a] + 1) ELSE 0]

\* InitChain on a state that has blocks: a new chain starts on top of it, from
\* the next height, with the validators that are not tombstones.
InitChain ==
    /\ ~halted
    /\ height > 0
    /\ engine' = Powers(val)
    /\ sets' = <<{}, Live(val), Live(val)>>
    /\ UNCHANGED <<height, val, since, window, pending, halted, floored, signed>>

\* The bounded chain is over.
Over == (halted \/ height = MaxHeight) /\ UNCHANGED vars

Next ==
    \/ \E joining \in SUBSET CanJoin, votes \in SUBSET sets[1] :
        Steady \cap sets[1] \subseteq votes /\ FinalizeBlock(joining, votes)
    \/ InitChain
    \/ Over

Spec == Init /\ [][Next]_vars

-----------------------------------------------------------------------------
(* Properties *)

\* Every variable holds a value of the kind the code stores there; a score is
\* a percentage, because a window never counts more votes than it has blocks.
TypeOK ==
    /\ height \in Nat
    /\ val \in [Addr -> Leaf \cup {Nil}]
    /\ \A a \in Addr : val[a] # Nil => val[a].score <= 100
    /\ since \in [Addr -> Nat \cup {Nil}]
    /\ window \in [Addr -> Window \cup {Nil}]
    /\ pending = Nil \/ pending \subseteq Addr
    /\ engine \in [Addr -> Nat]
    /\ sets \in [1..3 -> SUBSET Addr]
    /\ halted \in BOOLEAN
    /\ floored \in [Addr -> Nat]
    /\ signed \in [Addr -> Nat]

\* CometBFT accepts every update: a tombstone is emitted exactly once, while
\* CometBFT still has the validator, whatever joins and chain restarts happen
\* around the eviction.
UpdatesAccepted == ~halted

\* State is the source of truth: the validators CometBFT has, with the updates
\* that are on their way, are those of the state with the same power.
EngineFollowsState == engine = Powers(val)

\* An inactive-since marker belongs to a validator that is at the floor, and
\* to its present life: it was not left there by an eviction before a rejoin.
MarkedAtFloor ==
    \A a \in Addr : since[a] # Nil =>
        /\ a \in Live(val)
        /\ val[a].power <= minPower
        /\ val[a].height <= since[a]

\* A validator is evicted only after it has been at the power floor in each of
\* the last inactiveGraceBlocks blocks.
EvictedAfterGrace ==
    [][\A a \in Addr :
        a \in Live(val) /\ a \notin Live(val') => floored[a] >= inactiveGraceBlocks]_vars

\* Evictions leave three validators, or as many as there were.
ThreeValidatorsStay ==
    [][Cardinality(Live(val')) >= AtMost(3, Cardinality(Live(val)))]_vars

\* A validator all of whose votes of a period were counted does not lose power.
SignersKeepPower ==
    [][\A a \in Live(val) :
        signed'[a] >= updatePowerPeriod /\ val[a].power <= maxPower
            => a \in Live(val') /\ val'[a].power >= val[a].power]_vars

\* A validator does not lose power for blocks before it joined: not even one
\* that was evicted and joins again before its old leaf and window are reaped.
NewcomersKeepPower ==
    [][\A a \in Live(val) :
        height' < val[a].height + updatePowerPeriod
            => a \in Live(val') /\ val'[a].power >= val[a].power]_vars
=============================================================================
