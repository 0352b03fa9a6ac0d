--------------------------- MODULE ValidatorsProofs ---------------------------
(***************************************************************************)
(* Proofs about Validators, for every set of addresses, every genesis and  *)
(* every value of the parameters of the score.                             *)
(***************************************************************************)
EXTENDS ValidatorsSteps

-----------------------------------------------------------------------------
(* The invariant is inductive *)

LEMMA InitInv == Init => ValidatorsInv
<1> SUFFICES ASSUME Init PROVE ValidatorsInv
  OBVIOUS
<1>1. \A a \in Addr : /\ since[a] = Nil /\ window[a] = Nil
                      /\ val[a] = IF Genesis[a] > 0 THEN GenesisLeaf(a) ELSE Nil
  BY DEF Init
<1>2. \A a \in Addr : Genesis[a] \in Nat /\ GenesisLeaf(a) \in Leaf
  <2>1. Genesis \in [Addr -> Nat]
    BY ValidatorsAssumption
  <2> QED BY <2>1 DEF GenesisLeaf, Leaf
<1>3. val \in [Addr -> Leaf \cup {Nil}]
  BY <1>2 DEF Init
<1>4. \A a \in Addr : /\ val[a] # Nil => /\ Genesis[a] > 0 /\ val[a].power = Genesis[a]
                                          /\ val[a].score = 0 /\ val[a].height = 0
                      /\ Genesis[a] > 0 => val[a] # Nil
  <2> SUFFICES ASSUME NEW a \in Addr
               PROVE  /\ val[a] # Nil => /\ Genesis[a] > 0 /\ val[a].power = Genesis[a]
                                         /\ val[a].score = 0 /\ val[a].height = 0
                      /\ Genesis[a] > 0 => val[a] # Nil
    OBVIOUS
  <2>1. /\ GenesisLeaf(a).power = Genesis[a] /\ GenesisLeaf(a).score = 0
        /\ GenesisLeaf(a).height = 0
    BY DEF GenesisLeaf
  <2> QED BY <2>1, <1>1, <1>2, NilAssumption
<1>5. \A a \in Addr : MarkerInv(a) /\ WindowInv(a) /\ LeafInv(a)
  <2> SUFFICES ASSUME NEW a \in Addr PROVE MarkerInv(a) /\ WindowInv(a) /\ LeafInv(a)
    OBVIOUS
  <2>1. MarkerInv(a) /\ WindowInv(a)
    BY <1>1 DEF MarkerInv, WindowInv
  <2>2. ASSUME val[a] # Nil PROVE val[a].score <= 100 /\ val[a].height <= height /\ val[a].power # 0
    <3>1. val[a].score = 0 /\ val[a].height = 0 /\ val[a].power = Genesis[a] /\ Genesis[a] > 0
      BY <1>4, <2>2
    <3>2. height = 0 /\ Genesis[a] \in Nat
      BY <1>2 DEF Init
    <3> QED BY <3>1, <3>2
  <2> QED BY <2>1, <2>2 DEF LeafInv
<1>6. \A a \in Addr : a \in Live(val) <=> Genesis[a] > 0
  BY <1>4 DEF Live
<1>7. Live(val) # {}
  BY <1>6, ValidatorsAssumption
<1>8. engine = Powers(val)
  <2>1. \A a \in Addr : Powers(val)[a] = Genesis[a]
    <3> SUFFICES ASSUME NEW a \in Addr PROVE Powers(val)[a] = Genesis[a]
      OBVIOUS
    <3>1. CASE a \in Live(val)
      BY <3>1, <1>4 DEF Powers, Live
    <3>2. CASE a \notin Live(val)
      <4>1. Genesis[a] = 0
        BY <3>2, <1>2, <1>6
      <4> QED BY <3>2, <4>1 DEF Powers
    <3> QED BY <3>1, <3>2
  <2>2. Genesis \in [Addr -> Nat] /\ engine = Genesis
    BY ValidatorsAssumption DEF Init
  <2> QED BY <2>1, <2>2 DEF Powers
<1>9. TypeOK
  <2>1. \A a \in Addr : val[a] # Nil => val[a].score <= 100
    BY <1>5 DEF LeafInv
  <2>2. sets \in [1..3 -> SUBSET Addr]
    <3>1. sets = <<{}, Live(val), Live(val)>> /\ Live(val) \in SUBSET Addr
      BY DEF Init, Live
    <3> QED BY <3>1
  <2>3. engine \in [Addr -> Nat]
    BY ValidatorsAssumption DEF Init
  <2> QED BY <1>3, <2>1, <2>2, <2>3, Zenon DEF Init, TypeOK
<1> QED BY <1>5, <1>7, <1>8, <1>9 DEF ValidatorsInv, Init

\* CometBFT takes the updates of a block: it has every validator that is a
\* tombstone now, and it has no address whose leaf is gone.
LEMMA UpdatesTaken ==
    ASSUME ValidatorsInv, BlockEffect, ApplyUpdates(val')
    PROVE  /\ Live(val') # {}
           /\ halted' = FALSE
           /\ engine' = Powers(val')
           /\ sets' = <<sets[2], sets[3], Live(val')>>
<1> DEFINE updated == [a \in Addr |-> IF val'[a] # Nil THEN val'[a].power ELSE engine[a]]
           refused == \/ \E a \in Tombstones(val') : engine[a] = 0
                      \/ \A a \in Addr : updated[a] = 0
<1>1. \A a \in Addr : BlockStep(a) /\ val'[a] \in Leaf \cup {Nil}
  BY DEF BlockEffect
<1>2. \A a \in Addr : engine[a] = Powers(val)[a]
  BY DEF ValidatorsInv
<1>3. Live(val') # {}
  <2>1. IsFiniteSet(Live(val)) /\ Cardinality(Live(val)) # 0 /\ Cardinality(Live(val)) \in Nat
    BY LiveFinite, FS_EmptySet DEF ValidatorsInv
  <2>2. Cardinality(Live(val')) \in Nat
    BY LiveFinite
  <2>3. Cardinality(Live(val')) >= 1
    BY <2>1, <2>2 DEF BlockEffect, AtMost
  <2> QED BY <2>3, FS_EmptySet
<1>4. \A a \in Addr : updated[a] = Powers(val')[a]
  <2> SUFFICES ASSUME NEW a \in Addr PROVE updated[a] = Powers(val')[a]
    OBVIOUS
  <2>1. CASE val'[a] = Nil
    <3>1. a \notin Live(val)
      BY <2>1, <1>1, NilAssumption DEF BlockStep, Absent, Entered, Stayed, Gone, SameLife
    <3> QED BY <3>1, <2>1, <1>2 DEF Powers, Live
  <2>2. CASE val'[a] # Nil
    BY <2>2, <1>1 DEF Powers, Live, Leaf
  <2> QED BY <2>1, <2>2
<1>5. \A a \in Tombstones(val') : engine[a] # 0
  <2> SUFFICES ASSUME NEW a \in Addr, val'[a] # Nil, val'[a].power = 0 PROVE engine[a] # 0
    BY DEF Tombstones
  <2>1. a \in Live(val)
    BY <1>1 DEF BlockStep, Absent, Entered, Stayed, Gone, SameLife
  <2> QED BY <2>1, <1>2 DEF Powers, Live, ValidatorsInv, TypeOK, Leaf
<1>6. ~ \A a \in Addr : updated[a] = 0
  <2>1. PICK a \in Addr : val'[a] # Nil /\ val'[a].power > 0
    BY <1>3 DEF Live
  <2>2. updated[a] = val'[a].power
    BY <2>1
  <2> QED BY <2>1, <2>2, <1>1 DEF Leaf
<1>7. refused = FALSE
  BY <1>5, <1>6
<1>8. /\ engine' = updated /\ halted' = FALSE
      /\ sets' = <<sets[2], sets[3], {a \in Addr : updated[a] > 0}>>
  <2> HIDE DEF updated
  <2>1. /\ engine' = IF refused THEN engine ELSE updated
        /\ halted' = refused
        /\ sets' = IF refused THEN sets
                   ELSE <<sets[2], sets[3], {a \in Addr : updated[a] > 0}>>
    BY Zenon DEF ApplyUpdates, updated
  <2> HIDE DEF refused
  <2> QED BY <2>1, <1>7
<1>9. updated = Powers(val')
  BY <1>4 DEF Powers
<1>10. {a \in Addr : updated[a] > 0} = Live(val')
  <2>1. \A a \in Addr : updated[a] > 0 <=> a \in Live(val')
    <3> SUFFICES ASSUME NEW a \in Addr PROVE updated[a] > 0 <=> a \in Live(val')
      OBVIOUS
    <3>1. updated[a] = IF a \in Live(val') THEN val'[a].power ELSE 0
      BY <1>4 DEF Powers
    <3> HIDE DEF updated
    <3> QED BY <3>1 DEF Live
  <2> QED BY <2>1 DEF Live
<1> QED BY <1>3, <1>8, <1>9, <1>10

\* A block keeps the invariant.
LEMMA BlockInv ==
    ASSUME ValidatorsInv, NEW joining \in SUBSET (Addr \ Live(val)), NEW votes \in SUBSET sets[1],
           FinalizeBlock(joining, votes)
    PROVE  ValidatorsInv' /\ BlockEffect
<1>1. /\ height' = height + 1
      /\ UpdateValidatorScore(Joined(joining, height + 1), height + 1)
      /\ pending' = votes
      /\ ApplyUpdates(val')
      /\ floored' = [a \in Addr |-> IF a \in Live(val') /\ val'[a].power <= minPower
                                    THEN floored[a] + 1 ELSE 0]
      /\ signed' = [a \in Addr |-> IF a \in Live(val') /\ pending # Nil /\ a \in pending
                                   THEN AtMost(updatePowerPeriod, signed[a] + 1) ELSE 0]
  BY DEF FinalizeBlock
<1>2. BlockEffect
  BY <1>1, TickEffect
<1>3. Live(val') # {} /\ halted' = FALSE /\ engine' = Powers(val')
      /\ sets' = <<sets[2], sets[3], Live(val')>>
  BY <1>1, <1>2, UpdatesTaken
<1>4. /\ sets[1] \in SUBSET Addr /\ sets[2] \in SUBSET Addr /\ sets[3] \in SUBSET Addr
      /\ height \in Nat /\ height' = height + 1
  <2>1. sets \in [1..3 -> SUBSET Addr] /\ height \in Nat
    BY DEF ValidatorsInv, TypeOK
  <2>2. \A i \in 1..3 : sets[i] \in SUBSET Addr
    BY <2>1
  <2> QED BY <2>1, <2>2, <1>1
<1>5. pending' \in SUBSET Addr /\ pending' # Nil
  BY <1>1, <1>4, NilAssumption
<1>6. ASSUME NEW a \in Addr PROVE MarkerInv(a)' /\ WindowInv(a)' /\ LeafInv(a)'
  <2>1. BlockStep(a) /\ val'[a] \in Leaf \cup {Nil} /\ since'[a] \in Nat \cup {Nil}
        /\ window'[a] \in Window \cup {Nil}
    BY <1>2 DEF BlockEffect
  <2>2. val[a] \in Leaf \cup {Nil} /\ since[a] \in Nat \cup {Nil} /\ window[a] \in Window \cup {Nil}
        /\ floored[a] \in Nat
    BY DEF ValidatorsInv, TypeOK
  <2>3. LeafInv(a) /\ MarkerInv(a) /\ WindowInv(a)
    BY DEF ValidatorsInv
  <2>4. LeafInv(a)'
    <3> SUFFICES ASSUME val'[a] # Nil
                 PROVE  val'[a].score <= 100 /\ val'[a].height <= height + 1
      BY <1>1, <1>5 DEF LeafInv
    <3>1. CASE Entered(a)
      BY <3>1, <1>4 DEF Entered
    <3>2. CASE SameLife(a)
      <4>1. val[a] # Nil /\ val[a] \in Leaf /\ val[a].height <= height
        BY <3>2, <2>2, <2>3 DEF SameLife, Live, LeafInv
      <4> QED BY <4>1, <3>2, <1>4 DEF SameLife, Leaf
    <3> QED BY <2>1, <3>1, <3>2 DEF BlockStep, Absent, Stayed, Gone
  <2>5. MarkerInv(a)'
    <3> SUFFICES ASSUME since'[a] # Nil
                 PROVE  /\ a \in Live(val') /\ val'[a].power <= minPower
                        /\ val'[a].height <= since'[a] /\ since'[a] <= height'
                        /\ floored'[a] >= height' - since'[a] + 1
      BY Zenon DEF MarkerInv
    <3>1. Stayed(a)
      BY <2>1 DEF BlockStep, Absent, Entered, Gone
    <3>2. /\ val'[a] \in Leaf /\ val'[a] # Nil /\ val'[a].power > 0 /\ val'[a].power <= minPower
          /\ since'[a] \in {since[a], height + 1} /\ val'[a].height = val[a].height
          /\ val[a] # Nil /\ val[a] \in Leaf
      BY <3>1, <2>2, NilAssumption DEF Stayed, SameLife, Live
    <3>3. a \in Live(val')
      BY <3>2 DEF Live
    <3>4. floored'[a] = floored[a] + 1
      BY <3>2, <3>3, <1>1
    <3>5. val[a].height <= height /\ val[a].height \in Nat
      BY <3>2, <2>3 DEF LeafInv, Leaf
    <3>6. CASE since'[a] = height + 1
      BY <3>2, <3>3, <3>4, <3>5, <3>6, <2>2, <1>4, NilAssumption
    <3>7. CASE since'[a] = since[a]
      <4>1. /\ since[a] \in Nat /\ val[a].height <= since[a] /\ since[a] <= height
            /\ floored[a] >= height - since[a] + 1
        BY <3>7, <2>2, <2>3 DEF MarkerInv
      <4> QED BY <4>1, <3>2, <3>3, <3>4, <3>7, <2>2, <1>4
    <3> QED BY <3>2, <3>6, <3>7
  <2>6. WindowInv(a)'
    <3> SUFFICES ASSUME window'[a] # Nil
                 PROVE  /\ window'[a].height <= height'
                        /\ window'[a].height % updatePowerPeriod = 0
                        /\ val'[a] # Nil /\ HasWindow(val'[a], window'[a]) =>
                             val'[a].votes - window'[a].votes <= height' - window'[a].height
      BY Zenon DEF WindowInv
    <3>1. CASE window'[a] = window[a]
      <4>1. /\ window[a] \in Window /\ window[a] # Nil
            /\ window[a].height \in Nat /\ window[a].votes \in Nat
        BY <3>1, <2>2 DEF Window
      <4>2. window[a].height <= height /\ window[a].height % updatePowerPeriod = 0
        BY <4>1, <2>3 DEF WindowInv
      <4>3. ASSUME val'[a] # Nil, HasWindow(val'[a], window[a])
            PROVE  val'[a].votes - window[a].votes <= (height + 1) - window[a].height
        <5>1. ~Entered(a)
          BY <4>1, <4>2, <4>3, <1>4 DEF Entered, HasWindow
        <5>2. SameLife(a)
          BY <5>1, <4>3, <2>1 DEF BlockStep, Absent, Stayed, Gone
        <5>3. /\ val[a] # Nil /\ val[a].votes \in Nat
              /\ val'[a].votes \in {val[a].votes, val[a].votes + 1}
              /\ HasWindow(val[a], window[a])
          BY <5>2, <4>3, <2>2 DEF SameLife, Live, HasWindow, Leaf
        <5>4. val[a].votes - window[a].votes <= height - window[a].height
          BY <5>3, <4>1, <2>3 DEF WindowInv
        <5> QED BY <5>3, <5>4, <4>1, <1>4
      <4> QED BY <4>1, <4>2, <4>3, <3>1, <1>4
    <3>2. CASE /\ (height + 1) % updatePowerPeriod = 0
               /\ window'[a] = [height |-> height + 1, votes |-> val'[a].votes]
               /\ val'[a] \in Leaf
      <4>1. window'[a].height = height + 1 /\ window'[a].votes = val'[a].votes /\ val'[a].votes \in Nat
        BY <3>2 DEF Leaf
      <4> QED BY <4>1, <3>2, <1>4
    <3> QED BY <3>1, <3>2, <2>1 DEF BlockStep, WindowStep
  <2> QED BY <2>4, <2>5, <2>6
<1>7. TypeOK'
  <2>1. sets' \in [1..3 -> SUBSET Addr]
    <3>1. Live(val') \in SUBSET Addr
      BY DEF Live
    <3> QED BY <3>1, <1>3, <1>4
  <2>2. engine' \in [Addr -> Nat]
    BY <1>2, <1>3 DEF Powers, Live, Leaf, BlockEffect
  <2>3. floored' \in [Addr -> Nat] /\ signed' \in [Addr -> Nat]
    <3>1. floored \in [Addr -> Nat] /\ signed \in [Addr -> Nat]
      BY DEF ValidatorsInv, TypeOK
    <3>2. \A n \in Nat : AtMost(updatePowerPeriod, n + 1) \in Nat
      BY ParameterTypes DEF AtMost
    <3>3. floored' \in [Addr -> Nat]
      BY <3>1, <1>1
    <3>4. signed' \in [Addr -> Nat]
      BY <3>1, <3>2, <1>1
    <3> QED BY <3>3, <3>4
  <2>4. \A a \in Addr : val'[a] # Nil => val'[a].score <= 100
    BY <1>6 DEF LeafInv
  <2>5. val' \in [Addr -> Leaf \cup {Nil}] /\ since' \in [Addr -> Nat \cup {Nil}]
        /\ window' \in [Addr -> Window \cup {Nil}]
    BY <1>2 DEF BlockEffect
  <2>6. height' \in Nat /\ halted' \in BOOLEAN /\ pending' \subseteq Addr
    <3>1. height' \in Nat /\ pending' \subseteq Addr
      BY <1>4, <1>5
    <3>2. halted' \in BOOLEAN
      BY <1>3, Zenon
    <3> QED BY <3>1, <3>2
  <2> QED BY <2>1, <2>2, <2>3, <2>4, <2>5, <2>6 DEF TypeOK
<1> QED BY <1>2, <1>3, <1>6, <1>7 DEF ValidatorsInv

\* A step that leaves the trees, the height and the histories alone keeps what
\* the invariant says of each address.
LEMMA TreesKept ==
    ASSUME ValidatorsInv, NEW a \in Addr,
           UNCHANGED <<height, val, since, window, pending, floored>>
    PROVE  MarkerInv(a)' /\ WindowInv(a)' /\ LeafInv(a)'
<1>1. MarkerInv(a) /\ WindowInv(a) /\ LeafInv(a)
  BY DEF ValidatorsInv
<1>2. MarkerInv(a)'
  BY <1>1 DEF MarkerInv, Live
<1>3. WindowInv(a)'
  BY <1>1 DEF WindowInv, HasWindow
<1>4. LeafInv(a)'
  BY <1>1 DEF LeafInv
<1> QED BY <1>2, <1>3, <1>4

\* Every step keeps the invariant, and changes the leaves as a block does or
\* not at all.
LEMMA NextInv ==
    ASSUME ValidatorsInv, [Next]_vars
    PROVE  ValidatorsInv' /\ ((BlockEffect /\ height' = height + 1) \/ UNCHANGED val)
<1>1. ASSUME NEW joining \in SUBSET (Addr \ Live(val)), NEW votes \in SUBSET sets[1],
             FinalizeBlock(joining, votes)
      PROVE  ValidatorsInv' /\ BlockEffect /\ height' = height + 1
  BY <1>1, BlockInv DEF FinalizeBlock
<1>2. ASSUME InitChain PROVE ValidatorsInv' /\ UNCHANGED val
  <2>1. UNCHANGED <<height, val, since, window, pending, halted, floored, signed>>
        /\ engine' = Powers(val) /\ sets' = <<{}, Live(val), Live(val)>>
    BY <1>2 DEF InitChain
  <2>2. \A a \in Addr : MarkerInv(a)' /\ WindowInv(a)' /\ LeafInv(a)'
    BY <2>1, TreesKept
  <2>3. Live(val)' = Live(val) /\ Powers(val)' = Powers(val)
    BY <2>1 DEF Powers, Live
  <2>4. sets' \in [1..3 -> SUBSET Addr]
    <3>1. Live(val) \in SUBSET Addr
      BY DEF Live
    <3> QED BY <3>1, <2>1
  <2>5. engine' \in [Addr -> Nat]
    BY <2>1 DEF ValidatorsInv, TypeOK
  <2>6. TypeOK'
    BY <2>1, <2>4, <2>5 DEF ValidatorsInv, TypeOK
  <2> QED BY <2>1, <2>2, <2>3, <2>6 DEF ValidatorsInv
<1>3. ASSUME UNCHANGED vars PROVE ValidatorsInv' /\ UNCHANGED val
  <2>1. UNCHANGED <<height, val, since, window, pending, engine, sets, halted, floored, signed>>
    BY <1>3 DEF vars
  <2>2. \A a \in Addr : MarkerInv(a)' /\ WindowInv(a)' /\ LeafInv(a)'
    BY <2>1, TreesKept
  <2>3. Live(val)' = Live(val) /\ Powers(val)' = Powers(val)
    BY <2>1 DEF Powers, Live
  <2>4. TypeOK'
    BY <2>1 DEF ValidatorsInv, TypeOK
  <2> QED BY <2>1, <2>2, <2>3, <2>4 DEF ValidatorsInv
<1> QED BY <1>1, <1>2, <1>3 DEF Next, CanJoin, Over

-----------------------------------------------------------------------------
(* Theorems *)

\* The invariant holds in every reachable state.
THEOREM ValidatorsInductive == Spec => []ValidatorsInv
<1>1. Init => ValidatorsInv
  BY InitInv
<1>2. ValidatorsInv /\ [Next]_vars => ValidatorsInv'
  BY NextInv
<1> QED BY <1>1, <1>2, PTL DEF Spec

\* The trees, the markers and the histories are well-formed, and every score
\* updateValidatorScore computes is a percentage.
THEOREM ValidatorsTypeCorrect == Spec => []TypeOK
<1>1. ValidatorsInv => TypeOK
  BY DEF ValidatorsInv
<1> QED BY <1>1, ValidatorsInductive, PTL

\* CometBFT never refuses the validator updates of FinalizeBlock: no removal of
\* a validator it does not have, and never an empty set.
THEOREM UpdatesAlwaysAccepted == Spec => []UpdatesAccepted
<1>1. ValidatorsInv => UpdatesAccepted
  BY DEF ValidatorsInv, UpdatesAccepted
<1> QED BY <1>1, ValidatorsInductive, PTL

\* The two-block eviction keeps the validator set of CometBFT equal to the
\* validators of the state, through joins, rejoins and chain restarts.
THEOREM EngineAlwaysFollows == Spec => []EngineFollowsState
<1>1. ValidatorsInv => EngineFollowsState
  BY DEF ValidatorsInv, EngineFollowsState
<1> QED BY <1>1, ValidatorsInductive, PTL

\* Inactive-since markers belong to validators at the floor, and are never
\* inherited by an address that joins again.
THEOREM MarkersAtFloor == Spec => []MarkedAtFloor
<1>1. ValidatorsInv => MarkedAtFloor
  BY DEF ValidatorsInv, MarkedAtFloor, MarkerInv
<1> QED BY <1>1, ValidatorsInductive, PTL

\* No validator is evicted before it has spent the whole grace period at the
\* power floor.
THEOREM GraceBeforeEviction == Spec => EvictedAfterGrace
<1> DEFINE A == \A a \in Addr :
                  a \in Live(val) /\ a \notin Live(val') => floored[a] >= inactiveGraceBlocks
<1>1. ASSUME ValidatorsInv, [Next]_vars PROVE A
  <2>1. CASE UNCHANGED val
    BY <2>1 DEF Live
  <2>2. CASE BlockEffect
    <3> SUFFICES ASSUME NEW a \in Addr, a \in Live(val), a \notin Live(val')
                 PROVE  floored[a] >= inactiveGraceBlocks
      OBVIOUS
    <3>1. BlockStep(a) /\ val'[a] \in Leaf \cup {Nil}
      BY <2>2 DEF BlockEffect
    <3>2. ~Stayed(a)
      BY NilAssumption DEF Live, Stayed, SameLife
    <3>3. since[a] # Nil /\ (height + 1) - since[a] >= inactiveGraceBlocks
      BY <3>1, <3>2 DEF BlockStep, Absent, Entered, Gone
    <3>4. /\ floored[a] >= height - since[a] + 1
          /\ since[a] \in Nat /\ height \in Nat /\ floored[a] \in Nat
      BY <1>1, <3>3 DEF ValidatorsInv, MarkerInv, TypeOK
    <3> QED BY <3>3, <3>4, ValidatorsAssumption
  <2> QED BY <1>1, <2>1, <2>2, NextInv
<1>2. ValidatorsInv /\ [Next]_vars => [A]_vars
  BY <1>1
<1>3. EvictedAfterGrace <=> [][A]_vars
  BY DEF EvictedAfterGrace
<1> HIDE DEF A
<1> QED BY <1>2, <1>3, ValidatorsInductive, PTL DEF Spec

\* However many validators pass the grace period at once, three stay, or as
\* many as there were.
THEOREM EvictionsLeaveThree == Spec => ThreeValidatorsStay
<1> DEFINE A == Cardinality(Live(val')) >= AtMost(3, Cardinality(Live(val)))
<1>1. ASSUME ValidatorsInv, [Next]_vars PROVE A
  <2>1. CASE UNCHANGED val
    <3>1. Live(val') = Live(val) /\ Cardinality(Live(val)) \in Nat
      BY <2>1, ValidatorsAssumption, FS_Subset, FS_CardinalityType DEF Live
    <3> QED BY <3>1 DEF AtMost
  <2>2. CASE BlockEffect
    BY <2>2 DEF BlockEffect
  <2> QED BY <1>1, <2>1, <2>2, NextInv
<1>2. ValidatorsInv /\ [Next]_vars => [A]_vars
  BY <1>1
<1>3. ThreeValidatorsStay <=> [][A]_vars
  BY DEF ThreeValidatorsStay
<1> HIDE DEF A
<1> QED BY <1>2, <1>3, ValidatorsInductive, PTL DEF Spec

\* A validator that joined, or joined again, less than a period ago keeps its
\* power: no window from before counts for it.
THEOREM NewcomersSafe == Spec => NewcomersKeepPower
<1> DEFINE A == \A a \in Live(val) :
                  height' < val[a].height + updatePowerPeriod
                      => a \in Live(val') /\ val'[a].power >= val[a].power
<1>1. ASSUME ValidatorsInv, [Next]_vars PROVE A
  <2> SUFFICES ASSUME NEW a \in Addr, a \in Live(val),
                      height' < val[a].height + updatePowerPeriod
               PROVE  a \in Live(val') /\ val'[a].power >= val[a].power
    BY DEF Live
  <2>1. val[a] \in Leaf /\ val[a].power \in Nat /\ val[a].height \in Nat /\ height \in Nat
    BY <1>1 DEF ValidatorsInv, TypeOK, Live, Leaf
  <2>2. CASE UNCHANGED val
    BY <2>1, <2>2 DEF Live
  <2>3. CASE BlockEffect /\ height' = height + 1
    <3>1. BlockStep(a)
      BY <2>3 DEF BlockEffect
    <3>2. ~(/\ window[a] # Nil /\ HasWindow(val[a], window[a])
            /\ (height + 1) % updatePowerPeriod = 0)
      <4> SUFFICES ASSUME window[a] # Nil, HasWindow(val[a], window[a]),
                          (height + 1) % updatePowerPeriod = 0
                   PROVE  FALSE
        OBVIOUS
      <4>1. window[a].height \in Nat /\ window[a].height >= val[a].height
        BY <1>1 DEF ValidatorsInv, TypeOK, Window, HasWindow
      <4>2. window[a].height <= height /\ window[a].height % updatePowerPeriod = 0
        BY <1>1 DEF ValidatorsInv, WindowInv
      <4>3. window[a].height + updatePowerPeriod <= height + 1
        <5>1. window[a].height < height + 1 /\ height + 1 \in Nat
          BY <4>1, <4>2, <2>1
        <5>2. updatePowerPeriod \in Nat \ {0}
          BY ValidatorsAssumption
        <5> QED BY <5>1, <5>2, <4>1, <4>2, Boundaries
      <4> QED BY <4>1, <4>3, <2>1, <2>3, ValidatorsAssumption
    <3>3. Stayed(a)
      BY <3>1, <3>2 DEF BlockStep, Absent, Entered, Gone
    <3>4. val'[a] \in Leaf /\ val'[a].power > 0 /\ ~(val'[a].power < val[a].power)
      BY <3>2, <3>3 DEF Stayed, SameLife
    <3> QED BY <3>4, <2>1, NilAssumption DEF Live, Leaf
  <2> QED BY <1>1, <2>2, <2>3, NextInv
<1>2. ValidatorsInv /\ [Next]_vars => [A]_vars
  BY <1>1
<1>3. NewcomersKeepPower <=> [][A]_vars
  BY DEF NewcomersKeepPower
<1> HIDE DEF A
<1> QED BY <1>2, <1>3, ValidatorsInductive, PTL DEF Spec
=============================================================================
