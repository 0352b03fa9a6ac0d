---------------------------- MODULE ValidatorsSteps ----------------------------
(***************************************************************************)
(* The inductive invariant of Validators, and what one block does to one   *)
(* address when the invariant holds.                                       *)
(***************************************************************************)
EXTENDS Validators, FiniteSetTheorems, TLAPS

-----------------------------------------------------------------------------
(* The inductive invariant *)

\* The marker of a: it is at the floor, in its present life, and has been in
\* every block since the marker was set.
MarkerInv(a) ==
    since[a] # Nil =>
        /\ a \in Live(val)
        /\ val[a].power <= minPower
        /\ val[a].height <= since[a]
        /\ since[a] <= height
        /\ floored[a] >= height - since[a] + 1

\* The score window of a: it was opened at a boundary, and if that was in the
\* present life of a, it has no more votes than blocks.
WindowInv(a) ==
    window[a] # Nil =>
        /\ window[a].height <= height
        /\ window[a].height % updatePowerPeriod = 0
        /\ val[a] # Nil /\ HasWindow(val[a], window[a]) =>
            val[a].votes - window[a].votes <= height - window[a].height

LeafInv(a) ==
    val[a] # Nil => /\ val[a].score <= 100
                    /\ val[a].height <= height
                    /\ val[a].power = 0 => pending # Nil

ValidatorsInv ==
    /\ TypeOK
    /\ ~halted
    /\ Live(val) # {}
    /\ engine = Powers(val)
    /\ \A a \in Addr : MarkerInv(a) /\ WindowInv(a) /\ LeafInv(a)

-----------------------------------------------------------------------------
(* The parameters *)

LEMMA ParameterTypes ==
    /\ minPower \in Nat /\ minPower > 0
    /\ newValidatorPower \in Nat /\ newValidatorPower > 0 /\ newValidatorPower # 0
    /\ updatePowerPeriod \in Nat \ {0}
    /\ inactiveGraceBlocks \in Nat
PROOF BY ValidatorsAssumption

\* The validators are finitely many.
LEMMA LiveFinite ==
    ASSUME NEW vs
    PROVE  /\ Live(vs) \in SUBSET Addr
           /\ IsFiniteSet(Live(vs))
           /\ Cardinality(Live(vs)) \in Nat
<1>1. IsFiniteSet(Addr)
  BY ValidatorsAssumption
<1>2. Live(vs) \subseteq Addr
  BY DEF Live
<1> QED BY <1>1, <1>2, FS_Subset, FS_CardinalityType

-----------------------------------------------------------------------------
(* Arithmetic *)

\* A window with no more votes than blocks gives a percentage.
LEMMA Percentage ==
    ASSUME NEW w \in Nat, NEW g \in Nat \ {0}, w <= g
    PROVE  (w * 100) \div g \in 0..100
<1> DEFINE q == (w * 100) \div g
<1>1. q \in Nat /\ g * q <= w * 100
  BY SMT
<1>2. w * 100 <= g * 100
  BY SMT
<1>3. q <= 100
  <2> SUFFICES ASSUME q >= 101 PROVE FALSE
    BY <1>1, SMT
  <2>1. g * q >= g * 101
    BY <1>1, SMT
  <2> QED BY <2>1, <1>1, <1>2, SMT
<1> QED BY <1>1, <1>3

\* Two boundaries are at least a period apart.
LEMMA Boundaries ==
    ASSUME NEW p \in Nat \ {0}, NEW w \in Nat, NEW h \in Nat,
           w < h, w % p = 0, h % p = 0
    PROVE  w + p <= h
<1> DEFINE i == w \div p
           j == h \div p
<1>1. i \in Nat /\ w = p * i
  BY SMT
<1>2. j \in Nat /\ h = p * j
  BY SMT
<1> HIDE DEF i, j
<1>3. i < j
  <2> SUFFICES ASSUME j <= i PROVE FALSE
    BY <1>1, <1>2
  <2>1. p * j <= p * i
    BY <1>1, <1>2, SMT
  <2> QED BY <2>1, <1>1, <1>2, SMT
<1>4. p * (i + 1) <= p * j
  BY <1>1, <1>2, <1>3, SMT
<1>5. p * (i + 1) = p * i + p
  BY <1>1, SMT
<1> QED BY <1>1, <1>2, <1>4, <1>5, SMT

-----------------------------------------------------------------------------
(* One validator *)

\* A leaf counts at most one vote in a block.
LEMMA CountedFacts ==
    ASSUME NEW vs \in [Addr -> Leaf \cup {Nil}], NEW a \in Addr
    PROVE  /\ vs[a] = Nil => Counted(vs)[a] = Nil
           /\ vs[a] # Nil => /\ Counted(vs)[a] \in Leaf
                             /\ Counted(vs)[a].power = vs[a].power
                             /\ Counted(vs)[a].score = vs[a].score
                             /\ Counted(vs)[a].height = vs[a].height
                             /\ Counted(vs)[a].votes \in {vs[a].votes, vs[a].votes + 1}
PROOF BY DEF Counted, Leaf

\* A validator stays one when it is scored.
LEMMA ScoredFacts ==
    ASSUME NEW v \in Leaf, NEW w \in Window, NEW h \in Nat,
           v.power > 0, v.score <= 100, w.height < h, v.votes - w.votes <= h - w.height
    PROVE  /\ Scored(v, w, h) \in Leaf
           /\ Scored(v, w, h).power > 0
           /\ Scored(v, w, h).score <= 100
           /\ Scored(v, w, h).votes = v.votes
           /\ Scored(v, w, h).height = v.height
<1> DEFINE s == NewScore(v, w, h)
<1> USE ValidatorsAssumption
<1>1. s \in 0..100
  <2> DEFINE wv == IF v.votes >= w.votes THEN v.votes - w.votes ELSE 0
             gap == h - w.height
  <2>1. wv \in Nat /\ gap \in Nat \ {0} /\ wv <= gap
    BY DEF Leaf, Window
  <2>2. s = (wv * 100) \div gap
    BY DEF NewScore
  <2> HIDE DEF wv, gap, s
  <2> QED BY <2>1, <2>2, Percentage
<1> HIDE DEF s
<1>2. NewPower(v, s) \in Nat /\ NewPower(v, s) > 0
  <2>1. v.power \in Nat /\ v.score \in Nat
    BY DEF Leaf
  <2> QED BY <1>1, <2>1 DEF NewPower, AtMost, AtLeast
<1>3. Scored(v, w, h) = [v EXCEPT !.power = NewPower(v, s), !.score = s]
  BY DEF Scored, s
<1> DEFINE p == NewPower(v, s)
<1>4. p \in Nat /\ p > 0 /\ s \in Nat /\ s <= 100 /\ Scored(v, w, h) = [v EXCEPT !.power = p, !.score = s]
  BY <1>1, <1>2, <1>3
<1> HIDE DEF p
<1> QED BY <1>4, Zenon DEF Leaf

-----------------------------------------------------------------------------
(* What a block does to one address *)

\* The address was no validator and is none.
Absent(a) ==
    a \notin Live(val) /\ val'[a] = Nil /\ since'[a] = Nil

\* The address joins.
Entered(a) ==
    /\ a \notin Live(val)
    /\ val'[a] \in Leaf
    /\ val'[a].power > 0 /\ val'[a].score = 0 /\ val'[a].height = height + 1
    /\ since'[a] = Nil

\* Its leaf is of the same life, with at most one vote more.
SameLife(a) ==
    /\ a \in Live(val)
    /\ val'[a] \in Leaf
    /\ val'[a].score <= 100
    /\ val'[a].height = val[a].height
    /\ val'[a].votes \in {val[a].votes, val[a].votes + 1}

\* The validator stays; a marker it has then is an old one or of this block.
\* It loses power only by the score of a window of its present life.
Stayed(a) ==
    /\ SameLife(a)
    /\ val'[a].power > 0
    /\ since'[a] # Nil => /\ val'[a].power <= minPower
                          /\ since'[a] \in {since[a], height + 1}
    /\ val'[a].power < val[a].power =>
        /\ window[a] # Nil /\ HasWindow(val[a], window[a])
        /\ (height + 1) % updatePowerPeriod = 0

\* The validator is evicted.
Gone(a) ==
    /\ SameLife(a)
    /\ val'[a].power = 0
    /\ since'[a] = Nil
    /\ pending # Nil
    /\ since[a] # Nil /\ (height + 1) - since[a] >= inactiveGraceBlocks
    /\ window[a] # Nil /\ HasWindow(val[a], window[a])
    /\ (height + 1) % updatePowerPeriod = 0

\* A window is kept, cleared, or opened at a boundary.
WindowStep(a) ==
    \/ window'[a] = window[a]
    \/ window'[a] = Nil
    \/ /\ (height + 1) % updatePowerPeriod = 0
       /\ window'[a] = [height |-> height + 1, votes |-> val'[a].votes]
       /\ val'[a] \in Leaf

BlockStep(a) == (Absent(a) \/ Entered(a) \/ Stayed(a) \/ Gone(a)) /\ WindowStep(a)

\* The trees after a block, and the validators that are left.
BlockEffect ==
    /\ val' \in [Addr -> Leaf \cup {Nil}]
    /\ since' \in [Addr -> Nat \cup {Nil}]
    /\ window' \in [Addr -> Window \cup {Nil}]
    /\ \A a \in Addr : BlockStep(a)
    /\ Cardinality(Live(val')) >= AtMost(3, Cardinality(Live(val)))

-----------------------------------------------------------------------------
(* The score update *)

\* The leaves after the transactions of a block.
LEMMA JoinedFacts ==
    ASSUME ValidatorsInv, NEW joining \in SUBSET (Addr \ Live(val))
    PROVE  /\ Joined(joining, height + 1) \in [Addr -> Leaf \cup {Nil}]
           /\ \A a \in joining :
                /\ Joined(joining, height + 1)[a] \in Leaf
                /\ Joined(joining, height + 1)[a].power = newValidatorPower
                /\ Joined(joining, height + 1)[a].score = 0
                /\ Joined(joining, height + 1)[a].height = height + 1
           /\ \A a \in Addr \ joining : Joined(joining, height + 1)[a] = val[a]
PROOF BY ValidatorsAssumption DEF Joined, ValidatorsInv, TypeOK, Leaf

\* Without a scheduled update, only the transactions change the leaves.
LEMMA FirstStep ==
    ASSUME ValidatorsInv, NEW joining \in SUBSET (Addr \ Live(val)),
           pending = Nil, val' = Joined(joining, height + 1), UNCHANGED <<since, window>>
    PROVE  BlockEffect
<1> DEFINE vs == Joined(joining, height + 1)
<1>1. height \in Nat /\ \A a \in Addr : val[a] \in Leaf \cup {Nil}
  BY DEF ValidatorsInv, TypeOK
<1>2. \A a \in Addr : BlockStep(a)
  <2> SUFFICES ASSUME NEW a \in Addr PROVE BlockStep(a)
    OBVIOUS
  <2>1. WindowStep(a)
    BY DEF WindowStep
  <2>2. CASE a \in joining
    <3>1. since[a] = Nil
      BY <2>2 DEF ValidatorsInv, MarkerInv
    <3>2. a \notin Live(val) /\ newValidatorPower > 0
      BY <2>2, ParameterTypes
    <3>3. /\ val'[a] \in Leaf /\ val'[a].power = newValidatorPower
          /\ val'[a].score = 0 /\ val'[a].height = height + 1
      BY <2>2, JoinedFacts
    <3>4. Entered(a)
      BY <3>1, <3>2, <3>3 DEF Entered
    <3> QED BY <3>4, <2>1 DEF BlockStep
  <2>3. CASE a \notin joining /\ a \in Live(val)
    <3>1. val'[a] = val[a] /\ since'[a] = since[a]
      BY <2>3, JoinedFacts
    <3>2. SameLife(a) /\ val'[a].power > 0
      BY <3>1, <2>3, <1>1 DEF SameLife, ValidatorsInv, LeafInv, Live, Leaf
    <3>3. since[a] # Nil => val[a].power <= minPower
      BY DEF ValidatorsInv, MarkerInv
    <3>4. Stayed(a)
      BY <3>1, <3>2, <3>3, <1>1 DEF Stayed, SameLife, Leaf
    <3> QED BY <3>4, <2>1 DEF BlockStep
  <2>4. CASE a \notin joining /\ a \notin Live(val)
    <3>1. val'[a] = val[a] /\ since'[a] = since[a] /\ since[a] = Nil
      BY <2>4, JoinedFacts DEF ValidatorsInv, MarkerInv
    <3>2. val[a] = Nil
      BY <2>4, <1>1 DEF ValidatorsInv, LeafInv, Live, Leaf
    <3> QED BY <3>1, <3>2, <2>1, <2>4 DEF BlockStep, Absent
  <2> QED BY <2>2, <2>3, <2>4
<1>3. Live(val) \subseteq Live(val')
  <2>1. \A a \in Live(val) : Stayed(a)
    BY <1>2 DEF BlockStep, Absent, Entered, Gone, Live
  <2> QED BY <2>1, NilAssumption DEF Stayed, SameLife, Live
<1>4. Cardinality(Live(val)) <= Cardinality(Live(val')) /\ Cardinality(Live(val)) \in Nat
      /\ Cardinality(Live(val')) \in Nat
  BY <1>3, LiveFinite, FS_Subset
<1>5. val' \in [Addr -> Leaf \cup {Nil}]
  BY JoinedFacts
<1> QED BY <1>2, <1>4, <1>5 DEF BlockEffect, AtMost, ValidatorsInv, TypeOK

\* The leaves once the votes are counted and the tombstones reaped: those of
\* the validators and of the addresses that join.
LEMMA ReapedFacts ==
    ASSUME ValidatorsInv, NEW joining \in SUBSET (Addr \ Live(val)), NEW c,
           c = Reaped(Counted(Joined(joining, height + 1)))
    PROVE  /\ c \in [Addr -> Leaf \cup {Nil}]
           /\ \A a \in joining : /\ c[a] \in Leaf /\ c[a].power > 0
                                 /\ c[a].score = 0 /\ c[a].height = height + 1
           /\ \A a \in Live(val) : /\ c[a] \in Leaf
                                   /\ c[a].power = val[a].power
                                   /\ c[a].score = val[a].score
                                   /\ c[a].height = val[a].height
                                   /\ c[a].votes \in {val[a].votes, val[a].votes + 1}
           /\ \A a \in Addr : a \notin joining /\ a \notin Live(val) => c[a] = Nil
<1> DEFINE vs == Joined(joining, height + 1)
           k == Counted(vs)
<1>1. vs \in [Addr -> Leaf \cup {Nil}]
  BY JoinedFacts
<1>2. \A a \in joining : /\ vs[a] \in Leaf /\ vs[a].power = newValidatorPower
                         /\ vs[a].score = 0 /\ vs[a].height = height + 1
  BY JoinedFacts
<1>3. \A a \in Addr \ joining : vs[a] = val[a]
  BY JoinedFacts
<1> HIDE DEF vs
<1>4. \A a \in Addr :
        /\ vs[a] = Nil => k[a] = Nil
        /\ vs[a] # Nil => /\ k[a] \in Leaf
                          /\ k[a].power = vs[a].power
                          /\ k[a].score = vs[a].score
                          /\ k[a].height = vs[a].height
                          /\ k[a].votes \in {vs[a].votes, vs[a].votes + 1}
  BY <1>1, CountedFacts
<1> HIDE DEF k
<1>5. \A a \in Addr : c[a] = IF k[a] # Nil /\ k[a].power = 0 THEN Nil ELSE k[a]
  BY DEF Reaped, Tombstones, k, vs
<1>6. c \in [Addr -> Leaf \cup {Nil}]
  <2>1. \A a \in Addr : k[a] \in Leaf \cup {Nil}
    BY <1>4
  <2>2. c = [a \in Addr |-> c[a]]
    BY DEF Reaped
  <2>3. \A a \in Addr : c[a] \in Leaf \cup {Nil}
    BY <2>1, <1>5
  <2> QED BY <2>2, <2>3
<1>7. newValidatorPower > 0 /\ newValidatorPower # 0
  BY ParameterTypes
<1>8. \A a \in joining : k[a] \in Leaf /\ k[a] # Nil /\ k[a].power = newValidatorPower
                         /\ k[a].score = 0 /\ k[a].height = height + 1
  <2> SUFFICES ASSUME NEW a \in joining
               PROVE  k[a] \in Leaf /\ k[a] # Nil /\ k[a].power = newValidatorPower
                      /\ k[a].score = 0 /\ k[a].height = height + 1
    OBVIOUS
  <2>1. a \in Addr /\ vs[a] # Nil
    BY <1>2, NilAssumption
  <2>2. k[a] \in Leaf /\ k[a].power = vs[a].power /\ k[a].score = vs[a].score
        /\ k[a].height = vs[a].height
    BY <2>1, <1>4
  <2> QED BY <2>2, <1>2, NilAssumption
<1>9. ASSUME NEW a \in Live(val)
      PROVE  /\ vs[a] = val[a] /\ val[a] # Nil /\ val[a].power > 0 /\ val[a].power # 0
  <2>1. a \in Addr /\ val[a] # Nil /\ val[a].power > 0 /\ val[a] \in Leaf
    BY DEF Live, ValidatorsInv, TypeOK
  <2>2. a \notin joining /\ val[a].power \in Nat
    BY <2>1 DEF Leaf
  <2> QED BY <2>1, <2>2, <1>3
<1>10. ASSUME NEW a \in Addr, a \notin joining, a \notin Live(val)
       PROVE  c[a] = Nil
  <2>1. vs[a] = val[a] /\ (val[a] = Nil \/ val[a].power = 0)
    <3>1. val[a] # Nil => val[a].power \in Nat
      BY DEF ValidatorsInv, TypeOK, Leaf
    <3>2. vs[a] = val[a]
      BY <1>3, <1>10
    <3> QED BY <3>1, <3>2, <1>10 DEF Live
  <2> QED BY <2>1, <1>4, <1>5
<1>11. \A a \in joining : /\ c[a] \in Leaf /\ c[a].power > 0
                          /\ c[a].score = 0 /\ c[a].height = height + 1
  BY <1>5, <1>7, <1>8
<1>12. \A a \in Live(val) : /\ c[a] \in Leaf
                            /\ c[a].power = val[a].power
                            /\ c[a].score = val[a].score
                            /\ c[a].height = val[a].height
                            /\ c[a].votes \in {val[a].votes, val[a].votes + 1}
  BY <1>4, <1>5, <1>9 DEF Live
<1> QED BY <1>6, <1>10, <1>11, <1>12

\* A marker is kept or cleared when tombstones are reaped, and it is kept for
\* a validator.
LEMMA ReapedMarkerFacts ==
    ASSUME ValidatorsInv, NEW joining \in SUBSET (Addr \ Live(val)), NEW marker, NEW a \in Addr
    PROVE  ReapedMarker(Joined(joining, height + 1), marker)[a] \in {marker[a], Nil}
PROOF BY DEF ReapedMarker

\* A block between two boundaries.
LEMMA CountStep ==
    ASSUME ValidatorsInv, NEW joining \in SUBSET (Addr \ Live(val)),
           CountTick(Joined(joining, height + 1))
    PROVE  BlockEffect
<1> DEFINE vs == Joined(joining, height + 1)
<1>1. val' = Reaped(Counted(vs))
  BY DEF CountTick
<1>2. \A a \in Addr : since'[a] \in {since[a], Nil} /\ window'[a] \in {window[a], Nil}
  BY ReapedMarkerFacts DEF CountTick
<1>3. /\ val' \in [Addr -> Leaf \cup {Nil}]
      /\ \A a \in joining : /\ val'[a] \in Leaf /\ val'[a].power > 0
                            /\ val'[a].score = 0 /\ val'[a].height = height + 1
      /\ \A a \in Live(val) : /\ val'[a] \in Leaf
                              /\ val'[a].power = val[a].power
                              /\ val'[a].score = val[a].score
                              /\ val'[a].height = val[a].height
                              /\ val'[a].votes \in {val[a].votes, val[a].votes + 1}
      /\ \A a \in Addr : a \notin joining /\ a \notin Live(val) => val'[a] = Nil
  BY <1>1, ReapedFacts
<1>4. \A a \in Addr : BlockStep(a)
  <2> SUFFICES ASSUME NEW a \in Addr PROVE BlockStep(a)
    OBVIOUS
  <2>1. WindowStep(a)
    BY <1>2 DEF WindowStep
  <2>2. a \notin Live(val) => since'[a] = Nil
    BY <1>2 DEF ValidatorsInv, MarkerInv
  <2>3. CASE a \in joining
    <3>1. Entered(a)
      BY <2>2, <2>3, <1>3 DEF Entered
    <3> QED BY <3>1, <2>1 DEF BlockStep
  <2>4. CASE a \in Live(val)
    <3>1. SameLife(a) /\ val'[a].power = val[a].power /\ val'[a].power > 0
      BY <2>4, <1>3 DEF SameLife, ValidatorsInv, LeafInv, Live
    <3>2. since'[a] # Nil => since'[a] = since[a] /\ val'[a].power <= minPower
      BY <3>1, <1>2 DEF ValidatorsInv, MarkerInv
    <3>3. Stayed(a)
      BY <3>1, <3>2 DEF Stayed, SameLife, Leaf
    <3> QED BY <3>3, <2>1 DEF BlockStep
  <2>5. CASE a \notin joining /\ a \notin Live(val)
    BY <2>5, <2>1, <2>2, <1>3 DEF BlockStep, Absent
  <2> QED BY <2>3, <2>4, <2>5
<1>5. Live(val) \subseteq Live(val')
  BY <1>3, NilAssumption DEF Live
<1>6. Cardinality(Live(val)) <= Cardinality(Live(val')) /\ Cardinality(Live(val)) \in Nat
      /\ Cardinality(Live(val')) \in Nat
  BY <1>5, LiveFinite, FS_Subset
<1>7. since' \in [Addr -> Nat \cup {Nil}] /\ window' \in [Addr -> Window \cup {Nil}]
  BY <1>2 DEF CountTick, ReapedMarker, ValidatorsInv, TypeOK
<1> QED BY <1>3, <1>4, <1>6, <1>7 DEF BlockEffect, AtMost

\* At least three of n validators, or all of them, are left by an eviction.
LEMMA EvictedFacts ==
    ASSUME NEW all \in SUBSET Addr, NEW candidates \in SUBSET all,
           NEW gone \in Evicted(candidates, Cardinality(all))
    PROVE  /\ gone \subseteq candidates
           /\ Cardinality(all \ gone) >= AtMost(3, Cardinality(all))
<1>1. IsFiniteSet(all) /\ IsFiniteSet(candidates) /\ gone \subseteq candidates
  BY ValidatorsAssumption, FS_Subset, Zenon DEF Evicted
<1>2. IsFiniteSet(gone) /\ all \cap gone = gone
  BY <1>1, FS_Subset
<1> DEFINE n == Cardinality(all)
           g == Cardinality(gone)
           k == Cardinality(candidates)
<1>3. n \in Nat /\ g \in Nat /\ k \in Nat
  BY <1>1, <1>2, FS_CardinalityType
<1>4. g = EvictionSlots(k, n)
  BY DEF Evicted
<1>5. Cardinality(all \ gone) = n - g
  BY <1>1, <1>2, FS_Difference
<1> HIDE DEF n, g, k
<1>6. n - g >= AtMost(3, n)
  BY <1>3, <1>4 DEF EvictionSlots, AtMost, AtLeast
<1> QED BY <1>1, <1>5, <1>6 DEF n

\* Whoever joins in a block has no window yet.
LEMMA NewcomerUnrated ==
    ASSUME ValidatorsInv, NEW a \in Addr, NEW v, v.height = height + 1
    PROVE  ~HasWindow(v, window[a])
<1> SUFFICES ASSUME HasWindow(v, window[a]) PROVE FALSE
  OBVIOUS
<1>1. window[a] # Nil /\ window[a] \in Window /\ window[a].height >= height + 1 /\ height \in Nat
  BY DEF HasWindow, ValidatorsInv, TypeOK
<1>2. window[a].height <= height /\ window[a].height \in Nat
  BY <1>1 DEF ValidatorsInv, WindowInv, Window
<1> QED BY <1>1, <1>2

\* A validator with a window of its present life can be scored.
LEMMA RatedFacts ==
    ASSUME ValidatorsInv, NEW a \in Live(val), NEW v \in Leaf,
           v.power = val[a].power, v.score = val[a].score, v.height = val[a].height,
           v.votes \in {val[a].votes, val[a].votes + 1},
           HasWindow(v, window[a])
    PROVE  /\ window[a] # Nil /\ HasWindow(val[a], window[a])
           /\ Scored(v, window[a], height + 1) \in Leaf
           /\ Scored(v, window[a], height + 1).power > 0
           /\ Scored(v, window[a], height + 1).score <= 100
           /\ Scored(v, window[a], height + 1).votes = v.votes
           /\ Scored(v, window[a], height + 1).height = val[a].height
<1>1. val[a] \in Leaf /\ val[a] # Nil /\ val[a].power > 0 /\ a \in Addr /\ height \in Nat
  BY DEF Live, ValidatorsInv, TypeOK
<1>2. window[a] # Nil /\ window[a] \in Window /\ HasWindow(val[a], window[a])
  BY <1>1 DEF HasWindow, ValidatorsInv, TypeOK
<1>3. val[a].votes - window[a].votes <= height - window[a].height /\ window[a].height <= height
  BY <1>1, <1>2 DEF ValidatorsInv, WindowInv
<1>4. val[a].score <= 100
  BY <1>1 DEF ValidatorsInv, LeafInv
<1>5. window[a].height < height + 1 /\ v.votes - window[a].votes <= (height + 1) - window[a].height
      /\ height + 1 \in Nat
  BY <1>1, <1>2, <1>3 DEF Leaf, Window
<1>6. v.power > 0 /\ v.score <= 100
  BY <1>1, <1>4
<1>7. /\ Scored(v, window[a], height + 1) \in Leaf
      /\ Scored(v, window[a], height + 1).power > 0
      /\ Scored(v, window[a], height + 1).score <= 100
      /\ Scored(v, window[a], height + 1).votes = v.votes
      /\ Scored(v, window[a], height + 1).height = v.height
  <2> DEFINE w == window[a]
             h == height + 1
  <2>1. /\ w \in Window /\ h \in Nat /\ v.power > 0 /\ v.score <= 100
        /\ w.height < h /\ v.votes - w.votes <= h - w.height
    BY <1>2, <1>5, <1>6, Zenon
  <2> HIDE DEF w, h
  <2>2. /\ Scored(v, w, h) \in Leaf /\ Scored(v, w, h).power > 0
        /\ Scored(v, w, h).score <= 100 /\ Scored(v, w, h).votes = v.votes
        /\ Scored(v, w, h).height = v.height
    BY <2>1, ScoredFacts
  <2> QED BY <2>2 DEF w, h
<1> QED BY <1>2, <1>7

\* A boundary block.
LEMMA ScoreStep ==
    ASSUME ValidatorsInv, NEW joining \in SUBSET (Addr \ Live(val)),
           pending # Nil, (height + 1) % updatePowerPeriod = 0,
           ScoreTick(Joined(joining, height + 1), height + 1)
    PROVE  BlockEffect
<1> DEFINE vs == Joined(joining, height + 1)
           h == height + 1
           c == Reaped(Counted(vs))
           all == {a \in Addr : c[a] # Nil}
           rated == {a \in all : HasWindow(c[a], window[a])}
           after == [a \in rated |-> Scored(c[a], window[a], h)]
           candidates == {a \in rated : PastGrace(after[a], since[a], h)}
           oldSince == ReapedMarker(vs, since)
           oldWindow == ReapedMarker(vs, window)
<1>1. PICK gone \in Evicted(candidates, Cardinality(all)) :
        /\ val' = [a \in Addr |-> IF a \in gone THEN Tombstone(after[a])
                                  ELSE IF a \in rated THEN after[a]
                                  ELSE c[a]]
        /\ since' = [a \in Addr |-> IF a \in gone THEN TombstoneSince(since[a])
                                    ELSE IF a \in rated THEN NewSince(after[a], since[a], h)
                                    ELSE IF a \in all THEN Nil
                                    ELSE oldSince[a]]
        /\ window' = [a \in Addr |-> IF a \in all \ gone
                                     THEN OpenWindow(c[a], window[a], h)
                                     ELSE oldWindow[a]]
  BY Zenon DEF ScoreTick
<1>2. /\ c \in [Addr -> Leaf \cup {Nil}]
      /\ \A a \in joining : /\ c[a] \in Leaf /\ c[a].power > 0
                            /\ c[a].score = 0 /\ c[a].height = height + 1
      /\ \A a \in Live(val) : /\ c[a] \in Leaf
                              /\ c[a].power = val[a].power
                              /\ c[a].score = val[a].score
                              /\ c[a].height = val[a].height
                              /\ c[a].votes \in {val[a].votes, val[a].votes + 1}
      /\ \A a \in Addr : a \notin joining /\ a \notin Live(val) => c[a] = Nil
  <2>1. c = Reaped(Counted(Joined(joining, height + 1)))
    OBVIOUS
  <2> HIDE DEF c
  <2> QED BY <2>1, ReapedFacts, SMTT(30)
<1>3. \A a \in Addr : oldSince[a] \in {since[a], Nil} /\ oldWindow[a] \in {window[a], Nil}
  BY ReapedMarkerFacts, Zenon
<1>4. height \in Nat /\ h \in Nat /\ h = height + 1
  BY DEF ValidatorsInv, TypeOK
<1> HIDE DEF vs, c, h, oldSince, oldWindow
<1>a. /\ all \subseteq Addr /\ rated \subseteq all /\ candidates \subseteq rated
      /\ \A a \in Addr : a \in all <=> c[a] # Nil
      /\ \A a \in rated : HasWindow(c[a], window[a]) /\ after[a] = Scored(c[a], window[a], h)
      /\ \A a \in candidates : PastGrace(after[a], since[a], h)
  BY Zenon
<1> HIDE DEF all, rated, after, candidates
<1>b. \A a \in Addr :
        /\ a \in gone => val'[a] = Tombstone(after[a]) /\ since'[a] = TombstoneSince(since[a])
        /\ a \in rated /\ a \notin gone =>
             val'[a] = after[a] /\ since'[a] = NewSince(after[a], since[a], h)
        /\ a \notin rated /\ a \notin gone => val'[a] = c[a]
        /\ a \in all /\ a \notin rated /\ a \notin gone => since'[a] = Nil
        /\ a \notin all /\ a \notin rated /\ a \notin gone => since'[a] = oldSince[a]
        /\ a \in all /\ a \notin gone => window'[a] = OpenWindow(c[a], window[a], h)
        /\ a \notin all \/ a \in gone => window'[a] = oldWindow[a]
  BY <1>1, Zenon
<1>c. /\ val' = [a \in Addr |-> val'[a]]
      /\ since' = [a \in Addr |-> since'[a]]
      /\ window' = [a \in Addr |-> window'[a]]
  BY <1>1, Zenon
<1>5. all = joining \cup Live(val)
  <2>1. \A a \in joining : a \in Addr /\ c[a] # Nil
    BY <1>2, NilAssumption
  <2>2. \A a \in Live(val) : a \in Addr /\ c[a] # Nil
    BY <1>2, NilAssumption, SMTT(30) DEF Live
  <2> QED BY <2>1, <2>2, <1>2, <1>a
<1>6. ASSUME NEW a \in rated
      PROVE  /\ a \in Live(val) /\ a \in Addr
             /\ window[a] # Nil /\ HasWindow(val[a], window[a])
             /\ after[a] \in Leaf
             /\ after[a].power > 0
             /\ after[a].score <= 100
             /\ after[a].votes = c[a].votes
             /\ after[a].height = val[a].height
  <2>1. a \in Addr /\ HasWindow(c[a], window[a]) /\ after[a] = Scored(c[a], window[a], height + 1)
    BY <1>4, <1>a, SMTT(30)
  <2>2. a \notin joining
    BY <2>1, <1>2, NewcomerUnrated
  <2>3. a \in Live(val)
    BY <2>2, <1>5, <1>a
  <2>4. /\ c[a] \in Leaf
        /\ c[a].power = val[a].power
        /\ c[a].score = val[a].score
        /\ c[a].height = val[a].height
        /\ c[a].votes \in {val[a].votes, val[a].votes + 1}
    BY <2>3, <1>2
  <2> QED BY <2>1, <2>3, <2>4, RatedFacts, SMTT(30)
<1>8. gone \subseteq candidates /\ Cardinality(all \ gone) >= AtMost(3, Cardinality(all))
  <2>1. all \in SUBSET Addr /\ candidates \in SUBSET all
    BY <1>a
  <2> QED BY <2>1, EvictedFacts
<1>9. \A a \in Addr : BlockStep(a)
  <2> SUFFICES ASSUME NEW a \in Addr PROVE BlockStep(a)
    OBVIOUS
  <2>1. CASE a \in gone
    <3>1. a \in rated /\ PastGrace(after[a], since[a], h)
      BY <2>1, <1>8, <1>a
    <3>2. val'[a] = [after[a] EXCEPT !.power = 0] /\ since'[a] = Nil /\ window'[a] \in {window[a], Nil}
      <4>1. val'[a] = Tombstone(after[a]) /\ since'[a] = TombstoneSince(since[a]) /\ window'[a] = oldWindow[a]
        BY <2>1, <1>b, Zenon
      <4>2. oldWindow[a] \in {window[a], Nil}
        BY <1>3, Zenon
      <4> QED BY <4>1, <4>2 DEF Tombstone, TombstoneSince
    <3>3. SameLife(a) /\ val'[a].power = 0
      BY <3>1, <3>2, <1>2, <1>6 DEF SameLife, Leaf
    <3>4. since[a] # Nil /\ (height + 1) - since[a] >= inactiveGraceBlocks
      <4>1. since[a] # Nil /\ h - since[a] >= inactiveGraceBlocks
        BY <3>1 DEF PastGrace
      <4>2. since[a] \in Nat
        BY <4>1 DEF ValidatorsInv, TypeOK
      <4> QED BY <4>1, <4>2, <1>4
    <3>5. Gone(a)
      BY <3>1, <3>2, <3>3, <3>4, <1>6 DEF Gone
    <3> QED BY <3>2, <3>5 DEF BlockStep, WindowStep
  <2>2. CASE a \in rated /\ a \notin gone
    <3>1. val'[a] = after[a] /\ since'[a] = NewSince(after[a], since[a], h)
      BY <2>2, <1>b, Zenon
    <3>2. window'[a] = OpenWindow(c[a], window[a], h)
      <4>1. a \in all
        BY <2>2, <1>a, Zenon
      <4> QED BY <4>1, <2>2, <1>b, Zenon
    <3>3. WindowStep(a)
      BY <3>1, <3>2, <2>2, <1>4, <1>6, SMTT(30) DEF WindowStep, OpenWindow
    <3>4. SameLife(a) /\ val'[a].power > 0
      BY <3>1, <2>2, <1>2, <1>6 DEF SameLife
    <3>5. val'[a].power \in Nat
      BY <3>4 DEF SameLife, Leaf
    <3>6. since'[a] # Nil => val'[a].power <= minPower /\ since'[a] \in {since[a], height + 1}
      BY <3>1, <3>5, <1>4, ParameterTypes, SMTT(30) DEF NewSince
    <3>7. Stayed(a)
      BY <3>4, <3>6, <2>2, <1>6 DEF Stayed
    <3> QED BY <3>3, <3>7, SMTT(30) DEF BlockStep
  <2>3. CASE a \in all /\ a \notin rated
    <3>1. a \notin gone
      <4>1. gone \subseteq candidates /\ candidates \subseteq rated
        BY <1>8, <1>a, Zenon
      <4> QED BY <4>1, <2>3, Zenon
    <3>2. val'[a] = c[a] /\ since'[a] = Nil /\ window'[a] = OpenWindow(c[a], window[a], h)
      BY <2>3, <3>1, <1>b, Zenon
    <3>3. c[a] \in Leaf
      BY <2>3, <1>2, <1>a
    <3>4. WindowStep(a)
      BY <3>2, <3>3, <1>4 DEF WindowStep, OpenWindow
    <3>5. CASE a \in joining
      <4>1. Entered(a)
        BY <3>2, <3>5, <1>2 DEF Entered
      <4> QED BY <4>1, <3>4 DEF BlockStep
    <3>6. CASE a \in Live(val)
      <4>1. SameLife(a) /\ val'[a].power = val[a].power /\ val'[a].power > 0
        <5>1. /\ c[a] \in Leaf /\ c[a].power = val[a].power /\ c[a].score = val[a].score
              /\ c[a].height = val[a].height /\ c[a].votes \in {val[a].votes, val[a].votes + 1}
          BY <3>6, <1>2, Zenon
        <5>2. val[a].power > 0
          BY <3>6 DEF Live
        <5>3. val[a].score <= 100
          <6>1. LeafInv(a)
            BY Zenon DEF ValidatorsInv
          <6> QED BY <6>1, <3>6, NilAssumption DEF LeafInv, Live
        <5> QED BY <5>1, <5>2, <5>3, <3>2, <3>6 DEF SameLife
      <4>2. Stayed(a)
        BY <4>1, <3>2 DEF Stayed, SameLife, Leaf
      <4> QED BY <4>2, <3>4, SMTT(30) DEF BlockStep
    <3> QED BY <2>3, <3>5, <3>6, <1>5
  <2>4. CASE a \notin all
    <3>1. a \notin gone /\ a \notin rated /\ a \notin Live(val) /\ c[a] = Nil
      <4>1. gone \subseteq candidates /\ candidates \subseteq rated /\ rated \subseteq all
        BY <1>8, <1>a, Zenon
      <4>2. Live(val) \subseteq all
        BY <1>5, Zenon
      <4> QED BY <4>1, <4>2, <2>4, <1>a, Zenon
    <3>2. since[a] = Nil
      BY <3>1, SMTT(30) DEF ValidatorsInv, MarkerInv
    <3>3. val'[a] = Nil /\ since'[a] = Nil /\ window'[a] \in {window[a], Nil}
      <4>1. val'[a] = c[a] /\ since'[a] = oldSince[a] /\ window'[a] = oldWindow[a]
        BY <3>1, <2>4, <1>b, Zenon
      <4>2. oldSince[a] \in {since[a], Nil} /\ oldWindow[a] \in {window[a], Nil}
        BY <1>3, Zenon
      <4> QED BY <4>1, <4>2, <3>1, <3>2
    <3> QED BY <3>1, <3>3 DEF BlockStep, Absent, WindowStep
  <2> QED BY <2>1, <2>2, <2>3, <2>4
<1>10. val' \in [Addr -> Leaf \cup {Nil}]
  <2>1. \A a \in Addr : val'[a] \in Leaf \cup {Nil}
    BY <1>9, SMTT(30) DEF BlockStep, Absent, Entered, Stayed, Gone, SameLife
  <2> QED BY <2>1, <1>c, Zenon
<1>11. since' \in [Addr -> Nat \cup {Nil}]
  <2>1. \A a \in Addr : since'[a] \in Nat \cup {Nil}
    <3> SUFFICES ASSUME NEW a \in Addr PROVE since'[a] \in Nat \cup {Nil}
      OBVIOUS
    <3>1. since[a] \in Nat \cup {Nil}
      BY Zenon DEF ValidatorsInv, TypeOK
    <3>2. since'[a] \in {since[a], height + 1, Nil}
      <4>1. BlockStep(a)
        BY <1>9, Zenon
      <4> QED BY <4>1, Zenon DEF BlockStep, Absent, Entered, Stayed, Gone
    <3> QED BY <3>1, <3>2, <1>4
  <2> QED BY <2>1, <1>c, Zenon
<1>12. window' \in [Addr -> Window \cup {Nil}]
  <2>1. \A a \in Addr : window'[a] \in Window \cup {Nil}
    <3> SUFFICES ASSUME NEW a \in Addr PROVE window'[a] \in Window \cup {Nil}
      OBVIOUS
    <3>1. window[a] \in Window \cup {Nil}
      BY DEF ValidatorsInv, TypeOK
    <3>2. val'[a] \in Leaf => [height |-> height + 1, votes |-> val'[a].votes] \in Window
      BY <1>4 DEF Leaf, Window
    <3> QED BY <3>1, <3>2, <1>9 DEF BlockStep, WindowStep
  <2> QED BY <2>1, <1>c, Zenon
<1>13. all \ gone \subseteq Live(val')
  <2> SUFFICES ASSUME NEW a \in Addr, a \in all, a \notin gone PROVE a \in Live(val')
    BY <1>a
  <2>1. CASE a \in rated
    <3>1. val'[a] = after[a] /\ after[a] \in Leaf /\ after[a].power > 0
      <4>1. val'[a] = after[a]
        BY <2>1, <1>b, Zenon
      <4> QED BY <4>1, <2>1, <1>6, Zenon
    <3> QED BY <3>1, NilAssumption, SMTT(30) DEF Live
  <2>2. CASE a \notin rated
    <3>1. val'[a] = c[a] /\ c[a] # Nil
      BY <2>2, <1>a, <1>b, Zenon
    <3>2. c[a].power > 0
      BY <1>2, <1>5 DEF Live
    <3> QED BY <3>1, <3>2, SMTT(30) DEF Live
  <2> QED BY <2>1, <2>2
<1>14. Cardinality(Live(val')) >= AtMost(3, Cardinality(Live(val)))
  <2> DEFINE k == Cardinality(all \ gone)
             n == Cardinality(all)
             m == Cardinality(Live(val'))
             l == Cardinality(Live(val))
  <2>1. Live(val) \subseteq all /\ all \subseteq Addr /\ Live(val') \subseteq Addr
    BY <1>5, LiveFinite
  <2>2. IsFiniteSet(all) /\ IsFiniteSet(Live(val'))
    BY <2>1, FS_Subset, LiveFinite, ValidatorsAssumption, Zenon
  <2>3. l <= n /\ n \in Nat /\ l \in Nat
    BY <2>1, <2>2, FS_Subset, FS_CardinalityType
  <2>4. k <= m /\ k \in Nat /\ m \in Nat
    BY <1>13, <2>2, FS_Subset, FS_CardinalityType
  <2>5. k >= AtMost(3, n)
    BY <1>8
  <2> HIDE DEF k, n, m, l
  <2>6. m >= AtMost(3, l)
    BY <2>3, <2>4, <2>5 DEF AtMost
  <2> QED BY <2>6 DEF m, l
<1> QED BY <1>9, <1>10, <1>11, <1>12, <1>14 DEF BlockEffect

\* Whatever update is due, a block has the effect above.
LEMMA TickEffect ==
    ASSUME ValidatorsInv, NEW joining \in SUBSET (Addr \ Live(val)),
           UpdateValidatorScore(Joined(joining, height + 1), height + 1)
    PROVE  BlockEffect
PROOF BY FirstStep, CountStep, ScoreStep DEF UpdateValidatorScore
=============================================================================
