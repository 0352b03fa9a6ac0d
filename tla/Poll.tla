--------------------------------- MODULE Poll ---------------------------------
(***************************************************************************)
(* What an election promises to voters and organisers, without blocks,     *)
(* scheduled actions, keys or committed versions of the state: votes are   *)
(* cast only while it is open, it is closed once, and its tally is made of *)
(* exactly the votes that were cast.                                       *)
(***************************************************************************)
EXTENDS Naturals

CONSTANTS Polls, Voters, Nil

VARIABLES
    stage,   \* "none", "open", "suspended", "closed", "void" or "counted"
    ballots, \* how often each voter voted; the last vote is the one that counts
    tally    \* the ballots of the published result, or Nil

pollVars == <<stage, ballots, tally>>

PollInit ==
    /\ stage = [p \in Polls |-> "none"]
    /\ ballots = [p \in Polls |-> [v \in Voters |-> 0]]
    /\ tally = [p \in Polls |-> Nil]

Move(p, from, to) ==
    /\ stage[p] \in from
    /\ stage' = [stage EXCEPT ![p] = to]

Announce(p) ==
    /\ Move(p, {"none"}, "open") \/ Move(p, {"none"}, "suspended")
    /\ UNCHANGED <<ballots, tally>>

Suspend(p) == Move(p, {"open"}, "suspended") /\ UNCHANGED <<ballots, tally>>

Resume(p) == Move(p, {"suspended"}, "open") /\ UNCHANGED <<ballots, tally>>

Close(p) == Move(p, {"open", "suspended"}, "closed") /\ UNCHANGED <<ballots, tally>>

Void(p) == Move(p, {"open", "suspended"}, "void") /\ UNCHANGED <<ballots, tally>>

Cast(p, v) ==
    /\ stage[p] = "open"
    /\ ballots' = [ballots EXCEPT ![p][v] = @ + 1]
    /\ UNCHANGED <<stage, tally>>

Count(p) ==
    /\ Move(p, {"closed"}, "counted")
    /\ tally' = [tally EXCEPT ![p] = ballots[p]]
    /\ UNCHANGED ballots

PollNext ==
    \E p \in Polls :
        \/ Announce(p) \/ Suspend(p) \/ Resume(p) \/ Close(p) \/ Void(p) \/ Count(p)
        \/ \E v \in Voters : Cast(p, v)

PollSpec == PollInit /\ [][PollNext]_pollVars
=============================================================================
