----------------------------- MODULE MCElection -----------------------------
(* Instances of Election for TLC. *)
EXTENDS Election, TLC

\* A timed election with every option that the caller leaves open.
Request(status, start, duration, interruptible, encrypted) ==
    [status |-> status, startTime |-> start, duration |-> duration,
     startBlock |-> 0, blockCount |-> 0, interruptible |-> interruptible,
     encrypted |-> encrypted, dynamicCensus |-> FALSE,
     censusRoot |-> CHOOSE r \in Roots : TRUE,
     metadata |-> CHOOSE m \in Metadatas : TRUE,
     maxCensusSize |-> 2, maxOverwrites |-> 0]

\* Timed elections: open at once or later, interruptible or not, one paused
\* from the start, one whose end time overflows.
TimedRequests ==
    {Request("READY", 0, 2, FALSE, FALSE),
     Request("READY", 3, 1, TRUE, FALSE),
     Request("PAUSED", 0, 1, FALSE, FALSE),
     Request("READY", 5, 6, TRUE, FALSE)}

\* Encrypted elections, elections given by block numbers, a zero duration, a
\* dynamic census and votes that may be overwritten.
BallotRequests ==
    {Request("READY", 0, 1, TRUE, TRUE),
     Request("READY", 0, 2, FALSE, TRUE),
     [Request("READY", 0, 0, TRUE, FALSE) EXCEPT !.blockCount = 1, !.startBlock = 3],
     [Request("READY", 0, 0, FALSE, FALSE) EXCEPT !.startBlock = 2],
     [Request("READY", 0, 2, TRUE, FALSE) EXCEPT !.dynamicCensus = TRUE,
                                                !.maxOverwrites = 1,
                                                !.maxCensusSize = 1]}
=============================================================================
