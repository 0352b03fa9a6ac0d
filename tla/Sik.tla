--------------------------------- MODULE Sik ---------------------------------
(***************************************************************************)
(* Secret identity keys (SIK): the tree of SIKs, the transactions that     *)
(* set, invalidate and register them, the temporary SIKs of an election,   *)
(* and the list of SIK roots that anonymous votes may prove against.       *)
(*                                                                         *)
(* "open" is what the open state transaction holds (the SIK tree and the   *)
(* NoState keys, which are committed and discarded together); "saved" is   *)
(* the last saved state.  validSIKRoots lives in memory only.  A root is   *)
(* the content of the tree it is the root of: the hash is injective.       *)
(***************************************************************************)
EXTENDS Integers, FiniteSets, FiniteSetsExt, Functions

CONSTANTS
    Addrs,         \* addresses with an account
    SIKs,          \* SIK values
    NoSIK,         \* the zero prefix of an invalidated leaf
    Elections,     \* elections, anonymous, with a census tree
    TempSIKs,      \* the elections with Process.TempSIKs
    EndBlock,      \* Process.StartBlock + Process.BlockCount, by election
    MaxCensusSize, \* Process.MaxCensusSize, of every election
    Hysteresis,    \* SIKROOT_HYSTERESIS_BLOCKS
    KeyBase,       \* values of a byte of the little-endian block key
    MaxSikHeight,  \* bound on the chain height
    MaxSteps       \* bound on the steps between two saved blocks

VARIABLES open, saved, validSIKRoots, sikHeight, added, steps

sikVars == <<open, saved, validSIKRoots, sikHeight, added, steps>>

\* A step inside a block changes the open transaction only.
InBlock == /\ steps < MaxSteps
           /\ steps' = steps + 1
           /\ UNCHANGED <<saved, validSIKRoots, sikHeight, added>>

\* A leaf of the SIK tree: a SIK, or the height at which it was invalidated.
Leaf(k) == [sik |-> k, height |-> 0]

InvalidateAt(h) == [sik |-> NoSIK, height |-> h]

Valid(leaf) == leaf.sik # NoSIK

DecodeInvalidatedHeight(leaf) == leaf.height

EmptyTree == [a \in {} |-> InvalidateAt(0)]

\* InitChain saves the state with an empty tree: its root is stored at block 0.
SikInit ==
    /\ open = [tree |-> EmptyTree,
               roots |-> [b \in {0} |-> EmptyTree],
               counter |-> [p \in Elections |-> 0],
               assigned |-> {},
               status |-> [p \in Elections |-> "none"],
               registry |-> {}]
    /\ saved = open
    /\ validSIKRoots = {EmptyTree}
    /\ sikHeight = 1
    /\ added = {<<0, EmptyTree>>}
    /\ steps = 0

HasLeaf(a) == a \in DOMAIN open.tree

MaxEndBlock(from) == Max({from} \cup {EndBlock[p] : p \in open.registry})

\* State.SetAddressSIK: the tree after it, for an address without a valid SIK.
SetAddressSIK(a, k) ==
    [b \in DOMAIN open.tree \cup {a} |-> IF b = a THEN Leaf(k) ELSE open.tree[b]]

CanSetAddressSIK(a) == HasLeaf(a) => ~Valid(open.tree[a])

\* AddProcess: the registry of start blocks is not told about it.
NewElection(p) ==
    /\ open.status[p] = "none"
    /\ open' = [open EXCEPT !.status[p] = "READY"]
    /\ InBlock

\* UpdateProcess on an open election, called by AddProcessKeys and by the
\* SetProcess transactions that do not close it.
UpdateElection(p) ==
    /\ open.status[p] = "READY"
    /\ p \notin open.registry
    /\ open' = [open EXCEPT !.registry = @ \cup {p}]
    /\ InBlock

\* The check finds the current leaf and compares the height of its
\* invalidation with the last end block of the registry.
SetSIKTxCheck(a) ==
    HasLeaf(a) => DecodeInvalidatedHeight(open.tree[a]) < MaxEndBlock(sikHeight)

\* The SetSIK transaction.
SetSIK(a, k) ==
    /\ SetSIKTxCheck(a)
    /\ CanSetAddressSIK(a)
    /\ open' = [open EXCEPT !.tree = SetAddressSIK(a, k)]
    /\ InBlock

DelSIKTxCheck(a) ==
    /\ HasLeaf(a)
    /\ Valid(open.tree[a])

\* State.InvalidateSIK: the tree after it.
InvalidateSIK(a) == [open.tree EXCEPT ![a] = InvalidateAt(sikHeight)]

\* The DelSIK transaction.
DelSIK(a) ==
    /\ DelSIKTxCheck(a)
    /\ open' = [open EXCEPT !.tree = InvalidateSIK(a)]
    /\ InBlock

\* The counters of RegisterSIK transactions, a missing one read as 0.
CountRegisterSIK(p) == open.counter[p]

IncreaseRegisterSIKCounter(p) == [open.counter EXCEPT ![p] = @ + 1]

PurgeRegisterSIK(p) == [open.counter EXCEPT ![p] = 0]

RegisterSIKTxCheck(a, p) ==
    /\ ~HasLeaf(a)
    /\ open.status[p] = "READY"
    /\ MaxCensusSize > CountRegisterSIK(p)

\* The RegisterSIK transaction, with a census proof for the election: set the
\* SIK, IncreaseRegisterSIKCounter, AssignSIKToElection for a temporary one.
RegisterSIK(a, k, p) ==
    /\ RegisterSIKTxCheck(a, p)
    /\ CanSetAddressSIK(a)
    /\ open' = [open EXCEPT !.tree = SetAddressSIK(a, k),
                            !.counter = IncreaseRegisterSIKCounter(p),
                            !.assigned = IF p \in TempSIKs THEN @ \cup {<<p, a>>} ELSE @]
    /\ InBlock

\* SET_PROCESS_STATUS ENDED: PurgeRegisterSIK drops the counter.
EndElectionTx(p) ==
    /\ open.status[p] = "READY"
    /\ open' = [open EXCEPT !.status[p] = "ENDED",
                            !.registry = @ \ {p},
                            !.counter = PurgeRegisterSIK(p)]
    /\ InBlock

\* The IST ends the election: the counter stays.
EndElectionIST(p) ==
    /\ open.status[p] = "READY"
    /\ open' = [open EXCEPT !.status[p] = "ENDED", !.registry = @ \ {p}]
    /\ InBlock

AssignedTo(p) == {a \in Addrs : <<p, a>> \in open.assigned}

\* Faulty: the relation between election and address stays.
Purged_Kept(p, done) ==
    [open EXCEPT !.tree = [b \in DOMAIN open.tree \ done |-> open.tree[b]]]

\* The SIKs of "done" removed, and their relations with the election.
Purged(p, done) ==
    [open EXCEPT !.tree = [b \in DOMAIN open.tree \ done |-> open.tree[b]],
                 !.assigned = @ \ ({p} \X done)]

\* PurgeSIKsByElection deletes one address after the other and stops at the
\* first that has no leaf.  The order of the addresses is left open.
PurgeSIKsByElection(p) ==
    LET present == {a \in AssignedTo(p) : HasLeaf(a)}
    IN  \E done \in SUBSET present :
            /\ present = AssignedTo(p) => done = present
            /\ open' = Purged(p, done)

\* The IST action CommitResults purges the temporary SIKs first; it is repeated
\* in a later block while encryption keys are missing.
CommitResults(p) ==
    /\ open.status[p] = "ENDED"
    /\ p \in TempSIKs
    /\ PurgeSIKsByElection(p)
    /\ InBlock

\* The order in which the database iterates block keys: little-endian bytes.
Before(b, c) ==
    \/ b % KeyBase < c % KeyBase
    \/ b % KeyBase = c % KeyBase /\ b \div KeyBase < c \div KeyBase

\* Faulty: one block too many is purged.
ToPurge_Early(roots, minBlock) == {b \in DOMAIN roots : b # 0 /\ b <= minBlock}

\* The block keys that UpdateSIKRoots selects: with a root at minBlock all the
\* lower ones, else those that exceed every lower block iterated before.
ToPurge(roots, minBlock) ==
    {b \in DOMAIN roots :
        /\ b < minBlock
        /\ \/ minBlock \in DOMAIN roots
           \/ b > 0 /\ \A c \in DOMAIN roots : c < minBlock /\ Before(c, b) => c < b}

\* UpdateSIKRoots on the open transaction of the current block.
RootsAfterUpdate ==
    IF open.tree \in validSIKRoots THEN open.roots
    ELSE LET minBlock == sikHeight - Hysteresis
             kept == IF sikHeight > Hysteresis
                     THEN DOMAIN open.roots \ ToPurge(open.roots, minBlock)
                     ELSE DOMAIN open.roots
         IN  [b \in kept \cup {sikHeight} |-> IF b = sikHeight THEN open.tree ELSE open.roots[b]]

\* State.Save, and BeginBlock of the next height.
SaveBlock ==
    /\ sikHeight < MaxSikHeight
    /\ open' = [open EXCEPT !.roots = RootsAfterUpdate]
    /\ saved' = open'
    /\ validSIKRoots' = validSIKRoots \cup {open.tree}
    /\ added' = IF open.tree \in validSIKRoots THEN added
                ELSE added \cup {<<sikHeight, open.tree>>}
    /\ sikHeight' = sikHeight + 1
    /\ steps' = 0

\* State.Rollback: validSIKRoots is not touched.
RollbackBlock ==
    /\ steps > 0
    /\ open' = saved
    /\ steps' = 0
    /\ UNCHANGED <<saved, validSIKRoots, sikHeight, added>>

FetchValidSIKRoots == Range(saved.roots)

\* The process dies and state.New reads the stored roots.
RestartNode ==
    /\ open' = saved
    /\ validSIKRoots' = FetchValidSIKRoots
    /\ steps' = 0
    /\ UNCHANGED <<saved, sikHeight, added>>

ExpiredSIKRoot(root) == root \notin validSIKRoots

SikNext ==
    \/ \E p \in Elections : \/ NewElection(p)
                            \/ UpdateElection(p)
                            \/ EndElectionTx(p)
                            \/ EndElectionIST(p)
                            \/ CommitResults(p)
    \/ \E a \in Addrs : \/ DelSIK(a)
                        \/ \E k \in SIKs : SetSIK(a, k)
                        \/ \E k \in SIKs, p \in Elections : RegisterSIK(a, k, p)
    \/ SaveBlock
    \/ RollbackBlock
    \/ RestartNode

SikSpec == SikInit /\ [][SikNext]_sikVars

------------------------------------------------------------------------------

\* Every address assigned to an election has a leaf in the SIK tree: the purge
\* at the end of the election, which stops at the first missing leaf
\* (sik.go:366), removes every temporary SIK.
AssignedSIKsExist ==
    \A s \in {open, saved} : \A p \in Elections, a \in Addrs :
        <<p, a>> \in s.assigned => a \in DOMAIN s.tree

\* A root that UpdateSIKRoots stores is accepted by ExpiredSIKRoot in all of
\* the Hysteresis blocks after its own, and in the next, whatever restarts,
\* rollbacks and later roots there are in between (sik.go:23, 214).
NewRootStaysValid ==
    \A r \in added : sikHeight <= r[1] + Hysteresis + 1 => ~ExpiredSIKRoot(r[2])
=============================================================================
