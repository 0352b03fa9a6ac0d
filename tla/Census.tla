------------------------------- MODULE Census -------------------------------
(***************************************************************************)
(* The census database of a gateway (package censusdb over censustree) and *)
(* the API handlers that create, fill, publish, import and delete          *)
(* censuses.  A handler holds the lock of the database from Load to        *)
(* UnLoad, so each is one action; the goroutine of an asynchronous         *)
(* publication runs outside the lock, one step at a time.                  *)
(*                                                                         *)
(* A tree is the set of its participants, which is also its root: hashing  *)
(* is taken to be injective.  Every participant has weight 1.              *)
(***************************************************************************)
EXTENDS Naturals, FiniteSets

CONSTANTS
    Private,     \* identifiers a client is given when it creates a census
    People,      \* participants
    NoURI,       \* the empty URI: nothing was stored
    Error,       \* the "error: ..." answer of the status map
    MaxImports,  \* bound on the imports of a dump
    MaxPublications, \* bound on the censuses published
    MaxCrashes   \* bound on the crashes of the gateway

VARIABLES
    refs,      \* identifier |-> [locked, uri]: the stored references
    trees,     \* identifier |-> [leaves, weight]: the stored trees
    status,    \* censusPublishStatusMap, in memory: root |-> URI or error
    jobs,      \* asynchronous publications under way
    removing,  \* trees whose removal was handed to a goroutine
    ipfs,      \* published dumps [root, data], which are also their URIs
    vouched,   \* roots published or imported undisturbed, see Undisturbed
    imports, publications, crashes

censusVars == <<refs, trees, status, jobs, removing, ipfs, vouched, imports, publications, crashes>>

(* A published census is identified by its root. *)
Public(root) == <<"public", root>>
Own(c) == <<"private", c>>

Put(f, k, v) == [x \in DOMAIN f \cup {k} |-> IF x = k THEN v ELSE f[x]]
Drop(f, k) == [x \in DOMAIN f \ {k} |-> f[x]]

Fresh == [leaves |-> {}, weight |-> 0]
Dump(root, data) == [root |-> root, data |-> data]

(* Exists looks for the reference, not for the tree. *)
Exists(id) == id \in DOMAIN refs

(* censustree.New opens the tree of that name, or creates an empty one. *)
Opened(ts, id) == IF id \in DOMAIN ts THEN ts ELSE Put(ts, id, Fresh)

(* Load with a token: a census stored without one is locked. *)
LoadForUpdate(id) == Exists(id) /\ ~refs[id].locked

(* Tree.AddBatch: keys the tree holds already are left out. *)
AddBatch(t, keys) ==
    [leaves |-> t.leaves \cup keys, weight |-> t.weight + Cardinality(keys \ t.leaves)]

(* Tree.ImportDump adds the leaves of the dump, then the weight of all the  *)
(* leaves the tree has by then.                                             *)
ImportDump(t, data) ==
    [leaves |-> t.leaves \cup data,
     weight |-> t.weight + Cardinality(t.leaves \cup data)]

(* CensusDB.New and the import of a dump into the census it made. *)
NewRefs(id, locked, uri) == Put(refs, id, [locked |-> locked, uri |-> uri])
Filled(id, data) ==
    LET ts == Opened(trees, id) IN [ts EXCEPT ![id] = ImportDump(@, data)]

(* A root that no goroutine is about to publish, and whose place in the     *)
(* database holds nothing left over from an earlier attempt.                *)
Undisturbed(root) ==
    /\ ~\E j \in jobs : j.root = root
    /\ Public(root) \notin removing
    /\ Opened(trees, Public(root))[Public(root)] = Fresh
Vouch(root) == vouched' = IF Undisturbed(root) THEN vouched \cup {root} ELSE vouched

---------------------------------------------------------------------------
(* Handlers. *)

(* censusCreateHandler: identifiers are random, never used before. *)
CensusCreate(c) ==
    /\ Own(c) \notin DOMAIN refs \cup DOMAIN trees \cup removing
    /\ refs' = NewRefs(Own(c), FALSE, NoURI)
    /\ trees' = Opened(trees, Own(c))
    /\ UNCHANGED <<status, jobs, removing, ipfs, vouched, imports, publications, crashes>>

(* censusAddHandler *)
CensusAdd(id, keys) ==
    /\ LoadForUpdate(id) /\ keys # {}
    /\ trees' = [Opened(trees, id) EXCEPT ![id] = AddBatch(@, keys)]
    /\ UNCHANGED <<refs, status, jobs, removing, ipfs, vouched, imports, publications, crashes>>

(* censusImportHandler: the leaves stay when the root does not match the    *)
(* one the dump announced.                                                  *)
CensusImport(id, d) ==
    /\ LoadForUpdate(id) /\ imports < MaxImports
    /\ trees' = [Opened(trees, id) EXCEPT ![id] = ImportDump(@, d.data)]
    /\ imports' = imports + 1
    /\ UNCHANGED <<refs, status, jobs, removing, ipfs, vouched, publications, crashes>>

(* censusDeleteHandler and Del: the reference goes now, the tree later. *)
CensusDelete(id) ==
    /\ LoadForUpdate(id)
    /\ refs' = Drop(refs, id)
    /\ removing' = removing \cup {id}
    /\ UNCHANGED <<trees, status, jobs, ipfs, vouched, imports, publications, crashes>>

(* The goroutine of Del: DeleteCensusTreeFromDatabase. *)
DeleteCensusTree(id) ==
    /\ id \in removing
    /\ trees' = Drop(trees, id)
    /\ removing' = removing \ {id}
    /\ UNCHANGED <<refs, status, jobs, ipfs, vouched, imports, publications, crashes>>

(* The storage accepts the dump, or it is missing or fails and the URI is   *)
(* left empty.                                                              *)
Stored(d, uri) ==
    \/ uri = d /\ ipfs' = ipfs \cup {d}
    \/ uri = NoURI /\ ipfs' = ipfs

(* censusPublishHandler where the census of that root exists already. *)
PublishKnown(id, async) ==
    /\ LoadForUpdate(id)
    /\ LET root == Opened(trees, id)[id].leaves
       IN /\ Exists(Public(root))
          /\ status' = IF async THEN Put(status, root, refs[Public(root)].uri) ELSE status
          /\ trees' = Opened(Opened(trees, id), Public(root))
    /\ UNCHANGED <<refs, jobs, removing, ipfs, vouched, imports, publications, crashes>>

Publishing == publications < MaxPublications /\ publications' = publications + 1

(* censusPublishHandler, synchronous: all of publishCensus under the lock.  *)
PublishSync(id) ==
    /\ LoadForUpdate(id) /\ Publishing
    /\ LET root == Opened(trees, id)[id].leaves
       IN /\ ~Exists(Public(root))
          /\ \E uri \in {NoURI, Dump(root, root)} :
               /\ Stored(Dump(root, root), uri)
               /\ refs' = NewRefs(Public(root), TRUE, uri)
          /\ trees' = [Opened(Opened(trees, id), Public(root))
                         EXCEPT ![Public(root)] = ImportDump(@, root)]
          /\ Vouch(root)
    /\ UNCHANGED <<status, jobs, removing, imports, crashes>>

(* censusPublishHandler, asynchronous: the goroutine is started.  When the  *)
(* request names a root the tree is pinned to it.                           *)
PublishAsync(id, pinned) ==
    /\ LoadForUpdate(id) /\ Publishing
    /\ LET root == Opened(trees, id)[id].leaves
       IN /\ ~Exists(Public(root))
          /\ status' = Put(status, root, NoURI)
          /\ jobs' = jobs \cup {[of |-> id, root |-> root, pinned |-> pinned,
                                 step |-> "dump", data |-> {}, uri |-> NoURI]}
    /\ trees' = Opened(trees, id)
    /\ UNCHANGED <<refs, removing, ipfs, vouched, imports, crashes>>

(* publishCensus in the goroutine.  The tree is dumped as it is now; the    *)
(* nodes of a pinned root are gone when the tree has moved on.              *)
JobDump(j) ==
    /\ j.step = "dump"
    /\ LET data == IF j.of \in DOMAIN trees THEN trees[j.of].leaves ELSE {}
       IN IF j.pinned /\ data # j.root
          THEN /\ jobs' = jobs \ {j}
               /\ status' = Put(status, j.root, Error)
               /\ ipfs' = ipfs
          ELSE /\ \E uri \in {NoURI, Dump(j.root, data)} :
                    /\ Stored(Dump(j.root, data), uri)
                    /\ jobs' = (jobs \ {j}) \cup {[j EXCEPT !.step = "new", !.data = data, !.uri = uri]}
               /\ status' = status
    /\ UNCHANGED <<refs, trees, removing, vouched, imports, publications, crashes>>

(* CensusDB.New: the check, then the tree and the reference. *)
JobNew(j) ==
    /\ j.step = "new"
    /\ IF Exists(Public(j.root))
       THEN /\ jobs' = jobs \ {j}
            /\ status' = Put(status, j.root, Error)
            /\ trees' = trees
       ELSE /\ jobs' = (jobs \ {j}) \cup {[j EXCEPT !.step = "ref"]}
            /\ trees' = Opened(trees, Public(j.root))
            /\ status' = status
    /\ UNCHANGED <<refs, removing, ipfs, vouched, imports, publications, crashes>>

JobRef(j) ==
    /\ j.step = "ref"
    /\ refs' = NewRefs(Public(j.root), TRUE, j.uri)
    /\ jobs' = (jobs \ {j}) \cup {[j EXCEPT !.step = "import"]}
    /\ UNCHANGED <<trees, status, removing, ipfs, vouched, imports, publications, crashes>>

JobImport(j) ==
    /\ j.step = "import"
    /\ trees' = Filled(Public(j.root), j.data)
    /\ status' = Put(status, j.root, j.uri)
    /\ jobs' = jobs \ {j}
    /\ UNCHANGED <<refs, removing, ipfs, vouched, imports, publications, crashes>>

(* censusPublishCheckHandler: an URI is given out once. *)
PublishCheck(root) ==
    /\ root \in DOMAIN status /\ status[root] \notin {NoURI, Error}
    /\ status' = Drop(status, root)
    /\ UNCHANGED <<refs, trees, jobs, removing, ipfs, vouched, imports, publications, crashes>>

(* importTreeCommon for a public census: it stays only when the tree has    *)
(* the root the dump announced.                                             *)
RootMatches_Trusted(d, t) == TRUE
RootMatches(d, t) == t.leaves = d.root

ImportTreeAsPublic(d) ==
    /\ imports < MaxImports /\ imports' = imports + 1
    /\ ~Exists(Public(d.root))
    /\ trees' = Filled(Public(d.root), d.data)
    /\ IF RootMatches(d, trees'[Public(d.root)])
       THEN /\ refs' = NewRefs(Public(d.root), TRUE, d)
            /\ Vouch(d.root)
            /\ removing' = removing
       ELSE /\ refs' = refs /\ vouched' = vouched
            /\ removing' = removing \cup {Public(d.root)}
    /\ UNCHANGED <<status, jobs, ipfs, publications, crashes>>

(* The gateway stops and starts: what was in memory is gone, and so are the *)
(* goroutines.  A publication cut short leaves an empty public census.      *)
Crash ==
    /\ crashes < MaxCrashes /\ crashes' = crashes + 1
    /\ status' = <<>> /\ jobs' = {} /\ removing' = {}
    /\ UNCHANGED <<refs, trees, ipfs, vouched, imports, publications>>

---------------------------------------------------------------------------
CensusInit ==
    /\ refs = <<>> /\ trees = <<>> /\ status = <<>>
    /\ jobs = {} /\ removing = {} /\ ipfs = {} /\ vouched = {}
    /\ imports = 0 /\ publications = 0 /\ crashes = 0

CensusNext ==
    \/ \E c \in Private : CensusCreate(c)
    \/ \E id \in DOMAIN refs, keys \in SUBSET People : CensusAdd(id, keys)
    \/ \E id \in DOMAIN refs, d \in ipfs : CensusImport(id, d)
    \/ \E id \in DOMAIN refs : CensusDelete(id)
    \/ \E id \in removing : DeleteCensusTree(id)
    \/ \E id \in DOMAIN refs, async \in BOOLEAN : PublishKnown(id, async)
    \/ \E id \in DOMAIN refs : PublishSync(id)
    \/ \E id \in DOMAIN refs, pinned \in BOOLEAN : PublishAsync(id, pinned)
    \/ \E j \in jobs : JobDump(j)
    \/ \E j \in jobs : JobNew(j)
    \/ \E j \in jobs : JobRef(j)
    \/ \E j \in jobs : JobImport(j)
    \/ \E root \in DOMAIN status : PublishCheck(root)
    \/ \E d \in ipfs : ImportTreeAsPublic(d)
    \/ Crash

CensusSpec == CensusInit /\ [][CensusNext]_censusVars

---------------------------------------------------------------------------
(* What the reading handlers answer for a stored census. *)
Loaded(id) == Opened(trees, id)[id]
CensusRoot(id) == Loaded(id).leaves
CensusWeight(id) == Loaded(id).weight
CensusSize(id) == Cardinality(Loaded(id).leaves)
CensusProof(id, key) == key \in Loaded(id).leaves

(* A census that a synchronous request published, or that was imported as   *)
(* public, answers for good with the root it is named after, with the       *)
(* weight and size of that root and with proofs for exactly its             *)
(* participants; whatever is added, published asynchronously, imported,     *)
(* deleted or lost in a crash meanwhile.                                    *)
PublishedCensusIsItsRoot ==
    \A root \in vouched :
        LET id == Public(root)
        IN /\ Exists(id)
           /\ CensusRoot(id) = root
           /\ CensusWeight(id) = Cardinality(root) /\ CensusSize(id) = Cardinality(root)
           /\ \A key \in People : CensusProof(id, key) <=> key \in root
=============================================================================
