------------------------------- MODULE OffChain -------------------------------
(***************************************************************************)
(* The off-chain data handler and the downloader behind it.  The handler   *)
(* listens to the state and queues the URIs of censuses and metadata; when *)
(* a block is committed a goroutine per URI writes it to the bounded       *)
(* channel of the downloader, whose daemons fetch it from IPFS.  A         *)
(* timeout puts the URI in the failed queue, which another daemon retries  *)
(* from a copy; any other error gives the URI up.                          *)
(***************************************************************************)
EXTENDS Naturals, Sequences, FiniteSets

CONSTANTS
    URIs,            \* URIs with the prefix of the storage
    Missing,         \* those IPFS answers for with an error other than a timeout
    ImportQueueBuffer,
    ImportQueueRoutines,
    MaxDlRestarts    \* bound on the restarts of the node

VARIABLES
    importOnlyNew, \* the option SkipPreviousOffchainData
    oBlock,    \* whether a block is executed
    oSynced,   \* OffChainDataHandler.isSynced
    oQueue,    \* OffChainDataHandler.queue
    onChain,   \* URIs of the saved state
    enqueuers, \* goroutines in AddToQueue
    channel,   \* Downloader.importQueue
    fetching,  \* URIs the daemons are fetching
    failed,    \* failedQueue
    retrying,  \* what is left of the copy of failedQueue
    cached,    \* IPFS files in the local cache
    callbacks, \* callbacks started for fetched files
    expected,  \* URIs committed in this run of the node, to be fetched
    imported,  \* files their callback has processed
    dlRestarts

dlVars == <<importOnlyNew, oBlock, oSynced, oQueue, onChain, enqueuers, channel, fetching, failed, retrying,
            cached, callbacks, expected, imported, dlRestarts>>
handlerVars == <<importOnlyNew, oBlock, oSynced, oQueue, onChain, expected, dlRestarts>>

DlInit ==
    /\ importOnlyNew \in BOOLEAN
    /\ oBlock = FALSE /\ oSynced = FALSE
    /\ oQueue = {} /\ onChain \in SUBSET URIs
    /\ enqueuers = {} /\ channel = <<>> /\ fetching = {}
    /\ failed = {} /\ retrying = {} /\ cached = {}
    /\ callbacks = {} /\ expected = {} /\ imported = {}
    /\ dlRestarts = 0

downloaderVars == <<enqueuers, channel, fetching, failed, retrying, cached, callbacks, imported>>

\* Rollback at the start of a block; IsSynced may turn true.
ORollback ==
    /\ oBlock' = TRUE
    /\ oQueue' = {}
    /\ oSynced' \in {oSynced, TRUE}
    /\ UNCHANGED <<importOnlyNew, onChain, expected, dlRestarts, downloaderVars>>

Ignored == importOnlyNew /\ ~oSynced

\* OnProcess, OnCensusUpdate, OnProcessMetadataChange and OnSetAccount.
OnURI(u) ==
    /\ oBlock /\ u \notin oQueue
    /\ ~Ignored
    /\ oQueue' = oQueue \cup {u}
    /\ UNCHANGED <<importOnlyNew, oBlock, oSynced, onChain, expected, dlRestarts, downloaderVars>>

\* Commit leaves the queue to the next Rollback.
OCommit ==
    /\ oBlock
    /\ oBlock' = FALSE
    /\ onChain' = onChain \cup oQueue
    /\ expected' = expected \cup oQueue
    /\ enqueuers' = enqueuers \cup oQueue
    /\ UNCHANGED <<importOnlyNew, oSynced, oQueue, dlRestarts, channel, fetching, failed, retrying, cached,
                   callbacks, imported>>

\* After a state sync the handlers are called for the whole restored state,
\* followed by Commit.
ImportOffChainData ==
    /\ ~oBlock /\ ~oSynced /\ ~Ignored
    /\ oQueue' = oQueue \cup onChain
    /\ expected' = expected \cup oQueue'
    /\ enqueuers' = enqueuers \cup oQueue'
    /\ UNCHANGED <<importOnlyNew, oBlock, oSynced, onChain, dlRestarts, channel, fetching, failed, retrying,
                   cached, callbacks, imported>>

\* AddToQueue blocks while the channel is full.
AddToQueue(u) ==
    /\ u \in enqueuers
    /\ Len(channel) < ImportQueueBuffer
    /\ channel' = Append(channel, u)
    /\ enqueuers' = enqueuers \ {u}
    /\ UNCHANGED <<handlerVars, fetching, failed, retrying, cached, callbacks, imported>>

\* A free daemon of importQueueDaemon takes the next item.
ImportQueueDaemon ==
    /\ channel # <<>>
    /\ Cardinality(fetching) < ImportQueueRoutines
    /\ fetching' = fetching \cup {Head(channel)}
    /\ channel' = Tail(channel)
    /\ UNCHANGED <<handlerVars, enqueuers, failed, retrying, cached, callbacks, imported>>

\* Retrieve: the cache answers first; a file may time out any number of times.
Retrieve(u) ==
    IF u \in cached THEN {"ok"}
    ELSE {"timeout"} \cup {IF u \in Missing THEN "error" ELSE "ok"}

\* A retrieved file is cached, pinned and passed to the callback, in a goroutine.
Fetched(u, r) ==
    /\ cached' = IF r = "ok" THEN cached \cup {u} ELSE cached
    /\ callbacks' = IF r = "ok" THEN callbacks \cup {u} ELSE callbacks

\* Faulty: forgets a file that timed out.
FailedAfter_Forgets(u, r) == failed

FailedAfter(u, r) == IF r = "timeout" THEN failed \cup {u} ELSE failed

HandleImport(u, r) ==
    /\ u \in fetching /\ r \in Retrieve(u)
    /\ fetching' = fetching \ {u}
    /\ failed' = FailedAfter(u, r)
    /\ Fetched(u, r)
    /\ UNCHANGED <<handlerVars, enqueuers, channel, retrying, imported>>

\* importFailedQueueDaemon: every second a copy of failedQueue is worked through.
ImportFailedQueue ==
    /\ retrying = {} /\ failed # {}
    /\ retrying' = failed
    /\ UNCHANGED <<handlerVars, enqueuers, channel, fetching, failed, cached, callbacks, imported>>

HandleImportFailedQueue(u, r) ==
    /\ u \in retrying /\ r \in Retrieve(u)
    /\ retrying' = retrying \ {u}
    /\ failed' = IF r = "timeout" THEN failed ELSE failed \ {u}
    /\ Fetched(u, r)
    /\ UNCHANGED <<handlerVars, enqueuers, channel, fetching, imported>>

\* importExternalCensus, or the log line for metadata.
Callback(u) ==
    /\ u \in callbacks
    /\ callbacks' = callbacks \ {u}
    /\ imported' = imported \cup {u}
    /\ UNCHANGED <<handlerVars, enqueuers, channel, fetching, failed, retrying, cached>>

\* Everything but the state, the pins and the imported files is in memory.
DlRestart ==
    /\ dlRestarts < MaxDlRestarts
    /\ dlRestarts' = dlRestarts + 1
    /\ oBlock' = FALSE /\ oSynced' = FALSE
    /\ oQueue' = {} /\ enqueuers' = {} /\ channel' = <<>> /\ fetching' = {}
    /\ failed' = {} /\ retrying' = {} /\ cached' = {} /\ callbacks' = {}
    /\ expected' = {}
    /\ UNCHANGED <<importOnlyNew, onChain, imported>>

Outcomes == {"ok", "timeout", "error"}

DlNext ==
    \/ ORollback
    \/ OCommit
    \/ ImportOffChainData
    \/ ImportQueueDaemon
    \/ ImportFailedQueue
    \/ DlRestart
    \/ \E u \in URIs : OnURI(u) \/ AddToQueue(u) \/ Callback(u)
    \/ \E u \in URIs, r \in Outcomes : HandleImport(u, r) \/ HandleImportFailedQueue(u, r)

\* Goroutines are scheduled; a blocked sender gets the room others leave (the
\* channel serves them in order); Retrieve returns, by its timeout at the latest,
\* and a file some peer has is retrieved by one of infinitely many attempts.
DlFairness ==
    /\ WF_dlVars(ImportQueueDaemon) /\ WF_dlVars(ImportFailedQueue)
    /\ \A u \in URIs :
        /\ SF_dlVars(AddToQueue(u)) /\ WF_dlVars(Callback(u))
        /\ WF_dlVars(\E r \in Outcomes : HandleImport(u, r))
        /\ WF_dlVars(\E r \in Outcomes : HandleImportFailedQueue(u, r))
        /\ SF_dlVars(HandleImportFailedQueue(u, "ok"))

DlSpec == DlInit /\ [][DlNext]_dlVars /\ DlFairness

\* Again and again a moment comes at which every file that a committed block
\* refers to and that some peer has is imported, unless the node restarted since:
\* no full channel, no timeout and no interleaving of the two daemons loses one.
CommittedFilesImported == []<>(expected \ Missing \subseteq imported)

=============================================================================
