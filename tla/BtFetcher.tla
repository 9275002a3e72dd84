------------------------------ MODULE BtFetcher ------------------------------
(***************************************************************************)
(* The BitTorrent fetcher (internal/protocol/bt: fetcher.go, storage.go)   *)
(* over the one torrent client of the process, which holds at most one     *)
(* torrent of an info hash, for the task that added it. f.mu is held over  *)
(* a whole call of Resolve or Start, through the wait for the metadata and *)
(* the verification of every piece; Close cancels the waits first and      *)
(* takes the mutex then.                                                   *)
(*                                                                         *)
(* A file stands for its pieces. The client, its peers and its storage are *)
(* external: files that the storage finds under their final name count as  *)
(* complete until they are verified.                                       *)
(***************************************************************************)
EXTENDS Naturals, FiniteSets

CONSTANTS
    BtTasks,        \* tasks of one info hash
    BtFiles,        \* its files
    MaxBtCalls,     \* bound: calls of Resolve and Start per task
    MaxBtPatches,   \* bound: changes of the selection
    MaxBtFaults,    \* bound: crashes and damaged files, of each kind
    Nobody

ASSUME BtAssumption ==
    Nobody \notin BtTasks /\ {MaxBtCalls, MaxBtPatches, MaxBtFaults} \subseteq Nat

VARIABLES
    client,      \* the torrent: owner, info, bound, allowed, wanted, claim per file
    metadata,    \* the source is a torrent file, or a peer has sent the metadata
    btTask,      \* the fetchers
    btDisk,      \* per task and file: "none", "part", "good", or "bad" under its final name
    finishedOf,  \* files that finishDownload last took for done
    removedOf,   \* files that finishDownload removed since they were last verified
    btCalls, btPatches, btCrashes, btDamages

btBounds == <<btCalls, btPatches, btCrashes, btDamages>>
btVars == <<client, metadata, btTask, btDisk, finishedOf, removedOf, btBounds>>

NoTorrent == [owner |-> Nobody, info |-> FALSE, bound |-> FALSE, allowed |-> FALSE,
              wanted |-> {}, claim |-> [f \in BtFiles |-> "no"]]

\* A new fetcher: only what the task's record has is known.
BtFresh(selected, resolved) ==
    [ready |-> FALSE, handle |-> FALSE, dropped |-> FALSE, closing |-> "open", call |-> "none",
     unverified |-> {}, upload |-> "off", wait |-> "off",
     selected |-> selected, resolved |-> resolved]

BtTypeOK ==
    /\ client.owner \in BtTasks \cup {Nobody} /\ client.wanted \subseteq BtFiles
    /\ client.claim \in [BtFiles -> {"no", "hashing", "yes"}]
    /\ \A t \in BtTasks :
         /\ btTask[t].closing \in {"open", "closing", "closed"}
         /\ btTask[t].call \in {"none", "resolving", "adding", "verifying"}
         /\ btTask[t].upload \in {"off", "on", "ended"}
         /\ btTask[t].wait \in {"off", "on", "finished", "ended"}
         /\ btTask[t].selected \subseteq BtFiles
         /\ \A f \in BtFiles : btDisk[t][f] \in {"none", "part", "good", "bad"}
         /\ btTask[t].ready => client.owner = t /\ client.info

BtInit ==
    /\ client = NoTorrent
    /\ metadata \in BOOLEAN
    /\ btTask = [t \in BtTasks |-> BtFresh({}, FALSE)]
    /\ btDisk = [t \in BtTasks |-> [f \in BtFiles |-> "none"]]
    /\ finishedOf = [t \in BtTasks |-> {}]
    /\ removedOf = [t \in BtTasks |-> {}]
    /\ btCalls = [t \in BtTasks |-> 0] /\ btPatches = 0 /\ btCrashes = 0 /\ btDamages = 0

MuFree(t) == btTask[t].call = "none"
Counted(t) == btCalls[t] < MaxBtCalls /\ btCalls' = [btCalls EXCEPT ![t] = @ + 1]
AfterDrop(t) == IF client.owner = t THEN NoTorrent ELSE client

-----------------------------------------------------------------------------
(* Adding the torrent: addTorrent, under f.mu *)

\* From the client's point of view: a torrent that is not there, or
\* "torrent is already active".
AddTorrent(t, present, call) ==
    IF present.owner = Nobody
    THEN /\ client' = [NoTorrent EXCEPT !.owner = t, !.info = metadata]
         /\ btTask' = [btTask EXCEPT ![t].call = call, ![t].handle = TRUE, ![t].ready = FALSE]
    ELSE /\ client' = present
         /\ btTask' = [btTask EXCEPT ![t].handle = FALSE, ![t].ready = FALSE]

\* Resolve drops what the fetcher has first. A handler of the task may come here
\* after Close.
BtResolve(t) ==
    /\ MuFree(t) /\ ~btTask[t].resolved
    /\ Counted(t)
    /\ AddTorrent(t, IF btTask[t].handle THEN AfterDrop(t) ELSE client, "resolving")
    /\ UNCHANGED <<metadata, btDisk, finishedOf, removedOf, btPatches, btCrashes, btDamages>>

\* mutant: what the storage infers from names and sizes is published unverified
BindMutated(t, torrent) ==
    /\ client' = [torrent EXCEPT !.bound = TRUE]
    /\ btTask' = [btTask EXCEPT ![t].call = "verifying", ![t].ready = TRUE, ![t].unverified = {}]

\* Start binds the storage to the directory; bound for the first time, every
\* piece is verified before its state is published.
Bind(t, torrent) ==
    /\ client' = [torrent EXCEPT !.bound = TRUE]
    /\ btTask' = [btTask EXCEPT ![t].call = "verifying", ![t].ready = TRUE,
                             ![t].unverified = IF torrent.bound THEN {} ELSE BtFiles]

BtStart(t) ==
    /\ MuFree(t) /\ btTask[t].resolved /\ ~btTask[t].dropped
    /\ Counted(t)
    /\ IF btTask[t].ready THEN Bind(t, client) ELSE AddTorrent(t, client, "adding")
    /\ UNCHANGED <<metadata, btDisk, finishedOf, removedOf, btPatches, btCrashes, btDamages>>

\* A peer has the metadata of a magnet link.
MetadataArrives ==
    /\ client.owner # Nobody /\ ~client.info
    /\ client' = [client EXCEPT !.info = TRUE]
    /\ UNCHANGED <<metadata, btTask, btDisk, finishedOf, removedOf, btBounds>>

\* The select of addTorrent takes GotInfo, also when the context is over as well.
\* Resolve ends with updateRes, which selects all files where none is selected.
GotInfo(t) ==
    /\ client.owner = t /\ client.info
    /\ \/ /\ btTask[t].call = "resolving"
          /\ btTask' = [btTask EXCEPT ![t].call = "none", ![t].ready = TRUE, ![t].resolved = TRUE,
                                   ![t].selected = IF @ = {} THEN BtFiles ELSE @]
          /\ UNCHANGED client
       \/ /\ btTask[t].call = "adding"
          /\ Bind(t, client)
    /\ UNCHANGED <<metadata, btDisk, finishedOf, removedOf, btBounds>>

\* mutant: the wait for the metadata does not look at the fetcher's context
WaitCutMutated(t) == FALSE

\* ... or takes the context: the torrent goes.
WaitCut(t) ==
    /\ btTask[t].call \in {"resolving", "adding"} /\ btTask[t].dropped
    /\ client' = AfterDrop(t)
    /\ btTask' = [btTask EXCEPT ![t].call = "none"]
    /\ UNCHANGED <<metadata, btDisk, finishedOf, removedOf, btBounds>>

\* VerifyDataContext of the next piece; a piece that fails loses its final name.
Verify(t) ==
    /\ btTask[t].call = "verifying" /\ ~btTask[t].dropped
    /\ \E f \in btTask[t].unverified :
         /\ client' = [client EXCEPT !.claim[f] = IF btDisk[t][f] = "good" THEN "yes" ELSE "no"]
         /\ btDisk' = [btDisk EXCEPT ![t][f] = IF @ = "bad" THEN "part" ELSE @]
         /\ removedOf' = [removedOf EXCEPT ![t] = @ \ {f}]
         /\ btTask' = [btTask EXCEPT ![t].unverified = @ \ {f}]
    /\ UNCHANGED <<metadata, finishedOf, btBounds>>

VerifyCut(t) ==
    /\ btTask[t].call = "verifying" /\ btTask[t].dropped /\ btTask[t].unverified # {}
    /\ btTask' = [btTask EXCEPT ![t].call = "none", ![t].unverified = {}]
    /\ UNCHANGED <<client, metadata, btDisk, finishedOf, removedOf, btBounds>>

\* The rest of Start: the completion is published where the storage was bound
\* just now (a piece that was verified has no other), the selection is applied,
\* the data may flow, and the upload goroutine runs, once per fetcher.
StartEnds(t) ==
    /\ btTask[t].call = "verifying" /\ btTask[t].unverified = {}
    /\ client' = [client EXCEPT !.allowed = TRUE, !.wanted = @ \cup btTask[t].selected,
                                !.claim = [f \in BtFiles |->
                                   IF btDisk[t][f] \in {"good", "bad"} THEN "yes" ELSE client.claim[f]]]
    /\ btTask' = [btTask EXCEPT ![t].call = "none",
                             ![t].upload = IF @ = "off" THEN "on" ELSE @]
    /\ UNCHANGED <<metadata, btDisk, finishedOf, removedOf, btBounds>>

-----------------------------------------------------------------------------
(* The other calls *)

BtPause(t) ==
    /\ MuFree(t) /\ client.owner = t /\ client.allowed
    /\ client' = [client EXCEPT !.allowed = FALSE]
    /\ UNCHANGED <<metadata, btTask, btDisk, finishedOf, removedOf, btBounds>>

\* Indices that are no files are dropped; without metadata none is one.
BtPatch(t, files) ==
    /\ MuFree(t) /\ btPatches < MaxBtPatches /\ (btTask[t].resolved \/ files = {})
    /\ btPatches' = btPatches + 1
    /\ btTask' = [btTask EXCEPT ![t].selected = files]
    /\ client' = IF client.owner = t THEN [client EXCEPT !.wanted = files] ELSE client
    /\ UNCHANGED <<metadata, btDisk, finishedOf, removedOf, btCalls, btCrashes, btDamages>>

\* Close: the context first, under closeOnce. A user deletes the task, or the
\* goroutine of doUpload has seen its limit reached.
UploadLimit(t) ==
    /\ btTask[t].upload = "on" /\ MuFree(t) /\ btTask[t].ready
    /\ \A f \in btTask[t].selected : client.claim[f] = "yes"

BtClose(t) ==
    /\ btTask[t].closing = "open"
    /\ \/ btTask' = [btTask EXCEPT ![t].closing = "closing", ![t].dropped = TRUE]
       \/ /\ UploadLimit(t)
          /\ btTask' = [btTask EXCEPT ![t].closing = "closing", ![t].dropped = TRUE,
                                      ![t].upload = "ended"]
    /\ UNCHANGED <<client, metadata, btDisk, finishedOf, removedOf, btBounds>>

\* mutant: Close does not wait for the call that holds the mutex
BtCloseDropsMutated(t) ==
    /\ btTask[t].closing = "closing"
    /\ client' = IF MuFree(t) THEN AfterDrop(t) ELSE client
    /\ btTask' = [btTask EXCEPT ![t].closing = "closed", ![t].ready = FALSE]
    /\ UNCHANGED <<metadata, btDisk, finishedOf, removedOf, btBounds>>

BtCloseDrops(t) ==
    /\ btTask[t].closing = "closing" /\ MuFree(t)
    /\ client' = AfterDrop(t)
    /\ btTask' = [btTask EXCEPT ![t].closing = "closed", ![t].ready = FALSE]
    /\ UNCHANGED <<metadata, btDisk, finishedOf, removedOf, btBounds>>

UploadEnds(t) ==
    /\ btTask[t].upload = "on" /\ btTask[t].dropped
    /\ btTask' = [btTask EXCEPT ![t].upload = "ended"]
    /\ UNCHANGED <<client, metadata, btDisk, finishedOf, removedOf, btBounds>>

\* A watcher waits for a task that was started.
BtWait(t) ==
    /\ MuFree(t) /\ btTask[t].wait # "on" /\ btTask[t].ready /\ client.bound
    /\ btTask' = [btTask EXCEPT ![t].wait = "on"]
    /\ UNCHANGED <<client, metadata, btDisk, finishedOf, removedOf, btBounds>>

\* isDoneLocked over the selection that finishDownload has found not empty.
IsDone(t) ==
    /\ btTask[t].ready /\ btTask[t].selected # {}
    /\ \A f \in btTask[t].selected : client.claim[f] = "yes"

\* finishDownload, under f.mu: the files that were not selected go; the removal
\* of one may fail, and Wait returns the error.
FinishDownload(t) ==
    LET others == BtFiles \ btTask[t].selected IN
    /\ btTask[t].wait = "on" /\ MuFree(t) /\ IsDone(t)
    /\ \E gone \in SUBSET others :
         /\ btDisk' = [btDisk EXCEPT ![t] = [f \in BtFiles |-> IF f \in gone THEN "none" ELSE @[f]]]
         /\ removedOf' = [removedOf EXCEPT ![t] = @ \cup gone]
         /\ \/ /\ gone = others
               /\ finishedOf' = [finishedOf EXCEPT ![t] = btTask[t].selected]
               /\ btTask' = [btTask EXCEPT ![t].wait = "finished"]
            \/ /\ gone # others
               /\ btTask' = [btTask EXCEPT ![t].wait = "ended"]
               /\ UNCHANGED finishedOf
    /\ UNCHANGED <<client, metadata, btBounds>>

WaitDropped(t) ==
    /\ btTask[t].wait = "on" /\ btTask[t].dropped
    /\ btTask' = [btTask EXCEPT ![t].wait = "ended"]
    /\ UNCHANGED <<client, metadata, btDisk, finishedOf, removedOf, btBounds>>

-----------------------------------------------------------------------------
(* The client, the directory, the process *)

PieceArrives(f) ==
    /\ client.bound /\ client.allowed /\ f \in client.wanted /\ client.claim[f] = "no"
    /\ client' = [client EXCEPT !.claim[f] = "hashing"]
    /\ btDisk' = [btDisk EXCEPT ![client.owner][f] = "part"]
    /\ UNCHANGED <<metadata, btTask, finishedOf, removedOf, btBounds>>

PieceHashed(f) ==
    /\ client.claim[f] = "hashing"
    /\ \/ /\ client' = [client EXCEPT !.claim[f] = "yes"]
          /\ btDisk' = [btDisk EXCEPT ![client.owner][f] = "good"]
          /\ removedOf' = [removedOf EXCEPT ![client.owner] = @ \ {f}]
       \/ /\ client' = [client EXCEPT !.claim[f] = "no"]
          /\ UNCHANGED <<btDisk, removedOf>>
    /\ UNCHANGED <<metadata, btTask, finishedOf, btBounds>>

\* A file under its final name that is not what the torrent says, while no
\* fetcher has the torrent.
Damage(t, f) ==
    /\ btDamages < MaxBtFaults /\ client.owner # t /\ btTask[t].wait # "finished"
    /\ btDamages' = btDamages + 1
    /\ btDisk' = [btDisk EXCEPT ![t][f] = "bad"]
    /\ UNCHANGED <<client, metadata, btTask, finishedOf, removedOf, btCalls, btPatches, btCrashes>>

\* The metadata of a magnet link is not stored: it comes from a peer again.
BtCrash ==
    /\ btCrashes < MaxBtFaults
    /\ btCrashes' = btCrashes + 1
    /\ client' = NoTorrent
    /\ btTask' = [t \in BtTasks |-> BtFresh(btTask[t].selected, btTask[t].resolved)]
    /\ finishedOf' = [t \in BtTasks |-> {}]
    /\ UNCHANGED <<metadata, btDisk, removedOf, btCalls, btPatches, btDamages>>

BtCallMoves(t) == GotInfo(t) \/ WaitCut(t) \/ Verify(t) \/ VerifyCut(t) \/ StartEnds(t)

BtNext ==
    \/ \E t \in BtTasks :
         \/ BtResolve(t) \/ BtStart(t) \/ BtPause(t) \/ (\E files \in SUBSET BtFiles : BtPatch(t, files))
         \/ BtCallMoves(t)
         \/ BtClose(t) \/ BtCloseDrops(t) \/ UploadEnds(t)
         \/ BtWait(t) \/ FinishDownload(t) \/ WaitDropped(t)
         \/ \E f \in BtFiles : Damage(t, f)
    \/ MetadataArrives \/ BtCrash
    \/ \E f \in BtFiles : PieceArrives(f) \/ PieceHashed(f)

\* Goroutines that can go on do; no peer is taken to answer.
BtFairness ==
    \A t \in BtTasks : /\ WF_btVars(BtCallMoves(t))
                       /\ SF_btVars(BtCloseDrops(t))
                       /\ WF_btVars(WaitDropped(t))

BtSpec == BtInit /\ [][BtNext]_btVars /\ BtFairness

-----------------------------------------------------------------------------
(* Properties *)

\* A task that finishDownload called done has every file it was selected for,
\* as the torrent describes it, on disk: through damage between two runs,
\* crashes, new selections, pauses and pieces that fail their hash. Files that
\* an earlier cleanup removed are not verified again by a new selection, which
\* the property leaves out.
BtDoneVerified ==
    \A t \in BtTasks : btTask[t].wait = "finished" =>
        \A f \in finishedOf[t] \ removedOf[t] : btDisk[t][f] = "good"

\* Once Close has returned no data flows for the task, although a handler that
\* was on its way may still have added the torrent.
BtClosedNeverDownloads ==
    \A t \in BtTasks : btTask[t].closing = "closed" /\ client.owner = t => ~client.allowed

\* Close comes back, also while Resolve or Start holds the mutex and waits for
\* metadata that nobody has, and takes the task's watcher with it.
BtCloseReturns ==
    \A t \in BtTasks :
        btTask[t].closing = "closing" ~> btTask[t].closing # "closing" /\ btTask[t].wait # "on"
=============================================================================
