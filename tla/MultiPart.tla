------------------------------ MODULE MultiPart ------------------------------
(***************************************************************************)
(* Extraction of an archive whose parts are separate tasks                 *)
(* (pkg/download/downloader.go 2688-3056, extract.go), composed with the   *)
(* queue that executes it. Each task's watcher goroutine asks, after the   *)
(* completion, whether all parts are there; the one that finds them claims *)
(* the archive and enqueues the job; the queue's worker extracts, tells    *)
(* the other tasks and releases the claim.                                 *)
(*                                                                         *)
(* The queue is the global one: started once, never stopped, so its Start  *)
(* and Stop take no part here.                                             *)
(***************************************************************************)
EXTENDS ExtractQueue

CONSTANTS
    Parts,          \* the tasks, in the order of their part numbers (a sequence)
    FirstRar,       \* the task of x.rar in the old RAR style, or NoPart
    NoPart,
    DeleteAfter,    \* opts.DeleteAfterExtract
    MaxDeletes      \* bound: API deletions

Tasks == ToSet(Parts)

ASSUME PartsAssumption ==
    /\ IsInjective(Parts) /\ Jobs = Tasks
    /\ NoPart \notin Tasks /\ FirstRar \in Tasks \cup {NoPart}
    /\ DeleteAfter \in BOOLEAN /\ MaxDeletes \in Nat

VARIABLES
    part,           \* per task: "absent", "listed" (in d.tasks), "done", "deleted"
    onDisk,         \* tasks whose file exists
    ext,            \* Progress.ExtractStatus
    grouped,        \* tasks whose Progress.MultiPartBaseName is set
    claims,         \* keys of d.claimedExtractions
    watcher,        \* per task: place of its watch goroutine after the completion
    kind,           \* kind of the job that the task created
    stage,          \* place of the worker in the job it executes
    jobKey,         \* performMultiPartExtraction's fullBaseName
    result,         \* "ok" or "error" of the extraction under way
    attempt,        \* history: "early" while a claim is the last one made and a part was not
                    \* complete then, "missed" once another part was turned away by it, "whole"
                    \* once an extraction has begun with all parts complete, or succeeded
    deletes

partVars == <<part, onDisk, ext, grouped, claims, watcher, kind, stage, jobKey,
              result, attempt, deletes>>
multiVars == <<queueVars, partVars>>

ExtStatus == {"", "queued", "waitingParts", "extracting", "done", "error"}
WatcherAt == {"transfer", "info", "check", "claim", "wait", "handled", "enqueue", "end"}
Keys == {"base", "none"}

MultiTypeOK ==
    /\ QueueTypeOK
    /\ part \in [Tasks -> {"absent", "listed", "done", "deleted"}]
    /\ onDisk \in SUBSET Tasks /\ grouped \in SUBSET Tasks
    /\ ext \in [Tasks -> ExtStatus]
    /\ claims \in SUBSET Keys
    /\ watcher \in [Tasks -> WatcherAt]
    /\ kind \in [Tasks -> {"none", "single", "multi"}]
    /\ stage \in {"idle", "extract", "result", "update", "release", "close"}
    /\ jobKey \in Keys /\ result \in {"ok", "error"}
    /\ attempt \in {"none", "early", "missed", "whole"}
    /\ deletes \in 0..MaxDeletes

PartsInit ==
    /\ part = [t \in Tasks |-> "absent"]
    /\ onDisk = {} /\ grouped = {} /\ claims = {}
    /\ ext = [t \in Tasks |-> ""]
    /\ watcher = [t \in Tasks |-> "transfer"]
    /\ kind = [t \in Tasks |-> "none"]
    /\ stage = "idle" /\ jobKey = "none" /\ result = "ok" /\ attempt = "none"
    /\ deletes = 0

\* The queue as GetExtractionQueue leaves it, its worker begun.
QueueStarted ==
    /\ jobs = <<>> /\ running = TRUE /\ shutdown = FALSE /\ worker = "awake"
    /\ leaving = 0 /\ stopping = 0 /\ blockedStops = 0
    /\ outcome = [t \in Tasks |-> "new"]

MultiInit == QueueStarted /\ PartsInit

-----------------------------------------------------------------------------
(* What the names of the files tell *)

\* getArchivePartInfo: a part is known by its name, but x.rar is a first part
\* only when x.r00, the part after it, is in the directory.
SecondPart == Parts[2]
IsMultiPart(t) == t # FirstRar \/ SecondPart \in onDisk

\* GetMultiPartArchiveBaseName, as the key of the claim: "" for a file that is
\* no part of anything.
BaseName(t) == IF IsMultiPart(t) THEN "base" ELSE "none"

\* collectMultiPartFiles: from the first part on until one is missing.
PartFiles == {Parts[i] : i \in {n \in 1..Len(Parts) : \A k \in 1..n : Parts[k] \in onDisk}}

FileSet(t) == IF kind[t] = "multi" THEN PartFiles ELSE {t} \cap onDisk

-----------------------------------------------------------------------------
(* The tasks and their watchers *)

CreatePart(t) ==
    /\ part[t] = "absent"
    /\ part' = [part EXCEPT ![t] = "listed"]
    /\ onDisk' = onDisk \cup {t}
    /\ UNCHANGED <<queueVars, ext, grouped, claims, watcher, kind, stage, jobKey,
                   result, attempt, deletes>>

\* markTaskDone and the writes after it.
CompletePart(t) ==
    /\ part[t] = "listed" /\ watcher[t] = "transfer"
    /\ part' = [part EXCEPT ![t] = "done"]
    /\ watcher' = [watcher EXCEPT ![t] = "info"]
    /\ UNCHANGED <<queueVars, onDisk, ext, grouped, claims, kind, stage, jobKey,
                   result, attempt, deletes>>

\* enqueueExtraction, up to the check or to the single archive's job.
ArchiveInfo(t) ==
    /\ watcher[t] = "info"
    /\ IF IsMultiPart(t)
       THEN /\ grouped' = grouped \cup {t}
            /\ watcher' = [watcher EXCEPT ![t] = "check"]
            /\ UNCHANGED <<ext, kind>>
       ELSE /\ ext' = [ext EXCEPT ![t] = "queued"]
            /\ kind' = [kind EXCEPT ![t] = "single"]
            /\ watcher' = [watcher EXCEPT ![t] = "enqueue"]
            /\ UNCHANGED grouped
    /\ UNCHANGED <<queueVars, part, onDisk, claims, stage, jobKey, result, attempt, deletes>>

Listed == {t \in Tasks : part[t] \in {"listed", "done"}}
Related == {t \in Listed : IsMultiPart(t)}

\* mutant: readiness is what the others have said of themselves so far
AllPartsDoneMutated(t) ==
    \/ BaseName(t) = "none"
    \/ Related # {} /\ \A u \in Related \ {t} : ext[u] = "waitingParts"

\* checkMultiPartArchiveReady and checkAllMultiPartTasksDone, under d.lock.
AllPartsDone(t) ==
    \/ BaseName(t) = "none"
    \/ Related # {} /\ \A u \in Related : part[u] = "done"

CheckReady(t) ==
    /\ watcher[t] = "check"
    /\ watcher' = [watcher EXCEPT ![t] = IF AllPartsDone(t) THEN "claim" ELSE "wait"]
    /\ UNCHANGED <<queueVars, part, onDisk, ext, grouped, claims, kind, stage, jobKey,
                   result, attempt, deletes>>

\* The status of a part that has to wait is written after d.lock is released.
WaitForParts(t) ==
    /\ watcher[t] = "wait"
    /\ ext' = [ext EXCEPT ![t] = "waitingParts"]
    /\ watcher' = [watcher EXCEPT ![t] = "end"]
    /\ UNCHANGED <<queueVars, part, onDisk, grouped, claims, kind, stage, jobKey,
                   result, attempt, deletes>>

\* tryClaimMultiPartExtraction: LoadOrStore.
ClaimExtraction(t) ==
    /\ watcher[t] = "claim"
    /\ IF BaseName(t) \in claims
       THEN /\ watcher' = [watcher EXCEPT ![t] = "handled"]
            /\ attempt' = IF attempt = "early" THEN "missed" ELSE attempt
            /\ UNCHANGED <<claims, ext, kind>>
       ELSE /\ claims' = claims \cup {BaseName(t)}
            /\ attempt' = IF attempt = "whole" THEN "whole"
                          ELSE IF \E u \in Tasks : part[u] # "done" THEN "early" ELSE "none"
            /\ ext' = [ext EXCEPT ![t] = "queued"]
            /\ kind' = [kind EXCEPT ![t] = "multi"]
            /\ watcher' = [watcher EXCEPT ![t] = "enqueue"]
    /\ UNCHANGED <<queueVars, part, onDisk, grouped, stage, jobKey, result, deletes>>

\* A part whose archive another one has claimed shows it as extracted.
HandledByAnother(t) ==
    /\ watcher[t] = "handled"
    /\ ext' = [ext EXCEPT ![t] = "done"]
    /\ watcher' = [watcher EXCEPT ![t] = "end"]
    /\ UNCHANGED <<queueVars, part, onDisk, grouped, claims, kind, stage, jobKey,
                   result, attempt, deletes>>

\* The goroutine that hands the job to the queue.
EnqueueJob(t) ==
    /\ watcher[t] = "enqueue"
    /\ Enqueue(t)
    /\ watcher' = [watcher EXCEPT ![t] = "end"]
    /\ UNCHANGED <<part, onDisk, ext, grouped, claims, kind, stage, jobKey, result,
                   attempt, deletes>>

\* Delete with its files; a watcher that has not marked the task done yet
\* finds it gone and leaves.
DeletePart(t) ==
    /\ part[t] \in {"listed", "done"} /\ deletes < MaxDeletes
    /\ part' = [part EXCEPT ![t] = "deleted"]
    /\ onDisk' = onDisk \ {t}
    /\ deletes' = deletes + 1
    /\ watcher' = [watcher EXCEPT ![t] = IF @ = "transfer" THEN "end" ELSE @]
    /\ UNCHANGED <<queueVars, ext, grouped, claims, kind, stage, jobKey, result, attempt>>

-----------------------------------------------------------------------------
(* The queue's worker: performExtraction and performMultiPartExtraction *)

TakeJob ==
    /\ Dequeue
    /\ LET t == Head(jobs) IN
        /\ ext' = [ext EXCEPT ![t] = "extracting"]
        /\ jobKey' = IF kind[t] = "multi" THEN BaseName(Parts[1]) ELSE "none"
    /\ stage' = "extract"
    /\ UNCHANGED <<part, onDisk, grouped, claims, watcher, kind, result, attempt, deletes>>

\* extractMultiPartArchive, extractArchive: they may fail on anything, and
\* cannot succeed on an archive of which a file is missing.
Extract(t) ==
    /\ worker = t /\ stage = "extract"
    /\ \E r \in {"ok", "error"} :
        /\ r = "ok" => IF kind[t] = "multi" THEN Tasks \subseteq onDisk ELSE t \in onDisk
        /\ result' = r
    /\ attempt' = IF kind[t] = "multi" /\ (result' = "ok" \/ \A u \in Tasks : part[u] = "done")
                  THEN "whole" ELSE attempt
    /\ stage' = "result"
    /\ UNCHANGED <<queueVars, part, onDisk, ext, grouped, claims, watcher, kind,
                   jobKey, deletes>>

\* handleExtractionResult
RecordResult(t) ==
    /\ worker = t /\ stage = "result"
    /\ ext' = [ext EXCEPT ![t] = IF result = "ok" THEN "done" ELSE "error"]
    /\ onDisk' = IF result = "ok" /\ DeleteAfter THEN onDisk \ FileSet(t) ELSE onDisk
    /\ stage' = IF kind[t] = "multi" THEN "update" ELSE "close"
    /\ UNCHANGED <<queueVars, part, grouped, claims, watcher, kind, jobKey, result,
                   attempt, deletes>>

\* updateMultiPartTasksStatus, under d.lock: every other listed task of the group.
UpdateGroup(t) ==
    /\ worker = t /\ stage = "update"
    /\ ext' = [u \in Tasks |->
                  IF u \in (Listed \cap grouped) \ {t} /\ t \in grouped
                  THEN IF result = "ok" THEN "done" ELSE "error"
                  ELSE ext[u]]
    /\ stage' = "release"
    /\ UNCHANGED <<queueVars, part, onDisk, grouped, claims, watcher, kind, jobKey,
                   result, attempt, deletes>>

ReleaseClaim(t) ==
    /\ worker = t /\ stage = "release"
    /\ claims' = claims \ {jobKey}
    /\ stage' = "close"
    /\ UNCHANGED <<queueVars, part, onDisk, ext, grouped, watcher, kind, jobKey,
                   result, attempt, deletes>>

EndJob(t) ==
    /\ stage = "close"
    /\ Finish(t)
    /\ stage' = "idle"
    /\ UNCHANGED <<part, onDisk, ext, grouped, claims, watcher, kind, jobKey, result,
                   attempt, deletes>>

WorkerIdles == WorkerSleeps /\ UNCHANGED partVars

WatcherStep(t) ==
    \/ ArchiveInfo(t) \/ CheckReady(t) \/ WaitForParts(t)
    \/ ClaimExtraction(t) \/ HandledByAnother(t) \/ EnqueueJob(t)

ExtractionStep ==
    \/ TakeJob \/ WorkerIdles
    \/ \E t \in Tasks :
        \/ Extract(t) \/ RecordResult(t) \/ UpdateGroup(t) \/ ReleaseClaim(t) \/ EndJob(t)

MultiNext ==
    \/ \E t \in Tasks : CreatePart(t) \/ CompletePart(t) \/ DeletePart(t) \/ WatcherStep(t)
    \/ ExtractionStep

MultiFairness ==
    /\ \A t \in Tasks : WF_multiVars(WatcherStep(t))
    /\ WF_multiVars(ExtractionStep)

MultiSpec == MultiInit /\ [][MultiNext]_multiVars /\ MultiFairness

-----------------------------------------------------------------------------
(* Properties *)

\* A multi-part job that is promised, queued or under way and has not come to
\* the release of its claim.
Outstanding(t) ==
    /\ kind[t] = "multi"
    /\ \/ watcher[t] = "enqueue" \/ outcome[t] = "queued"
       \/ worker = t /\ stage \in {"extract", "result", "update", "release"}

\* However the watchers of the parts interleave with each other and with the
\* worker, no second extraction of an archive is queued while one is
\* outstanding (LoadOrStore, and the release as the job's last step). An old
\* style RAR whose second part has left the directory is no archive any more.
OneJobAtATime ==
    \A t, u \in Tasks : Outstanding(t) /\ Outstanding(u) /\ t # u => BaseName(FirstRar) = "none"

\* No part is the last one for nobody: once every part is complete, and none was
\* deleted, an extraction that finds all of them complete is begun or one has
\* succeeded, although every watcher only looks once, and what an extraction
\* deletes changes what its part is taken for (enqueueMultiPartExtraction). Not
\* so where a part was turned away by a claim that came before all parts were
\* complete: the claimer had looked when some were not listed yet, its extraction
\* goes without them, and the part turned away is shown as extracted.
LastPartExtracts ==
    (\A t \in Tasks : part[t] = "done") ~> (attempt \in {"whole", "missed"} \/ deletes > 0)
=============================================================================
