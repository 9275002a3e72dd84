# Verification of the gopeed download core

TLA+ specifications of the parts of gopeed that decide whether a download is
complete, stopped, or lost: the task and its goroutines, the scheduler, the
protocols' fetchers, target names and groups, and the services beside them
(extraction queue, protocol jobs, blob sources and their bodies, extensions, media
spool, webview page). TLC checks small instances; TLAPS proves, for every value of the
constants, all safety invariants and action properties that the passing runs check, and
the refinement of the extraction queue step by step. Liveness is TLC's alone.

    tlasany TaskLifecycle.tla                                  parse
    tlc -config TaskLifecycle_races.cfg MCTaskLifecycle.tla    model-check
    tlapm TaskLifecycleProofs.tla                              prove

`PROJECT.json` lists the runs, the lines of the source behind every definition,
the hazards, and for each property a mutation of the model that breaks it.

## 1. The system

gopeed is a download manager: a Go core (`pkg/`, `internal/`), front ends that
call it (REST, MCP, native and mobile bindings, the Flutter UI), and protocol
implementations behind one `Fetcher` interface (`internal/fetcher`).

    front ends, extensions           Create Pause Continue Delete PutConfig
            |
    Downloader  (pkg/download)       d.lock: task list, wait queue, groups
            |                        task.statusLock: status, runGeneration
            |                        task.lock: the handlers of one task
            |-- tick goroutine       progress and checkpoints
            |-- watch goroutine      fetcher.Wait -> done / error -> notifyRunning
            |                          -> extraction queue
            |-- protocol jobs, blob registry, extension engines, webview pages
            v
    Fetcher  (internal/protocol/*)   Resolve Start Pause Patch Wait Close
            |
    HTTP   downloadLoop, connections connMu: chunks; slowStart.mu: batches; fileMu: file
    HLS    producer, workers, supervisor of one run object; staging and journal on disk
    FTP    a pool of workers, one login each; runMu
    BT     one torrent client for all tasks; f.mu held over waits
    ED2K   one goed2k client for all tasks; no lock over calls

| Component | State | Operations | What makes it correct |
|---|---|---|---|
| Task lifecycle (`downloader.go`, `model.go`) | status, runGeneration, task.lock, watchedTasks, record | doStart, doPause, doPauseForScheduling, watch, handleOnError, checkpoint, Delete, Setup | a paused task is stopped; an overtaken start never runs; a running task is watched; completion is not lost |
| Scheduler (`downloader.go`) | d.tasks, d.waitTasks, MaxRunning | doCreate, Pause, Continue, Delete, notifyRunning, PutConfig | no more than MaxRunning run; who waits is queued; a slot that gets free is used; no deadlock between d.lock and task.lock |
| Target names (`downloader.go` 2290-2450) | checkDuplicateLock, the task's path, files on disk, white list | prepareTask, decideDownloadDirForTask, CheckDuplicateAndRename | two tasks never write one file |
| Batches, groups, deletion (`downloader.go` 1100-1440) | groups, creatingGroups, deletingTasks, fetcherCache, directories | CreateDirectBatchWithResult, createTaskGroup, Delete, cleanupTaskGroups, Setup | a member has its group, on disk too; an empty group goes; what stays keeps its file |
| HTTP chunks (`http/fetcher.go`, `fetcher_manager.go`) | connections, chunks, file, snapshot | expandConnections, downloadChunkOnce, helpOtherConnection, onDownloadComplete, Store, Restore | each byte fetched once and written; done means whole; every snapshot can be resumed |
| HTTP slow start (`http/fetcher.go`) | batch counters, expansionCh, download loop | onConnectSuccess, onConnectFailed, commitBatch, downloadLoop | the loop is woken and ends |
| HTTP Resolve, takeover, fall back (`http/fetcher.go`) | prefetch file, resolveFallback, rangeReprobeEligible, validators | Resolve, takeover, sequential download, re-probe, checksum and full download again | the prefix taken over is what the connections skip; one version from end to end |
| HLS fetcher (`internal/protocol/hls`) | plan, run object, staging folder, journal | Start, Pause, Patch, Close, workers, merge | the target is one media; Pause and Close return |
| BitTorrent fetcher (`internal/protocol/bt`) | f.mu, waits, selection, the client's torrent | Resolve, Start, Pause, Patch, Wait, Close | done is verified; a closed task never downloads; Close returns |
| ED2K fetcher (`internal/protocol/ed2k`) | handle, waitCtx, subscription | Start, Pause, Wait, Close | a task that is done has its own file |
| FTP fetcher (`internal/protocol/ftp`) | segments, pool, noRest, doneCh | Start, Pause, workers, sequential plan, Store, Restore | done means whole, on disk |
| Extraction queue and multi-part claim (`extract_queue.go`, `downloader.go` 2688-3056) | jobs, running, shutdown; claimedExtractions, ExtractStatus | Start, Stop, Enqueue, RemovePendingJob, worker; readiness, claim, results | one job at a time, each resolved once; a complete archive is extracted |
| Protocol jobs and configuration (`protocol_jobs.go`, `protocol_config.go`) | active run, force, next, persisted state | trigger, execute, loop, PutConfig, close | a manual trigger gets a run of its own kind |
| Blob registry and engine sessions (`internal/blob`, `extension_engine_session.go`) | sources, references, timer, session, task leases | CreateOpener, Acquire, Release, Revoke, Close | a session is released exactly once, and not while it is read |
| Blob bodies (`engine/inject/stream/module.go`, `internal/blob/registry.go` 310-607) | pipe: channel, context, rest; script's reader; rangeFailures, readErr | ServeHTTP, Read, Close, Push, CloseWithError, runOnLoop | a body that breaks off is told by SourceError; the script's reader is let go; nothing is left waiting |
| Extensions and webview profiles (`extension.go`, `extension_webview_config.go`) | list, record, folder, profiles, git admission | install, DeleteExtension, doTrigger, Close | deleted data stays deleted |
| Media spool (`engine/ffmpeg/spool.go`, `http_spool.go`) | blocks, spans, wake channel, demand channel | prefetcher, demand goroutine, Read, Seek, Close | the end of file is the end; a Read returns |
| Webview page (`internal/webview/goprovider/provider.go`) | closed, done, pending, posted closures | Execute, Goto, Close, the window's thread | nobody waits for a closed page, and it is closed once |
| Script engine and polyfills (`pkg/download/engine`) | one event loop per runtime | callbacks, fetch, streams | a callback that calls back in does not block |
| Temporary paths, storage, HTTP client | one mutex, or a library's | | |
| Webhooks, scripts, categories, mirrors | none that tasks depend on | | |
| REST, MCP, bindings, Flutter UI | none of the core's | | |

Components call each other directly. The exceptions are where it gets hard:
goroutines spawned by a status change (start handlers, watchers, notifyRunning),
result channels between a download and its watcher, signals (`expansionCh`, `wake`,
demand) of one entry, callbacks into extensions, closures posted to a window's thread,
external clients shared by several tasks, and what a restart reads from buckets and disk.

What is hard to test here: handlers of several calls that get a lock in an order
of their own; statuses read before and used after a lock is released; calls that
wait for goroutines with a lock held; a failure of one step of several (storage
writes, deletions); a crash between two steps that touch the disk; bytes that are
read but not yet counted while another connection takes half of the chunk; the last
of several that must do what all wait for. The hazards of `PROJECT.json` name each
at its line.

## 2. The modules

### TaskLifecycle

One task. A change of status is a section of `statusLock` and one step; a section
of `task.lock` spans several steps, with the variable `lock` as its owner. `th[t]`
says where each goroutine stands (`pc`), the generation it captured, and the status
it cloned for a write. The fetcher is seen as its state, the set `live` of download
loops (named by the generation of the handler that launched them), `ending` for those
past their last look at the context, `cur`/`canc` for `f.ctx`, and `doneCh`.

| Code | Actions |
|---|---|
| Continue, continueAll: choose, then queue or start | Choose, QueueWait, DoStart, GiveUp |
| doStart's handler | HandlerLock, HandlerPrepare, HandlerCheck, FetcherLook, FetcherStart, HandlerClone, HandlerPut, SpawnWatch, HandlerFailed |
| handleOnError | ErrorMark, ErrorLook, ErrorClone, ErrorPut |
| watch | WatchTake, WatchError, WatchErrorCheck, WatchOk, MarkDone, DoneClone, DonePut, WatchExit |
| doPause, doPauseForScheduling | PreparePause, PauseLock, PauseStop, PauseClone, PausePut, PauseQueue |
| Setup's ticker | TickLook, TickClone, TickPut |
| Delete, doDelete | DeleteRemove, DeleteErase, DeleteClose, DeleteRestore |
| download loop | LoopFinish, LoopReport, LoopCancelled |
| crash and Setup | Restart |

Abstractions: `Fetcher.Start` and its `doStart` look at the state once each; the
state, the result and the exit of a loop are one step (LoopReport); the save in
prepareTask is one step; statistics, events, blob source errors and extraction
are left out. Two history variables: `lastStop` (generation of the last pause that
stopped the fetcher) and `orphaned` (nobody watches the task, and nobody noticed).

### Scheduler

All tasks, each reduced to its status. A section of `d.lock` that calls doStart or
doPauseForScheduling spans several steps with `dlock` as its owner; others are one
step. What a handler does after the status change is TaskLifecycle's: here a
scheduling pause takes a while (pc "settling"), may fail, and looks at the outcome
through `claim`. An onError hook (`Hooks`) holds its task while it calls Continue.
`notes` counts notifyRunning goroutines that have yet to get `d.lock`. The histories
`breached` and `lost` name the ways in which the limit is exceeded, or a queue entry
dropped, by the code itself, so that LimitKept and WaitIsQueued say that there is no
other. Counting loops and Place are atomic, since their reads of other tasks'
statuses are independent; filters name one task or all; ContinueBatch is left out
because nothing calls it.

### HttpChunks

The bytes of one file, in range mode with a known size. Each connection has its chunk
(`begin`, `end`, `got`), its counter (`total`), its goroutine's place (`run`) and what it
has read and not counted (`inflight`). A read, the write to the file, and the count
are three steps, and splits and steals come in between, as in the code, where they
take connMu and the write takes fileMu. Which chunk is the slowest is nondeterministic.
`saved` is the stored snapshot, and Crash restores it. The chunks are described for one
download loop at a time. Left out: redirects;
the sequential fallback, unknown sizes, the checksum and the prefetch are HttpTakeover's.

### HttpSlowStart

When connections are opened: the counters of slowStartController, the one-place
signal, downloadLoop and checkCompletion, and what each connection reports. Chunk data
is abstract: a split, a steal or an end is possible whenever the sizes might allow it.
Resume follows a pause only; the retry after an error is in HttpChunks. The note of a
403 in the connection and its report are one step.

### SerialJobs and ExtractQueue

SerialJobs is abstract: an outcome per job, handed in once, run at most once and never
beside another, then executed or discarded for good. ExtractQueue is
`extract_queue.go`: sections of `q.mu` are single actions, and the gaps between two
(the go statement of Start, the wg.Wait of Stop, the worker's deferred wg.Done) are
actions of their own, so that Start may overlap a Stop. `SerialExecution` is the
refinement, with `Serial == INSTANCE SerialJobs`: outcome is a variable of both, so that
the mapping is the identity on it and forgets the queue, the worker and the callers. TLC
checks it as a property of a run, and ImplementsSerialJobs proves it action by action.

| Code | Actions |
|---|---|
| Start, Stop | Start, SpawnWorker, Stop, StopWaits |
| Enqueue, EnqueueAndWait, RemovePendingJob | Enqueue, RemovePendingJob |
| worker | WorkerSleeps, WorkerShutsDown, WorkerLeaves, Dequeue, Finish |

### MultiPart

EXTENDS ExtractQueue, whose jobs are here the watchers' jobs: Enqueue happens with the
watcher's step, Finish with the end of the extraction. A task's watcher asks after
completion whether all parts are there (ArchiveInfo, CheckReady), then waits for parts,
claims the archive (ClaimExtraction) and enqueues; the worker extracts, records the
result, tells the other tasks one by one and releases the claim. DeletePart may come at
any moment. The history `attempt` tells what the last claim has come to (section 5). Formats of archives are external.

### ProtocolJobs

The periodic job of a protocol, with the one job there is (subscribed BitTorrent
trackers): its loop, at most one execution, manual triggers, PutConfig and Close. Sections
of `s.gate`, `entry.mu` and `configLock` are single actions. Time is the arming of one
timer ("next" or "now"); back-off times are left out.

### BlobRegistry

Sources with their references, the session of the extension engine that counts what
keeps it open, requests that read, the unclaimed timer, Revoke, Close, and the lease of
each task (`syncBlobTaskLease`, `releaseBlobTask`). A Release that follows the unlock of
a source is owed until its own action.

### BlobPipe

The body of one source: requests that read streams of a script. The handler of a request,
the goroutine of a chunk, the goroutine of the end and the client meet on the channel and
the context of a pipe; closures for the event loop wait in `bpJobs`, in order. The script
is the environment: its opener may stay pending, its stream yield, end, break off or stall
at any turn of the loop. A chunk is two reads long, so that the rest of one is kept in `buf`.

| Code | Actions |
|---|---|
| ServeHTTP, openBlobObjectURLReader, WaitProduction | Serve, Produced, WaitGivenUp |
| copyWithFlush and Read | ReadsRest, ReadsItem, ReadGivenUp, LimitReached |
| recordSourceError, recordSourceSuccess | Blamed, Cleared, in the step that ends the copy |
| Close, cancelSourceReader | ClosePipe, RunCancel |
| Push, CloseWithError | PushLooks, PushSends, PushGivenUp, EndLooks, EndSends, EndGivenUp |
| runOnLoop, stream.js | RunOpen, RunAnswer, StreamOpens, OpenFails, StreamYields, StreamEnds, StreamBreaks, CancelSeen |
| Engine.Close | EngineCloses |

A whole source is asked for each time, and `blobObjectURLReader`, which nothing constructs, is left out.

### HlsFetcher

A plan is a member of Medias (all that its fingerprint covers). Start makes a run object
with a producer, workers and a supervisor; the disk has a staging folder per staging
identity, segment files, a journal and the target. The supervisor's steps (merge,
removal of the old target, rename, removal of staging, report) are separate, since a crash or
a Pause may come between any two. Calls of the engine follow one another under
task.lock; the checkpoint does not wait for them.

### BtFetcher and Ed2kFetcher

The external clients are the variables `client` and `transfer`, with what `src/` relies on:
one torrent or transfer of a hash, files under a final name taken for complete until
verified, subscriptions. BtFetcher has `f.mu` as the place of the call that holds it
through the wait for metadata and the verification. Ed2kFetcher has no lock: nothing
orders the calls of two tasks of one link. The history `alone` of a task says that it has had
the transfer for itself since it added it.

### FtpFetcher

Segments, a pool, workers with one login each, a server that may refuse logins and
REST, the fall back to one stream per file, files that vanish between runs, checkpoints
older than the disk, and crashes. Bytes count in units of a segment. A new plan is the
sequence of all segments, file by file in the order of their offsets. The history
`reborn` tells of each file that vanished and was created again whether a save has come
since ("unsaved"), or a crash first ("hole", section 6).

### HttpTakeover

One connection from Resolve on. The response of Resolve is prefetched into a temporary
file and stays the fall back until a Range response takes over; a server that ignores
Range makes the download sequential; the prefix may be resumed with If-Range; a size may
be unknown. A byte of the file is the version of the resource that it was read from, so
that a mix of versions can be told from either. With several connections the same bytes are
HttpChunks'. A checksum is the version that it fits.

### TaskTargets

Where the file of a task goes, decided once under `checkDuplicateLock` from the settings
and the files of that moment. All tasks want one name, which is the number of its suffix;
some create their file late (HLS), some have a directory by category. The rest of the
module is everything that makes a file appear or vanish at the name afterwards.

### TaskGroups

Batches, the groups they make, members created one by one (some from a cached fetcher),
deletions that remove records and files one by one and put back what fails, cleanup of
groups without members by whoever took the last one away, and Setup after a crash.

### ExtensionHost

One extension identity: installs from a folder or by git, a deletion, runtimes that keep
the profile they were made with, and Close of the downloader, which refuses new git
operations, waits for those admitted and then closes the storage. The window of each
profile is its page.

### MediaSpool and WebViewPage

MediaSpool is the input of FFmpeg: files of one block each, written by a prefetcher and,
where the source has ranges, by a goroutine that serves demands; the reader removes
what it has passed. Taking a wake channel, looking, and waiting are three
steps of Read, as in the code. WebViewPage is one page of the embedded browser: the closures
that callers post, the thread that runs them (shared on Linux, ended with the window
elsewhere), the event hub, and the several ways to close.

### How they compose

Scheduler uses of a task what TaskLifecycle refines (status changes, a pause that
takes time); TaskLifecycle uses of the fetcher its state, loops and result, which
HttpChunks (what a loop has done when it reports), HttpSlowStart (that a loop
reports) and HttpTakeover (what was there before the connections) look into. TaskTargets
is one step of TaskLifecycle's HandlerPrepare; TaskGroups is Scheduler's
doCreate and Delete seen from the groups. ExtractQueue refines SerialJobs and is extended by
MultiPart; BlobRegistry's leases are taken by TaskLifecycle's start handler and
dropped by its watcher, and the steps of its requests are looked into by BlobPipe.

The other MC modules add bounds and symmetry. MCServices, MCProtocols, MCTransfers
and MCPlatform hold several components that share no state, and a variable `focus` that
Init chooses: the component in focus moves, the others stay at an initial state.
Interleaving them would multiply the states and show nothing, since none reads what
another writes. The fairness of a component out of focus is vacuous: none of its actions
is enabled. Each behaviour of a component alone is a behaviour of the family, so a run
checks the properties of its members one by one.

## 3. The runs

| Run | Instance | States | Shows |
|---|---|---|---|
| task_races | 2 starters, 2 pausers, watcher; 4 generations | 2.1 M | PausedMeansStopped, RunningIsWatched, StaleStartNeverRuns |
| task_faults | 1 starter, 1 pauser, tick, delete, failing writes, 1 crash; 3 generations, 2 after the crash | 2.3 M | DoneRecordKept |
| task_live | 1 starter, 1 pauser, failing writes, fairness; 4 generations | 92 k | PauseTakesEffect, HandlersReturn, FinishedRunEnds |
| scheduler | 2 tasks, 2 callers, 1 hook, limits 1 and 2, 5 calls, failures | 1.2 M | LimitKept, WaitIsQueued, VictimsWait |
| http_chunks | 7 bytes, 2 connections, buffer 1, least steal 3, 1 retry, 2 stops | 2.5 M | Covered, NeverTwice, SnapshotResumable, DoneHasNoOtherGap |
| http_slow_start | 3 connections, 2 failures, 1 turn, fairness | 0.4 M | LoopEnds |
| services | queue and multi-part: 2 jobs, 2 stops, 1 deletion; jobs: 1 URL, 1 manual trigger, 1 write, 1 timer; blobs: 1 source, 2 tasks, 1 request; fairness | 121 k | SerialExecution, JobsEnd, LastPartExtracts, ManualNotSkipped, ReferencesBalance, SessionsEnd |
| protocols | HLS: 2 media, 2 segments, 1 worker, 2 runs, 1 crash; BT: 2 files, 2 calls, 1 patch, 1 fault; ED2K: 2 tasks, 3 starts; fairness of HLS and BT | 133 k | TargetWhole, BtDoneVerified, BtClosedNeverDownloads, HlsCallsReturn, BtCloseReturns, EdDoneHasFile |
| transfers | FTP: files of 2 and 1, 2 workers, 1 retry, 1 crash, 3 starts, 1 lost file; HTTP: versions of 2 and 1, 2 faults, 2 stops; targets: 3 tasks; groups: 2 batches, 3 members, 2 deletions, 1 mishap; extensions: 2 installs, 1 deletion, 2 runtimes, 1 fault | 1.86 M | FtpDoneWhole, DoneIsWhole, TargetsApart, MembersHaveGroups, EmptyGroupsGo, KeptTasksKeepFiles, RemovedDataStaysGone |
| platform | spool: 3 units in blocks of 2, 1 seek, 1 break; page: 1 Execute, 1 Goto, 2 Close, 1 load; pipe: 2 chunks, 1 slot, 1 request of any source or 2 of one with ranges; fairness | 221 k | EofIsTheEnd, SourceErrorIsTrue, StreamLetGo, ReadsReturn, CallsReturnAfterClose, CancelledRequestEnds |
| callback_stuck, http_prefix_lost | as scheduler and transfers, smaller | | a counterexample each, see section 6 |

Bounds, and why they are enough to be interesting:

- `MaxGen` ends the API calls, not the handlers. Four generations allow
  start, pause, start, pause with all four handlers in flight, which is one more
  than any counterexample found while the model was built needed; two starters are
  needed for a chosen task that another start overtakes. In task_faults the constraint
  ShortAfterCrash leaves one generation less to the process that a crash restarts.
- `MaxCalls` counts API calls and hooks. Two tasks, limit one and five calls reach every
  action, with a task that is paused to make room, queued again and started.
- 7 bytes with a least steal of 3 keep the proportion `MinSteal > 2 * Buf` of
  the code (512 KiB against 64 KiB) and let a chunk of 7 be split once and stolen from;
  odd lengths are among them, so both roundings occur. One retry suffices because
  the counter only decides whether a connection may be resumed.
- `MaxStops` of HttpChunks counts pauses, checkpoints and crashes together; two allow a
  checkpoint and then a crash, or a pause and a second one that comes late.
- Three connections give the batches 1 and 2, the smallest batch whose answers can
  differ. `MaxTurns` bounds steals, uncounted failures and pauses together, and
  with it the otherwise endless retries; counted failures are bounded by the code.
- services: two parts are the least that have a last one, and two stops allow a Start that
  comes between the Stops. Two tasks on one source exchange the last reference with the
  hook, a request, Revoke, the timer and Close.
- protocols: two media make a mixed target possible, two segments a half-written one, two
  runs a late goroutine of the first. Two files allow a selection that changes; two tasks
  of one link share a transfer.
- transfers: three FTP starts are one that writes, one that finds a file gone and creates it
  again, and one after the crash. FTP's workers are alike and no property names one, so they
  are a symmetry set; no liveness is checked in this run. Sizes 2 and 1 make a second version longer or shorter than the first, and
  leave room for a prefix of one byte; two faults allow a prefetch that breaks and a
  request that fails, two stops a checkpoint and a crash. Three tasks of one name are
  a holder, a directory by category and one whose file comes late. Two batches with
  two deletions let a name be given again while a deletion is under way.
- platform: three units in blocks of two have a block boundary, a short last block and a seek
  back over an evicted block. Two chunks and one slot fill the channel; four reads exceed the
  size of three; two requests reach rangeSourceFailureLimit, which is two. Two requests
  share only the source, so that clients that leave are left to the instance with one. One Execute and one Goto meet two closers, the user and the
  end of the loop.
- Deadlock is not checked as such: a system with nothing left to do stops. That nobody
  waits for ever is what the leads-to properties say.

Fairness. A goroutine that has begun goes on: Go's scheduler preempts, and waiters of a
mutex starve at most a millisecond. That gives weak fairness of the steps that a goroutine
takes by itself, and strong fairness of one that waits for a mutex which others take again
and again (BtCloseDrops). By module: TaskLifecycle: handlers, watcher, the loop once its context
is cancelled or it is through. HttpSlowStart: the loop and each connection; connect and read
timeouts end every wait for the server. ExtractQueue, MultiPart: worker and watchers.
ProtocolJobs: the run (its request has a timeout), the awakened, the loop, Close.
BlobRegistry: owed releases, sources' timers, requests, start handlers and watchers.
HlsFetcher: the goroutines of a run, and a call that waits for them. BtFetcher: a call that
moves once its wait is over, the watcher of a dropped torrent.
MediaSpool: both fetching goroutines, Read, removal after Close; the source answers, breaks
or times out. BlobPipe: handlers, pushing goroutines, the closures on the loop; the script owes
nothing. WebViewPage: callers' and closers' own steps and the thread's.
Nobody is assumed to call: API calls, users, peers, servers that answer well, the end of a
download and crashes are not fair.

## 4. What is proved

Eight modules hold the proofs, one per run family: `TaskLifecycleProofs`,
`SchedulerProofs`, `HttpChunksProofs`, `ExtractQueueProofs`, `ServicesProofs` (blobs and
protocol jobs), `ProtocolsProofs` (HLS, BitTorrent, ED2K, HttpTakeover), `TransfersProofs` (extensions,
targets, groups, FTP) and `PlatformProofs` (spool and blob bodies). They use the assumptions
named beside the constants (ThreadAssumption, SizeAssumption, CallAssumption and so on:
sets are finite, bounds are natural numbers, `MinSteal > 2 * Buf`) and nothing else. TLC
evaluates each assumption, and every inductive invariant below was checked with TLC on
small instances before it was proved.

Each proof has the same outline: the inductive invariant as a conjunction of named
parts, initial states, one lemma per action or per kind of action, and the temporal step.
The histories that the properties except (section 5) appear in the invariants as they do in
the properties: what is proved is that there is no other hole.

**TaskLifecycle.** TypeOK (TypeCorrect) first, goroutine by goroutine. PausedMeansStopped
is not inductive: that a paused task is stopped rests on which handlers may still
reach the fetcher. The invariant IInv says

- MutexInv: who stands in a section of task.lock owns it;
- GenerationInv, FreshInv: generations held are at most `gen`, and a handler on its
  way to the fetcher has one that no run, stop or other such handler has;
- AdmittedInv: a handler whose generation was found current under task.lock is newer
  than the last run and the last stop, so it cannot undo a newer pause;
- StopInv: after a stop that is not older than the last run, no loop is left that
  could go on;
- PauseInv: while the status is pause, the pause that set it is pending or was the
  last to stop the fetcher.

The actions fall into a few kinds (quiet steps, new generations, admissions, launches,
stops), with a lemma for each; every action is then an instance. PauseStops
and StaleStarts follow. RunningIsWatched has an invariant of its own, WatchedInv: behind each
running task stands a watcher that has not left, or the start handler of the present generation. So has DoneRecordKept: while the status is done, whoever stands at
a put holds a clone that says done, because MarkDone takes task.lock and MutexInv keeps
everybody out of the place between a clone and its write.

**Scheduler.** LimitKept compares a cardinality with a bound that was read earlier.
SchedInv adds what each call has in hand (CallOK), that a task is listed once (ListOnce),
and that the slot which doCreate or notifyRunning has counted stays free until its start
(RoomKept). For the queue, WaitHeld is
stronger than WaitIsQueued: only a call that is pausing, notified or sweeping, and has yet to come
to the task, may hold one that waits off the queue. The filters
over the list are recursive functions, because the definition of SelectSeq is opaque to the
prover.

**HttpChunks.** The invariant says that the chunks of the open connections are disjoint
and together with the file cover it, that what is in flight lies inside its chunk, and
that the snapshot covers the file in the same sense. The core is CutChunk, for both
ways to cut a chunk: the victim keeps everything up to its position plus what is
in flight, because the half that is left to it is at least a buffer long. This is
where `MinSteal > 2 * Buf` is needed: with `MinSteal > Buf` only, a steal from a chunk
of `Buf + 1` bytes could cut off bytes that are being written. The theorems are NothingForgotten (Covered),
NothingTwice (NeverTwice) and RestartLosesNothing (SnapshotResumable).
GapInv is about the counters: over all connections, what is counted plus what is still missing
is the size of the file, in memory and in the snapshot. A cut moves bytes from one
connection to another, a count turns missing bytes into counted ones. The sum over
connections is a function on sets, and its lemmas (one value changes, two values change) come from a least
counterexample on cardinalities, since induction over sets is out of reach. From it follow
CountIsTrue (CountedMeansWritten) and DoneIsComplete (DoneHasNoOtherGap).

**ExtractQueue.** QueueInv: one worker, which executes the job it took, and the queue
holds each job that is queued, once, and no other. With it each action is a step of SerialJobs or a
stutter, which is the theorem SerialExecution that ImplementsSerialJobs restates for
`Serial!Spec`.

**Blobs and protocol jobs.** ReferencesBalance and LeasesCounted are equations between a
counter and the cardinality of a set of holders, which gains or loses one member per step;
EndedHoldsNothing follows. ManualNotSkipped needs StoppedForGood (after Close nothing
begins), SkipHasRun (a skipped trigger has a run beside it) and StateOfUrls (state and results of a run
are of URLs that the configuration had); NoWorkAfterClose and StateOnlyByItsJob
are action properties from the same invariant.

**HLS, BitTorrent.** TargetWhole: a staging folder belongs to one identity and its segments to one
medium (StagingOwned), one run is active and the calls know it, and from the merge's check on every
segment is in the folder (MergeComplete). BtInv is a conjunction per task (TaskInv) over the torrent
they share; BtDoneVerified and BtClosedNeverDownloads follow.

**ED2K.** EdDoneHasFile, with EdInv: a finished transfer has its file whole, and a task that is
`alone` and waits has no removal before it and the client's transfer for itself.

**HttpTakeover.** DoneIsWhole has the longest chain of reasons. Standing(conn) says what a
snapshot, live or stored, may claim of the file: what is counted is there (RecordOK), the
prefetch file is a prefix (PreOK), the versions that were read are known (VersionsOK),
the parts cover the whole (Covers), and bytes under a pinned validator are of one version
(GenuineOK). The fall back and the states of the download loop refer to it (FallBackOK, StateOK), and a
request under way carries what it will need when the answer comes (RequestOK, PinnedBody).
Every request step is proved against the same interface, Waiting(conn). TLC checked this
invariant with versions of sizes <<2, 1>>, <<1, 2>>, <<3, 3>> and <<2, 1, 2>>.

**Extensions, targets, groups.** RemovedDataStaysGone: a profile is listed by those who
installed it, a revoked one is shut, and git operations are over before storage is
closed (GitOverBeforeStorage). TargetsApart: a task writes to its own file, writers are where
their task's path says, and the free suffix exists because there are fewer tasks than names
(a pigeonhole); a task that was left without its file counts again once it makes it where every
other task is gone (ShelterMeans). MembersHaveGroups, EmptyGroupsGo and KeptTasksKeepFiles: the lists of
batches and deletions under way are in order, identities are given once, paths of different
groups are apart, and two deletions that overlap are known to do so.

**FTP.** FtpDoneWhole: the segments of a plan cover their files and those of one file do not
overlap (that the cuts leave no unit out is a lemma on quotients), the queue and the
workers name segments of the plan, and what plan and record count is on
disk, but for files that were re-created. PutBackHasWorker, that a segment which is put back
finds somebody to take it, needs `pool.running` to be the cardinality of the workers at
work. FtpPoolServes states both PutBackHasWorker and FtpResultFresh.

**Platform.** EofIsTheEnd: a fetch stays inside what it was asked for; without ranges the
prefetcher alone writes, in order, nothing between it and the reader is evicted, and it ends the spool
without an error only at the end of the source; block numbers need a few facts on integer division. SourceErrorIsTrue and StreamLetGo:
the closures on the loop are of known pipes, a broken source was blamed by enough
requests (a cardinality), and per pipe: it is untouched before it is opened, and what the handler has
read, what is on its way and what the script has made are one run of units with the end of the
stream behind it.

**Only model-checked.** Liveness under fairness, which the prover does not reach:
PauseTakesEffect, HandlersReturn, FinishedRunEnds, LoopEnds, JobsEnd, LastPartExtracts,
SessionsEnd, HlsCallsReturn, BtCloseReturns, ReadsReturn,
CallsReturnAfterClose, CancelledRequestEnds. No theorem speaks of HttpSlowStart, MultiPart
and WebViewPage, whose checked properties are all of this kind.

Some definitions are proved and checked by no run of their own: the type invariants of
the components, CountedMeansWritten, LeasesCounted, EndedHoldsNothing, NoWorkAfterClose,
StateOnlyByItsJob, StagingOwned, GitOverBeforeStorage, PutBackHasWorker and FtpResultFresh. Four
are stated in their modules, hold on the instances of the runs, and are not proved yet: OneJobAtATime (MultiPart),
SignalledUnlessLate (HttpSlowStart), DoneClosedOnce and ClosedIsLast (WebViewPage).

## 5. What the properties leave open, on purpose

Some properties name the holes that the code has, so that they say there is no other:
RunningIsWatched excepts `orphaned` (a watcher that is leaving, a failed deletion);
DoneRecordKept excepts the unlocked checkpoint and Delete; LimitKept excepts starts
outside d.lock, a lowered limit and a restored running task; WaitIsQueued excepts
failed calls and the array that Delete compacts under pauseAll; DoneHasNoOtherGap excepts
chunks refused with 403; LoopEnds excepts a failure reported
after an answer.

- LastPartExtracts excepts deletions: a deleted part leaves the others waiting for good. And
  it excepts `attempt` = "missed": a part that was turned away by a claim made before all parts were
  complete, by one that looked when some were not listed yet.
- EdDoneHasFile speaks of tasks that are `alone`, with no removal of an earlier transfer still
  to be told: any other may be shown as done with another task's file or with half of its own.
- BtDoneVerified excepts files that the cleanup of an earlier end removed (`removedOf`): a
  later selection takes them for complete without verifying.
- DoneIsWhole excepts `htSpoilt`, the lost prefix of finding 2, and LeftBehind, what is left of
  a chunk refused with a 403 while the size is known. It says "one version" only of downloads
  with nothing left behind that ended sequentially or kept to a validator: a Pause before the takeover
  leaves `rangeValidatorPinned` unset (`fetcher_manager.go:19`), after which two versions may
  mix.
- TargetsApart excepts `ptExposed`: a task whose file does not exist yet when
  checkDuplicateLock is released (HLS creates it at the merge; a pause between prepare and
  start, a failed start, a source that is reset), or is removed later, leaves its name to the
  next one. The exception ends when the task makes its file with no other task at the target.
- MembersHaveGroups and KeptTasksKeepFiles except `tgOverlap` (one task in two deletions at
  once), EmptyGroupsGo excepts groups whose cleanup failed (`tgStuck`), which only the next
  Setup takes up again.
- FtpDoneWhole excepts a file with `reborn` = "hole": lost, created again by a Start, and the
  process gone before the save that follows the Start.
- ReadsReturn excepts `dropped`: a demand that found the one-entry channel full with the
  demand of a position left behind. Then nobody fetches what the reader waits for.

The holes that contradict a statement of the repository are in the next section.

## 6. Findings

Each has a run with a counterexample.

1. `callback_stuck`: onError calling Continue deadlocks with a Continue that pauses its task
   (`downloader.go:2051` against 1081).
2. `http_prefix_lost`: a prefetch that broke off, a first Range request that fails, and the
   fall back discards the prefetched bytes after the connection was placed behind them; the
   retry ends with a hole at the start of the file, reported as done (`http/fetcher.go:1638`
   against 721-723). Variants: all bytes are prefetched and only `prefetchDone` is
   not yet set; a crash between a checkpoint after the first connection and the takeover; a
   crash after a sequential restart has truncated the target (1782-1796) while
   the record still counts the old prefix.

Met while modelling, and described here without a run: places where the code departs from
what a text beside it says.

- Continue and continueAll write Wait over any status, done included (`downloader.go:1073`
  against `model.go:61`).
- A start that overtakes the handler of a pause meets an active fetcher, and the watcher gets
  the result of the loop before it (`http/fetcher.go:807`).
- Continue and continueAll start outside d.lock and exceed MaxRunning (`downloader.go:1087`
  against `pkg/base/model.go:220`).
- The chunk of a connection refused with 403 stays missing in a download reported as done
  (`http/fetcher.go:2217` against 2215 and 2218), also where it was the only connection and
  nobody else could complete it (2213-2224, 2241-2247).
- In a batch of two, an answer and then a failure that is not tried again (a 403) wake nobody;
  unless a later steal does, the download hangs with all its connections ended
  (`http/fetcher.go:205` against 203).
- Two ED2K tasks of one link share a transfer: pausing one pauses both, closing one takes the
  transfer away, and only the first one's path gets the file, though Wait of both reports
  (`internal/fetcher/fetcher.go`: "Wait for the download to complete"): a task is done with the
  other's file, or with half of its own.
- Only the tasks that exist are asked whether all parts of an archive are there: a part that
  completes before another task is created claims the archive, and one that completes while the claim is
  held is shown as extracted though no extraction saw it (`downloader.go:2739-2748`, 2792). The
  claim is released after the extraction (2881), and a part that looked earlier claims it again.
  Both are against "only ONE extraction job is queued when ALL parts are ready" (2717); with
  DeleteAfterExtract the second attempt fails and marks all parts as failed.
- FTP: openFiles creates a file that has vanished and sets its segments back in memory only
  (`ftp/fetcher.go:320-330`); the save follows after Start has returned (`downloader.go:2467`).
  A crash in between leaves an empty file beside a record that counts its old bytes: the next
  Start finds the file there and downloads the rest, and the task is done with a hole, against "a
  file that has gone missing starts over" (`ftp/fetcher.go:300-302`). It came to light when
  the inductive invariant of FtpDoneWhole failed; two starts, the bound until then, hid it.
- A script that revokes its source while a task downloads it takes the answer of SourceError
  away (`registry.go:241` returns nil then): a body without a length that breaks off afterwards
  passes for complete, against "returns the first error encountered" (238). BlobPipe asks the
  source itself, so it does not show this.
- A demand of the reader is dropped for a stale one (`http_spool.go:202` against 15-16).

## 7. What is not modelled, and why

- Script engine and polyfills: an embedded JavaScript runtime on one event loop. Its hazards
  that reach the downloader (callbacks under locks, sessions, profiles) are in Scheduler,
  BlobRegistry, BlobPipe and ExtensionHost. The slots of FFmpeg processes have state of their
  own and are planned.
- Temporary paths: one mutex around every operation, nothing between two of them; the
  prefetch file that it owns is part of HttpTakeover.
- Storage: the models have its buckets as variables, with writes that fail and crashes
  between two writes; transactions are the library's.
- HTTP client and impersonation: settings over an external library; what a server answers is
  nondeterministic in HttpChunks, HttpSlowStart and HttpTakeover.
- Webhooks, scripts, categories, mirrors: notifications and pure data that no task state
  depends on. The directory by category is in TaskTargets.
- Front ends and the Flutter UI: they make the calls that Scheduler's callers make.
- Within modelled components: statistics and events, archive formats and passwords, playlist
  parsing, keys and decryption, FTP's control dialogue and listings, the torrent client,
  the goed2k client and the native window (external), pieces of a torrent, a second download
  loop on one HTTP fetcher, settings and switches of an extension, ContextStorage.

Hazards of the code that no property covers have a note in `PROJECT.json`. Others that the
models have and no property speaks of: Patch of a done BitTorrent task never restarts it, and a
torrent resolved after Close is dropped by nobody; the tick's unlocked save may bring a
deleted record back; a Start of the extraction queue that slips between the worker's last
two steps makes an earlier Stop wait for the new worker; a restart leaves
ExtractStatus at queued or extracting; an FTP task without REST restarts each unfinished
file on every Start; a checksum failure is not stored, so that the first retry after a restart
verifies again before it downloads anew.

## 8. Plan

Done: TaskLifecycle, Scheduler, HttpChunks, SerialJobs and ExtractQueue with the refinement,
ProtocolJobs, BlobRegistry, BlobPipe, HlsFetcher, BtFetcher, FtpFetcher, HttpTakeover, TaskTargets,
TaskGroups, ExtensionHost, Ed2kFetcher and MediaSpool with the proofs of their safety properties; HttpSlowStart,
MultiPart and WebViewPage with TLC only.

Proofs next, in this order:

1. HttpSlowStart: SignalledUnlessLate, with an invariant that counts the answers and failures of
   the present batch.
2. WebViewPage: DoneClosedOnce and ClosedIsLast, with who may still post to the thread.
3. MultiPart: OneJobAtATime and who holds the claim, on top of QueueInv.

Models next: a second download loop on one fetcher (two goroutines per connection, file content
as a function from bytes to offsets), QueuedTaskStarts (a queued task is started once a slot is
free and no call is in progress), the FFmpeg job module,
settings of extensions.
