--------------------------- MODULE TaskLifecycle ---------------------------
(***************************************************************************)
(* One download task of pkg/download/downloader.go and the goroutines that *)
(* work on it: the start handlers (doStart), the pause handlers (doPause,  *)
(* doPauseForScheduling), the watcher (watch), the tick goroutine's        *)
(* checkpoint (Setup), Delete, and a crash followed by a restart.          *)
(*                                                                         *)
(* A status change is a critical section of task.statusLock and therefore  *)
(* one step; a section of task.lock spans several steps and the variable   *)
(* lock names its owner.  Every status change takes a new runGeneration;   *)
(* a handler remembers its own.                                            *)
(*                                                                         *)
(* The fetcher is the HTTP one (internal/protocol/http/fetcher.go): a run  *)
(* is one download loop, named by the generation of the handler that       *)
(* called Start, and its result is sent to the channel doneCh, which has   *)
(* room for one.                                                           *)
(***************************************************************************)
EXTENDS Naturals, FiniteSets

CONSTANTS
  Starters,      \* goroutines that call doStart: Continue, notifyRunning, doCreate, onError
  Pausers,       \* goroutines that call doPause or doPauseForScheduling
  Watch,         \* the task's watcher; watchedTasks allows one at a time
  Tickers,       \* the tick goroutine, or nobody in an instance without checkpoints
  Deleters,      \* the goroutines that call Delete, one at a time
  None,          \* nobody, nothing
  MaxGen,        \* bound: no API call is made once runGeneration has reached it
  MaxCrash,      \* bound: crashes of the process
  StorageFails   \* whether a storage write may fail

ASSUME ThreadAssumption ==
  /\ Starters \cap Pausers = {}
  /\ Tickers \cap (Starters \cup Pausers) = {}
  /\ Deleters \cap (Starters \cup Pausers \cup Tickers) = {}
  /\ {Watch, None} \cap (Starters \cup Pausers \cup Tickers \cup Deleters) = {}
  /\ Watch # None
ASSUME BoundAssumption == MaxGen \in Nat /\ MaxCrash \in Nat /\ StorageFails \in BOOLEAN

Threads == Starters \cup Pausers \cup Tickers \cup Deleters \cup {Watch}
Status  == {"ready", "running", "pause", "wait", "error", "done"}
Absent  == "absent"   \* there is no record in the task bucket

VARIABLES
  status,   \* task.Status
  gen,      \* task.runGeneration
  lock,     \* owner of task.lock
  member,   \* the task is in d.tasks
  watched,  \* the task is in d.watchedTasks
  rec,      \* status in the task bucket
  th,       \* each goroutine: where it stands, the generation it holds, the status
            \* it cloned for a write
  fstate,   \* fetcher.state
  live,     \* runs whose download loop has not exited
  ending,   \* those of them that passed their last look at the context
  cur,      \* run that f.ctx and f.cancel belong to, 0 before the first
  canc,     \* f.ctx is cancelled
  doneCh,   \* result buffered in f.doneCh
  lastStop, \* history: generation of the last pause that stopped the fetcher
  orphaned, \* history: no one will watch the task, and nobody noticed
  crashes   \* crashes so far

fetcherVars == <<fstate, live, ending, cur, canc, doneCh>>
taskVars    == <<status, gen, lock, member, watched, rec>>
history     == <<lastStop, orphaned, crashes>>
vars        == <<taskVars, th, fetcherVars, history>>

Result == [run : Nat, ok : BOOLEAN]
Idle   == [pc |-> "idle", gen |-> 0, snap |-> Absent]   \* a goroutine that is not running

Init ==
  /\ status \in {"ready", "wait"}
  /\ gen = 0
  /\ lock = None
  /\ member = TRUE
  /\ watched = FALSE
  /\ rec = "ready"
  /\ th = [t \in Threads |-> Idle]
  /\ fstate = "resolved"
  /\ live = {}
  /\ ending = {}
  /\ cur = 0
  /\ canc = FALSE
  /\ doneCh = None
  /\ lastStop = 0
  /\ orphaned = FALSE
  /\ crashes = 0

-----------------------------------------------------------------------------
\* Helpers

IsRunningUnchecked(t) == status \notin {"done", "error"}   \* mutant: any live status will do
IsRunningAny(t)       == status = "running"                \* mutant: any generation will do
IsRunningGeneration(t) == status = "running" /\ gen = th[t].gen
IsPausedGeneration(t)  == status \in {"pause", "wait"} /\ gen = th[t].gen

At(t, p) == th[t].pc = p

\* a goroutine moves on; one that returns drops what it held
Goroutine(p, g, c) == [pc |-> p, gen |-> g, snap |-> c]
Goto(t, to) ==
  th' = [th EXCEPT ![t] = Goroutine(to, IF to = "idle" THEN 0 ELSE th[t].gen, Absent)]
Step(t, from, to)  == At(t, from) /\ Goto(t, to)
Begin(t, to, g)    == th' = [th EXCEPT ![t] = Goroutine(to, g, Absent)]
Clone(t, from, to) == At(t, from) /\ th' = [th EXCEPT ![t] = Goroutine(to, th[t].gen, status)]

\* statusMut: a new status and a new generation, in one critical section
NewStatus(s) == status' = s /\ gen' = gen + 1

\* where a goroutine goes once doOnError returns
AfterError(t) == IF t = Watch THEN "err_check" ELSE "idle"

\* a storage write of the cloned status; Fails stands for its error result
Put(t) == rec' = th[t].snap
Fails  == StorageFails /\ UNCHANGED rec

\* the watcher will not look at the status again
WatchLeaves == th[Watch].pc \in {"done_clone", "done_put", "exit"}

\* every loop is past its last look at the context: what fetcher.Pause waits for
Stopped == live \subseteq ending /\ cur \notin live

-----------------------------------------------------------------------------
\* Starting a task

\* Continue and continueAll pick a task whose status they read before doStart
Choose(s) ==
  /\ member /\ status \notin {"running", "done"}
  /\ Step(s, "idle", "chosen")
  /\ UNCHANGED <<taskVars, fetcherVars, history>>

\* ... and, when there is no room, write Wait over whatever the status is by now
QueueWait(s) ==
  /\ Step(s, "chosen", "idle")
  /\ status' = "wait"
  /\ UNCHANGED <<gen, lock, member, watched, rec, fetcherVars, history>>

\* the head of doStart; notifyRunning, doCreate and ContinueBatch call it
\* without a look at the status
DoStart(s) ==
  /\ At(s, "chosen") \/ (At(s, "idle") /\ member)
  /\ status \notin {"running", "done"}
  /\ gen < MaxGen
  /\ NewStatus("running")
  /\ Begin(s, "locking", gen + 1)
  /\ UNCHANGED <<lock, member, watched, rec, fetcherVars, history>>

GiveUp(s) ==
  /\ Step(s, "chosen", "idle")
  /\ status \in {"running", "done"}
  /\ UNCHANGED <<taskVars, fetcherVars, history>>

\* the handler takes task.lock and leaves again if its generation is stale
HandlerLock(s) ==
  /\ lock = None
  /\ IF IsRunningGeneration(s)
       THEN lock' = s /\ Step(s, "locking", "resolving")
       ELSE UNCHANGED lock /\ Step(s, "locking", "idle")
  /\ UNCHANGED <<status, gen, member, watched, rec, fetcherVars, history>>

\* mutant: a return that forgets to unlock
HandlerExitLocked(s, from, to) == Step(s, from, to) /\ UNCHANGED lock

\* a step of the handler that holds task.lock, and the two ways out of it
HandlerStep(s, from, to) == Step(s, from, to) /\ UNCHANGED lock
HandlerExit(s, from, to) == Step(s, from, to) /\ lock' = None

\* second check, then Resolve and prepareTask, whose first run saves the task
HandlerPrepare(s) ==
  /\ \/ /\ ~IsRunningGeneration(s)
        /\ HandlerExit(s, "resolving", "idle")
        /\ UNCHANGED rec
     \/ /\ IsRunningGeneration(s)
        /\ HandlerStep(s, "resolving", "checking")
        /\ rec' \in {rec, status}
     \/ /\ IsRunningGeneration(s)
        /\ HandlerExit(s, "resolving", "failed")
        /\ UNCHANGED rec
  /\ UNCHANGED <<status, gen, member, watched, fetcherVars, history>>

\* last check, under task.statusLock, which is released before fetcher.Start
HandlerCheck(s) ==
  /\ \/ IsRunningGeneration(s) /\ HandlerStep(s, "checking", "starting")
     \/ ~IsRunningGeneration(s) /\ HandlerExit(s, "checking", "idle")
  /\ UNCHANGED <<status, gen, member, watched, rec, fetcherVars, history>>

\* http Fetcher.Start looks at the state of the fetcher
FetcherLook(s) ==
  /\ \/ fstate # "done" /\ HandlerStep(s, "starting", "launching")
     \/ HandlerExit(s, "starting", "failed")
  /\ UNCHANGED <<status, gen, member, watched, rec, fetcherVars, history>>

\* ... and its doStart looks again: a loop may have ended the download meanwhile.
\* A result left over is drained only from a paused or failed fetcher, and a
\* fetcher that is downloading gets a second loop.
FetcherStart(s) ==
  /\ \/ /\ fstate # "done"
        /\ HandlerStep(s, "launching", "saving")
        /\ doneCh' = IF fstate \in {"paused", "error"} THEN None ELSE doneCh
        /\ fstate' = "active"
        /\ live' = live \cup {th[s].gen}
        /\ cur' = th[s].gen
        /\ canc' = FALSE
     \/ /\ fstate = "done"
        /\ HandlerStep(s, "launching", "saving")
        /\ UNCHANGED <<doneCh, fstate, live, cur, canc>>
     \/ /\ HandlerExit(s, "launching", "failed")
        /\ doneCh' \in {doneCh, IF fstate \in {"paused", "error"} THEN None ELSE doneCh}
        /\ UNCHANGED <<fstate, live, cur, canc>>
  /\ UNCHANGED <<status, gen, member, watched, rec, ending, history>>

\* saveTask: clone under task.statusLock, then write
HandlerClone(s) ==
  /\ Clone(s, "saving", "putting")
  /\ UNCHANGED <<taskVars, fetcherVars, history>>

HandlerPut(s) ==
  /\ \/ Put(s) /\ HandlerExit(s, "putting", "spawning")
     \/ Fails /\ HandlerExit(s, "putting", "failed")
  /\ UNCHANGED <<status, gen, member, watched, fetcherVars, history>>

\* go d.watch(task): LoadOrStore on watchedTasks, a done task is not awaited
SpawnWatch(s) ==
  /\ At(s, "spawning")
  /\ IF watched
       THEN /\ Goto(s, "idle")
            /\ orphaned' = WatchLeaves
            /\ UNCHANGED watched
       ELSE /\ watched' = TRUE
            /\ th' = [th EXCEPT ![s] = Idle,
                 ![Watch] = Goroutine(IF status = "done" THEN "exit" ELSE "waiting", 0, Absent)]
            /\ orphaned' = FALSE
  /\ UNCHANGED <<status, gen, lock, member, rec, fetcherVars, lastStop, crashes>>

\* mutant: the error is logged only
HandlerFailedQuietly(s) ==
  /\ Step(s, "failed", "idle")
  /\ UNCHANGED <<taskVars, fetcherVars, history>>

\* the handler returned an error: report it only for the running generation
HandlerFailed(s) ==
  /\ Step(s, "failed", IF IsRunningGeneration(s) THEN "err_mark" ELSE "idle")
  /\ UNCHANGED <<taskVars, fetcherVars, history>>

-----------------------------------------------------------------------------
\* handleOnError, on a start handler or on the watcher

\* markTaskError accepts any generation; onError may then restart the task,
\* which is a DoStart of another goroutine
ErrorMark(t) ==
  /\ lock = None
  /\ IF status = "running"
       THEN NewStatus("error") /\ lock' = t /\ Step(t, "err_mark", "err_save")
       ELSE UNCHANGED <<status, gen, lock>> /\ Step(t, "err_mark", AfterError(t))
  /\ UNCHANGED <<member, watched, rec, fetcherVars, history>>

\* the failure is persisted if no one restarted the task meanwhile; the status
\* is read again for the write, whose result is only logged
ErrorLook(t) ==
  /\ IF status = "error"
       THEN Step(t, "err_save", "err_clone") /\ UNCHANGED lock
       ELSE Step(t, "err_save", AfterError(t)) /\ lock' = None
  /\ UNCHANGED <<status, gen, member, watched, rec, fetcherVars, history>>

ErrorClone(t) ==
  /\ Clone(t, "err_clone", "err_put")
  /\ UNCHANGED <<taskVars, fetcherVars, history>>

ErrorPut(t) ==
  /\ Step(t, "err_put", AfterError(t))
  /\ lock' = None
  /\ Put(t) \/ Fails
  /\ UNCHANGED <<status, gen, member, watched, fetcherVars, history>>

ErrorNext(t) == ErrorMark(t) \/ ErrorLook(t) \/ ErrorClone(t) \/ ErrorPut(t)

-----------------------------------------------------------------------------
\* watch

\* fetcher.Wait returns a result
WatchTake ==
  /\ doneCh # None
  /\ Step(Watch, "waiting", IF doneCh.ok THEN "got_ok" ELSE "got_err")
  /\ doneCh' = None
  /\ UNCHANGED <<taskVars, fstate, live, ending, cur, canc, history>>

WatchError ==
  /\ Step(Watch, "got_err", IF status \in {"pause", "wait"} THEN "exit" ELSE "err_mark")
  /\ UNCHANGED <<taskVars, fetcherVars, history>>

\* after doOnError the watcher stays if onError has restarted the task
WatchErrorCheck ==
  /\ Step(Watch, "err_check", IF status = "running" THEN "waiting" ELSE "exit")
  /\ UNCHANGED <<taskVars, fetcherVars, history>>

\* GetTask: a deleted task is not completed
WatchOk ==
  /\ Step(Watch, "got_ok", IF member THEN "marking" ELSE "exit")
  /\ UNCHANGED <<taskVars, fetcherVars, history>>

\* mutant: markTaskDone without task.lock
MarkDoneUnlocked ==
  /\ IF status = "running"
       THEN NewStatus("done") /\ Step(Watch, "marking", "done_clone")
       ELSE UNCHANGED <<status, gen>> /\ Step(Watch, "marking", "exit")
  /\ UNCHANGED <<lock, member, watched, rec, fetcherVars, history>>

\* markTaskDone holds both locks
MarkDone ==
  /\ lock = None
  /\ IF status = "running"
       THEN NewStatus("done") /\ Step(Watch, "marking", "done_clone")
       ELSE UNCHANGED <<status, gen>> /\ Step(Watch, "marking", "exit")
  /\ UNCHANGED <<lock, member, watched, rec, fetcherVars, history>>

DoneClone ==
  /\ Clone(Watch, "done_clone", "done_put")
  /\ UNCHANGED <<taskVars, fetcherVars, history>>

\* the result of this write is ignored
DonePut ==
  /\ Step(Watch, "done_put", "exit")
  /\ Put(Watch) \/ Fails
  /\ UNCHANGED <<status, gen, lock, member, watched, fetcherVars, history>>

\* the deferred delete from watchedTasks
WatchExit ==
  /\ Step(Watch, "exit", "idle")
  /\ watched' = FALSE
  /\ UNCHANGED <<status, gen, lock, member, rec, fetcherVars, history>>

-----------------------------------------------------------------------------
\* Pausing a task

\* preparePause; the call may have found the task before Delete removed it
PreparePause(p) ==
  /\ At(p, "idle")
  /\ status \notin {"pause", "done", "error"}
  /\ gen < MaxGen
  /\ NewStatus("pause")
  /\ Begin(p, "p_lock", gen + 1)
  /\ UNCHANGED <<lock, member, watched, rec, fetcherVars, history>>

\* mutant: the pause does not cancel the context it is going to wait for
PauseLockNoCancel(p) ==
  /\ lock = None
  /\ IF IsPausedGeneration(p)
       THEN lock' = p /\ Step(p, "p_lock", "p_stop")
       ELSE UNCHANGED lock /\ Step(p, "p_lock", "idle")
  /\ UNCHANGED <<status, gen, member, watched, rec, fetcherVars, history>>

\* runPauseHandler: task.lock, the generation, and the start of fetcher.Pause
PauseLock(p) ==
  /\ lock = None
  /\ IF IsPausedGeneration(p)
       THEN lock' = p /\ canc' = TRUE /\ Step(p, "p_lock", "p_stop")
       ELSE UNCHANGED <<lock, canc>> /\ Step(p, "p_lock", "idle")
  /\ UNCHANGED <<status, gen, member, watched, rec, fstate, live, ending, cur, doneCh, history>>

\* http Fetcher.Pause returns once the loop of f.ctx and all connections ended
PauseStop(p) ==
  /\ Stopped
  /\ Step(p, "p_stop", "p_save")
  /\ fstate' = "paused"
  /\ lastStop' = th[p].gen
  /\ UNCHANGED <<taskVars, live, ending, cur, canc, doneCh, orphaned, crashes>>

PauseClone(p) ==
  /\ Clone(p, "p_save", "p_put")
  /\ UNCHANGED <<taskVars, fetcherVars, history>>

\* a scheduling pause has one more step to go
PausePut(p) ==
  /\ lock' = None
  /\ \/ Put(p) /\ (Step(p, "p_put", "idle") \/ Step(p, "p_put", "p_queue"))
     \/ Fails /\ Step(p, "p_put", "idle")
  /\ UNCHANGED <<status, gen, member, watched, fetcherVars, history>>

\* doPauseForScheduling moves the task to the wait queue
PauseQueue(p) ==
  /\ Step(p, "p_queue", "idle")
  /\ status' = IF status = "pause" /\ gen = th[p].gen THEN "wait" ELSE status
  /\ UNCHANGED <<gen, lock, member, watched, rec, fetcherVars, history>>

-----------------------------------------------------------------------------
\* The tick goroutine's checkpoint: it looks at the task under TryLock, and
\* saves it later without a lock

TickLook(t) ==
  /\ member /\ lock = None /\ status = "running"
  /\ Step(t, "idle", "t_save")
  /\ UNCHANGED <<taskVars, fetcherVars, history>>

TickClone(t) ==
  /\ Clone(t, "t_save", "t_put")
  /\ UNCHANGED <<taskVars, fetcherVars, history>>

TickPut(t) ==
  /\ Step(t, "t_put", "idle")
  /\ Put(t) \/ Fails
  /\ UNCHANGED <<status, gen, lock, member, watched, fetcherVars, history>>

-----------------------------------------------------------------------------
\* Delete and doDelete, without task.lock and without a status change

DeleteRemove(d) ==
  /\ member
  /\ Step(d, "idle", "erasing")
  /\ member' = FALSE
  /\ UNCHANGED <<status, gen, lock, watched, rec, fetcherVars, history>>

\* the buckets, then the cancellation in fetcher.Close
DeleteErase(d) ==
  /\ \/ rec' = Absent /\ canc' = TRUE /\ Step(d, "erasing", "closing")
     \/ StorageFails /\ UNCHANGED <<rec, canc>> /\ Step(d, "erasing", "restoring")
  /\ UNCHANGED <<status, gen, lock, member, watched, fstate, live, ending, cur, doneCh, history>>

\* the rest of fetcher.Close, then the removal of the files, which may fail
DeleteClose(d) ==
  /\ Stopped
  /\ Step(d, "closing", "idle") \/ Step(d, "closing", "restoring")
  /\ fstate' = "paused"
  /\ UNCHANGED <<taskVars, live, ending, cur, canc, doneCh, history>>

\* a failed deletion puts the task back, with whatever status it had
DeleteRestore(d) ==
  /\ Step(d, "restoring", "idle")
  /\ rec' = status \/ Fails
  /\ member' = TRUE
  /\ orphaned' = (At(Watch, "idle") \/ WatchLeaves)
  /\ UNCHANGED <<status, gen, lock, watched, fetcherVars, lastStop, crashes>>

-----------------------------------------------------------------------------
\* The download loop of a run

\* the loop is through and its context is not cancelled (waitForCompletion)
LoopFinish(r) ==
  /\ r \in live \ ending
  /\ ~(r = cur /\ canc)
  /\ ending' = ending \cup {r}
  /\ UNCHANGED <<taskVars, th, fstate, live, cur, canc, doneCh, history>>

\* mutant: a run that reported is still counted as ending
LoopReportTwice(r) ==
  /\ r \in ending
  /\ \E ok \in BOOLEAN :
       /\ fstate' = IF ok THEN "done" ELSE "error"
       /\ doneCh' = IF doneCh = None THEN [run |-> r, ok |-> ok] ELSE doneCh
  /\ live' = live \ {r}
  /\ UNCHANGED <<ending, taskVars, th, cur, canc, history>>

\* mutant: only success is sent to doneCh
LoopReportSuccess(r) ==
  /\ r \in ending
  /\ \E ok \in BOOLEAN :
       /\ fstate' = IF ok THEN "done" ELSE "error"
       /\ doneCh' = IF doneCh = None /\ ok THEN [run |-> r, ok |-> ok] ELSE doneCh
  /\ live' = live \ {r}
  /\ ending' = ending \ {r}
  /\ UNCHANGED <<taskVars, th, cur, canc, history>>

\* onDownloadComplete: the state, then the result unless doneCh is full
LoopReport(r) ==
  /\ r \in ending
  /\ \E ok \in BOOLEAN :
       /\ fstate' = IF ok THEN "done" ELSE "error"
       /\ doneCh' = IF doneCh = None THEN [run |-> r, ok |-> ok] ELSE doneCh
  /\ live' = live \ {r}
  /\ ending' = ending \ {r}
  /\ UNCHANGED <<taskVars, th, cur, canc, history>>

\* the loop sees its cancelled context and leaves in silence
LoopCancelled(r) ==
  /\ r \in live \ ending
  /\ r = cur /\ canc
  /\ live' = live \ {r}
  /\ UNCHANGED <<taskVars, th, fstate, ending, cur, canc, doneCh, history>>

-----------------------------------------------------------------------------
\* A crash, and Setup on the next start: a record that is neither done nor
\* failed comes back paused; without a record the task is gone

Restart ==
  /\ crashes < MaxCrash
  /\ crashes' = crashes + 1
  /\ member' = (rec # Absent)
  /\ status' = IF rec \in {"done", "error"} THEN rec ELSE "pause"
  /\ gen' = 0
  /\ lock' = None
  /\ watched' = FALSE
  /\ rec' = rec
  /\ th' = [t \in Threads |-> Idle]
  /\ fstate' = "resolved" /\ live' = {} /\ ending' = {}
  /\ cur' = 0 /\ canc' = FALSE /\ doneCh' = None
  /\ lastStop' = 0 /\ orphaned' = FALSE

-----------------------------------------------------------------------------
StarterNext(s) ==
  \/ Choose(s) \/ QueueWait(s) \/ DoStart(s) \/ GiveUp(s)
  \/ HandlerLock(s) \/ HandlerPrepare(s) \/ HandlerCheck(s)
  \/ FetcherLook(s) \/ FetcherStart(s)
  \/ HandlerClone(s) \/ HandlerPut(s) \/ SpawnWatch(s) \/ HandlerFailed(s)
  \/ ErrorNext(s)

PauserNext(p) ==
  \/ PreparePause(p) \/ PauseLock(p) \/ PauseStop(p)
  \/ PauseClone(p) \/ PausePut(p) \/ PauseQueue(p)

WatchNext ==
  \/ WatchTake \/ WatchError \/ ErrorNext(Watch) \/ WatchErrorCheck
  \/ WatchOk \/ MarkDone \/ DoneClone \/ DonePut \/ WatchExit

TickNext(t)   == TickLook(t) \/ TickClone(t) \/ TickPut(t)
DeleteNext(d) == DeleteRemove(d) \/ DeleteErase(d) \/ DeleteClose(d) \/ DeleteRestore(d)
LoopNext      == \E r \in live : LoopFinish(r) \/ LoopReport(r) \/ LoopCancelled(r)

Next ==
  \/ \E s \in Starters : StarterNext(s)
  \/ \E p \in Pausers : PauserNext(p)
  \/ \E t \in Tickers : TickNext(t)
  \/ \E d \in Deleters : DeleteNext(d)
  \/ WatchNext \/ LoopNext \/ Restart

Spec == Init /\ [][Next]_vars

\* A goroutine that has begun runs on: the calls themselves are the
\* environment's.  A download may last for ever, but the current loop leaves when
\* its context is cancelled and reports when it is through, and the connections
\* of an older loop, whose contexts resumeConnections replaced, end with it.
Begun(t) == th[t].pc \notin {"idle", "chosen"}

Fairness ==
  /\ \A s \in Starters : WF_vars(Begun(s) /\ StarterNext(s))
  /\ \A p \in Pausers : WF_vars(Begun(p) /\ PauserNext(p))
  /\ WF_vars(WatchNext)
  /\ \A t \in Tickers : WF_vars(Begun(t) /\ TickNext(t))
  /\ \A d \in Deleters : WF_vars(Begun(d) /\ DeleteNext(d))
  /\ WF_vars(\E r \in live : r = cur /\ (LoopReport(r) \/ LoopCancelled(r)))
  /\ WF_vars(\E r \in live : r # cur /\ canc /\ LoopFinish(r))

FairSpec == Spec /\ Fairness

-----------------------------------------------------------------------------
\* Properties

StarterPC == {"idle", "chosen", "locking", "resolving", "checking", "starting",
              "launching", "saving", "putting", "spawning", "failed", "err_mark",
              "err_save", "err_clone", "err_put"}
PauserPC  == {"idle", "p_lock", "p_stop", "p_save", "p_put", "p_queue"}
WatchPC   == {"idle", "waiting", "got_ok", "got_err", "err_mark",
              "err_save", "err_clone", "err_put", "err_check", "marking", "done_clone", "done_put", "exit"}
TickPC    == {"idle", "t_save", "t_put"}
DeletePC  == {"idle", "erasing", "closing", "restoring"}

Thread == [pc : StarterPC \cup PauserPC \cup WatchPC \cup TickPC \cup DeletePC,
           gen : Nat, snap : Status \cup {Absent}]

ThreadsOK ==
  /\ th \in [Threads -> Thread]
  /\ \A s \in Starters : th[s].pc \in StarterPC
  /\ \A p \in Pausers : th[p].pc \in PauserPC
  /\ \A t \in Tickers : th[t].pc \in TickPC
  /\ \A d \in Deleters : th[d].pc \in DeletePC
  /\ th[Watch].pc \in WatchPC

\* The variables keep their types: every goroutine stands at a place of its own
\* code (doStart, doPause, watch, Setup's ticker, Delete).
TypeOK ==
  /\ status \in Status
  /\ gen \in Nat
  /\ lock \in Starters \cup Pausers \cup {Watch, None}
  /\ member \in BOOLEAN /\ watched \in BOOLEAN
  /\ rec \in Status \cup {Absent}
  /\ ThreadsOK
  /\ fstate \in {"resolved", "active", "paused", "done", "error"}
  /\ live \in SUBSET Nat /\ ending \in SUBSET live
  /\ cur \in Nat
  /\ canc \in BOOLEAN
  /\ doneCh \in Result \cup {None}
  /\ lastStop \in Nat /\ orphaned \in BOOLEAN /\ crashes \in Nat

PausePending == \E p \in Pausers : th[p].pc \in {"p_lock", "p_stop"} /\ th[p].gen = gen

\* A paused task is physically stopped: unless the handler of the latest pause
\* has yet to reach the fetcher, no connection of any run is downloading, in
\* whatever order start and pause handlers got task.lock (runPauseHandler and
\* the generation checks of doStart).
PausedMeansStopped == status = "pause" /\ ~PausePending => Stopped

\* A start that was overtaken never reaches Fetcher.Start: each run belongs to
\* a newer generation than the run before it and than every pause that already
\* stopped the fetcher (taskIsRunningGeneration in doStart's handler).
StaleStartNeverRuns ==
  [][cur' \notin {cur, 0} => cur' > cur /\ cur' > lastStop]_vars

\* A running task has someone who will finish it: a handler on its way, or the
\* watcher.  There are two holes: a new watch goroutine met a watcher that was
\* about to leave watchedTasks, and a failed deletion put back a task whose
\* watcher had left for good (watch, doStart, Delete).
RunningIsWatched ==
  member /\ status = "running" =>
    \/ watched \/ orphaned
    \/ \E s \in Starters : Begun(s)

\* Once completion is on disk, only the tick's unlocked checkpoint and Delete
\* can take it away again: no save of a start, pause or error handler that was
\* under way overwrites it (saveTask callers against watch's last write).
DoneRecordKept ==
  [][rec = "done" /\ status = "done" /\ rec' # "done"
       => \/ \E t \in Tickers : TickPut(t)
          \/ \E d \in Deleters : DeleteErase(d) \/ DeleteRestore(d)]_vars

\* Pauses take effect: a paused task comes to rest, or someone starts it again
\* (the handler of doPause gets task.lock, and fetcher.Pause returns).
PauseTakesEffect == status = "pause" ~> Stopped \/ status # "pause"

\* Every handler returns: whoever holds task.lock while it waits for the fetcher
\* or the storage gives it up, and no two goroutines wait for each other
\* (doStart, runPauseHandler, handleOnError).
HandlersReturn == \A t \in Starters \cup Pausers : Begun(t) ~> ~Begun(t)

\* A finished run ends the task: once the current loop has reported and no start
\* handler is on its way, the watcher marks the task done or failed, unless
\* nobody watches it (onDownloadComplete, watch).
Finished == member /\ status = "running" /\ cur \notin live /\ \A s \in Starters : ~Begun(s)
FinishedRunEnds == Finished ~> ~Finished \/ orphaned

-----------------------------------------------------------------------------
\* The inductive invariant behind PausedMeansStopped and StaleStartNeverRuns

HoldsLock(t) ==
  th[t].pc \in {"resolving", "checking", "starting", "launching", "saving", "putting",
                "err_save", "err_clone", "err_put", "p_stop", "p_save", "p_put"}

\* a handler whose generation is still to be carried to the fetcher
InFlight(t) == th[t].pc \in {"locking", "resolving", "checking", "starting", "launching", "p_lock", "p_stop"}

\* ... and which found it current under task.lock
Admitted(t) == th[t].pc \in {"resolving", "checking", "starting", "launching", "p_stop"}

MutexInv      == \A t \in Threads : HoldsLock(t) => lock = t
GenerationInv == cur <= gen /\ lastStop <= gen /\ \A t \in Threads : th[t].gen <= gen
FreshInv      == \A t \in Threads : InFlight(t) =>
                   /\ th[t].gen # cur /\ th[t].gen # lastStop
                   /\ \A u \in Threads \ {t} : InFlight(u) => th[u].gen # th[t].gen
AdmittedInv   == \A t \in Threads : Admitted(t) => th[t].gen > cur /\ th[t].gen > lastStop
StopInv       == lastStop >= cur => Stopped
PauseInv      == status = "pause" => PausePending \/ lastStop = gen

IInv == MutexInv /\ GenerationInv /\ FreshInv /\ AdmittedInv /\ StopInv /\ PauseInv
=============================================================================
