------------------------------ MODULE Scheduler ------------------------------
(***************************************************************************)
(* How pkg/download/downloader.go shares MaxRunning slots among the tasks: *)
(* the task list, the wait queue, and the API calls and notifyRunning      *)
(* goroutines that move tasks between them.                                *)
(*                                                                         *)
(* A task is its status: TaskLifecycle refines what happens between a      *)
(* status change and the fetcher.  A section of d.lock that calls doStart  *)
(* or doPauseForScheduling spans several steps and dlock names its owner;  *)
(* the others are one step.  runGeneration is kept only as far as a        *)
(* scheduling pause looks at it: claim[t] is the call whose pause is the   *)
(* latest status change of t.                                              *)
(***************************************************************************)
EXTENDS Integers, SequencesExt

CONSTANTS
  Tasks,
  Callers,      \* goroutines that call the API
  Hooks,        \* those of them that run an extension's onError, which calls Continue
  Notifier,     \* the goroutines of notifyRunning, one at a time under d.lock
  None,
  Limits,       \* values of cfg.MaxRunning
  MaxCalls,     \* bound: API calls
  Fails         \* whether doStart, doPause and doDelete may return an error

ASSUME CallAssumption ==
  /\ Hooks \subseteq Callers
  /\ Notifier \notin Callers /\ None \notin Callers \cup Tasks \cup {Notifier}
  /\ Limits \subseteq Nat /\ MaxCalls \in Nat /\ Fails \in BOOLEAN

VARIABLES
  status,      \* task.Status; "new" before doCreate
  tasks,       \* d.tasks
  waitTasks,   \* d.waitTasks
  maxRunning,  \* d.cfg.MaxRunning
  dlock,       \* owner of d.lock
  call,        \* what each goroutine is doing
  claim,       \* the scheduling pause that changed the status last, if it was one
  notes,       \* notifyRunning goroutines that have not got d.lock yet
  calls,       \* API calls so far
  breached,    \* history: a start outside d.lock took a slot that was not free
  lost         \* history: tasks that an error or a shifted array kept from the queue

vars == <<status, tasks, waitTasks, maxRunning, dlock, call, claim, notes, calls, breached, lost>>
lists   == <<tasks, waitTasks, maxRunning>>
history == <<breached, lost>>

Goroutines == Callers \cup {Notifier}
Call(p, todo, rest, n, h) ==
  [pc |-> p, todo |-> todo, rest |-> rest, n |-> n, room |-> 0, hook |-> h]
Idle == Call("idle", <<>>, <<>>, 0, None)

Init ==
  /\ status = [t \in Tasks |-> "new"]
  /\ tasks = <<>> /\ waitTasks = <<>>
  /\ maxRunning \in Limits
  /\ dlock = None
  /\ call = [c \in Goroutines |-> Idle]
  /\ claim = [t \in Tasks |-> None]
  /\ notes = 0 /\ calls = 0
  /\ breached = FALSE /\ lost = {}

-----------------------------------------------------------------------------
\* Helpers

At(c, p)  == call[c].pc = p
Next1(c)  == Head(call[c].todo)
Later(c)  == Tail(call[c].todo)
Member(t) == t \in ToSet(tasks)

Running == {t \in ToSet(tasks) : status[t] = "running"}
RemainRunningCount == maxRunning - Cardinality(Running)

Become(c, p, todo, rest, n) ==
  call' = [call EXCEPT ![c] = [@ EXCEPT !.pc = p, !.todo = todo, !.rest = rest, !.n = n]]

\* the call returns; one made by an onError hook returns into the hook
Return(c) ==
  call' = [call EXCEPT ![c] =
    IF call[c].hook = None THEN Idle ELSE Call("hook_end", <<>>, <<>>, 0, call[c].hook)]

\* go on with the tasks left to handle in the same way
GoOn(c, todo) == IF todo = <<>> THEN Return(c) ELSE Become(c, call[c].pc, todo, <<>>, 0)

SetStatus(t, s, by) == status' = [status EXCEPT ![t] = s] /\ claim' = [claim EXCEPT ![t] = by]

\* doStart's change of status; a running or done task is left alone
DoStart(t) ==
  IF status[t] \in {"running", "done"} THEN UNCHANGED <<status, claim>>
                                       ELSE SetStatus(t, "running", None)

\* preparePause's change of status
PreparePause(t, by) ==
  IF status[t] \in {"pause", "done", "error"} THEN UNCHANGED <<status, claim>>
                                              ELSE SetStatus(t, "pause", by)

\* an API call begins, by a user or by the onError hook
Begins(c) ==
  \/ At(c, "idle") /\ c \notin Hooks /\ calls < MaxCalls /\ calls' = calls + 1
  \/ At(c, "hooked") /\ UNCHANGED calls

\* q without what is not in K
Keep(q, K) ==
  LET F[i \in 0 .. Len(q)] ==
        IF i = 0 THEN <<>> ELSE IF q[i] \in K THEN Append(F[i - 1], q[i]) ELSE F[i - 1]
  IN  F[Len(q)]

\* getTasksByFilter: the tasks named by S, without those in a status of Not
Filter(S, Not) == Keep(tasks, {t \in S : status[t] \notin Not})
Without(q, S)  == Keep(q, Tasks \ S)

\* filters name one task, or all that exist
Filters == {{t} : t \in Tasks} \cup {Tasks}

-----------------------------------------------------------------------------
\* doCreate

\* the new task waits if all slots are taken, exactly
CreateQueued(c, t) ==
  /\ Begins(c) /\ At(c, "idle") /\ dlock = None
  /\ status[t] = "new"
  /\ RemainRunningCount = 0
  /\ tasks' = Append(tasks, t)
  /\ waitTasks' = Append(waitTasks, t)
  /\ SetStatus(t, "wait", None)
  /\ UNCHANGED <<maxRunning, dlock, call, notes, history>>

CreateCount(c, t) ==
  /\ Begins(c) /\ At(c, "idle") /\ dlock = None
  /\ status[t] = "new"
  /\ RemainRunningCount # 0
  /\ tasks' = Append(tasks, t)
  /\ SetStatus(t, "ready", None)
  /\ dlock' = c
  /\ Become(c, "creating", <<t>>, <<>>, 0)
  /\ UNCHANGED <<waitTasks, maxRunning, notes, history>>

CreateStart(c) ==
  /\ At(c, "creating")
  /\ DoStart(Next1(c))
  /\ dlock' = None
  /\ Return(c)
  /\ UNCHANGED <<lists, notes, calls, history>>

-----------------------------------------------------------------------------
\* Pause

PauseSelect(c, S) ==
  /\ Begins(c) /\ At(c, "idle") /\ dlock = None
  /\ LET todo == Filter(S, {"pause", "error", "done"})
     IN  todo # <<>> /\ Become(c, "dequeuing", todo, <<>>, 0)
  /\ UNCHANGED <<status, lists, dlock, claim, notes, history>>

\* mutant: Pause takes everything off the queue
PauseDequeueAll(c) ==
  /\ At(c, "dequeuing") /\ dlock = None
  /\ waitTasks' = <<>>
  /\ Become(c, "pausing", call[c].todo, <<>>, 0)
  /\ UNCHANGED <<status, tasks, maxRunning, dlock, claim, notes, calls, history>>

PauseDequeue(c) ==
  /\ At(c, "dequeuing") /\ dlock = None
  /\ waitTasks' = Without(waitTasks, ToSet(call[c].todo))
  /\ Become(c, "pausing", call[c].todo, <<>>, 0)
  /\ UNCHANGED <<status, tasks, maxRunning, dlock, claim, notes, calls, history>>

\* doPause of the next task; after the last one a waiting task may run
PauseOne(c) ==
  /\ At(c, "pausing")
  /\ PreparePause(Next1(c), None)
  /\ GoOn(c, Later(c))
  /\ notes' = IF Later(c) = <<>> THEN notes + 1 ELSE notes
  /\ UNCHANGED <<lists, dlock, calls, history>>

\* doPause fails: Pause returns and leaves the rest, which it has dequeued
PauseFails(c) ==
  /\ Fails /\ At(c, "pausing")
  /\ status[Next1(c)] \notin {"pause", "done", "error"}
  /\ PreparePause(Next1(c), None)
  /\ Return(c)
  /\ lost' = lost \cup ToSet(Later(c))
  /\ UNCHANGED <<lists, dlock, notes, calls, breached>>

\* pauseAll clears the queue and then walks over d.tasks without d.lock
PauseAllClear(c) ==
  /\ Begins(c) /\ At(c, "idle") /\ dlock = None
  /\ tasks # <<>>
  /\ waitTasks' = <<>>
  /\ Become(c, "sweeping", tasks, <<>>, 1)
  /\ UNCHANGED <<status, tasks, maxRunning, dlock, claim, notes, history>>

PauseAllOne(c) ==
  /\ At(c, "sweeping")
  /\ LET array == call[c].todo
         i     == call[c].n
     IN  /\ PreparePause(array[i], None)
         /\ IF i = Len(array) THEN Return(c) ELSE Become(c, "sweeping", array, <<>>, i + 1)
  /\ UNCHANGED <<lists, dlock, notes, calls, history>>

PauseAllFails(c) ==
  /\ Fails /\ At(c, "sweeping")
  /\ status[call[c].todo[call[c].n]] \notin {"pause", "done", "error"}
  /\ PreparePause(call[c].todo[call[c].n], None)
  /\ Return(c)
  /\ lost' = lost \cup ToSet(SubSeq(call[c].todo, call[c].n + 1, Len(call[c].todo)))
  /\ UNCHANGED <<lists, dlock, notes, calls, breached>>

-----------------------------------------------------------------------------
\* Continue and continueAll (nothing calls ContinueBatch)

\* ContinueSelect takes d.lock for the filter only
ContinueSelect(c, S) ==
  /\ Begins(c) /\ dlock = None
  /\ call[c].hook # None => S = {call[c].hook}
  /\ LET chosen == Filter(S, {"running", "done"})
     IN  IF chosen = <<>> THEN Return(c) ELSE Become(c, "counting", <<>>, chosen, 0)
  /\ UNCHANGED <<status, lists, dlock, claim, notes, history>>

\* how many tasks there is room for, and how many have to be paused for them; n
\* counts those still to be found
ContinueCount(c) ==
  /\ At(c, "counting") /\ dlock = None
  /\ dlock' = c
  /\ LET chosen == call[c].rest
         need   == Min({maxRunning, Len(chosen)})
         pauses == need - RemainRunningCount
         go(p, todo, k) ==
           call' = [call EXCEPT ![c] = [Call(p, todo, chosen, k, @.hook) EXCEPT !.room = need]]
     IN  IF pauses > 0 THEN go("scheduling", tasks, pauses) ELSE go("placing", <<>>, 0)
  /\ UNCHANGED <<status, lists, claim, notes, calls, history>>

\* the next task of d.tasks: a running one is told to pause
SchedulePause(c) ==
  /\ At(c, "scheduling")
  /\ LET go(p, todo) == Become(c, p, todo, call[c].rest, call[c].n)
     IN  IF call[c].todo = <<>>
           THEN go("placing", <<>>) /\ UNCHANGED <<status, claim>>
         ELSE IF status[Next1(c)] = "running"
           THEN go("settling", call[c].todo) /\ PreparePause(Next1(c), c)
           ELSE go("scheduling", Later(c)) /\ UNCHANGED <<status, claim>>
  /\ UNCHANGED <<lists, dlock, notes, calls, history>>

\* mutant: the victim is left the way doPause leaves it
SchedulePausedOnly(c) ==
  /\ At(c, "settling")
  /\ \A h \in Callers : call[h].hook # Next1(c)
  /\ waitTasks' = Append(waitTasks, Next1(c))
  /\ Become(c, IF call[c].n = 1 THEN "placing" ELSE "scheduling",
            Later(c), call[c].rest, call[c].n - 1)
  /\ UNCHANGED <<status, claim, tasks, maxRunning, dlock, notes, calls, history>>

\* ... its handler has run, under task.lock, and it waits if no one else
\* changed its status meanwhile
SchedulePaused(c) ==
  /\ At(c, "settling")
  /\ \A h \in Callers : call[h].hook # Next1(c)
  /\ LET v == Next1(c)
     IN  IF status[v] = "pause" /\ claim[v] = c
           THEN /\ SetStatus(v, "wait", None)
                /\ waitTasks' = Append(waitTasks, v)
                /\ Become(c, IF call[c].n = 1 THEN "placing" ELSE "scheduling",
                          Later(c), call[c].rest, call[c].n - 1)
           ELSE /\ Become(c, "scheduling", Later(c), call[c].rest, call[c].n)
                /\ UNCHANGED <<status, claim, waitTasks>>
  /\ UNCHANGED <<tasks, maxRunning, dlock, notes, calls, history>>

\* the pause failed: Continue returns before it has started anything, and no
\* one will look at its claim again
ScheduleFails(c) ==
  /\ Fails /\ At(c, "settling")
  /\ \A h \in Callers : call[h].hook # Next1(c)
  /\ dlock' = None
  /\ claim' = [claim EXCEPT ![Next1(c)] = None]
  /\ Return(c)
  /\ UNCHANGED <<status, lists, notes, calls, history>>

\* the first tasks are to be started, the others are put on the queue,
\* whatever their status is by now
Place(c, room, chosen) ==
  LET start  == SubSeq(chosen, 1, Min({room, Len(chosen)}))
      queued == SubSeq(chosen, Len(start) + 1, Len(chosen))
  IN  /\ waitTasks' = waitTasks \o queued
      /\ status' = [t \in Tasks |-> IF t \in ToSet(queued) THEN "wait" ELSE status[t]]
      /\ dlock' = None
      /\ IF start = <<>> THEN Return(c)
         ELSE call' = [call EXCEPT ![c] = Call("starting", start, <<>>, 0, @.hook)]

ContinuePlace(c) ==
  /\ At(c, "placing")
  /\ Place(c, call[c].room, call[c].rest)
  /\ UNCHANGED <<tasks, maxRunning, claim, notes, calls, history>>

ContinueAllCount(c) ==
  /\ Begins(c) /\ At(c, "idle") /\ dlock = None
  /\ dlock' = c
  /\ Become(c, "all_placing", <<>>, <<>>, RemainRunningCount)
  /\ UNCHANGED <<status, lists, claim, notes, history>>

ContinueAllPlace(c) ==
  /\ At(c, "all_placing")
  /\ Place(c, Max({call[c].n, 0}), Filter(Tasks, {"running", "done"}))
  /\ UNCHANGED <<tasks, maxRunning, claim, notes, calls, history>>

\* doStart outside d.lock
StartNext(c) ==
  /\ At(c, "starting")
  /\ DoStart(Next1(c))
  /\ breached' = (breached \/ RemainRunningCount <= 0 \/ dlock # None)
  /\ GoOn(c, Later(c))
  /\ UNCHANGED <<lists, dlock, notes, calls, lost>>

\* the fetcher of a task from before a restart cannot be restored
StartFails(c) ==
  /\ Fails /\ At(c, "starting")
  /\ status[Next1(c)] \notin {"running", "done"}
  /\ Return(c)
  /\ UNCHANGED <<status, lists, dlock, claim, notes, calls, history>>

-----------------------------------------------------------------------------
\* Delete

\* The list is compacted in place: a pauseAll that is walking over the same
\* array meets the shifted tasks, unless an append has moved the list since.
Shifted(array, kept) == [i \in DOMAIN array |-> IF i <= Len(kept) THEN kept[i] ELSE array[i]]
Missed(array, new, n) ==
  ToSet(SubSeq(array, n, Len(array))) \ ToSet(SubSeq(new, n, Len(new)))

DeleteRemove(c, S) ==
  /\ Begins(c) /\ At(c, "idle") /\ dlock = None
  /\ LET todo   == Filter(S, {})
         gone   == ToSet(todo)
         kept   == Without(tasks, gone)
         queued == Keep(waitTasks, gone)
     IN  /\ todo # <<>>
         /\ tasks' = kept
         /\ waitTasks' = Without(waitTasks, gone)
         /\ \E shared \in BOOLEAN :
              LET walking == {w \in Callers : At(w, "sweeping") /\ shared}
                  new(w)  == Shifted(call[w].todo, kept)
              IN  /\ call' = [w \in Goroutines |->
                       IF w = c THEN Call("deleting", todo, queued, 0, None)
                       ELSE IF w \in walking
                         THEN Call("sweeping", new(w), <<>>, call[w].n, None)
                       ELSE call[w]]
                  /\ lost' = lost \cup UNION {Missed(call[w].todo, new(w), call[w].n) : w \in walking}
  /\ UNCHANGED <<status, maxRunning, dlock, claim, notes, breached>>

DeleteOne(c) ==
  /\ At(c, "deleting") /\ call[c].todo # <<>>
  /\ Become(c, "deleting", Later(c), call[c].rest, 0)
  /\ UNCHANGED <<status, lists, dlock, claim, notes, calls, history>>

\* doDelete fails: the task is put back, at the end
DeleteFails(c) ==
  /\ Fails /\ At(c, "deleting") /\ call[c].todo # <<>> /\ dlock = None
  /\ tasks' = Append(tasks, Next1(c))
  /\ waitTasks' = IF Next1(c) \in ToSet(call[c].rest) THEN Append(waitTasks, Next1(c)) ELSE waitTasks
  /\ breached' = (breached \/ status[Next1(c)] = "running")
  /\ lost' = lost \cup ({Next1(c)} \ ToSet(waitTasks'))
  /\ Become(c, "deleting", Later(c), call[c].rest, 0)
  /\ UNCHANGED <<status, maxRunning, dlock, claim, notes, calls>>

DeleteReturn(c) ==
  /\ At(c, "deleting") /\ call[c].todo = <<>>
  /\ notes' = notes + 1
  /\ Return(c)
  /\ UNCHANGED <<status, lists, dlock, claim, calls, history>>

-----------------------------------------------------------------------------
\* notifyRunning

\* no slot is free, exactly, or nobody waits
NotifyNothing ==
  /\ notes > 0 /\ dlock = None
  /\ RemainRunningCount = 0 \/ waitTasks = <<>>
  /\ notes' = notes - 1
  /\ UNCHANGED <<status, lists, dlock, call, claim, calls, history>>

\* mutant: the count is not looked at
NotifyPopsAnyway ==
  /\ notes > 0 /\ dlock = None
  /\ waitTasks # <<>>
  /\ notes' = notes - 1
  /\ dlock' = Notifier
  /\ waitTasks' = Tail(waitTasks)
  /\ Become(Notifier, "notified", <<Head(waitTasks)>>, <<>>, 0)
  /\ UNCHANGED <<status, tasks, maxRunning, claim, calls, history>>

NotifyPop ==
  /\ notes > 0 /\ dlock = None
  /\ RemainRunningCount # 0 /\ waitTasks # <<>>
  /\ notes' = notes - 1
  /\ dlock' = Notifier
  /\ waitTasks' = Tail(waitTasks)
  /\ Become(Notifier, "notified", <<Head(waitTasks)>>, <<>>, 0)
  /\ UNCHANGED <<status, tasks, maxRunning, claim, calls, history>>

\* doStart under d.lock; its error is ignored
NotifyStart ==
  /\ At(Notifier, "notified")
  /\ \/ DoStart(Next1(Notifier)) /\ UNCHANGED lost
     \/ Fails /\ status[Next1(Notifier)] \notin {"running", "done"}
        /\ lost' = lost \cup {Next1(Notifier)} /\ UNCHANGED <<status, claim>>
  /\ dlock' = None
  /\ Return(Notifier)
  /\ UNCHANGED <<lists, notes, calls, breached>>

-----------------------------------------------------------------------------
\* What happens to running tasks, and the configuration

\* watch: only a listed task is marked done; an error is marked in any case
Finish(t) ==
  /\ status[t] = "running"
  /\ \/ Member(t) /\ SetStatus(t, "done", None)
     \/ SetStatus(t, "error", None)
  /\ notes' = notes + 1
  /\ UNCHANGED <<lists, dlock, call, calls, history>>

\* handleOnError with an extension: task.lock is held while onError runs
HookBegins(h, t) ==
  /\ At(h, "idle") /\ status[t] = "running" /\ calls < MaxCalls
  /\ \A g \in Hooks : call[g].hook # t
  /\ calls' = calls + 1
  /\ SetStatus(t, "error", None)
  /\ call' = [call EXCEPT ![h] = Call("hooked", <<>>, <<>>, 0, t)]
  /\ UNCHANGED <<lists, dlock, notes, history>>

HookEnds(h) ==
  /\ At(h, "hook_end")
  /\ notes' = IF status[call[h].hook] = "error" THEN notes + 1 ELSE notes
  /\ call' = [call EXCEPT ![h] = Idle]
  /\ UNCHANGED <<status, lists, dlock, claim, calls, history>>

\* PutConfig replaces the configuration without d.lock and tells nobody
PutConfig(n) ==
  /\ calls < MaxCalls /\ calls' = calls + 1
  /\ maxRunning' = n /\ n # maxRunning
  /\ breached' = (breached \/ n < Cardinality(Running) \/ dlock # None)
  /\ UNCHANGED <<status, tasks, waitTasks, dlock, call, claim, notes, lost>>

-----------------------------------------------------------------------------
CreateNext(c) == CreateStart(c) \/ \E t \in Tasks : CreateQueued(c, t) \/ CreateCount(c, t)

PauseNext(c) ==
  \/ \E S \in Filters : PauseSelect(c, S)
  \/ PauseDequeue(c) \/ PauseOne(c) \/ PauseFails(c)
  \/ PauseAllClear(c) \/ PauseAllOne(c) \/ PauseAllFails(c)

ContinueNext(c) ==
  \/ \E S \in Filters : ContinueSelect(c, S)
  \/ ContinueCount(c) \/ SchedulePause(c) \/ SchedulePaused(c) \/ ScheduleFails(c)
  \/ ContinuePlace(c) \/ ContinueAllCount(c) \/ ContinueAllPlace(c)
  \/ StartNext(c) \/ StartFails(c)

DeleteNext(c) ==
  \/ \E S \in Filters : DeleteRemove(c, S)
  \/ DeleteOne(c) \/ DeleteFails(c) \/ DeleteReturn(c)

NotifyNext == NotifyNothing \/ NotifyPop \/ NotifyStart

Next ==
  \/ \E c \in Callers : CreateNext(c) \/ PauseNext(c) \/ ContinueNext(c) \/ DeleteNext(c)
  \/ NotifyNext
  \/ \E t \in Tasks : Finish(t)
  \/ \E h \in Hooks : HookEnds(h) \/ \E t \in Tasks : HookBegins(h, t)
  \/ \E n \in Limits : PutConfig(n)

Spec == Init /\ [][Next]_vars

-----------------------------------------------------------------------------
\* Properties

CallPC == {"idle", "creating", "dequeuing", "pausing", "sweeping", "counting", "scheduling",
           "settling", "placing", "all_placing", "starting", "deleting", "notified",
           "hooked", "hook_end"}

\* The variables keep their types, and d.lock is held exactly by the call that
\* stands in one of its longer sections (doCreate, Continue, continueAll,
\* notifyRunning).
TypeOK ==
  /\ \A t \in Tasks : status[t] \in {"new", "ready", "running", "pause", "wait", "error", "done"}
  /\ IsInjective(tasks) /\ ToSet(tasks) \subseteq Tasks
  /\ ToSet(waitTasks) \subseteq Tasks
  /\ maxRunning \in Limits
  /\ \A c \in Goroutines :
       /\ call[c].pc \in CallPC
       /\ ToSet(call[c].todo) \cup ToSet(call[c].rest) \subseteq Tasks
       /\ dlock = c <=> call[c].pc \in {"creating", "scheduling", "settling", "placing", "all_placing", "notified"}
  /\ dlock \in Goroutines \cup {None}
  /\ \A t \in Tasks : claim[t] \in Callers \cup {None}
  /\ notes \in Nat /\ calls \in 0 .. MaxCalls
  /\ breached \in BOOLEAN /\ lost \subseteq Tasks

\* The limit is only ever exceeded on account of a start made outside d.lock
\* (Continue, continueAll), of a lower limit, or of a failed
\* deletion: doCreate and notifyRunning, which count and start under d.lock, never
\* exceed it.
LimitKept == breached \/ Cardinality(Running) <= maxRunning

\* A waiting task is on the queue, or in the hands of a call that has yet to
\* pause or start it; only a failed call, a compacted list
\* (DeleteRemove) and a task queued while its deletion failed drop one.
WaitIsQueued ==
  \A t \in ToSet(tasks) \ lost : status[t] = "wait" =>
    \/ t \in ToSet(waitTasks)
    \/ \E c \in Goroutines : t \in ToSet(call[c].todo)

\* A running task that Continue stops to make room goes back to the queue and
\* never stays paused: whatever overtakes the pause, only its failure can leave
\* the victim in that state (doPauseForScheduling).
VictimsWait ==
  \A t \in Tasks : claim[t] = None \/ status[t] # "pause"
    \/ (At(claim[t], "settling") /\ Next1(claim[t]) = t)

-----------------------------------------------------------------------------
\* Statements of the repository that the code does not keep

\* "listeners are allowed to call back into Downloader methods that acquire
\* d.lock" (downloader.go, Continue): a call back from onError never waits for a
\* d.lock whose owner waits for the task.lock that the caller holds.
CallbackNotStuck ==
  \A c \in Callers, h \in Hooks : ~(/\ At(c, "settling") /\ Next1(c) = call[h].hook
                                    /\ At(h, "hooked") \/ At(h, "counting"))
=============================================================================
