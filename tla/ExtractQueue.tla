---------------------------- MODULE ExtractQueue ----------------------------
(***************************************************************************)
(* The queue of archive extractions (pkg/download/extract_queue.go): a     *)
(* mutex, a condition variable, one worker goroutine and a wait group.     *)
(* Sections of q.mu are single actions; what happens between two of them   *)
(* (the go statement of Start, the wg.Wait of Stop, the deferred wg.Done   *)
(* of the worker) is an action of its own.                                 *)
(***************************************************************************)
EXTENDS Naturals, FiniteSets, Sequences, SequencesExt

CONSTANTS
    Jobs,        \* extraction jobs; each is enqueued at most once
    MaxStops     \* bound: Stop calls in progress at the same time

WorkerStates == {"none", "spawn", "awake", "asleep"}

ASSUME QueueAssumption == MaxStops \in Nat /\ Jobs \cap WorkerStates = {}

VARIABLES
    jobs,        \* q.jobs, oldest first
    running,     \* q.running
    shutdown,    \* q.shutdown; stays set after a Stop until the next Start
    worker,      \* "none", "spawn", "awake", "asleep" (in cond.Wait) or the job it executes
    leaving,     \* workers that have cleared running and not yet called wg.Done
    stopping,    \* Stop calls between their unlock and wg.Wait
    blockedStops,     \* Stop calls blocked in wg.Wait
    outcome      \* per job; its done channel is closed when executed or discarded

queueVars == <<jobs, running, shutdown, worker, leaving, stopping, blockedStops, outcome>>

QueueTypeOK ==
    /\ jobs \in Seq(Jobs)
    /\ running \in BOOLEAN /\ shutdown \in BOOLEAN
    /\ worker \in WorkerStates \cup Jobs
    /\ leaving \in Nat /\ stopping \in Nat /\ blockedStops \in Nat
    /\ outcome \in [Jobs -> {"new", "queued", "executing", "executed", "discarded"}]

QueueInit ==
    /\ jobs = <<>> /\ running = FALSE /\ shutdown = FALSE
    /\ worker = "none" /\ leaving = 0 /\ stopping = 0 /\ blockedStops = 0
    /\ outcome = [j \in Jobs |-> "new"]

\* The wait group's counter: Start adds one just before the go statement.
WaitCount == leaving + (IF worker \in {"none", "spawn"} THEN 0 ELSE 1)

\* cond.Signal: only the worker ever waits.
Signalled == IF worker = "asleep" THEN "awake" ELSE worker

\* mutant: a second Start is not turned away, and a second worker begins
StartMutated ==
    /\ worker # "spawn"
    /\ running' = TRUE
    /\ shutdown' = FALSE
    /\ worker' = "spawn"
    /\ UNCHANGED <<jobs, leaving, stopping, blockedStops, outcome>>

Start ==
    /\ ~running
    /\ running' = TRUE
    /\ shutdown' = FALSE
    /\ worker' = "spawn"
    /\ UNCHANGED <<jobs, leaving, stopping, blockedStops, outcome>>

SpawnWorker ==
    /\ worker = "spawn"
    /\ worker' = "awake"
    /\ UNCHANGED <<jobs, running, shutdown, leaving, stopping, blockedStops, outcome>>

Stop ==
    /\ running
    /\ stopping + blockedStops < MaxStops
    /\ shutdown' = TRUE
    /\ worker' = Signalled
    /\ stopping' = stopping + 1
    /\ UNCHANGED <<jobs, running, leaving, blockedStops, outcome>>

StopWaits ==
    /\ stopping > 0
    /\ stopping' = stopping - 1
    /\ blockedStops' = IF WaitCount > 0 THEN blockedStops + 1 ELSE blockedStops
    /\ UNCHANGED <<jobs, running, shutdown, worker, leaving, outcome>>

Close(J, as) == outcome' = [j \in Jobs |-> IF j \in J THEN as ELSE outcome[j]]

\* mutant: the worker is not signalled, and sleeps on
EnqueueMutated(j) ==
    /\ outcome[j] = "new"
    /\ IF shutdown
       THEN Close({j}, "discarded") /\ UNCHANGED <<jobs, worker>>
       ELSE Close({j}, "queued") /\ jobs' = Append(jobs, j) /\ UNCHANGED worker
    /\ UNCHANGED <<running, shutdown, leaving, stopping, blockedStops>>

Enqueue(j) ==
    /\ outcome[j] = "new"
    /\ IF shutdown
       THEN Close({j}, "discarded") /\ UNCHANGED <<jobs, worker>>
       ELSE Close({j}, "queued") /\ jobs' = Append(jobs, j) /\ worker' = Signalled
    /\ UNCHANGED <<running, shutdown, leaving, stopping, blockedStops>>

RemovePendingJob(j) ==
    /\ \E i \in DOMAIN jobs : jobs[i] = j /\ jobs' = RemoveAt(jobs, i)
    /\ Close({j}, "discarded")
    /\ UNCHANGED <<running, shutdown, worker, leaving, stopping, blockedStops>>

WorkerSleeps ==
    /\ worker = "awake" /\ jobs = <<>> /\ ~shutdown
    /\ worker' = "asleep"
    /\ UNCHANGED <<jobs, running, shutdown, leaving, stopping, blockedStops, outcome>>

WorkerShutsDown ==
    /\ worker = "awake" /\ shutdown
    /\ Close(ToSet(jobs), "discarded")
    /\ jobs' = <<>>
    /\ running' = FALSE
    /\ worker' = "none"
    /\ leaving' = leaving + 1
    /\ UNCHANGED <<shutdown, stopping, blockedStops>>

\* The counter reaching zero releases every Stop that waits at that moment.
WorkerLeaves ==
    /\ leaving > 0
    /\ leaving' = leaving - 1
    /\ blockedStops' = IF WaitCount = 1 THEN 0 ELSE blockedStops
    /\ UNCHANGED <<jobs, running, shutdown, worker, stopping, outcome>>

Dequeue ==
    /\ worker = "awake" /\ jobs # <<>> /\ ~shutdown
    /\ worker' = Head(jobs)
    /\ jobs' = Tail(jobs)
    /\ Close({Head(jobs)}, "executing")
    /\ UNCHANGED <<running, shutdown, leaving, stopping, blockedStops>>

Finish(j) ==
    /\ worker = j
    /\ worker' = "awake"
    /\ Close({j}, "executed")
    /\ UNCHANGED <<jobs, running, shutdown, leaving, stopping, blockedStops>>

QueueNext ==
    \/ Start \/ SpawnWorker \/ Stop \/ StopWaits
    \/ \E j \in Jobs : Enqueue(j) \/ RemovePendingJob(j) \/ Finish(j)
    \/ WorkerSleeps \/ WorkerShutsDown \/ WorkerLeaves \/ Dequeue

\* The goroutines the queue itself runs; callers owe nothing.
WorkerStep ==
    SpawnWorker \/ WorkerSleeps \/ WorkerShutsDown \/ WorkerLeaves \/ Dequeue
        \/ \E j \in Jobs : Finish(j)

QueueFairness == WF_queueVars(WorkerStep)

QueueSpec == QueueInit /\ [][QueueNext]_queueVars /\ QueueFairness

-----------------------------------------------------------------------------
(* Properties *)

\* Whatever the order of Start, Stop, Enqueue and RemovePendingJob, jobs run
\* one at a time and each at most once, and a closed job stays closed (a second
\* close of done would panic): the queue implements SerialJobs.
Serial == INSTANCE SerialJobs WITH Jobs <- Jobs, outcome <- outcome
SerialExecution == Serial!SerialInit /\ [][Serial!SerialNext]_outcome

\* A job handed to a queue that was ever started gets its done channel closed,
\* also when a Start overlaps a Stop that is still waiting (extract_queue.go:54)
\* or a job arrives after the worker has left: EnqueueAndWait returns.
JobsEnd ==
    \A j \in Jobs :
        (outcome[j] = "queued" /\ (running \/ shutdown)) ~> outcome[j] \in {"executed", "discarded"}
=============================================================================
