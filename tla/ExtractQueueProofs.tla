------------------------- MODULE ExtractQueueProofs -------------------------
(***************************************************************************)
(* The extraction queue implements SerialJobs, for any set of jobs and any *)
(* number of overlapping Stops. The steps of the queue are mapped one by   *)
(* one: what the queue adds (a mutex, a condition, a wait group) is a      *)
(* stutter of the abstract specification.                                  *)
(***************************************************************************)
EXTENDS ExtractQueue, SequenceTheorems, TLAPS

-----------------------------------------------------------------------------
\* The inductive invariant

\* There is a worker exactly while running is set: the flag is what keeps a
\* second Start from beginning a second worker.
OneWorker == running <=> worker # "none"

\* The job that executes is the one the worker holds.
ExecutesItsJob == \A j \in Jobs : outcome[j] = "executing" <=> worker = j

\* The queue holds the queued jobs, each once.
HoldsQueued ==
    /\ \A i \in DOMAIN jobs : outcome[jobs[i]] = "queued"
    /\ \A i, k \in DOMAIN jobs : jobs[i] = jobs[k] => i = k
    /\ \A j \in Jobs : outcome[j] = "queued" => \E i \in DOMAIN jobs : jobs[i] = j

QueueInv == QueueTypeOK /\ OneWorker /\ ExecutesItsJob /\ HoldsQueued

-----------------------------------------------------------------------------
\* Sequences

\* append(q.jobs[:i], q.jobs[i+1:]...): what is left keeps its order.
LEMMA RemoveAtProperties ==
  ASSUME NEW S, NEW s \in Seq(S), NEW i \in 1..Len(s)
  PROVE  /\ RemoveAt(s, i) \in Seq(S)
         /\ Len(RemoveAt(s, i)) = Len(s) - 1
         /\ \A k \in 1..Len(s) - 1 : RemoveAt(s, i)[k] = IF k < i THEN s[k] ELSE s[k + 1]
<1> DEFINE a == SubSeq(s, 1, i - 1)
           b == SubSeq(s, i + 1, Len(s))
<1>0. Len(s) \in Nat /\ i \in Nat /\ 1 <= i /\ i <= Len(s)
  BY LenProperties
<1>1. a \in Seq(S) /\ Len(a) = i - 1 /\ \A k \in 1..i - 1 : a[k] = s[k]
  BY <1>0, SubSeqProperties
<1>2. b \in Seq(S) /\ Len(b) = Len(s) - i /\ \A k \in 1..Len(s) - i : b[k] = s[k + i]
  BY <1>0, SubSeqProperties
<1> HIDE DEF a, b
<1>3. a \o b \in Seq(S) /\ Len(a \o b) = Len(s) - 1
  <2>1. a \o b \in Seq(S) /\ Len(a \o b) = Len(a) + Len(b)
    BY <1>1, <1>2, ConcatProperties
  <2> QED
    BY <2>1, <1>0, <1>1, <1>2
<1>4. \A k \in 1..Len(s) - 1 : (a \o b)[k] = IF k < i THEN s[k] ELSE s[k + 1]
  <2> TAKE k \in 1..Len(s) - 1
  <2>1. CASE k < i
    BY <2>1, <1>0, <1>1, <1>2, ConcatProperties
  <2>2. CASE ~ (k < i)
    <3>1. (a \o b)[k] = b[k - (i - 1)]
      BY <2>2, <1>0, <1>1, <1>2, ConcatProperties
    <3>2. b[k - (i - 1)] = s[k + 1]
      BY <2>2, <1>0, <1>2
    <3> QED
      BY <3>1, <3>2, <2>2
  <2> QED
    BY <2>1, <2>2
<1> QED
  BY <1>3, <1>4 DEF RemoveAt, a, b

-----------------------------------------------------------------------------
\* The invariant, step by step

\* Steps that leave the queue and the outcomes alone.
LEMMA QuietSteps ==
  ASSUME QueueInv, UNCHANGED <<jobs, outcome>>,
         Start \/ SpawnWorker \/ Stop \/ StopWaits \/ WorkerSleeps \/ WorkerLeaves
  PROVE  QueueInv'
<1> USE QueueAssumption DEF QueueInv, QueueTypeOK, OneWorker, ExecutesItsJob, WorkerStates
<1>0. HoldsQueued'
  BY DEF HoldsQueued
<1>1. CASE Start
  BY <1>0, <1>1 DEF Start
<1>2. CASE SpawnWorker
  BY <1>0, <1>2 DEF SpawnWorker
<1>3. CASE Stop
  BY <1>0, <1>3 DEF Stop, Signalled
<1>4. CASE StopWaits
  BY <1>0, <1>4 DEF StopWaits
<1>5. CASE WorkerSleeps
  BY <1>0, <1>5 DEF WorkerSleeps
<1>6. CASE WorkerLeaves
  BY <1>0, <1>6 DEF WorkerLeaves
<1> QED
  BY <1>1, <1>2, <1>3, <1>4, <1>5, <1>6

\* EnqueueJob: a job is queued at the end, or refused while the queue shuts down.
LEMMA EnqueueStep ==
  ASSUME QueueInv, NEW j \in Jobs, Enqueue(j)
  PROVE  QueueInv'
<1> USE QueueAssumption DEF QueueInv
<1>1. CASE shutdown
  BY <1>1 DEF Enqueue, Close, QueueTypeOK, OneWorker, ExecutesItsJob, HoldsQueued
<1>2. CASE ~shutdown
  <2>1. jobs' = Append(jobs, j) /\ worker' = Signalled /\ outcome[j] = "new"
        /\ outcome' = [k \in Jobs |-> IF k = j THEN "queued" ELSE outcome[k]]
    BY <1>2 DEF Enqueue, Close
  <2>2. /\ jobs \in Seq(Jobs) /\ Len(jobs) \in Nat /\ DOMAIN jobs = 1..Len(jobs)
        /\ \A i \in DOMAIN jobs : jobs[i] \in Jobs
    BY LenProperties, ElementOfSeq DEF QueueTypeOK
  <2>3. /\ jobs' \in Seq(Jobs) /\ Len(jobs') = Len(jobs) + 1 /\ DOMAIN jobs' = 1..Len(jobs) + 1
        /\ \A i \in 1..Len(jobs) : jobs'[i] = jobs[i]
        /\ jobs'[Len(jobs) + 1] = j
    BY <2>1, <2>2, AppendProperties, LenProperties
  <2>4. QueueTypeOK' /\ OneWorker' /\ ExecutesItsJob'
    BY <2>1, <2>3, <1>2
    DEF Enqueue, Signalled, QueueTypeOK, OneWorker, ExecutesItsJob, WorkerStates
  <2>5. \A i \in DOMAIN jobs : jobs[i] # j /\ outcome'[jobs[i]] = "queued"
    BY <2>1, <2>2 DEF HoldsQueued
  <2>6. HoldsQueued'
    <3>1. \A i \in DOMAIN jobs' : outcome'[jobs'[i]] = "queued"
      BY <2>1, <2>2, <2>3, <2>5
    <3>2. \A i, k \in DOMAIN jobs' : jobs'[i] = jobs'[k] => i = k
      BY <2>2, <2>3, <2>5 DEF HoldsQueued
    <3>3. ASSUME NEW k \in Jobs, outcome'[k] = "queued" PROVE \E i \in DOMAIN jobs' : jobs'[i] = k
      BY <3>3, <2>1, <2>2, <2>3 DEF HoldsQueued
    <3> QED
      BY <3>1, <3>2, <3>3 DEF HoldsQueued
  <2> QED
    BY <2>4, <2>6
<1> QED
  BY <1>1, <1>2

\* RemovePendingJob: one job leaves the middle of the queue.
LEMMA RemoveStep ==
  ASSUME QueueInv, NEW j \in Jobs, RemovePendingJob(j)
  PROVE  QueueInv' /\ outcome[j] = "queued"
<1> USE QueueAssumption DEF QueueInv
<1>0. /\ jobs \in Seq(Jobs) /\ Len(jobs) \in Nat /\ DOMAIN jobs = 1..Len(jobs)
      /\ \A i \in DOMAIN jobs : jobs[i] \in Jobs
  BY LenProperties, ElementOfSeq DEF QueueTypeOK
<1>1. PICK n \in 1..Len(jobs) : jobs[n] = j /\ jobs' = RemoveAt(jobs, n)
  BY <1>0 DEF RemovePendingJob
<1>2. /\ jobs' \in Seq(Jobs) /\ Len(jobs') = Len(jobs) - 1 /\ DOMAIN jobs' = 1..Len(jobs) - 1
      /\ \A k \in 1..Len(jobs) - 1 : jobs'[k] = IF k < n THEN jobs[k] ELSE jobs[k + 1]
  BY <1>0, <1>1, RemoveAtProperties, LenProperties
<1>3. outcome[j] = "queued"
  BY <1>0, <1>1 DEF HoldsQueued
<1>4. /\ outcome' = [k \in Jobs |-> IF k = j THEN "discarded" ELSE outcome[k]]
      /\ UNCHANGED <<running, shutdown, worker, leaving, stopping, blockedStops>>
  BY DEF RemovePendingJob, Close
<1>5. QueueTypeOK' /\ OneWorker' /\ ExecutesItsJob'
  BY <1>2, <1>3, <1>4 DEF QueueTypeOK, OneWorker, ExecutesItsJob
<1>6. HoldsQueued'
  <2>1. \A i, k \in DOMAIN jobs' : jobs'[i] = jobs'[k] => i = k
    BY <1>0, <1>1, <1>2 DEF HoldsQueued
  <2>2. \A i \in DOMAIN jobs' : jobs'[i] # j /\ jobs'[i] \in Jobs /\ outcome[jobs'[i]] = "queued"
    BY <1>0, <1>1, <1>2 DEF HoldsQueued
  <2>3. ASSUME NEW k \in Jobs, outcome'[k] = "queued" PROVE \E i \in DOMAIN jobs' : jobs'[i] = k
    <3>1. k # j /\ outcome[k] = "queued"
      BY <2>3, <1>4
    <3>2. PICK m \in 1..Len(jobs) : jobs[m] = k
      BY <3>1, <1>0 DEF HoldsQueued
    <3>3. m # n
      BY <3>1, <3>2, <1>1
    <3>4. CASE m < n
      BY <3>4, <3>2, <1>0, <1>2
    <3>5. CASE m > n
      <4>1. m - 1 \in DOMAIN jobs' /\ jobs'[m - 1] = jobs[m]
        BY <3>5, <1>0, <1>2
      <4> QED
        BY <4>1, <3>2
    <3> QED
      BY <3>3, <3>4, <3>5
  <2> QED
    BY <2>1, <2>2, <2>3, <1>4 DEF HoldsQueued
<1> QED
  BY <1>3, <1>5, <1>6

\* The worker takes the first job.
LEMMA DequeueStep ==
  ASSUME QueueInv, Dequeue
  PROVE  /\ QueueInv'
         /\ Head(jobs) \in Jobs /\ outcome[Head(jobs)] = "queued"
         /\ \A j \in Jobs : outcome[j] # "executing"
<1> USE QueueAssumption DEF QueueInv
<1>0. /\ jobs \in Seq(Jobs) /\ Len(jobs) \in Nat \ {0} /\ DOMAIN jobs = 1..Len(jobs)
      /\ \A i \in DOMAIN jobs : jobs[i] \in Jobs
  BY LenProperties, ElementOfSeq, EmptySeq DEF QueueTypeOK, Dequeue
<1>1. Head(jobs) = jobs[1] /\ jobs[1] \in Jobs /\ outcome[jobs[1]] = "queued"
  BY <1>0, HeadTailProperties DEF HoldsQueued
<1>2. /\ jobs' \in Seq(Jobs) /\ Len(jobs') = Len(jobs) - 1 /\ DOMAIN jobs' = 1..Len(jobs) - 1
      /\ \A k \in 1..Len(jobs) - 1 : jobs'[k] = jobs[k + 1]
  BY <1>0, HeadTailProperties, LenProperties DEF Dequeue
<1>3. /\ outcome' = [k \in Jobs |-> IF k = jobs[1] THEN "executing" ELSE outcome[k]]
      /\ worker = "awake" /\ worker' = jobs[1]
      /\ UNCHANGED <<running, shutdown, leaving, stopping, blockedStops>>
  BY <1>1 DEF Dequeue, Close
<1>4. \A j \in Jobs : outcome[j] # "executing"
  BY <1>3 DEF ExecutesItsJob, WorkerStates
<1>5. QueueTypeOK' /\ OneWorker' /\ ExecutesItsJob'
  BY <1>1, <1>2, <1>3, <1>4 DEF QueueTypeOK, OneWorker, ExecutesItsJob, WorkerStates
<1>6. HoldsQueued'
  <2>1. ASSUME NEW i \in DOMAIN jobs', NEW k \in DOMAIN jobs', jobs'[i] = jobs'[k] PROVE i = k
    <3>1. i + 1 \in DOMAIN jobs /\ k + 1 \in DOMAIN jobs /\ i \in Int /\ k \in Int
      BY <1>0, <1>2
    <3>2. jobs[i + 1] = jobs[k + 1]
      BY <1>2, <2>1
    <3>3. i + 1 = k + 1
      BY <3>1, <3>2 DEF HoldsQueued
    <3> QED
      BY <3>1, <3>3
  <2>2. \A i \in DOMAIN jobs' : jobs'[i] # jobs[1] /\ jobs'[i] \in Jobs /\ outcome[jobs'[i]] = "queued"
    BY <1>0, <1>2 DEF HoldsQueued
  <2>3. ASSUME NEW k \in Jobs, outcome'[k] = "queued" PROVE \E i \in DOMAIN jobs' : jobs'[i] = k
    <3>1. k # jobs[1] /\ outcome[k] = "queued"
      BY <2>3, <1>3
    <3>2. PICK m \in 1..Len(jobs) : jobs[m] = k
      BY <3>1, <1>0 DEF HoldsQueued
    <3>3. m - 1 \in DOMAIN jobs' /\ jobs'[m - 1] = jobs[m]
      BY <3>1, <3>2, <1>0, <1>2
    <3> QED
      BY <3>2, <3>3
  <2> QED
    BY <2>1, <2>2, <2>3, <1>3 DEF HoldsQueued
<1> QED
  BY <1>1, <1>4, <1>5, <1>6

\* The job ends, and its worker looks for the next.
LEMMA FinishStep ==
  ASSUME QueueInv, NEW j \in Jobs, Finish(j)
  PROVE  QueueInv' /\ outcome[j] = "executing"
<1> USE QueueAssumption DEF QueueInv
<1>1. /\ outcome' = [k \in Jobs |-> IF k = j THEN "executed" ELSE outcome[k]]
      /\ worker = j /\ worker' = "awake" /\ outcome[j] = "executing"
      /\ UNCHANGED <<jobs, running, shutdown, leaving, stopping, blockedStops>>
  BY DEF Finish, Close, ExecutesItsJob
<1>2. QueueTypeOK' /\ OneWorker' /\ ExecutesItsJob'
  BY <1>1 DEF QueueTypeOK, OneWorker, ExecutesItsJob, WorkerStates
<1>3. \A i \in DOMAIN jobs : jobs[i] \in Jobs
  BY ElementOfSeq, LenProperties DEF QueueTypeOK
<1>4. HoldsQueued'
  BY <1>1, <1>3 DEF HoldsQueued
<1> QED
  BY <1>1, <1>2, <1>4

\* The worker that shuts down closes what is queued, and leaves.
LEMMA ShutdownStep ==
  ASSUME QueueInv, WorkerShutsDown
  PROVE  /\ QueueInv'
         /\ ToSet(jobs) \in SUBSET Jobs
         /\ \A j \in ToSet(jobs) : outcome[j] = "queued"
<1> USE QueueAssumption DEF QueueInv
<1>1. /\ ToSet(jobs) \in SUBSET Jobs
      /\ \A j \in ToSet(jobs) : outcome[j] = "queued"
      /\ \A j \in Jobs : outcome[j] = "queued" => j \in ToSet(jobs)
  BY ElementOfSeq, LenProperties DEF ToSet, QueueTypeOK, HoldsQueued
<1>2. /\ outcome' = [k \in Jobs |-> IF k \in ToSet(jobs) THEN "discarded" ELSE outcome[k]]
      /\ jobs' = <<>> /\ running' = FALSE /\ worker = "awake" /\ worker' = "none"
      /\ leaving' = leaving + 1 /\ UNCHANGED <<shutdown, stopping, blockedStops>>
  BY DEF WorkerShutsDown, Close
<1>3. jobs' \in Seq(Jobs) /\ DOMAIN jobs' = {}
  BY <1>2, EmptySeq
<1>4. QueueTypeOK' /\ OneWorker'
  <2>1. outcome' \in [Jobs -> {"new", "queued", "executing", "executed", "discarded"}]
    <3> DEFINE J == ToSet(jobs)
    <3>1. outcome' = [k \in Jobs |-> IF k \in J THEN "discarded" ELSE outcome[k]]
      BY <1>2
    <3> HIDE DEF J
    <3> QED
      BY <3>1 DEF QueueTypeOK
  <2>2. leaving' \in Nat /\ stopping' \in Nat /\ blockedStops' \in Nat
    BY <1>2 DEF QueueTypeOK
  <2> QED
    BY <1>2, <1>3, <2>1, <2>2 DEF QueueTypeOK, OneWorker, WorkerStates
<1>5. ExecutesItsJob'
  BY <1>2 DEF ExecutesItsJob, QueueTypeOK, WorkerStates
<1>6. HoldsQueued'
  BY <1>1, <1>2, <1>3 DEF HoldsQueued
<1> QED
  BY <1>1, <1>4, <1>5, <1>6

\* The queue starts empty.
LEMMA InitInv == QueueInit => QueueInv
<1> SUFFICES ASSUME QueueInit PROVE QueueInv
  OBVIOUS
<1>1. jobs = <<>> /\ jobs \in Seq(Jobs) /\ DOMAIN jobs = {}
  BY EmptySeq DEF QueueInit
<1>2. \A j \in Jobs : outcome[j] = "new" /\ worker # j
  BY QueueAssumption DEF QueueInit, WorkerStates
<1>3. QueueTypeOK /\ OneWorker
  BY <1>1 DEF QueueInit, QueueTypeOK, OneWorker, WorkerStates
<1> QED
  BY <1>1, <1>2, <1>3 DEF QueueInv, ExecutesItsJob, HoldsQueued

\* Every step preserves the invariant.
LEMMA NextInv ==
  ASSUME QueueInv, [QueueNext]_queueVars
  PROVE  QueueInv'
<1>1. CASE Start
  BY <1>1, QuietSteps DEF Start
<1>2. CASE SpawnWorker
  BY <1>2, QuietSteps DEF SpawnWorker
<1>3. CASE Stop
  BY <1>3, QuietSteps DEF Stop
<1>4. CASE StopWaits
  BY <1>4, QuietSteps DEF StopWaits
<1>5. CASE \E j \in Jobs : Enqueue(j) \/ RemovePendingJob(j) \/ Finish(j)
  BY <1>5, EnqueueStep, RemoveStep, FinishStep
<1>6. CASE WorkerSleeps
  BY <1>6, QuietSteps DEF WorkerSleeps
<1>7. CASE WorkerShutsDown
  BY <1>7, ShutdownStep
<1>8. CASE WorkerLeaves
  BY <1>8, QuietSteps DEF WorkerLeaves
<1>9. CASE Dequeue
  BY <1>9, DequeueStep
<1>10. CASE UNCHANGED queueVars
  BY <1>10
  DEF queueVars, QueueInv, QueueTypeOK, OneWorker, ExecutesItsJob, HoldsQueued
<1> QED
  BY <1>1, <1>2, <1>3, <1>4, <1>5, <1>6, <1>7, <1>8, <1>9, <1>10 DEF QueueNext

\* The queue holds exactly the queued jobs, each once, and executes only the job
\* its one worker holds, whatever Starts and Stops overlap (extract_queue.go).
THEOREM Invariant == QueueSpec => []QueueInv
<1>1. QueueInv /\ [QueueNext]_queueVars => QueueInv'
  BY NextInv
<1> QED
  BY <1>1, InitInv, PTL DEF QueueSpec

-----------------------------------------------------------------------------
\* The refinement

\* The queue starts where SerialJobs starts.
LEMMA InitRefines == QueueInit => Serial!SerialInit
BY DEF QueueInit, Serial!SerialInit

\* Every step of the queue is a step of SerialJobs or leaves the outcomes alone.
LEMMA StepRefines ==
  ASSUME QueueInv, [QueueNext]_queueVars
  PROVE  [Serial!SerialNext]_outcome
<1> USE DEF Serial!Becomes
<1>1. ASSUME NEW j \in Jobs, Enqueue(j) PROVE Serial!SerialNext
  <2>1. Serial!Submit(j) \/ Serial!Refuse(j)
    BY <1>1 DEF Enqueue, Close, Serial!Submit, Serial!Refuse
  <2> QED
    BY <2>1 DEF Serial!SerialNext
<1>2. ASSUME NEW j \in Jobs, RemovePendingJob(j) PROVE Serial!SerialNext
  <2>1. Serial!Becomes({j}, "queued", "discarded")
    BY <1>2, RemoveStep DEF RemovePendingJob, Close
  <2> QED
    BY <2>1 DEF Serial!SerialNext, Serial!Discard
<1>3. ASSUME NEW j \in Jobs, Finish(j) PROVE Serial!SerialNext
  <2>1. Serial!End(j)
    BY <1>3, FinishStep DEF Finish, Close, Serial!End
  <2> QED
    BY <2>1 DEF Serial!SerialNext
<1>4. CASE Dequeue
  <2>1. Serial!Begin(Head(jobs)) /\ Head(jobs) \in Jobs
    BY <1>4, DequeueStep DEF Dequeue, Close, Serial!Begin
  <2> QED
    BY <2>1 DEF Serial!SerialNext
<1>5. CASE WorkerShutsDown
  <2>1. ToSet(jobs) \in SUBSET Jobs /\ Serial!Becomes(ToSet(jobs), "queued", "discarded")
    BY <1>5, ShutdownStep DEF WorkerShutsDown, Close
  <2> QED
    BY <2>1 DEF Serial!SerialNext, Serial!Discard
<1>6. CASE \/ Start \/ SpawnWorker \/ Stop \/ StopWaits \/ WorkerSleeps \/ WorkerLeaves
           \/ UNCHANGED queueVars
  BY <1>6 DEF Start, SpawnWorker, Stop, StopWaits, WorkerSleeps, WorkerLeaves, queueVars
<1> QED
  BY <1>1, <1>2, <1>3, <1>4, <1>5, <1>6 DEF QueueNext

\* SerialExecution: jobs run one at a time and each at most once, and a closed job
\* stays closed, for any number of jobs and of overlapping Starts and Stops: the
\* queue implements SerialJobs.
THEOREM QueueIsSerial == QueueSpec => SerialExecution
<1>1. QueueInv /\ [QueueNext]_queueVars => [Serial!SerialNext]_outcome
  BY StepRefines
<1> QED
  BY <1>1, InitRefines, Invariant, PTL DEF QueueSpec, SerialExecution

\* The same, as an implementation of the abstract specification.
COROLLARY ImplementsSerialJobs == QueueSpec => Serial!SerialSpec
BY QueueIsSerial DEF SerialExecution, Serial!SerialSpec
=============================================================================
