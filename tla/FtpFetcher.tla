----------------------------- MODULE FtpFetcher -----------------------------
(***************************************************************************)
(* The FTP fetcher (internal/protocol/ftp/fetcher.go): the files of a task *)
(* split into segments, a pool that hands them to workers with one login   *)
(* each, a server that may refuse logins and REST, and the fall back to    *)
(* one stream per file. runMu serialises Start and Pause; a checkpoint may *)
(* come at any time, a crash too.                                          *)
(*                                                                         *)
(* Bytes are counted in units of a segment. What the server answers, and   *)
(* when the network breaks, is nondeterministic.                           *)
(***************************************************************************)
EXTENDS Integers, Sequences, FiniteSets

CONSTANTS
    FileSizes,       \* sizes of the selected files, in units (a sequence)
    Connections,     \* logins of a task
    FtpWorkers,      \* identities of workers
    MaxFtpRetries,   \* maxRetries
    MaxFtpCrashes,   \* bound: crashes
    MaxFtpStarts,    \* bound: calls of Start
    MaxLost          \* bound: files that disappear between two runs

ASSUME FtpAssumption ==
    /\ FileSizes \in Seq(Nat) /\ Connections \in Nat \ {0}
    /\ IsFiniteSet(FtpWorkers) /\ Cardinality(FtpWorkers) = Connections
    /\ {MaxFtpRetries, MaxFtpCrashes, MaxFtpStarts, MaxLost} \subseteq Nat

VARIABLES
    segs,            \* f.segments: file, begin, end, downloaded
    noRest,          \* f.noRest
    maxConns,        \* f.maxConns, 0 for no ceiling
    ftpDone,         \* f.done
    ftpQueue,        \* pool.queue, as indexes of segs
    poolRunning,     \* pool.running
    ftpWorker,       \* per worker: place, segment, retries in a row
    firstErr,        \* of the present runWorkers: "none", "rest", "failed"
    ftpRun,          \* "none", "workers" (runWorkers) or "end" (the tail of run)
    outcomeOfRun,    \* what download returned: "ok", "err"
    ftpCancelled,    \* the run's context
    pausing,         \* a Pause waits for runDone
    ftpResult,       \* f.doneCh: "empty", or a result with the Start it belongs to
    written,         \* per file: "gone", or the units on disk
    ftpStored,       \* the record of the last checkpoint
    reborn,          \* history, per file: "unsaved" from the Start that creates a missing
                     \* file anew to the next checkpoint, "hole" after a crash in between
    ftpStarts, ftpCrashes, lost

runVars == <<ftpQueue, poolRunning, ftpWorker, firstErr, ftpRun, outcomeOfRun, ftpCancelled>>
planVars == <<segs, noRest, maxConns>>
diskVars == <<written, ftpStored, reborn>>
boundVars == <<ftpStarts, ftpCrashes, lost>>
ftpVars == <<planVars, ftpDone, runVars, pausing, ftpResult, diskVars, boundVars>>

FtpFiles == 1..Len(FileSizes)
Absent == [gone |-> TRUE, units |-> {}]
Segment(f, b, e, d) == [file |-> f, begin |-> b, end |-> e, downloaded |-> d]
Remain(s) == s.end + 1 - s.begin - s.downloaded
Out == [at |-> "left", seg |-> 0, failures |-> 0]
Empty == [kind |-> "empty", start |-> 0]

FtpTypeOK ==
    /\ \A i \in 1..Len(segs) : segs[i].file \in FtpFiles /\ segs[i].begin \in Nat
                               /\ segs[i].downloaded \in 0..FileSizes[segs[i].file]
    /\ noRest \in BOOLEAN /\ maxConns \in 0..Connections /\ ftpDone \in BOOLEAN
    /\ ftpQueue \in Seq(Nat) /\ poolRunning \in 0..Connections
    /\ \A w \in FtpWorkers : ftpWorker[w].at \in {"take", "dial", "transfer", "delay", "left"}
    /\ firstErr \in {"none", "rest", "failed"} /\ ftpRun \in {"none", "workers", "end"}
    /\ outcomeOfRun \in {"ok", "err"} /\ ftpCancelled \in BOOLEAN /\ pausing \in BOOLEAN
    /\ ftpResult \in [kind : {"empty", "ok", "err"}, start : 0..MaxFtpStarts]
    /\ \A f \in FtpFiles : written[f].units \subseteq 0..FileSizes[f]
    /\ reborn \in [FtpFiles -> {"no", "unsaved", "hole"}]

FtpInit ==
    /\ segs = <<>> /\ noRest = FALSE /\ maxConns = 0 /\ ftpDone = FALSE
    /\ ftpQueue = <<>> /\ poolRunning = 0 /\ firstErr = "none" /\ ftpRun = "none"
    /\ ftpWorker = [w \in FtpWorkers |-> Out]
    /\ outcomeOfRun = "ok" /\ ftpCancelled = FALSE /\ pausing = FALSE
    /\ ftpResult = Empty
    /\ written = [f \in FtpFiles |-> Absent]
    /\ ftpStored = [segs |-> <<>>, noRest |-> FALSE, maxConns |-> 0]
    /\ reborn = [f \in FtpFiles |-> "no"]
    /\ ftpStarts = 0 /\ ftpCrashes = 0 /\ lost = 0

-----------------------------------------------------------------------------
(* Plans *)

Smaller(a, b) == IF a < b THEN a ELSE b

\* connections()
Logins(rest, ceiling) ==
    IF rest THEN 1 ELSE IF ceiling > 0 THEN Smaller(Connections, ceiling) ELSE Connections

\* plan(): equal parts, at most one per connection; the smallest part is a unit.
SplitFile(f, n) ==
    {Segment(f, ((i - 1) * FileSizes[f]) \div n, (i * FileSizes[f]) \div n - 1, 0) : i \in 1..n}

Parts(f, rest, ceiling) ==
    LET most == Smaller(Logins(rest, ceiling), FileSizes[f]) IN IF rest \/ most = 0 THEN 1 ELSE most

Before(s, t) == s.file < t.file \/ (s.file = t.file /\ s.begin < t.begin)

\* All of them, file after file: there is one such sequence.
FreshPlans ==
    LET S == UNION {SplitFile(f, Parts(f, noRest, maxConns)) : f \in FtpFiles} IN
    {plan \in [1..Cardinality(S) -> S] :
        /\ \A s \in S : \E i \in DOMAIN plan : plan[i] = s
        /\ \A i, j \in DOMAIN plan : i < j => Before(plan[i], plan[j])}

\* mutant: a file counts as complete once one of its segments is
CompleteMutated(f) == \E i \in 1..Len(segs) : segs[i].file = f /\ Remain(segs[i]) = 0

\* planSequential(): one segment per file, from its first byte unless the file is complete.
Complete(f) ==
    /\ \E i \in 1..Len(segs) : segs[i].file = f
    /\ \A i \in 1..Len(segs) : segs[i].file = f => Remain(segs[i]) = 0

SequentialPlan ==
    [f \in FtpFiles |-> Segment(f, 0, FileSizes[f] - 1, IF Complete(f) THEN FileSizes[f] ELSE 0)]

\* openFiles: a fresh plan creates every file, a resumed one those that are gone,
\* whose segments start over.
Opened(plan, fresh) ==
    [i \in 1..Len(plan) |-> IF ~fresh /\ written[plan[i].file].gone
                            THEN [plan[i] EXCEPT !.downloaded = 0] ELSE plan[i]]

FilesAfterOpen(fresh) ==
    [f \in FtpFiles |-> IF fresh \/ written[f].gone THEN [gone |-> FALSE, units |-> {}]
                        ELSE written[f]]

Unfinished(plan) == {i \in 1..Len(plan) : Remain(plan[i]) > 0}

\* The entry of runWorkers: the unfinished segments in the order of the plan.
Launch(plan, rest) ==
    LET open == Unfinished(plan)
        n == Smaller(Logins(rest, maxConns), Cardinality(open)) IN
    /\ ftpQueue' \in {q \in [1..Cardinality(open) -> open] :
                         \A i, j \in DOMAIN q : i < j => q[i] < q[j]}
    /\ poolRunning' = n
    /\ \E W \in {V \in SUBSET FtpWorkers : Cardinality(V) = n} :
         ftpWorker' = [w \in FtpWorkers |-> IF w \in W THEN [Out EXCEPT !.at = "take"] ELSE Out]
    /\ firstErr' = "none"

-----------------------------------------------------------------------------
(* Start and Pause, under runMu *)

FtpStart ==
    /\ ftpRun = "none" /\ ~pausing /\ ftpStarts < MaxFtpStarts
    /\ ftpStarts' = ftpStarts + 1
    /\ IF ftpDone
       THEN /\ ftpResult' = [kind |-> "ok", start |-> ftpStarts']
            /\ UNCHANGED <<segs, written, reborn, ftpQueue, poolRunning, ftpWorker, firstErr, ftpRun,
                           ftpCancelled>>
       ELSE /\ ftpResult' = Empty
            /\ LET fresh == segs = <<>> IN
               /\ \E plan \in IF fresh THEN FreshPlans ELSE {IF noRest THEN SequentialPlan ELSE segs} :
                    segs' = Opened(plan, fresh) /\ Launch(Opened(plan, fresh), noRest)
               /\ written' = FilesAfterOpen(fresh)
               /\ reborn' = [f \in FtpFiles |-> IF ~fresh /\ written[f].gone THEN "unsaved" ELSE reborn[f]]
            /\ ftpRun' = "workers"
            /\ ftpCancelled' = FALSE
    /\ UNCHANGED <<noRest, maxConns, ftpDone, outcomeOfRun, pausing, ftpStored, ftpCrashes, lost>>

FtpPause ==
    /\ ~pausing /\ ftpRun # "none"
    /\ pausing' = TRUE
    /\ ftpCancelled' = TRUE
    /\ UNCHANGED <<planVars, ftpDone, ftpQueue, poolRunning, ftpWorker, firstErr, ftpRun, outcomeOfRun,
                   ftpResult, diskVars, boundVars>>

FtpPauseEnds ==
    /\ pausing /\ ftpRun = "none"
    /\ pausing' = FALSE
    /\ UNCHANGED <<planVars, ftpDone, runVars, ftpResult, diskVars, boundVars>>

-----------------------------------------------------------------------------
(* Workers and the pool *)

Place(w, place) == [ftpWorker EXCEPT ![w].at = place]
Leave(w) == ftpWorker' = [ftpWorker EXCEPT ![w] = Out] /\ poolRunning' = poolRunning - 1
PutBack(w) == ftpQueue' = <<ftpWorker[w].seg>> \o ftpQueue

\* runCtx is cancelled by Pause and by the first error.
CtxOver == ftpCancelled \/ firstErr # "none"

Fails(kind) == firstErr' = IF firstErr = "none" THEN kind ELSE firstErr

TakeSegment(w) ==
    /\ ftpWorker[w].at = "take"
    /\ IF ftpQueue = <<>>
       THEN Leave(w) /\ UNCHANGED ftpQueue
       ELSE /\ ftpWorker' = [ftpWorker EXCEPT ![w].at = "dial", ![w].seg = Head(ftpQueue)]
            /\ ftpQueue' = Tail(ftpQueue)
            /\ UNCHANGED poolRunning
    /\ UNCHANGED <<planVars, ftpDone, firstErr, ftpRun, outcomeOfRun, ftpCancelled, pausing, ftpResult,
                   diskVars, boundVars>>

\* The login, and the segment's first missing byte under f.mu; without REST the
\* stream starts at the first byte.
LogIn(w) ==
    /\ ftpWorker[w].at = "dial" /\ ~CtxOver
    /\ ftpWorker' = Place(w, "transfer")
    /\ segs' = IF noRest THEN [segs EXCEPT ![ftpWorker[w].seg].downloaded = 0] ELSE segs
    /\ UNCHANGED <<noRest, maxConns, ftpDone, ftpQueue, poolRunning, firstErr, ftpRun, outcomeOfRun,
                   ftpCancelled, pausing, ftpResult, diskVars, boundVars>>

\* A failure is retried after a delay, but for the sixth in a row.
Retries(w) ==
    IF ftpWorker[w].failures = MaxFtpRetries
    THEN Leave(w) /\ Fails("failed")
    ELSE /\ ftpWorker' = [ftpWorker EXCEPT ![w] = [at |-> "delay", seg |-> 0,
                                                     failures |-> @.failures + 1]]
         /\ UNCHANGED <<poolRunning, firstErr>>

\* pool.refused and lowerCeiling: the last worker stays and retries.
LoginRefused(w) ==
    /\ ftpWorker[w].at = "dial" /\ ~CtxOver
    /\ PutBack(w)
    /\ IF poolRunning > 1
       THEN /\ Leave(w)
            /\ maxConns' = IF maxConns = 0 THEN poolRunning - 1 ELSE Smaller(maxConns, poolRunning - 1)
            /\ UNCHANGED firstErr
       ELSE Retries(w) /\ UNCHANGED maxConns
    /\ UNCHANGED <<segs, noRest, ftpDone, ftpRun, outcomeOfRun, ftpCancelled, pausing, ftpResult,
                   diskVars, boundVars>>

\* A network error or a short transfer.
TransferFails(w) ==
    /\ ftpWorker[w].at \in {"dial", "transfer"} /\ ~CtxOver
    /\ PutBack(w)
    /\ Retries(w)
    /\ UNCHANGED <<planVars, ftpDone, ftpRun, outcomeOfRun, ftpCancelled, pausing, ftpResult,
                   diskVars, boundVars>>

\* 5xx replies, a changed size, a certificate, the disk; or a REST that the
\* server does not know, which matters only in the middle of a file.
GivesUp(w) ==
    /\ ftpWorker[w].at \in {"dial", "transfer"} /\ ~CtxOver
    /\ LET s == segs[ftpWorker[w].seg] IN
         \/ Fails("failed")
         \/ ftpWorker[w].at = "transfer" /\ ~noRest /\ s.begin + s.downloaded > 0 /\ Fails("rest")
    /\ PutBack(w) /\ Leave(w)
    /\ UNCHANGED <<planVars, ftpDone, ftpRun, outcomeOfRun, ftpCancelled, pausing, ftpResult,
                   diskVars, boundVars>>

\* One read: WriteAt first, then the count.
ReadUnit(w) ==
    LET i == ftpWorker[w].seg
        s == segs[i] IN
    /\ ftpWorker[w].at = "transfer" /\ Remain(s) > 0
    /\ written' = [written EXCEPT ![s.file].units = @ \cup {s.begin + s.downloaded}]
    /\ segs' = [segs EXCEPT ![i].downloaded = @ + 1]
    /\ UNCHANGED <<noRest, maxConns, ftpDone, runVars, pausing, ftpResult, ftpStored, reborn, boundVars>>

SegmentFetched(w) ==
    /\ ftpWorker[w].at = "transfer" /\ Remain(segs[ftpWorker[w].seg]) = 0
    /\ ftpWorker' = [ftpWorker EXCEPT ![w] = [Out EXCEPT !.at = "take"]]
    /\ UNCHANGED <<planVars, ftpDone, ftpQueue, poolRunning, firstErr, ftpRun, outcomeOfRun,
                   ftpCancelled, pausing, ftpResult, diskVars, boundVars>>

\* The context is over: in a transfer, or in the delay before a retry.
WorkerCancelled(w) ==
    /\ ftpWorker[w].at \in {"dial", "transfer", "delay"} /\ CtxOver
    /\ IF ftpWorker[w].at = "delay" THEN UNCHANGED ftpQueue ELSE PutBack(w)
    /\ Leave(w)
    /\ UNCHANGED <<planVars, ftpDone, firstErr, ftpRun, outcomeOfRun, ftpCancelled, pausing,
                   ftpResult, diskVars, boundVars>>

DelayEnds(w) ==
    /\ ftpWorker[w].at = "delay"
    /\ ftpWorker' = Place(w, "take")
    /\ UNCHANGED <<planVars, ftpDone, ftpQueue, poolRunning, firstErr, ftpRun, outcomeOfRun,
                   ftpCancelled, pausing, ftpResult, diskVars, boundVars>>

-----------------------------------------------------------------------------
(* The run *)

WorkersGone == ftpRun = "workers" /\ \A w \in FtpWorkers : ftpWorker[w].at = "left"

\* download: once more, with one stream per file.
FallBack ==
    /\ WorkersGone /\ ~ftpCancelled /\ firstErr = "rest"
    /\ noRest' = TRUE
    /\ segs' = SequentialPlan
    /\ Launch(SequentialPlan, TRUE)
    /\ UNCHANGED <<maxConns, ftpDone, ftpRun, outcomeOfRun, ftpCancelled, pausing, ftpResult,
                   diskVars, boundVars>>

Missing == \E i \in 1..Len(segs) : Remain(segs[i]) > 0

\* The other returns of runWorkers, and of download.
DownloadReturns ==
    /\ WorkersGone /\ (ftpCancelled \/ firstErr # "rest")
    /\ outcomeOfRun' = IF ~ftpCancelled /\ firstErr = "none" /\ ~Missing THEN "ok" ELSE "err"
    /\ ftpRun' = "end"
    /\ UNCHANGED <<planVars, ftpDone, ftpQueue, poolRunning, ftpWorker, firstErr, ftpCancelled, pausing,
                   ftpResult, diskVars, boundVars>>

\* The tail of run: a paused run says nothing.
RunReturns ==
    /\ ftpRun = "end"
    /\ ftpRun' = "none"
    /\ ftpDone' = (ftpDone \/ outcomeOfRun = "ok")
    /\ ftpResult' = IF (outcomeOfRun = "err" /\ ftpCancelled) \/ ftpResult # Empty THEN ftpResult
                    ELSE [kind |-> outcomeOfRun, start |-> ftpStarts]
    /\ UNCHANGED <<planVars, ftpQueue, poolRunning, ftpWorker, firstErr, outcomeOfRun, ftpCancelled,
                   pausing, diskVars, boundVars>>

FtpWait ==
    /\ ftpResult # Empty
    /\ ftpResult' = Empty
    /\ UNCHANGED <<planVars, ftpDone, runVars, pausing, diskVars, boundVars>>

\* FetcherManager.Store under f.mu, with the put that follows.
FtpCheckpoint ==
    /\ ftpStored' = [segs |-> segs, noRest |-> noRest, maxConns |-> maxConns]
    /\ reborn' = [f \in FtpFiles |-> IF reborn[f] = "unsaved" THEN "no" ELSE reborn[f]]
    /\ UNCHANGED <<planVars, ftpDone, runVars, pausing, ftpResult, written, boundVars>>

FtpCrash ==
    /\ ftpCrashes < MaxFtpCrashes
    /\ ftpCrashes' = ftpCrashes + 1
    /\ segs' = ftpStored.segs /\ noRest' = ftpStored.noRest /\ maxConns' = ftpStored.maxConns
    /\ ftpQueue' = <<>> /\ poolRunning' = 0 /\ firstErr' = "none" /\ ftpRun' = "none"
    /\ ftpWorker' = [w \in FtpWorkers |-> Out]
    /\ outcomeOfRun' = "ok" /\ ftpCancelled' = FALSE /\ pausing' = FALSE
    /\ ftpDone' = FALSE /\ ftpResult' = Empty
    /\ reborn' = [f \in FtpFiles |-> IF reborn[f] = "unsaved" THEN "hole" ELSE reborn[f]]
    /\ UNCHANGED <<written, ftpStored, ftpStarts, lost>>

\* Somebody deletes a file of a task that is not running and not complete.
FileLost(f) ==
    /\ lost < MaxLost /\ ftpRun = "none" /\ ~ftpDone /\ ~written[f].gone
    /\ lost' = lost + 1
    /\ written' = [written EXCEPT ![f] = Absent]
    /\ UNCHANGED <<planVars, ftpDone, runVars, pausing, ftpResult, ftpStored, reborn, ftpStarts, ftpCrashes>>

WorkerMoves(w) ==
    \/ TakeSegment(w) \/ LogIn(w) \/ LoginRefused(w) \/ TransferFails(w) \/ GivesUp(w)
    \/ ReadUnit(w) \/ SegmentFetched(w) \/ WorkerCancelled(w) \/ DelayEnds(w)

RunMoves == FallBack \/ DownloadReturns \/ RunReturns \/ \E w \in FtpWorkers : WorkerMoves(w)

FtpNext ==
    \/ FtpStart \/ FtpPause \/ FtpPauseEnds
    \/ RunMoves
    \/ FtpWait \/ FtpCheckpoint \/ FtpCrash \/ \E f \in FtpFiles : FileLost(f)

FtpSpec == FtpInit /\ [][FtpNext]_ftpVars

-----------------------------------------------------------------------------
(* Properties *)

\* "a segment put back can never be left without a worker" (pool): while nothing
\* has cancelled the run, a queued segment has a worker that will come for it,
\* however refused logins and finished workers interleave.
PutBackHasWorker ==
    ftpRun = "workers" /\ ~CtxOver /\ ftpQueue # <<>> =>
        \E w \in FtpWorkers : ftpWorker[w].at # "left"

\* A task that is done has every byte of every file on disk: through retries,
\* lost REST support, files that went missing between runs, checkpoints older
\* than the disk, and crashes. The exception: openFiles creates a missing file
\* anew and clears its segments in memory only; when the process ends before the
\* save that follows, the record still counts the bytes of the lost file, the
\* next Start finds a file, and the download ends with a hole in it.
FtpDoneWhole ==
    ftpDone => \A f \in FtpFiles : \/ 0..(FileSizes[f] - 1) \subseteq written[f].units
                                     \/ reborn[f] = "hole"

\* What Wait will return was said by the run of the latest Start, although
\* pauses and failed runs leave results that nobody has read (Start drains).
FtpResultFresh == ftpResult # Empty => ftpResult.start = ftpStarts
=============================================================================
