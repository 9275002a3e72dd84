----------------------------- MODULE HlsFetcher -----------------------------
(***************************************************************************)
(* The HLS fetcher (internal/protocol/hls/fetcher.go, journal.go): a plan  *)
(* of segments, one run object per Start with a producer, workers and a    *)
(* supervisor, a staging folder with a journal of finished segments, and   *)
(* the merge into the target. Crashes may come between any two steps that  *)
(* touch the disk. The engine's calls (Start, Pause, Patch, Close) follow  *)
(* one another under task.lock, its checkpoint does not wait for them.     *)
(*                                                                         *)
(* What a playlist resolves to is a member of Medias: all that a plan's    *)
(* fingerprint covers. Every segment file of every media has the same      *)
(* size, which leaves the size check of the journal as little as possible. *)
(***************************************************************************)
EXTENDS Naturals, FiniteSets, FiniteSetsExt

CONSTANTS
    Medias,        \* what the playlist may be, now and after a Patch of its URL
    NumSegments,   \* segments of a plan
    HlsWorkers,    \* SegmentConnections
    MaxHlsRuns,    \* bound: calls of Start; also the staging identities
    MaxHlsCrashes, \* bound: crashes
    Nothing        \* an absent file

ASSUME HlsAssumption ==
    /\ NumSegments \in Nat \ {0} /\ MaxHlsRuns \in Nat /\ MaxHlsCrashes \in Nat
    /\ Nothing \notin Medias

Segments == 1..NumSegments
RunIds == 1..MaxHlsRuns
NoPlan == [media |-> "none", id |-> 0]

VARIABLES
    plan,          \* f.state: media and staging identity (the folder is pinned to it)
    hasRes,        \* f.meta.Res # nil
    activeRun,     \* number of f.activeRun, 0 for nil
    hlsRuns,       \* per call of Start: the run and its goroutines
    hlsClosed,     \* f.closed
    call,          \* the engine's call under way: kind, and the run whose done it awaits
    staging,       \* per staging identity: folder exists, segment files, journal file
    target,        \* the output file: per segment what it holds, or Nothing
    crashes

hlsVars == <<plan, hasRes, activeRun, hlsRuns, hlsClosed, call, staging, target, crashes>>
diskVars == <<staging, target>>

Plans == [media : Medias, id : RunIds] \cup {NoPlan}
Idle == [seg |-> 0, at |-> "idle"]
Gone == [seg |-> 0, at |-> "gone"]
NoRunYet == [media |-> Nothing, id |-> 0, todo |-> {}, kept |-> {}, failed |-> FALSE,
             cancelled |-> FALSE, result |-> "ok", at |-> "ended", producer |-> FALSE,
             workers |-> [w \in HlsWorkers |-> Gone]]
NoJournal == [media |-> Nothing, done |-> {}]
NoFolder == [seg |-> [s \in Segments |-> Nothing], journal |-> NoJournal]

HlsTypeOK ==
    /\ plan \in Plans /\ hasRes \in BOOLEAN
    /\ activeRun \in 0..MaxHlsRuns
    /\ \A n \in RunIds :
        /\ hlsRuns[n].media \in Medias \cup {Nothing} /\ hlsRuns[n].id \in 0..MaxHlsRuns
        /\ hlsRuns[n].todo \subseteq Segments /\ hlsRuns[n].kept \subseteq Segments
        /\ hlsRuns[n].at \in {"unused", "work", "merge", "replace", "rename", "check", "remove",
                              "clear", "report", "ended"}
        /\ hlsRuns[n].result \in {"ok", "err"}
        /\ \A w \in HlsWorkers : hlsRuns[n].workers[w] \in
             [seg : Segments, at : {"fetch", "journal"}] \cup {Idle, Gone}
    /\ hlsClosed \in BOOLEAN
    /\ call \in [kind : {"none", "pause", "close"}, run : 0..MaxHlsRuns]
    /\ \A d \in RunIds : /\ staging[d].seg \in [Segments -> Medias \cup {Nothing}]
                         /\ staging[d].journal.done \subseteq Segments
    /\ target \in [Segments -> Medias] \cup {Nothing}
    /\ crashes \in 0..MaxHlsCrashes

HlsInit ==
    /\ plan = NoPlan /\ hasRes = FALSE /\ activeRun = 0 /\ hlsClosed = FALSE
    /\ hlsRuns = [n \in RunIds |-> [NoRunYet EXCEPT !.at = "unused"]]
    /\ call = [kind |-> "none", run |-> 0]
    /\ target = Nothing
    /\ staging = [d \in RunIds |-> NoFolder]
    /\ crashes = 0

-----------------------------------------------------------------------------
(* Calls of the engine *)

Unused == {n \in RunIds : hlsRuns[n].at = "unused"}
NextRun == Min(Unused)

\* loadJournal and prepareRun: the segments that the journal of this very plan
\* names, and whose files are there.
Kept(p) ==
    LET folder == staging[p.id] IN
    IF folder.journal.media # p.media THEN {}
    ELSE {s \in folder.journal.done : folder.seg[s] # Nothing}

NewHlsRun(p) ==
    LET todo == Segments \ Kept(p) IN
    [media |-> p.media, id |-> p.id, todo |-> todo, kept |-> Kept(p), failed |-> FALSE,
     cancelled |-> FALSE, result |-> "ok", at |-> "work", producer |-> todo # {},
     workers |-> [w \in HlsWorkers |-> IF todo = {} THEN Gone ELSE Idle]]

\* resolvePlanLocked: whatever the playlist holds at this moment.
FreshPlans == [media : Medias, id : {NextRun}]

\* The engine's start: Resolve when there is no resource, and Fetcher.Start,
\* which resolves anew when a restart has lost the plan. A fresh plan has a
\* fresh staging identity.
HlsStart ==
    /\ call.kind = "none" /\ ~hlsClosed /\ activeRun = 0 /\ Unused # {}
    /\ \E p \in IF hasRes /\ plan # NoPlan THEN {plan} ELSE FreshPlans :
        /\ plan' = p
        /\ hlsRuns' = [hlsRuns EXCEPT ![NextRun] = NewHlsRun(p)]
    /\ hasRes' = TRUE
    /\ activeRun' = NextRun
    /\ UNCHANGED <<hlsClosed, call, diskVars, crashes>>

\* Pause takes the run under f.mu, cancels it and waits for its done.
HlsPause ==
    /\ call.kind = "none" /\ activeRun # 0
    /\ call' = [kind |-> "pause", run |-> activeRun]
    /\ hlsRuns' = [hlsRuns EXCEPT ![activeRun].cancelled = TRUE]
    /\ UNCHANGED <<plan, hasRes, activeRun, hlsClosed, diskVars, crashes>>

HlsClose ==
    /\ call.kind = "none" /\ ~hlsClosed
    /\ hlsClosed' = TRUE
    /\ call' = [kind |-> "close", run |-> activeRun]
    /\ hlsRuns' = IF activeRun = 0 THEN hlsRuns
                  ELSE [hlsRuns EXCEPT ![activeRun].cancelled = TRUE]
    /\ UNCHANGED <<plan, hasRes, activeRun, diskVars, crashes>>

\* The end of Pause and of Close, which also removes the staging folder.
CallEnds ==
    /\ call.kind # "none"
    /\ call.run # 0 => hlsRuns[call.run].at = "ended"
    /\ activeRun' = IF activeRun = call.run THEN 0 ELSE activeRun
    /\ staging' = IF call.kind = "close" /\ plan # NoPlan
                  THEN [staging EXCEPT ![plan.id] = NoFolder] ELSE staging
    /\ call' = [kind |-> "none", run |-> 0]
    /\ UNCHANGED <<plan, hasRes, hlsRuns, hlsClosed, target, crashes>>

\* Patch with another URL, which a running task refuses: dropPlanLocked.
HlsPatch ==
    /\ call.kind = "none" /\ activeRun = 0 /\ plan # NoPlan /\ ~hlsClosed
    /\ staging' = [staging EXCEPT ![plan.id] = NoFolder]
    /\ plan' = NoPlan
    /\ hasRes' = FALSE
    /\ UNCHANGED <<activeRun, hlsRuns, hlsClosed, call, target, crashes>>

-----------------------------------------------------------------------------
(* A run: producer and workers *)

At(n, place) == hlsRuns' = [hlsRuns EXCEPT ![n].at = place]
Worker(n, w, state) == hlsRuns' = [hlsRuns EXCEPT ![n].workers[w] = state]

\* The producer hands out the next index; when the run is cancelled its select
\* and the worker's may still choose the queue.
WorkerTakes(n, w) ==
    LET r == hlsRuns[n] IN
    /\ r.workers[w] = Idle /\ r.producer /\ r.todo # {}
    /\ hlsRuns' = [hlsRuns EXCEPT ![n].workers[w] = [seg |-> Min(r.todo), at |-> "fetch"],
                                  ![n].todo = @ \ {Min(r.todo)}]
    /\ UNCHANGED <<plan, hasRes, activeRun, hlsClosed, call, diskVars, crashes>>

\* mutant: the producer does not look at the context
ProducerEndsMutated(n) ==
    /\ hlsRuns[n].producer /\ hlsRuns[n].todo = {}
    /\ hlsRuns' = [hlsRuns EXCEPT ![n].producer = FALSE]
    /\ UNCHANGED <<plan, hasRes, activeRun, hlsClosed, call, diskVars, crashes>>

ProducerEnds(n) ==
    /\ hlsRuns[n].producer /\ (hlsRuns[n].todo = {} \/ hlsRuns[n].cancelled)
    /\ hlsRuns' = [hlsRuns EXCEPT ![n].producer = FALSE]
    /\ UNCHANGED <<plan, hasRes, activeRun, hlsClosed, call, diskVars, crashes>>

WorkerLeaves(n, w) ==
    /\ hlsRuns[n].workers[w] = Idle
    /\ hlsRuns[n].cancelled \/ ~hlsRuns[n].producer
    /\ Worker(n, w, Gone)
    /\ UNCHANGED <<plan, hasRes, activeRun, hlsClosed, call, diskVars, crashes>>

\* downloadSegment fails for good (requests, key, decryption, disk), or is
\* cancelled, on which the worker leaves without counting a failure.
WorkerFails(n, w) ==
    /\ hlsRuns[n].workers[w].at = "fetch"
    /\ \/ /\ hlsRuns[n].cancelled
          /\ Worker(n, w, Gone)
       \/ hlsRuns' = [hlsRuns EXCEPT ![n].workers[w] = Idle, ![n].failed = TRUE]
    /\ UNCHANGED <<plan, hasRes, activeRun, hlsClosed, call, diskVars, crashes>>

\* storeSegment up to its rename, and then the journal, which rewrites all that
\* this run knows to be stored.
WorkerStores(n, w) ==
    LET r == hlsRuns[n] IN
    /\ r.workers[w].at = "fetch"
    /\ staging' = [staging EXCEPT ![r.id].seg[r.workers[w].seg] = r.media]
    /\ Worker(n, w, [r.workers[w] EXCEPT !.at = "journal"])
    /\ UNCHANGED <<plan, hasRes, activeRun, hlsClosed, call, target, crashes>>

WorkerJournals(n, w) ==
    LET r == hlsRuns[n]
        kept == r.kept \cup {r.workers[w].seg} IN
    /\ r.workers[w].at = "journal"
    /\ hlsRuns' = [hlsRuns EXCEPT ![n].workers[w] = Idle, ![n].kept = kept]
    /\ staging' = [staging EXCEPT ![r.id].journal = [media |-> r.media, done |-> kept]]
    /\ UNCHANGED <<plan, hasRes, activeRun, hlsClosed, call, target, crashes>>

-----------------------------------------------------------------------------
(* A run: its supervisor *)

Stopped(n) == ~hlsRuns[n].producer /\ \A w \in HlsWorkers : hlsRuns[n].workers[w] = Gone

\* clearActiveRun; a silent end closes done at once.
Clears(n, place) ==
    /\ activeRun' = IF activeRun = n THEN 0 ELSE activeRun
    /\ At(n, place)

AfterWork(n) ==
    /\ hlsRuns[n].at = "work" /\ Stopped(n)
    /\ \/ hlsRuns[n].cancelled /\ Clears(n, "ended")
       \/ /\ ~hlsRuns[n].cancelled /\ UNCHANGED activeRun
          /\ hlsRuns' = IF hlsRuns[n].failed
                        THEN [hlsRuns EXCEPT ![n].at = "clear", ![n].result = "err"]
                        ELSE [hlsRuns EXCEPT ![n].at = "merge"]
    /\ UNCHANGED <<plan, hasRes, hlsClosed, call, diskVars, crashes>>

MergeFails(n) ==
    /\ hlsRuns[n].at \in {"merge", "replace", "rename"}
    /\ hlsRuns' = [hlsRuns EXCEPT ![n].at = "clear", ![n].result = "err"]
    /\ UNCHANGED <<plan, hasRes, activeRun, hlsClosed, call, diskVars, crashes>>

\* mutant: the segments are written straight into the target
MergeWritesMutated(n) ==
    /\ hlsRuns[n].at = "merge"
    /\ \E s \in Segments, m \in Medias :
         target' = [x \in Segments |-> IF x <= s THEN staging[hlsRuns[n].id].seg[x] ELSE m]
    /\ At(n, "replace")
    /\ UNCHANGED <<plan, hasRes, activeRun, hlsClosed, call, staging, crashes>>

\* The part file is written beside the target; every segment has to be read.
MergeWrites(n) ==
    /\ hlsRuns[n].at = "merge"
    /\ \A s \in Segments : staging[hlsRuns[n].id].seg[s] # Nothing
    /\ At(n, "replace")
    /\ UNCHANGED <<plan, hasRes, activeRun, hlsClosed, call, diskVars, crashes>>

MergeRemovesTarget(n) ==
    /\ hlsRuns[n].at = "replace"
    /\ target' = Nothing
    /\ At(n, "rename")
    /\ UNCHANGED <<plan, hasRes, activeRun, hlsClosed, call, staging, crashes>>

MergeRenames(n) ==
    /\ hlsRuns[n].at = "rename"
    /\ target' = staging[hlsRuns[n].id].seg
    /\ At(n, "check")
    /\ UNCHANGED <<plan, hasRes, activeRun, hlsClosed, call, staging, crashes>>

\* A pause during the merge keeps the segments and reports nothing.
AfterMerge(n) ==
    /\ hlsRuns[n].at = "check"
    /\ IF hlsRuns[n].cancelled THEN Clears(n, "ended")
       ELSE At(n, "remove") /\ UNCHANGED activeRun
    /\ UNCHANGED <<plan, hasRes, hlsClosed, call, diskVars, crashes>>

RemoveStaging(n) ==
    /\ hlsRuns[n].at = "remove"
    /\ staging' = [staging EXCEPT ![hlsRuns[n].id] = NoFolder]
    /\ At(n, "clear")
    /\ UNCHANGED <<plan, hasRes, activeRun, hlsClosed, call, target, crashes>>

ClearRun(n) ==
    /\ hlsRuns[n].at = "clear"
    /\ Clears(n, "report")
    /\ UNCHANGED <<plan, hasRes, hlsClosed, call, diskVars, crashes>>

\* The result goes to DoneCh, which the engine's watcher reads; done is closed.
Report(n) ==
    /\ hlsRuns[n].at = "report"
    /\ At(n, "ended")
    /\ UNCHANGED <<plan, hasRes, activeRun, hlsClosed, call, diskVars, crashes>>

-----------------------------------------------------------------------------
(* Crash and restart *)

\* A folder whose removal was under way keeps any part of what it held.
Leftovers(folder) ==
    {[seg |-> [s \in Segments |-> IF s \in K THEN folder.seg[s] ELSE Nothing], journal |-> j] :
        K \in SUBSET Segments, j \in {folder.journal, NoJournal}}

\* What the storage may hold of the plan. A checkpoint copies it under f.mu and
\* puts the copy later, without a lock, after other saves and perhaps in vain;
\* the task's record with its resource is another put.
EverStored == {NoPlan} \cup {[media |-> hlsRuns[n].media, id |-> hlsRuns[n].id] :
                                n \in {x \in RunIds \ Unused : hlsRuns[x].id # 0}}

\* The process dies; Restore rebuilds the fetcher from the two records.
HlsCrash ==
    /\ crashes < MaxHlsCrashes /\ ~hlsClosed
    /\ crashes' = crashes + 1
    /\ IF activeRun # 0 /\ hlsRuns[activeRun].at = "remove"
       THEN \E left \in Leftovers(staging[hlsRuns[activeRun].id]) :
              staging' = [staging EXCEPT ![hlsRuns[activeRun].id] = left]
       ELSE UNCHANGED staging
    /\ hlsRuns' = [n \in RunIds |->
                     IF n \in Unused THEN hlsRuns[n]
                     ELSE [NoRunYet EXCEPT !.media = hlsRuns[n].media, !.id = hlsRuns[n].id]]
    /\ activeRun' = 0 /\ call' = [kind |-> "none", run |-> 0]
    /\ plan' \in EverStored /\ hasRes' \in BOOLEAN
    /\ UNCHANGED <<hlsClosed, target>>

SupervisorStep(n) ==
    \/ AfterWork(n) \/ MergeFails(n) \/ MergeWrites(n) \/ MergeRemovesTarget(n)
    \/ MergeRenames(n) \/ AfterMerge(n) \/ RemoveStaging(n) \/ ClearRun(n) \/ Report(n)

WorkerOf(n, w) ==
    \/ WorkerTakes(n, w) \/ WorkerLeaves(n, w) \/ WorkerFails(n, w)
    \/ WorkerStores(n, w) \/ WorkerJournals(n, w)

RunStepOf(n) ==
    ProducerEnds(n) \/ SupervisorStep(n) \/ \E w \in HlsWorkers : WorkerOf(n, w)

HlsNext ==
    \/ HlsStart \/ HlsPause \/ HlsClose \/ CallEnds \/ HlsPatch \/ HlsCrash
    \/ \E n \in RunIds : RunStepOf(n)

HlsFairness == (\A n \in RunIds : WF_hlsVars(RunStepOf(n))) /\ WF_hlsVars(CallEnds)

HlsSpec == HlsInit /\ [][HlsNext]_hlsVars /\ HlsFairness

-----------------------------------------------------------------------------
(* Properties *)

\* What stands at the target's place is one media from end to end, through
\* pauses during the merge, changed playlists, journals of other plans and
\* crashes between the removal of an old target and the rename (merge).
TargetWhole == target # Nothing => \E m \in Medias : target = [s \in Segments |-> m]

\* Whatever still touches a staging folder belongs to the active run: "workers
\* of the previous run cannot race with the next one" (hlsRun), whose folder the
\* previous supervisor must not remove either.
StagingOwned ==
    \A n \in RunIds \ {activeRun} :
        hlsRuns[n].at \in {"unused", "report", "ended"} /\ Stopped(n)

\* Pause and Close return, although they wait for the producer, every worker
\* and a merge in flight: nobody is left in a queue that nobody reads.
HlsCallsReturn == (call.kind # "none") ~> (call.kind = "none")
=============================================================================
