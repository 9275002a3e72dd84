---------------------------- MODULE ProtocolJobs ----------------------------
(***************************************************************************)
(* The periodic job of a protocol and the configuration it shares with the *)
(* API (pkg/download/protocol_jobs.go, protocol_config.go, PutConfig and   *)
(* Close in downloader.go), with the one job there is: the subscription    *)
(* update of BitTorrent trackers (internal/protocol/bt/trackers.go).       *)
(*                                                                         *)
(* Goroutines: the job's loop, one execution at a time, manual triggers    *)
(* (REST), writers of the configuration, Close. Sections of s.gate,        *)
(* entry.mu and configLock are single actions.                             *)
(***************************************************************************)
EXTENDS Naturals, FiniteSets

CONSTANTS
    Urls,         \* tracker subscriptions
    Callers,      \* manual triggers, one call each
    MaxPuts,      \* bound: PutConfig calls
    MaxTimers     \* bound: expiries of the regular timer

ASSUME JobsAssumption == MaxPuts \in Nat /\ MaxTimers \in Nat /\ "loop" \notin Callers

VARIABLES
    config,       \* urls, auto, sources (the state section): published once it is stored
    active,       \* entry.active: a record, or NoRun
    force,        \* entry.force
    wake,         \* a token in entry.wake
    due,          \* what the loop's timer is armed for: "next" or "now"
    at,           \* place of the loop and of each manual trigger
    got,          \* what a manual trigger learns of the run it waited for: error and source
    closed,       \* d.closed, and the background context cancelled
    stopped,      \* s.stopped
    closeReturned,\* protocolScheduler.close has returned
    writer,       \* PutConfig after its unlock: "idle", "force", "signal"
    puts, timers

jobVars == <<config, active, force, wake, due, at, got, closed, stopped,
             closeReturned, writer, puts, timers>>

Loop == "loop"
Actors == Callers \cup {Loop}
NoRun == [source |-> "none"]
Sources == {"scheduled", "manual"}
Errors == {"ok", "skipped", "changed", "failed", "cancelled", "closed"}
Configs == [urls : SUBSET Urls, auto : BOOLEAN, sources : SUBSET Urls]
Runs == [source : Sources, step : {"read", "fetch", "commit", "finish"},
         urls : SUBSET Urls, fetched : SUBSET Urls, err : Errors]

JobsTypeOK ==
    /\ config \in Configs
    /\ active \in Runs \cup {NoRun}
    /\ force \in BOOLEAN /\ wake \in BOOLEAN /\ due \in {"next", "now"}
    /\ at \in [Actors -> {"idle", "waiting", "woken", "returned"}]
    /\ got \in [Callers -> [err : Errors, source : Sources \cup {"none"}]]
    /\ closed \in BOOLEAN /\ stopped \in BOOLEAN /\ closeReturned \in BOOLEAN
    /\ writer \in {"idle", "force", "signal"}
    /\ puts \in 0..MaxPuts /\ timers \in 0..MaxTimers

JobsInit ==
    /\ config \in [urls : SUBSET Urls, auto : BOOLEAN, sources : {{}}]
    /\ active = NoRun
    /\ force = FALSE /\ wake = FALSE /\ due = "next"
    /\ at = [a \in Actors |-> "idle"]
    /\ got = [a \in Callers |-> [err |-> "ok", source |-> "none"]]
    /\ closed = FALSE /\ stopped = FALSE /\ closeReturned = FALSE
    /\ writer = "idle" /\ puts = 0 /\ timers = 0

-----------------------------------------------------------------------------
(* Triggers *)

SourceOf(a) == IF a = Loop THEN "scheduled" ELSE "manual"

NewRun(a) == [source |-> SourceOf(a), step |-> "read", urls |-> {}, fetched |-> {}, err |-> "ok"]

Returns(a, e, s) ==
    /\ at' = [at EXCEPT ![a] = IF a = Loop THEN "idle" ELSE "returned"]
    /\ got' = [c \in Callers |-> IF c = a THEN [err |-> e, source |-> s] ELSE got[c]]

\* One pass of trigger's loop up to its select: the look at the scheduler under
\* s.gate, and under entry.mu the run that is joined or begun.
JoinOrBegin(a) ==
    IF closed \/ stopped
    THEN Returns(a, "closed", "none") /\ UNCHANGED active
    ELSE /\ at' = [at EXCEPT ![a] = "waiting"]
         /\ active' = IF active = NoRun THEN NewRun(a) ELSE active
         /\ UNCHANGED got

TriggerManually(c) ==
    /\ at[c] = "idle"
    /\ JoinOrBegin(c)
    /\ UNCHANGED <<config, force, wake, due, closed, stopped, closeReturned,
                   writer, puts, timers>>

\* mutant: a manual trigger is content with whatever run it joined
RunsAgainMutated(a) == FALSE

\* "A manual request must still run when the scheduled attempt it joined was
\* skipped": the trigger goes round its loop.
RunsAgain(a) ==
    a \in Callers /\ got[a].source = "scheduled" /\ got[a].err = "skipped"

\* The select after run.done, which execute has closed.
TriggerAwakes(a) ==
    /\ at[a] = "woken"
    /\ IF RunsAgain(a)
       THEN JoinOrBegin(a)
       ELSE /\ at' = [at EXCEPT ![a] = IF a = Loop THEN "idle" ELSE "returned"]
            /\ UNCHANGED <<got, active>>
    /\ UNCHANGED <<config, force, wake, due, closed, stopped, closeReturned,
                   writer, puts, timers>>

-----------------------------------------------------------------------------
(* The loop of the job *)

\* The loop takes a token and re-arms its timer: at once if the configuration
\* was changed, else for entry.next.
LoopTakesToken ==
    /\ at[Loop] = "idle" /\ wake
    /\ wake' = FALSE
    /\ due' = IF force THEN "now" ELSE "next"
    /\ force' = FALSE
    /\ UNCHANGED <<config, active, at, got, closed, stopped, closeReturned,
                   writer, puts, timers>>

LoopTimer ==
    /\ at[Loop] = "idle"
    /\ due = "next" => timers < MaxTimers
    /\ timers' = IF due = "next" THEN timers + 1 ELSE timers
    /\ due' = "next"
    /\ JoinOrBegin(Loop)
    /\ UNCHANGED <<config, force, wake, closed, stopped, closeReturned,
                   writer, puts>>

\* backgroundCtx.Done, in the loop's select or in trigger's.
LoopEnds ==
    /\ at[Loop] \in {"idle", "waiting", "woken"} /\ closed
    /\ at' = [at EXCEPT ![Loop] = "returned"]
    /\ UNCHANGED <<config, active, force, wake, due, got, closed, stopped,
                   closeReturned, writer, puts, timers>>

-----------------------------------------------------------------------------
(* An execution: updateTrackers *)

To(step, err) == active' = [active EXCEPT !.step = step, !.err = err]

RunReads ==
    /\ active # NoRun /\ active.step = "read"
    /\ IF (active.source = "scheduled" /\ ~config.auto) \/ config.urls = {}
       THEN To("finish", "skipped")
       ELSE active' = [active EXCEPT !.step = "fetch", !.urls = config.urls]
    /\ UNCHANGED <<config, force, wake, due, at, got, closed, stopped,
                   closeReturned, writer, puts, timers>>

\* The fetches, four at a time, each to its end; the context may be over
\* before the first of them (Close), or before the last.
RunFetches ==
    /\ active # NoRun /\ active.step = "fetch"
    /\ \/ /\ closed
          /\ To("finish", "cancelled")
       \/ \E F \in SUBSET active.urls :
            active' = [active EXCEPT !.step = "commit", !.fetched = F,
                           !.err = IF closed THEN "cancelled"
                                   ELSE IF F = active.urls THEN "ok" ELSE "failed"]
    /\ UNCHANGED <<config, force, wake, due, at, got, closed, stopped,
                   closeReturned, writer, puts, timers>>

\* NormalizeConfig forgets the state of subscriptions that are no more.
Normalized(c) == [c EXCEPT !.sources = @ \cap c.urls]

Committed == Normalized([config EXCEPT !.sources = @ \cup active.fetched])

\* updateProtocolState under configLock, with updateTrackers' callback. (That the
\* torrent client is then given the trackers changes nothing here.)
RunCommits ==
    /\ active # NoRun /\ active.step = "commit"
    /\ IF closed
       THEN To("finish", "failed") /\ UNCHANGED config
       ELSE IF config.urls # active.urls
       THEN To("finish", "changed") /\ UNCHANGED config
       ELSE \/ To("finish", active.err) /\ config' = Committed
            \/ To("finish", "failed") /\ UNCHANGED config  \* storage.Put
    /\ UNCHANGED <<force, wake, due, at, got, closed, stopped, closeReturned,
                   writer, puts, timers>>

\* The tail of execute: the job's own record (whose write may fail), and under
\* entry.mu the result, which every waiter will see.
RunFinishes ==
    /\ active # NoRun /\ active.step = "finish"
    /\ \E e \in {active.err} \cup (IF active.err = "ok" THEN {"failed"} ELSE {}) :
         got' = [a \in Callers |-> IF at[a] = "waiting" THEN [err |-> e, source |-> active.source]
                                  ELSE got[a]]
    /\ at' = [a \in Actors |-> IF at[a] = "waiting" THEN "woken" ELSE at[a]]
    /\ wake' = (wake \/ active.source = "manual")
    /\ active' = NoRun
    /\ UNCHANGED <<config, force, due, closed, stopped, closeReturned,
                   writer, puts, timers>>

-----------------------------------------------------------------------------
(* PutConfig, and Close *)

\* preserveProtocolState: whatever the client sends as state is dropped.
Preserved(client) == config.sources

PutConfig ==
    /\ puts < MaxPuts /\ writer = "idle" /\ ~closed
    /\ puts' = puts + 1
    /\ \E urls, client \in SUBSET Urls, auto \in BOOLEAN :
         LET next == Normalized([urls |-> urls, auto |-> auto, sources |-> Preserved(client)])
         IN  /\ config' = next
             /\ writer' = IF next = config THEN "idle" ELSE "force"
    /\ UNCHANGED <<active, force, wake, due, at, got, closed, stopped, closeReturned,
                   timers>>

\* protocolScheduler.changed, after configLock: first the flag, then the token.
ChangedForces ==
    /\ writer = "force"
    /\ force' = TRUE
    /\ writer' = "signal"
    /\ UNCHANGED <<config, active, wake, due, at, got, closed, stopped,
                   closeReturned, puts, timers>>

ChangedSignals ==
    /\ writer = "signal"
    /\ wake' = TRUE
    /\ writer' = "idle"
    /\ UNCHANGED <<config, active, force, due, at, got, closed, stopped,
                   closeReturned, puts, timers>>

CloseDownloader ==
    /\ ~closed
    /\ closed' = TRUE
    /\ UNCHANGED <<config, active, force, wake, due, at, got, stopped,
                   closeReturned, writer, puts, timers>>

CloseStops ==
    /\ closed /\ ~stopped
    /\ stopped' = TRUE
    /\ UNCHANGED <<config, active, force, wake, due, at, got, closed,
                   closeReturned, writer, puts, timers>>

\* s.wg counts the loop and the executions.
CloseReturns ==
    /\ stopped /\ at[Loop] = "returned" /\ active = NoRun
    /\ closeReturned' = TRUE
    /\ UNCHANGED <<config, active, force, wake, due, at, got, closed, stopped,
                   writer, puts, timers>>

RunStep == RunReads \/ RunFetches \/ RunCommits \/ RunFinishes

JobsNext ==
    \/ \E c \in Callers : TriggerManually(c)
    \/ \E a \in Actors : TriggerAwakes(a)
    \/ LoopTakesToken \/ LoopTimer \/ LoopEnds
    \/ RunStep
    \/ PutConfig \/ ChangedForces \/ ChangedSignals
    \/ CloseDownloader \/ CloseStops \/ CloseReturns

JobsFairness ==
    /\ WF_jobVars(RunStep)
    /\ \A a \in Actors : WF_jobVars(TriggerAwakes(a))
    /\ WF_jobVars(LoopEnds) /\ WF_jobVars(CloseStops) /\ WF_jobVars(CloseReturns)

JobsSpec == JobsInit /\ [][JobsNext]_jobVars /\ JobsFairness

-----------------------------------------------------------------------------
(* Properties *)

\* A manual trigger never reports the skip of a scheduled run it happened to
\* join (protocol_jobs.go:163, 177): automatic refresh may be off, the user asked.
ManualNotSkipped ==
    \A c \in Callers :
        at[c] = "returned" /\ got[c].err = "skipped" => got[c].source = "manual"

\* Once protocolScheduler.close has returned (the storage is closed next), no
\* execution is under way and none begins, whenever a trigger was called.
NoWorkAfterClose == closeReturned => active = NoRun

\* The state section changes by a commit of the job for the very subscriptions
\* it fetched, or loses those that a PutConfig unsubscribed: neither a client's
\* old copy nor a run of an older configuration gets into it.
StateOnlyByItsJob ==
    [][ \/ config'.sources = config.sources \cap config'.urls
        \/ /\ active # NoRun /\ active.step = "commit"
           /\ config'.urls = config.urls /\ config.urls = active.urls
           /\ config'.sources = config.sources \cup active.fetched ]_config
=============================================================================
