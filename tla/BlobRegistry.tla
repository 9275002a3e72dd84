---------------------------- MODULE BlobRegistry ----------------------------
(***************************************************************************)
(* Blob sources and who keeps them alive (internal/blob/registry.go), with *)
(* the extension engine session behind them (extension_engine_session.go)  *)
(* and the leases of the tasks that download them (downloader.go           *)
(* 3068-3134). A hook of an extension creates sources in its engine; a     *)
(* task acquires one, a request of its HTTP fetcher reads it; the session  *)
(* ends with its last reference. Sections of src.mu, session.mu and        *)
(* serverMu are single actions; a Release of the session that follows the  *)
(* unlock of a source is owed until its own action.                        *)
(***************************************************************************)
EXTENDS Naturals, FiniteSets, FiniteSetsExt

CONSTANTS
    Blobs,        \* sources that the hook creates
    Leasers,      \* tasks
    Readers,      \* HTTP requests, one each
    NoBlob,
    MaxRuns       \* bound: starts of a task

ASSUME BlobAssumption ==
    /\ NoBlob \notin Blobs /\ MaxRuns \in Nat
    /\ IsFiniteSet(Blobs) /\ IsFiniteSet(Leasers) /\ IsFiniteSet(Readers)

VARIABLES
    listed,       \* r.sources
    src,          \* per source: revoked, refs, timer, session held, session reference counted
    session,      \* refs and closed of the engine session
    hook,         \* the hook is "running" or has "ended" (CloseIfIdle)
    owed,         \* calls of session.Release that are on their way
    closing,      \* sources that a Registry.Close still has to close
    url,          \* per task: its request's URL
    status,       \* per task: "idle", "running", "done", "error"
    lease,        \* task.blobURL
    start,        \* place of the start handler in syncBlobTaskLease
    target,       \* syncBlobTaskLease's newURL
    drop,         \* per task: a source to release after blobRefLock: handler's, watcher's
    ending,       \* the watcher is about to call releaseBlobTask
    runs,         \* starts of each task so far
    reader        \* per request: place, source, and whether it retained the session

blobVars == <<listed, src, session, hook, owed, closing, url, status, lease, start,
              target, drop, ending, runs, reader>>

registryVars == <<listed, src, session, hook, owed, closing>>
leaseVars == <<url, status, lease, start, target, drop, ending, runs>>

Maybe == Blobs \cup {NoBlob}

BlobTypeOK ==
    /\ listed \in SUBSET Blobs /\ closing \in SUBSET Blobs
    /\ src \in [Blobs -> [made : BOOLEAN, revoked : BOOLEAN, refs : Nat,
                          timer : {"unset", "armed", "off"}, held : BOOLEAN, counted : BOOLEAN]]
    /\ session \in [refs : Nat, closed : BOOLEAN]
    /\ hook \in {"running", "ended"} /\ owed \in Nat
    /\ url \in [Leasers -> Blobs] /\ lease \in [Leasers -> Maybe] /\ target \in [Leasers -> Maybe]
    /\ status \in [Leasers -> {"idle", "running", "done", "error"}]
    /\ start \in [Leasers -> {"none", "sync", "acquire", "drop"}]
    /\ drop \in [Leasers -> [handler : Maybe, watcher : Maybe]]
    /\ ending \in [Leasers -> BOOLEAN] /\ runs \in [Leasers -> 0..MaxRuns]
    /\ reader \in [Readers -> [at : {"idle", "found", "open", "gone"}, blob : Maybe,
                               counted : BOOLEAN]]

BlobInit ==
    /\ listed = {} /\ closing = {}
    /\ src = [b \in Blobs |-> [made |-> FALSE, revoked |-> FALSE, refs |-> 0, timer |-> "unset",
                               held |-> FALSE, counted |-> FALSE]]
    /\ session = [refs |-> 0, closed |-> FALSE]
    /\ hook = "running" /\ owed = 0
    /\ url \in [Leasers -> Blobs]
    /\ status = [t \in Leasers |-> "idle"]
    /\ lease = [t \in Leasers |-> NoBlob] /\ target = lease
    /\ start = [t \in Leasers |-> "none"]
    /\ drop = [t \in Leasers |-> [handler |-> NoBlob, watcher |-> NoBlob]]
    /\ ending = [t \in Leasers |-> FALSE] /\ runs = [t \in Leasers |-> 0]
    /\ reader = [r \in Readers |-> [at |-> "idle", blob |-> NoBlob, counted |-> FALSE]]

-----------------------------------------------------------------------------
(* The engine session *)

\* Retain is without effect, and without an error, once the session is closed.
RetainSession == session' = IF session.closed THEN session ELSE [session EXCEPT !.refs = @ + 1]

ReleaseSession ==
    LET left == IF session.refs > 0 THEN session.refs - 1 ELSE 0
    IN  session' = [refs |-> left, closed |-> session.closed \/ left = 0]

OwedRelease ==
    /\ owed > 0
    /\ owed' = owed - 1
    /\ ReleaseSession
    /\ UNCHANGED <<listed, src, hook, closing, leaseVars, reader>>

\* mutant: the end of the hook leaves an idle engine open
HookEndsMutated ==
    /\ hook = "running"
    /\ hook' = "ended"
    /\ UNCHANGED <<listed, src, session, owed, closing, leaseVars, reader>>

\* The deferred CloseIfIdle of doTrigger.
HookEnds ==
    /\ hook = "running"
    /\ hook' = "ended"
    /\ session' = [session EXCEPT !.closed = @ \/ session.refs = 0]
    /\ UNCHANGED <<listed, src, owed, closing, leaseVars, reader>>

-----------------------------------------------------------------------------
(* The registry *)

\* CreateOpener up to the unlock of serverMu; the script of the hook, or code
\* of its engine that a live session still runs.
CreateOpener(b) ==
    /\ ~src[b].made /\ (hook = "running" \/ ~session.closed)
    /\ RetainSession
    /\ listed' = listed \cup {b}
    /\ src' = [src EXCEPT ![b].made = TRUE, ![b].held = TRUE, ![b].counted = ~session.closed]
    /\ UNCHANGED <<hook, owed, closing, leaseVars, reader>>

\* Its tail: the timer, unless the source was revoked in between.
ArmTimer(b) ==
    /\ src[b].made /\ src[b].timer = "unset"
    /\ src' = [src EXCEPT ![b].timer = IF src[b].revoked THEN "off" ELSE "armed"]
    /\ UNCHANGED <<listed, session, hook, owed, closing, leaseVars, reader>>

\* Revocation hands the session out once, to be released after the unlock.
Revoked(b) == [src EXCEPT ![b].revoked = TRUE, ![b].held = FALSE]
Owes(b) == owed' = IF src[b].held THEN owed + 1 ELSE owed

Live(b) == b \in listed /\ ~src[b].revoked

\* Source.close, for Revoke and for Registry.Close.
CloseSource(b) ==
    /\ src' = [src EXCEPT ![b].revoked = TRUE, ![b].held = FALSE,
                          ![b].timer = IF @ = "armed" THEN "off" ELSE @]
    /\ IF src[b].revoked THEN UNCHANGED owed ELSE Owes(b)

Revoke(b) ==
    /\ Live(b)
    /\ CloseSource(b)
    /\ listed' = listed \ {b}
    /\ UNCHANGED <<session, hook, closing, leaseVars, reader>>

\* mutant: the timer does not look whether a task has come in the meantime,
\* nor whether the source is revoked already
ExpireUnclaimedMutated(b) ==
    /\ src[b].timer = "armed"
    /\ src' = [src EXCEPT ![b].revoked = TRUE, ![b].held = FALSE, ![b].timer = "off"]
    /\ listed' = listed \ {b}
    /\ owed' = owed + 1
    /\ UNCHANGED <<session, hook, closing, leaseVars, reader>>

\* A timer that has fired may lose against Acquire, Revoke or Close: it decides
\* under src.mu.
ExpireUnclaimed(b) ==
    /\ src[b].timer = "armed"
    /\ IF src[b].revoked \/ src[b].refs > 0
       THEN /\ src' = [src EXCEPT ![b].timer = "off"]
            /\ UNCHANGED <<listed, owed>>
       ELSE /\ src' = [Revoked(b) EXCEPT ![b].timer = "off"]
            /\ listed' = listed \ {b}
            /\ Owes(b)
    /\ UNCHANGED <<session, hook, closing, leaseVars, reader>>

\* Registry.Close: the sources are taken out under serverMu and closed one by one.
CloseRegistry ==
    /\ closing = {} /\ listed # {}
    /\ closing' = listed
    /\ listed' = {}
    /\ UNCHANGED <<src, session, hook, owed, leaseVars, reader>>

CloseNext(b) ==
    /\ b \in closing
    /\ CloseSource(b)
    /\ closing' = closing \ {b}
    /\ UNCHANGED <<listed, session, hook, leaseVars, reader>>

\* Release and releaseTask; on the last reference also deleteSource.
ReleaseBlob(b) ==
    IF Live(b) /\ src[b].refs > 0
    THEN IF src[b].refs = 1
         THEN /\ src' = [Revoked(b) EXCEPT ![b].refs = 0]
              /\ listed' = listed \ {b}
              /\ Owes(b)
         ELSE /\ src' = [src EXCEPT ![b].refs = @ - 1]
              /\ UNCHANGED <<listed, owed>>
    ELSE UNCHANGED <<src, listed, owed>>

-----------------------------------------------------------------------------
(* Requests: ServeHTTP *)

FindSource(r, b) ==
    /\ reader[r].at = "idle" /\ b \in listed
    /\ reader' = [reader EXCEPT ![r].at = "found", ![r].blob = b]
    /\ UNCHANGED <<registryVars, leaseVars>>

\* acquireOpen, and the answer to a request whose source has gone.
AcquireOpen(r) ==
    LET b == reader[r].blob IN
    /\ reader[r].at = "found"
    /\ IF src[b].revoked
       THEN reader' = [reader EXCEPT ![r].at = "gone"] /\ UNCHANGED session
       ELSE /\ RetainSession
            /\ reader' = [reader EXCEPT ![r].counted = ~session.closed, ![r].at = "open"]
    /\ UNCHANGED <<listed, src, hook, owed, closing, leaseVars>>

\* Whatever becomes of the opener and the copy (a body, an error that the source
\* remembers, a client that left), the deferred release follows.
ReaderReleases(r) ==
    /\ reader[r].at = "open"
    /\ ReleaseSession
    /\ reader' = [reader EXCEPT ![r].at = "gone", ![r].counted = FALSE]
    /\ UNCHANGED <<listed, src, hook, owed, closing, leaseVars>>

-----------------------------------------------------------------------------
(* Tasks: syncBlobTaskLease, releaseBlobTask; blobRefLock is held in "acquire" *)

StartLeaser(t) ==
    /\ status[t] \in {"idle", "error"} /\ start[t] = "none" /\ runs[t] < MaxRuns
    /\ runs' = [runs EXCEPT ![t] = @ + 1]
    /\ status' = [status EXCEPT ![t] = "running"]
    /\ start' = [start EXCEPT ![t] = "sync"]
    /\ UNCHANGED <<registryVars, url, lease, target, drop, ending, reader>>

Terminal(t) == status[t] \in {"done", "error"}

Wanted(t) == IF ~Terminal(t) /\ Live(url[t]) THEN url[t] ELSE NoBlob

SyncLooks(t) ==
    /\ start[t] = "sync"
    /\ target' = [target EXCEPT ![t] = Wanted(t)]
    /\ start' = [start EXCEPT ![t] = IF lease[t] = Wanted(t) THEN "none" ELSE "acquire"]
    /\ UNCHANGED <<registryVars, url, status, lease, drop, ending, runs, reader>>

\* Source.acquireTask: the reference, and the end of the unclaimed timer.
Claimed(b) == [src EXCEPT ![b].refs = @ + 1, ![b].timer = IF @ = "armed" THEN "off" ELSE @]

\* Acquire fails if the source has gone since the look.
SyncAcquires(t) ==
    LET b == target[t] IN
    /\ start[t] = "acquire"
    /\ IF b # NoBlob /\ ~Live(b)
       THEN start' = [start EXCEPT ![t] = "none"] /\ UNCHANGED <<src, lease, drop>>
       ELSE /\ src' = IF b = NoBlob THEN src ELSE Claimed(b)
            /\ lease' = [lease EXCEPT ![t] = b]
            /\ drop' = [drop EXCEPT ![t].handler = lease[t]]
            /\ start' = [start EXCEPT ![t] = "drop"]
    /\ UNCHANGED <<listed, session, hook, owed, closing, url, status, target, ending,
                   runs, reader>>

DropOld(t) ==
    /\ start[t] = "drop"
    /\ IF drop[t].handler = NoBlob THEN UNCHANGED <<src, listed, owed>>
       ELSE ReleaseBlob(drop[t].handler)
    /\ drop' = [drop EXCEPT ![t].handler = NoBlob]
    /\ start' = [start EXCEPT ![t] = "none"]
    /\ UNCHANGED <<session, hook, closing, url, status, lease, target, ending, runs, reader>>

\* markTaskDone or markTaskError; the error hook may give the task a new URL.
LeaserEnds(t) ==
    /\ status[t] = "running"
    /\ \/ status' = [status EXCEPT ![t] = "done"] /\ UNCHANGED url
       \/ status' = [status EXCEPT ![t] = "error"] /\ \E b \in Blobs : url' = [url EXCEPT ![t] = b]
    /\ ending' = [ending EXCEPT ![t] = TRUE]
    /\ UNCHANGED <<registryVars, lease, start, target, drop, runs, reader>>

\* releaseBlobTask: what is released is taken under blobRefLock.
EndTakes(t) ==
    /\ ending[t] /\ start[t] # "acquire" /\ drop[t].watcher = NoBlob
    /\ ending' = [ending EXCEPT ![t] = FALSE]
    /\ drop' = [drop EXCEPT ![t].watcher = lease[t]]
    /\ lease' = [lease EXCEPT ![t] = NoBlob]
    /\ UNCHANGED <<registryVars, url, status, start, target, runs, reader>>

EndReleases(t) ==
    /\ drop[t].watcher # NoBlob
    /\ ReleaseBlob(drop[t].watcher)
    /\ drop' = [drop EXCEPT ![t].watcher = NoBlob]
    /\ UNCHANGED <<session, hook, closing, url, status, lease, start, target, ending, runs,
                   reader>>

LeaserStep(t) == SyncLooks(t) \/ SyncAcquires(t) \/ DropOld(t) \/ EndTakes(t) \/ EndReleases(t)
ReaderStep(r) == AcquireOpen(r) \/ ReaderReleases(r)
SourceStep(b) == ArmTimer(b) \/ ExpireUnclaimed(b) \/ CloseNext(b)

BlobNext ==
    \/ OwedRelease \/ HookEnds \/ CloseRegistry
    \/ \E b \in Blobs : CreateOpener(b) \/ Revoke(b) \/ SourceStep(b)
    \/ \E r \in Readers : (\E b \in Blobs : FindSource(r, b)) \/ ReaderStep(r)
    \/ \E t \in Leasers : StartLeaser(t) \/ LeaserEnds(t) \/ LeaserStep(t)

BlobFairness ==
    /\ WF_blobVars(OwedRelease)
    /\ \A b \in Blobs : WF_blobVars(SourceStep(b))
    /\ \A r \in Readers : WF_blobVars(ReaderStep(r))
    /\ \A t \in Leasers : WF_blobVars(LeaserStep(t))

BlobSpec == BlobInit /\ [][BlobNext]_blobVars /\ BlobFairness

-----------------------------------------------------------------------------
(* Properties *)

\* Every reference of the session is given back exactly once, whoever of the
\* last task, Revoke, the unclaimed timer and Close comes first
\* (registry.go:230, 249, 498, 530): until the session closes its count is what
\* live sources, requests and releases on their way hold.
ReferencesBalance ==
    ~session.closed =>
        session.refs = Cardinality({b \in Blobs : src[b].held /\ src[b].counted})
                         + Cardinality({r \in Readers : reader[r].counted})
                         + owed

\* A source outlives the tasks that hold it: their references are the leases,
\* and only Revoke and Close take it from them.
LeasesCounted ==
    \A b \in listed : ~src[b].revoked =>
        src[b].refs = Cardinality({t \in Leasers : lease[t] = b})
                        + Cardinality({t \in Leasers : drop[t].handler = b})
                        + Cardinality({t \in Leasers : drop[t].watcher = b})

\* Only a task or a request keeps an engine alive after its hook: a source that
\* nobody claims expires, and the last release closes the session.
SessionsEnd ==
    hook = "ended" ~> \/ session.closed
                      \/ \E t \in Leasers : lease[t] # NoBlob
                      \/ \E r \in Readers : reader[r].at \notin {"idle", "gone"}

\* A task that has ended and released holds no source, although a start handler
\* may look at its lease at the same time (syncBlobTaskLease, terminal).
EndedHoldsNothing ==
    \A t \in Leasers :
        status[t] = "done" /\ ~ending[t] /\ start[t] = "none" => lease[t] = NoBlob
=============================================================================
