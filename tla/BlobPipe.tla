------------------------------ MODULE BlobPipe ------------------------------
(***************************************************************************)
(* The body of a blob source: a stream of a script that an HTTP request    *)
(* reads through a pipe (engine/inject/stream/module.go 132-325, the       *)
(* handler in internal/blob/registry.go 310-407 and 469-607). The handler, *)
(* the goroutines that push a chunk or the end, the client and the one     *)
(* event loop of the engine meet on the pipe's channel and its context.    *)
(* What the script does with its stream (stream.js 655-797) is the         *)
(* environment of the Go code: each of its turns on the loop is an action. *)
(***************************************************************************)
EXTENDS Naturals, Sequences, FiniteSets, SequencesExt

CONSTANTS
    Pipes,         \* requests of one source, one pipe each
    PipeChunks,    \* bound: chunks that a stream yields; a chunk is two reads long
    PipeSlots,     \* capacity of p.ch: 8 in the code
    BlobUnits,     \* size of the source in reads, where it is known
    RangeFailures  \* rangeSourceFailureLimit: 2 in the code

ASSUME PipeAssumption ==
    /\ IsFiniteSet(Pipes)
    /\ PipeChunks \in Nat \ {0} /\ PipeSlots \in Nat \ {0}
    /\ BlobUnits \in 1..2 * PipeChunks /\ RangeFailures \in Nat \ {0}

VARIABLES
    bpSource,   \* size known, range requests allowed, its streams have a producer,
                \* rangeFailures, readErr set
    bpLoop,     \* the event loop runs
    bpJobs,     \* closures given to RunOnLoop, in order
    bpLeft,   \* requests whose client has left: their context is cancelled
    bpHandler,  \* per request: place, limit (0: none), ranged, how the copy ended
    bpGot,      \* per request: what was written, unit by unit
    bpPipe,     \* per request: ready, listed in the registry, closed, ch, buf
    bpPush,     \* per request: the goroutine of a chunk
    bpEnd,      \* per request: the goroutine of the end, and whether it is an error
    bpScript    \* per request: place of the script, cancelRequested, chunks, its reader

pipeVars == <<bpSource, bpLoop, bpJobs, bpLeft, bpHandler, bpGot, bpPipe, bpPush, bpEnd, bpScript>>

Chunk(n) == <<2 * n - 1, 2 * n>>
PipeItems == {Chunk(n) : n \in 1..PipeChunks} \cup {<<"end">>, <<"error">>}

PipeTypeOK ==
    /\ bpSource \in [sized : BOOLEAN, ranged : BOOLEAN, produces : BOOLEAN,
                     failures : 0..RangeFailures, broken : BOOLEAN]
    /\ bpLoop \in BOOLEAN
    /\ bpJobs \in Seq({"open", "cancel", "true", "false"} \X Pipes)
    /\ bpLeft \in SUBSET Pipes
    /\ bpHandler \in [Pipes -> [at : {"idle", "opening", "waiting", "reading", "closing",
                                      "cancelling", "refused", "gone"},
                                limit : {0, BlobUnits}, ranged : BOOLEAN,
                                result : {"none", "whole", "failed", "left"}]]
    /\ bpGot \in [Pipes -> Seq(1..2 * PipeChunks)]
    /\ bpPipe \in [Pipes -> [ready : BOOLEAN, listed : BOOLEAN, closed : BOOLEAN,
                             ch : Seq(PipeItems), buf : Seq(1..2 * PipeChunks)]]
    /\ bpPush \in [Pipes -> {"none", "looking", "sending"}]
    /\ bpEnd \in [Pipes -> [at : {"none", "looking", "sending", "done"}, item : PipeItems]]
    /\ bpScript \in [Pipes -> [at : {"none", "opening", "reading", "pushing", "ended"},
                               cancel : BOOLEAN, made : 0..PipeChunks,
                               reader : {"none", "open", "finished", "failed", "cancelled"}]]

PipeInit ==
    /\ bpSource \in [sized : BOOLEAN, ranged : BOOLEAN, produces : BOOLEAN,
                     failures : {0}, broken : {FALSE}]
    /\ bpSource.ranged => bpSource.sized
    /\ bpLoop = TRUE /\ bpJobs = <<>>
    /\ bpLeft = {}
    /\ bpHandler = [p \in Pipes |-> [at |-> "idle", limit |-> 0, ranged |-> FALSE,
                                     result |-> "none"]]
    /\ bpGot = [p \in Pipes |-> <<>>]
    /\ bpPipe = [p \in Pipes |-> [ready |-> FALSE, listed |-> FALSE, closed |-> FALSE,
                                  ch |-> <<>>, buf |-> <<>>]]
    /\ bpPush = [p \in Pipes |-> "none"]
    /\ bpEnd = [p \in Pipes |-> [at |-> "none", item |-> <<"end">>]]
    /\ bpScript = [p \in Pipes |-> [at |-> "none", cancel |-> FALSE, made |-> 0,
                                    reader |-> "none"]]

\* The context of a pipe ends with the request's and with Close.
Cut(p) == bpPipe[p].closed \/ p \in bpLeft

HandlerAt(p, place) == bpHandler' = [bpHandler EXCEPT ![p].at = place]

-----------------------------------------------------------------------------
(* The handler: ServeHTTP, openBlobObjectURLReader, copyWithFlush *)

Served == {p \in Pipes : bpHandler[p].at \notin {"idle", "refused", "gone"}}

\* acquireOpen and the closure that calls __gopeed_blob_pipe_source; a source
\* that failed before is answered with 410 Gone.
Serve(p) ==
    /\ bpHandler[p].at = "idle" /\ bpLoop
    /\ IF bpSource.broken
       THEN HandlerAt(p, "refused") /\ UNCHANGED <<bpPipe, bpJobs>>
       ELSE /\ bpHandler' = [bpHandler EXCEPT ![p].at = "opening", ![p].ranged = bpSource.ranged,
                                 ![p].limit = IF bpSource.sized THEN BlobUnits ELSE 0]
            /\ bpPipe' = [bpPipe EXCEPT ![p].listed = TRUE]
            /\ bpJobs' = Append(bpJobs, <<"open", p>>)
    /\ UNCHANGED <<bpSource, bpLoop, bpLeft, bpGot, bpPush, bpEnd, bpScript>>

\* WaitProduction: a stream with a producer has neither a size nor ranges.
Produced(p) ==
    /\ bpHandler[p].at = "waiting" /\ bpPipe[p].ready
    /\ IF bpSource.produces /\ bpScript[p].reader # "none"
       THEN /\ bpHandler' = [bpHandler EXCEPT ![p].at = "reading", ![p].limit = 0,
                                              ![p].ranged = FALSE]
            /\ bpSource' = [bpSource EXCEPT !.sized = FALSE, !.ranged = FALSE]
       ELSE HandlerAt(p, "reading") /\ UNCHANGED bpSource
    /\ UNCHANGED <<bpLoop, bpJobs, bpLeft, bpGot, bpPipe, bpPush, bpEnd, bpScript>>

WaitGivenUp(p) ==
    /\ bpHandler[p].at = "waiting" /\ Cut(p)
    /\ HandlerAt(p, "closing")
    /\ UNCHANGED <<bpSource, bpLoop, bpJobs, bpLeft, bpGot, bpPipe, bpPush, bpEnd, bpScript>>

\* recordSourceError: a source with ranges is given up after RangeFailures in a row.
Blamed(ranged) ==
    IF bpSource.broken THEN bpSource
    ELSE [bpSource EXCEPT !.failures = IF ranged THEN @ + 1 ELSE @,
                          !.broken = ranged => bpSource.failures + 1 >= RangeFailures]

\* recordSourceSuccess
Cleared(ranged) ==
    IF ranged /\ ~bpSource.broken THEN [bpSource EXCEPT !.failures = 0] ELSE bpSource

Ends(p, result) ==
    /\ bpHandler' = [bpHandler EXCEPT ![p].at = "closing", ![p].result = result]
    /\ bpSource' = CASE result = "failed" -> Blamed(bpHandler[p].ranged)
                     [] result = "whole" /\ p \notin bpLeft
                                         -> Cleared(bpHandler[p].ranged)
                     [] OTHER -> bpSource

\* One Read and one Write: a write to a client that has left may fail.
Writes(p, unit) ==
    \/ /\ bpGot' = [bpGot EXCEPT ![p] = Append(@, unit)]
       /\ UNCHANGED <<bpHandler, bpSource>>
    \/ /\ p \in bpLeft
       /\ Ends(p, "left")
       /\ UNCHANGED bpGot

Hungry(p) ==
    bpHandler[p].at = "reading" /\ (bpHandler[p].limit > 0 => Len(bpGot[p]) < bpHandler[p].limit)

ReadsRest(p) ==
    /\ Hungry(p) /\ bpPipe[p].buf # <<>>
    /\ bpPipe' = [bpPipe EXCEPT ![p].buf = Tail(@)]
    /\ Writes(p, Head(bpPipe[p].buf))
    /\ UNCHANGED <<bpLoop, bpJobs, bpLeft, bpPush, bpEnd, bpScript>>

\* mutant: a body that ends before its size passes for complete
EndOfBodyMutated(p) == "whole"

\* The end of a stream; short of the limit it is an unexpected one.
EndOfBody(p) == IF Len(bpGot[p]) < bpHandler[p].limit THEN "failed" ELSE "whole"

ReadsItem(p) ==
    LET item == Head(bpPipe[p].ch) IN
    /\ Hungry(p) /\ bpPipe[p].buf = <<>> /\ bpPipe[p].ch # <<>>
    /\ CASE item = <<"end">>   -> Ends(p, EndOfBody(p)) /\ UNCHANGED bpGot
         [] item = <<"error">> -> Ends(p, "failed") /\ UNCHANGED bpGot
         [] OTHER              -> Writes(p, item[1])
    /\ bpPipe' = [bpPipe EXCEPT ![p].ch = Tail(@),
                                ![p].buf = IF Len(item) = 2 THEN Tail(item) ELSE <<>>]
    /\ UNCHANGED <<bpLoop, bpJobs, bpLeft, bpPush, bpEnd, bpScript>>

\* The select of Read takes the context, and its error is nobody's fault.
ReadGivenUp(p) ==
    /\ Hungry(p) /\ bpPipe[p].buf = <<>> /\ Cut(p)
    /\ Ends(p, "left")
    /\ UNCHANGED <<bpLoop, bpJobs, bpLeft, bpGot, bpPipe, bpPush, bpEnd, bpScript>>

LimitReached(p) ==
    /\ bpHandler[p].at = "reading" /\ ~Hungry(p)
    /\ Ends(p, "whole")
    /\ UNCHANGED <<bpLoop, bpJobs, bpLeft, bpGot, bpPipe, bpPush, bpEnd, bpScript>>

\* mutant: Close only queues the cancellation and returns
ClosePipeMutated(p) ==
    /\ bpHandler[p].at = "closing"
    /\ bpPipe' = [bpPipe EXCEPT ![p].closed = TRUE, ![p].listed = FALSE]
    /\ bpJobs' = Append(bpJobs, <<"cancel", p>>)
    /\ HandlerAt(p, "gone")
    /\ UNCHANGED <<bpSource, bpLoop, bpLeft, bpGot, bpPush, bpEnd, bpScript>>

\* Close cancels the context, and waits until the loop has cancelled the reader.
ClosePipe(p) ==
    /\ bpHandler[p].at = "closing"
    /\ bpPipe' = [bpPipe EXCEPT ![p].closed = TRUE, ![p].listed = FALSE]
    /\ bpJobs' = Append(bpJobs, <<"cancel", p>>)
    /\ HandlerAt(p, "cancelling")
    /\ UNCHANGED <<bpSource, bpLoop, bpLeft, bpGot, bpPush, bpEnd, bpScript>>

-----------------------------------------------------------------------------
(* The goroutines of __gopeed_blob_pipe_chunk, _close and _error *)

\* The answer to the script goes to a loop that may have been terminated.
Answers(p, ok) ==
    /\ bpPush' = [bpPush EXCEPT ![p] = "none"]
    /\ bpJobs' = IF bpLoop THEN Append(bpJobs, <<IF ok THEN "true" ELSE "false", p>>) ELSE bpJobs

PushLooks(p) ==
    /\ bpPush[p] = "looking"
    /\ IF bpPipe[p].listed THEN bpPush' = [bpPush EXCEPT ![p] = "sending"] /\ UNCHANGED bpJobs
       ELSE Answers(p, FALSE)
    /\ UNCHANGED <<bpSource, bpLoop, bpLeft, bpHandler, bpGot, bpPipe, bpEnd, bpScript>>

Sends(p, item) ==
    /\ Len(bpPipe[p].ch) < PipeSlots
    /\ bpPipe' = [bpPipe EXCEPT ![p].ch = Append(@, item)]

PushSends(p) ==
    /\ bpPush[p] = "sending"
    /\ Sends(p, Chunk(bpScript[p].made))
    /\ Answers(p, TRUE)
    /\ UNCHANGED <<bpSource, bpLoop, bpLeft, bpHandler, bpGot, bpEnd, bpScript>>

\* mutant: a plain send, which looks at the context only once there is room
PushGivenUpMutated(p) ==
    /\ bpPush[p] = "sending" /\ Cut(p) /\ Len(bpPipe[p].ch) < PipeSlots
    /\ Answers(p, FALSE)
    /\ UNCHANGED <<bpSource, bpLoop, bpLeft, bpHandler, bpGot, bpPipe, bpEnd, bpScript>>

PushGivenUp(p) ==
    /\ bpPush[p] = "sending" /\ Cut(p)
    /\ Answers(p, FALSE)
    /\ UNCHANGED <<bpSource, bpLoop, bpLeft, bpHandler, bpGot, bpPipe, bpEnd, bpScript>>

EndPlace(p, place) == bpEnd' = [bpEnd EXCEPT ![p].at = place]

\* CloseWithError: the pipe leaves the registry before the end is sent.
EndLooks(p) ==
    /\ bpEnd[p].at = "looking"
    /\ IF bpPipe[p].listed
       THEN /\ bpPipe' = [bpPipe EXCEPT ![p].ready = TRUE, ![p].listed = FALSE]
            /\ EndPlace(p, "sending")
       ELSE EndPlace(p, "done") /\ UNCHANGED bpPipe
    /\ UNCHANGED <<bpSource, bpLoop, bpJobs, bpLeft, bpHandler, bpGot, bpPush, bpScript>>

EndSends(p) ==
    /\ bpEnd[p].at = "sending"
    /\ Sends(p, bpEnd[p].item)
    /\ EndPlace(p, "done")
    /\ UNCHANGED <<bpSource, bpLoop, bpJobs, bpLeft, bpHandler, bpGot, bpPush, bpScript>>

EndGivenUp(p) ==
    /\ bpEnd[p].at = "sending" /\ Cut(p)
    /\ EndPlace(p, "done")
    /\ UNCHANGED <<bpSource, bpLoop, bpJobs, bpLeft, bpHandler, bpGot, bpPipe, bpPush, bpScript>>

-----------------------------------------------------------------------------
(* The event loop: the closures of Go, in order *)

NextJob(kind, p) ==
    /\ bpLoop /\ bpJobs # <<>> /\ Head(bpJobs) = <<kind, p>>
    /\ bpJobs' = Tail(bpJobs)

\* The script calls its opener in a turn of its own, also after a cancellation;
\* the handler has its reader.
RunOpen(p) ==
    /\ NextJob("open", p)
    /\ bpScript' = [bpScript EXCEPT ![p].at = "opening"]
    /\ HandlerAt(p, "waiting")
    /\ UNCHANGED <<bpSource, bpLoop, bpLeft, bpGot, bpPipe, bpPush, bpEnd>>

\* finishBlobPipeReader with cancel: a reader that does not exist yet is
\* cancelled when it is opened.
CancelledReader(p) ==
    [bpScript EXCEPT ![p].cancel = TRUE,
                     ![p].reader = IF @ = "open" THEN "cancelled" ELSE @]

RunCancel(p) ==
    /\ NextJob("cancel", p)
    /\ bpScript' = IF bpScript[p].at = "ended" THEN bpScript ELSE CancelledReader(p)
    /\ HandlerAt(p, "gone")
    /\ UNCHANGED <<bpSource, bpLoop, bpLeft, bpGot, bpPipe, bpPush, bpEnd>>

RunAnswer(p) ==
    /\ \/ /\ NextJob("true", p)
          /\ bpScript' = [bpScript EXCEPT ![p].at = "reading"]
       \/ /\ NextJob("false", p)
          /\ bpScript' = [CancelledReader(p) EXCEPT ![p].at = "ended"]
    /\ UNCHANGED <<bpSource, bpLoop, bpLeft, bpHandler, bpGot, bpPipe, bpPush, bpEnd>>

-----------------------------------------------------------------------------
(* The script: startPipe *)

Turn(p, place) == bpLoop /\ bpScript[p].at = place

\* __gopeed_blob_pipe_bind finds the pipe unless it has been closed.
StreamOpens(p) ==
    /\ Turn(p, "opening")
    /\ bpPipe' = [bpPipe EXCEPT ![p].ready = @ \/ bpPipe[p].listed]
    /\ bpScript' = IF bpScript[p].cancel
                   THEN [bpScript EXCEPT ![p].at = "ended", ![p].reader = "cancelled"]
                   ELSE [bpScript EXCEPT ![p].at = "reading", ![p].reader = "open"]
    /\ UNCHANGED <<bpSource, bpLoop, bpJobs, bpLeft, bpHandler, bpGot, bpPush, bpEnd>>

Tells(p, item) == bpEnd' = [bpEnd EXCEPT ![p] = [at |-> "looking", item |-> item]]

OpenFails(p) ==
    /\ Turn(p, "opening")
    /\ bpScript' = [bpScript EXCEPT ![p].at = "ended"]
    /\ IF bpScript[p].cancel THEN UNCHANGED bpEnd ELSE Tells(p, <<"error">>)
    /\ UNCHANGED <<bpSource, bpLoop, bpJobs, bpLeft, bpHandler, bpGot, bpPipe, bpPush>>

StreamYields(p) ==
    /\ Turn(p, "reading") /\ bpScript[p].reader = "open" /\ bpScript[p].made < PipeChunks
    /\ bpScript' = [bpScript EXCEPT ![p].at = "pushing", ![p].made = @ + 1]
    /\ bpPush' = [bpPush EXCEPT ![p] = "looking"]
    /\ UNCHANGED <<bpSource, bpLoop, bpJobs, bpLeft, bpHandler, bpGot, bpPipe, bpEnd>>

StreamEnds(p) ==
    /\ Turn(p, "reading") /\ bpScript[p].reader = "open"
    /\ bpScript' = [bpScript EXCEPT ![p].at = "ended", ![p].reader = "finished"]
    /\ Tells(p, <<"end">>)
    /\ UNCHANGED <<bpSource, bpLoop, bpJobs, bpLeft, bpHandler, bpGot, bpPipe, bpPush>>

StreamBreaks(p) ==
    /\ Turn(p, "reading") /\ bpScript[p].reader = "open"
    /\ bpScript' = [bpScript EXCEPT ![p].at = "ended", ![p].reader = "failed"]
    /\ Tells(p, <<"error">>)
    /\ UNCHANGED <<bpSource, bpLoop, bpJobs, bpLeft, bpHandler, bpGot, bpPipe, bpPush>>

\* A read of a cancelled reader resolves as done.
CancelSeen(p) ==
    /\ Turn(p, "reading") /\ bpScript[p].reader = "cancelled"
    /\ bpScript' = [bpScript EXCEPT ![p].at = "ended"]
    /\ Tells(p, <<"end">>)
    /\ UNCHANGED <<bpSource, bpLoop, bpJobs, bpLeft, bpHandler, bpGot, bpPipe, bpPush>>

-----------------------------------------------------------------------------
(* The client, and the end of the source *)

ClientLeaves(p) ==
    /\ p \in Served
    /\ bpLeft' = bpLeft \cup {p}
    /\ UNCHANGED <<bpSource, bpLoop, bpJobs, bpHandler, bpGot, bpPipe, bpPush, bpEnd, bpScript>>

\* The session's last reference goes, after the source was revoked (BlobRegistry)
\* and no request is served. Terminate drops what is queued.
EngineCloses ==
    /\ bpLoop /\ Served = {}
    /\ bpLoop' = FALSE
    /\ bpJobs' = <<>>
    /\ UNCHANGED <<bpSource, bpLeft, bpHandler, bpGot, bpPipe, bpPush, bpEnd, bpScript>>

HandlerStep(p) ==
    \/ Produced(p) \/ WaitGivenUp(p) \/ ReadsRest(p) \/ ReadsItem(p) \/ ReadGivenUp(p)
    \/ LimitReached(p) \/ ClosePipe(p)
PushStep(p) == PushLooks(p) \/ PushSends(p) \/ PushGivenUp(p)
EndStep(p) == EndLooks(p) \/ EndSends(p) \/ EndGivenUp(p)
JobStep(p) == RunOpen(p) \/ RunCancel(p) \/ RunAnswer(p)
StreamStep(p) ==
    StreamOpens(p) \/ OpenFails(p) \/ StreamYields(p) \/ StreamEnds(p)
    \/ StreamBreaks(p) \/ CancelSeen(p)

PipeNext ==
    \/ EngineCloses
    \/ \E p \in Pipes :
         \/ Serve(p) \/ HandlerStep(p) \/ PushStep(p) \/ EndStep(p) \/ JobStep(p)
         \/ StreamStep(p) \/ ClientLeaves(p)

\* Goroutines run and the loop runs its closures; a stream owes nothing.
PipeFairness ==
    \A p \in Pipes :
        /\ WF_pipeVars(HandlerStep(p)) /\ WF_pipeVars(PushStep(p)) /\ WF_pipeVars(EndStep(p))
        /\ WF_pipeVars(JobStep(p))

PipeSpec == PipeInit /\ [][PipeNext]_pipeVars /\ PipeFairness

-----------------------------------------------------------------------------
(* Properties *)

\* The stream of p delivered what it promised.
StreamSound(p) ==
    bpScript[p].reader \notin {"none", "failed"} /\ (bpScript[p].reader = "finished" =>
        2 * bpScript[p].made >= bpHandler[p].limit)

\* The watcher of a task takes a body that ended for a file unless SourceError
\* speaks (downloader.go 1914): a body without a length ends normally for the
\* client also when its stream broke off, so by the time it ends the error is
\* recorded (registry.go 399-406). And only streams are blamed, never a client
\* that left; one with ranges only after RangeFailures broken streams in a row.
SourceErrorIsTrue ==
    /\ \A p \in Pipes :
         /\ IsPrefix(bpGot[p], [i \in 1..2 * PipeChunks |-> i])
         /\ bpHandler[p].at = "gone" /\ p \notin bpLeft /\ ~bpSource.broken
            /\ bpHandler[p].limit = 0
               => bpScript[p].reader = "finished" /\ Len(bpGot[p]) = 2 * bpScript[p].made
         /\ bpHandler[p].at = "gone" /\ p \notin bpLeft /\ bpHandler[p].limit > 0
            /\ bpHandler[p].result = "whole" => Len(bpGot[p]) = bpHandler[p].limit
    /\ bpSource.broken =>
         LET failed == {p \in Pipes : bpHandler[p].result = "failed"}
         IN  /\ failed # {}
             /\ \A p \in failed : ~StreamSound(p)
             /\ (\A p \in failed : bpHandler[p].ranged) => Cardinality(failed) >= RangeFailures

\* "Invoke the JavaScript cancellation before returning from Close": when the
\* handler lets the session go, no reader of a stream is left open, although the
\* opener may still be pending (module.go 308-325).
StreamLetGo ==
    \A p \in Pipes : bpHandler[p].at = "gone" => bpScript[p].reader # "open"

\* A request whose context has ended returns, and its goroutines with it, also
\* when the channel is full and nobody reads (module.go 240-262, 289).
CancelledRequestEnds ==
    \A p \in Pipes :
        p \in bpLeft
            ~> bpHandler[p].at = "gone" /\ bpPush[p] = "none" /\ bpEnd[p].at \in {"none", "done"}
=============================================================================
