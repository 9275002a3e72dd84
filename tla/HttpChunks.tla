----------------------------- MODULE HttpChunks -----------------------------
(***************************************************************************)
(* How the connections of the HTTP fetcher share one file                  *)
(* (internal/protocol/http/fetcher.go): expandConnections splits a chunk,  *)
(* helpOtherConnection steals half of one, runConnection and               *)
(* downloadChunkOnce fetch it, onDownloadComplete decides how it ended,    *)
(* and Pause, Start and a restart from the stored snapshot come between.   *)
(*                                                                         *)
(* The server supports ranges and the size is known, so a connection owns  *)
(* the bytes from begin + got to end.  A section of connMu is one step;    *)
(* the write to the file happens between two of them.                      *)
(***************************************************************************)
EXTENDS Integers, FiniteSets, FiniteSetsExt

CONSTANTS
  Size,       \* bytes of the file
  MaxConns,   \* slowStart.maxConnections
  Buf,        \* connReadBufferSize
  MinSteal,   \* stealMinChunkSize
  MaxRetry,   \* counted failures after which a connection gives up
  MaxStops    \* bound: pauses, checkpoints and crashes

\* 512 KiB against a buffer of 64 KiB: what a connection has read and not yet
\* counted is smaller than the part of its chunk that no one can take from it.
ASSUME SizeAssumption ==
  /\ Size \in Nat \ {0} /\ MaxConns \in Nat \ {0} /\ Buf \in Nat \ {0}
  /\ MinSteal \in Nat /\ MinSteal > 2 * Buf
  /\ MaxRetry \in Nat \ {0} /\ MaxStops \in Nat

Conns == 0 .. MaxConns - 1
Bytes == 0 .. Size - 1

VARIABLES
  n,          \* len(f.connections); their IDs are 0 .. n - 1
  begin, end, \* conn.Chunk.Begin and End
  got,        \* conn.Chunk.Downloaded
  total,      \* conn.Downloaded
  state,      \* conn.State, "completed" with conn.Completed
  fault,      \* why conn.failed is set, or "none"
  tries,      \* conn.retryTimes
  run,        \* where the goroutine runConnection stands
  inflight,   \* bytes read from the body and not yet counted
  file,       \* bytes that are on disk
  prefetched, \* f.resolveDataPos: bytes taken over from Resolve
  fstate,     \* f.state
  expanding,  \* the download loop is in its slow-start loop
  canc,       \* f.ctx is cancelled
  saved,      \* the snapshot in the save bucket
  stops

chunkVars == <<n, begin, end, got, total>>
connVars  == <<state, fault, tries, run, inflight>>
loopVars  == <<prefetched, fstate, expanding, canc>>
vars      == <<chunkVars, connVars, file, loopVars, saved, stops>>

Snapshot == [n |-> n, begin |-> begin, end |-> end, got |-> got, total |-> total, state |-> state]
AllConns(x) == [c \in Conns |-> x]

Init ==
  /\ n = 0
  /\ begin = AllConns(0) /\ end = AllConns(-1) /\ got = AllConns(0) /\ total = AllConns(0)
  /\ state = AllConns("new") /\ fault = AllConns("none") /\ tries = AllConns(0)
  /\ run = AllConns("off") /\ inflight = AllConns(0)
  /\ prefetched \in 0 .. Size - 1
  /\ file = 0 .. prefetched - 1
  /\ fstate = "resolved" /\ expanding = FALSE /\ canc = FALSE
  /\ saved = Snapshot
  /\ stops = 0

-----------------------------------------------------------------------------
\* Helpers

Open       == {c \in Conns : c < n}
Pos(c)     == begin[c] + got[c]
Remain(c)  == end[c] - begin[c] + 1 - got[c]
Left(c)    == Pos(c) .. end[c]
Sharing(c) == state[c] \notin {"completed", "failed"}
TotalDownloaded == MapThenSumSet(LAMBDA c : total[c], Open)

At(c, p)   == c \in Open /\ run[c] = p
Goto(c, p) == run' = [run EXCEPT ![c] = p]

\* where expandConnections and helpOtherConnection cut the chunk of v
SplitEnd(v) == end[v] - Remain(v) \div 2
StealEnd(v) == end[v] - Remain(v) \div 2 - 1

\* connections that expandConnections may split
Splittable == {v \in Open : Sharing(v) /\ Remain(v) > 2 * MinSteal}

-----------------------------------------------------------------------------
\* The download loop opens connections, even if the context was cancelled while
\* it waited for the signal to do so

\* the first one gets all that was not prefetched
OpenFirst ==
  /\ expanding /\ n = 0
  /\ n' = 1
  /\ begin' = [begin EXCEPT ![0] = prefetched]
  /\ end'   = [end EXCEPT ![0] = Size - 1]
  /\ got'   = [got EXCEPT ![0] = 0]
  /\ total' = [total EXCEPT ![0] = prefetched]
  /\ Goto(0, "request")
  /\ UNCHANGED <<state, fault, tries, inflight, file, loopVars, saved, stops>>

\* mutant: the new connection starts on the last byte the old one keeps
ExpandOverlap(v) ==
  /\ expanding /\ n \in 1 .. MaxConns - 1
  /\ v \in Splittable /\ \A w \in Splittable : Remain(w) <= Remain(v)
  /\ n' = n + 1
  /\ begin' = [begin EXCEPT ![n] = SplitEnd(v)]
  /\ end'   = [end EXCEPT ![n] = end[v], ![v] = SplitEnd(v)]
  /\ Goto(n, "request")
  /\ UNCHANGED <<got, total, state, fault, tries, inflight, file, loopVars, saved, stops>>

\* the others get the latter half of the longest chunk; a batch is several of
\* these steps
Expand(v) ==
  /\ expanding /\ n \in 1 .. MaxConns - 1
  /\ v \in Splittable /\ \A w \in Splittable : Remain(w) <= Remain(v)
  /\ n' = n + 1
  /\ begin' = [begin EXCEPT ![n] = SplitEnd(v) + 1]
  /\ end'   = [end EXCEPT ![n] = end[v], ![v] = SplitEnd(v)]
  /\ Goto(n, "request")
  /\ UNCHANGED <<got, total, state, fault, tries, inflight, file, loopVars, saved, stops>>

\* steady state, or checkCompletion finds nothing left to start
StopExpanding ==
  /\ expanding /\ n > 0
  /\ \/ n = MaxConns \/ Splittable = {}
     \/ TotalDownloaded >= Size
     \/ \A c \in Open : ~Sharing(c)
  /\ expanding' = FALSE
  /\ UNCHANGED <<chunkVars, connVars, file, prefetched, fstate, canc, saved, stops>>

-----------------------------------------------------------------------------
\* A connection

\* downloadChunkOnce has nothing to ask for
NothingLeft(c) ==
  /\ At(c, "request") /\ ~canc /\ Remain(c) <= 0
  /\ Goto(c, "finished")
  /\ UNCHANGED <<chunkVars, state, fault, tries, inflight, file, loopVars, saved, stops>>

Accepted(c) ==
  /\ At(c, "request") /\ ~canc /\ Remain(c) > 0
  /\ Goto(c, "reading")
  /\ state' = [state EXCEPT ![c] = "downloading"]
  /\ fault' = [fault EXCEPT ![c] = "none"]
  /\ UNCHANGED <<chunkVars, tries, inflight, file, loopVars, saved, stops>>

Give(c, why, to) ==
  /\ Goto(c, to)
  /\ state' = [state EXCEPT ![c] = "failed"]
  /\ fault' = [fault EXCEPT ![c] = why]

\* 403 ends a connection at once; the third of the other counted failures too
Refused(c) ==
  /\ At(c, "request") /\ ~canc /\ Remain(c) > 0
  /\ \/ Give(c, "forbidden", "off") /\ UNCHANGED tries
     \/ /\ tries' = [tries EXCEPT ![c] = @ + 1]
        /\ Give(c, "refused", IF tries[c] + 1 >= MaxRetry THEN "off" ELSE "request")
  /\ UNCHANGED <<chunkVars, inflight, file, loopVars, saved, stops>>

\* the connection waits for a response, or for its body
Responding(c) == ~canc /\ ((At(c, "request") /\ Remain(c) > 0) \/ At(c, "reading"))

\* a network failure or an overloaded server (5xx, 429) is tried again and again
Unreachable(c) ==
  /\ Responding(c)
  /\ Give(c, fault[c], "request")
  /\ UNCHANGED <<chunkVars, tries, inflight, file, loopVars, saved, stops>>

\* a malformed response ends the connection, even one that is only seen to be too
\* long after the last byte of the chunk
Malformed(c) ==
  /\ Responding(c)
  /\ Give(c, "integrity", "off")
  /\ UNCHANGED <<chunkVars, tries, inflight, file, loopVars, saved, stops>>

\* the read returns bytes, which are cut off at the end of the chunk
Read(c) ==
  /\ At(c, "reading") /\ Remain(c) > 0
  /\ \E k \in 1 .. Buf : k <= Remain(c) /\ inflight' = [inflight EXCEPT ![c] = k]
  /\ Goto(c, "writing")
  /\ UNCHANGED <<chunkVars, state, fault, tries, file, loopVars, saved, stops>>

WriteAt(c) ==
  /\ At(c, "writing")
  /\ file' = file \cup (Pos(c) .. Pos(c) + inflight[c] - 1)
  /\ Goto(c, "written")
  /\ UNCHANGED <<chunkVars, state, fault, tries, inflight, loopVars, saved, stops>>

\* mutant: the bytes are counted although the write failed
WriteFailsCounted(c) ==
  /\ At(c, "writing")
  /\ got'   = [got EXCEPT ![c] = @ + inflight[c]]
  /\ total' = [total EXCEPT ![c] = @ + inflight[c]]
  /\ inflight' = [inflight EXCEPT ![c] = 0]
  /\ Give(c, fault[c], "request")
  /\ UNCHANGED <<n, begin, end, tries, file, loopVars, saved, stops>>

\* WriteAt failed: nothing is counted, and the request is made again
WriteFails(c) ==
  /\ At(c, "writing")
  /\ inflight' = [inflight EXCEPT ![c] = 0]
  /\ Give(c, fault[c], "request")
  /\ UNCHANGED <<chunkVars, tries, file, loopVars, saved, stops>>

Count(c) ==
  /\ At(c, "written")
  /\ got'   = [got EXCEPT ![c] = @ + inflight[c]]
  /\ total' = [total EXCEPT ![c] = @ + inflight[c]]
  /\ inflight' = [inflight EXCEPT ![c] = 0]
  /\ Goto(c, "reading")
  /\ UNCHANGED <<n, begin, end, state, fault, tries, file, loopVars, saved, stops>>

ChunkDone(c) ==
  /\ At(c, "reading") /\ Remain(c) <= 0
  /\ Goto(c, "finished")
  /\ UNCHANGED <<chunkVars, state, fault, tries, inflight, file, loopVars, saved, stops>>

\* helpOtherConnection: which of the long chunks is the slowest depends on
\* measured speeds
Help(c, v) ==
  /\ At(c, "finished")
  /\ v \in Open \ {c} /\ Sharing(v) /\ Remain(v) >= MinSteal
  /\ begin' = [begin EXCEPT ![c] = StealEnd(v) + 1]
  /\ end'   = [end EXCEPT ![c] = end[v], ![v] = StealEnd(v)]
  /\ got'   = [got EXCEPT ![c] = 0]
  /\ tries' = [tries EXCEPT ![c] = 0]
  /\ Goto(c, "request")
  /\ UNCHANGED <<n, total, state, fault, inflight, file, loopVars, saved, stops>>

\* no one needs help: the connection is complete
Complete(c) ==
  /\ At(c, "finished")
  /\ state' = [state EXCEPT ![c] = "completed"]
  /\ Goto(c, "off")
  /\ UNCHANGED <<chunkVars, fault, tries, inflight, file, loopVars, saved, stops>>

\* the connection sees its cancelled context
Cancelled(c) ==
  /\ canc /\ (At(c, "request") \/ At(c, "reading"))
  /\ Goto(c, "off")
  /\ UNCHANGED <<chunkVars, state, fault, tries, inflight, file, loopVars, saved, stops>>

-----------------------------------------------------------------------------
\* onDownloadComplete

AllOff == \A c \in Open : run[c] = "off"

\* a connection with work left that is not excused by a 403
Unfinished(c) == Remain(c) > 0 /\ state[c] # "completed" /\ fault[c] # "forbidden"
Broken(c)     == state[c] = "failed" /\ fault[c] = "integrity"
Blamed(c)     == state[c] = "failed" /\ fault[c] \notin {"none", "forbidden"}

\* mutant: only integrity errors are looked at
SucceededUnlessBroken == ~\E c \in Open : Broken(c)

\* the download is a success unless an integrity error was seen, or bytes are
\* missing and a connection other than a refused one can be blamed for it
Succeeded ==
  /\ ~\E c \in Open : Broken(c)
  /\ \/ TotalDownloaded >= Size
     \/ ~\E c \in Open : Unfinished(c)
     \/ ~\E c \in Open : Blamed(c)

OnDownloadComplete ==
  /\ fstate = "active" /\ ~expanding /\ ~canc /\ n > 0
  /\ AllOff
  /\ fstate' = IF Succeeded THEN "done" ELSE "error"
  /\ UNCHANGED <<chunkVars, connVars, file, prefetched, expanding, canc, saved, stops>>

-----------------------------------------------------------------------------
\* Start, Pause, the stored snapshot, and a restart of the process

\* A retry after an error forgives every connection; resumeConnections starts
\* those that are not complete, nor refused, nor out of retries.  (A Start of a
\* fetcher that is already active is FetcherStart of TaskLifecycle; the chunks are
\* described for one download loop at a time.)
Start ==
  /\ fstate \in {"resolved", "paused", "error"}
  /\ LET forgiven(c) == fstate = "error" /\ state[c] # "completed"
         resumed(c)  == c \in Open /\ state[c] # "completed"
           /\ (forgiven(c) \/ state[c] # "failed" \/
                ~(fault[c] = "forbidden" \/ (fault[c] # "none" /\ tries[c] >= MaxRetry)))
     IN  /\ state' = [c \in Conns |-> IF resumed(c) THEN "new" ELSE state[c]]
         /\ fault' = [c \in Conns |-> IF resumed(c) THEN "none" ELSE fault[c]]
         /\ tries' = [c \in Conns |-> IF resumed(c) THEN 0 ELSE tries[c]]
         /\ run'   = [c \in Conns |-> IF resumed(c) THEN "request" ELSE "off"]
  /\ fstate' = "active"
  /\ canc' = FALSE
  /\ expanding' = (n = 0)
  /\ UNCHANGED <<chunkVars, inflight, file, prefetched, saved, stops>>

Cancel ==
  /\ fstate = "active" /\ ~canc /\ stops < MaxStops
  /\ canc' = TRUE
  /\ stops' = stops + 1
  /\ UNCHANGED <<chunkVars, connVars, file, prefetched, fstate, expanding, saved>>

\* Pause returns when the loop and the connections have; the task is then saved
PauseReturns ==
  /\ fstate = "active" /\ canc /\ AllOff /\ n > 0
  /\ fstate' = "paused" /\ expanding' = FALSE
  /\ saved' = Snapshot
  /\ UNCHANGED <<chunkVars, connVars, file, prefetched, canc, stops>>

\* a pause that lost the race against the last connection finds a fetcher that
\* has ended, and leaves it paused all the same
PauseLate ==
  /\ fstate \in {"done", "error"} /\ stops < MaxStops
  /\ fstate' = "paused"
  /\ saved' = Snapshot
  /\ stops' = stops + 1
  /\ UNCHANGED <<chunkVars, connVars, file, prefetched, expanding, canc>>

\* mutant: the snapshot counts what is still being written
StoreInFlight ==
  /\ fstate = "active" /\ stops < MaxStops
  /\ stops' = stops + 1
  /\ saved' = [Snapshot EXCEPT !.got = [c \in Conns |-> got[c] + inflight[c]]]
  /\ UNCHANGED <<chunkVars, connVars, file, loopVars>>

\* FetcherManager.Store, called by the tick goroutine's checkpoint
Store ==
  /\ fstate = "active" /\ stops < MaxStops
  /\ stops' = stops + 1
  /\ saved' = Snapshot
  /\ UNCHANGED <<chunkVars, connVars, file, loopVars>>

\* FetcherManager.Restore: what is not in the snapshot is gone
Crash ==
  /\ stops < MaxStops
  /\ n' = saved.n /\ begin' = saved.begin /\ end' = saved.end
  /\ got' = saved.got /\ total' = saved.total /\ state' = saved.state
  /\ fault' = AllConns("none") /\ tries' = AllConns(0)
  /\ run' = AllConns("off") /\ inflight' = AllConns(0)
  /\ prefetched' = 0
  /\ fstate' = "resolved" /\ expanding' = FALSE /\ canc' = FALSE
  /\ stops' = stops + 1
  /\ UNCHANGED <<file, saved>>

-----------------------------------------------------------------------------
ConnNext(c) ==
  \/ NothingLeft(c) \/ Accepted(c) \/ Refused(c) \/ Unreachable(c) \/ Malformed(c)
  \/ Read(c) \/ WriteAt(c) \/ WriteFails(c) \/ Count(c) \/ ChunkDone(c)
  \/ (\E v \in Conns : Help(c, v)) \/ Complete(c) \/ Cancelled(c)

Next ==
  \/ OpenFirst \/ (\E v \in Conns : Expand(v)) \/ StopExpanding
  \/ \E c \in Conns : ConnNext(c)
  \/ OnDownloadComplete \/ Start \/ Cancel \/ PauseReturns \/ PauseLate \/ Store \/ Crash

Spec == Init /\ [][Next]_vars

-----------------------------------------------------------------------------
\* Properties

ConnState == {"new", "downloading", "completed", "failed"}
Fault     == {"none", "forbidden", "refused", "integrity"}
RunState  == {"off", "request", "reading", "writing", "written", "finished"}

\* The variables keep their types; a chunk never reaches beyond the file.
TypeOK ==
  /\ n \in 0 .. MaxConns
  /\ begin \in [Conns -> 0 .. Size] /\ end \in [Conns -> -1 .. Size - 1]
  /\ got \in [Conns -> Nat] /\ total \in [Conns -> Nat]
  /\ state \in [Conns -> ConnState] /\ fault \in [Conns -> Fault] /\ tries \in [Conns -> Nat]
  /\ run \in [Conns -> RunState] /\ inflight \in [Conns -> 0 .. Buf]
  /\ file \in SUBSET Bytes
  /\ prefetched \in 0 .. Size - 1
  /\ fstate \in {"resolved", "active", "paused", "done", "error"}
  /\ expanding \in BOOLEAN /\ canc \in BOOLEAN
  /\ saved \in [n : 0 .. MaxConns, begin : [Conns -> 0 .. Size], end : [Conns -> -1 .. Size - 1],
                got : [Conns -> Nat], total : [Conns -> Nat], state : [Conns -> ConnState]]
  /\ stops \in Nat

\* No byte is forgotten: whatever was split, stolen, refused or paused, each byte
\* of the file is on disk or still belongs to a connection (expandConnections,
\* helpOtherConnection, downloadChunkOnce).
Covered == n > 0 => \A b \in Bytes : b \in file \/ \E c \in Open : b \in Left(c)

\* No byte is fetched twice: the chunks are disjoint, and a chunk is never cut
\* back behind what its connection has read and not counted yet, which it
\* writes without connMu.
NeverTwice ==
  \A c \in Open :
    /\ run[c] \in {"writing", "written"} => inflight[c] <= Remain(c)
    /\ \A d \in Open \ {c} : Left(c) \cap Left(d) = {}

\* The byte count can be trusted: once the connections have counted as many
\* bytes as the file has, all of them are on disk (downloadComplete in
\* onDownloadComplete).
CountedMeansWritten == TotalDownloaded >= Size => file = Bytes

\* A restart loses nothing: each byte is on disk or in a chunk of the snapshot,
\* whenever it was taken (FetcherManager.Store and Restore).
SnapshotResumable ==
  saved.n > 0 => \A b \in Bytes :
    \/ b \in file
    \/ \E c \in Conns : c < saved.n /\ b \in saved.begin[c] + saved.got[c] .. saved.end[c]

\* A download that is done is whole, but for what was left to connections that
\* the server refused with 403 (onDownloadComplete).
DoneHasNoOtherGap ==
  fstate = "done" => \A b \in Bytes \ file : \E c \in Open : fault[c] = "forbidden" /\ b \in Left(c)
=============================================================================
