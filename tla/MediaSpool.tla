----------------------------- MODULE MediaSpool -----------------------------
(***************************************************************************)
(* The spool of a media input of FFmpeg (blockSpool and DiskInput of       *)
(* pkg/download/engine/ffmpeg/spool.go, HTTPSpool of http_spool.go): a     *)
(* prefetcher writes the source to files of one block each, the reader     *)
(* removes every block it has passed, and, where the source has ranges, a  *)
(* second goroutine fetches what the reader misses. Offsets count units.   *)
(***************************************************************************)
EXTENDS Integers, Sequences, FiniteSets, FiniteSetsExt

CONSTANTS
    MediaUnits,   \* the size of the source
    BlockUnits,   \* units of a block (SpoolBlockSize)
    FetchBlocks,  \* blocks of one fetch (3 in the code)
    MaxSeeks,     \* bound: calls of Seek
    MaxBreaks     \* bound: failed requests and truncated bodies

ASSUME SpoolAssumption ==
    /\ {MediaUnits, BlockUnits, FetchBlocks} \subseteq Nat \ {0}
    /\ {MaxSeeks, MaxBreaks} \subseteq Nat

VARIABLES
    msRanged,   \* the source answers Range requests
    msFiles,    \* block -> the units that its file holds (the rest is a hole)
    msSpans,    \* block -> the units that the spool calls valid
    msSpool,    \* ended, failed, closed
    msReader,   \* the Read of FFmpeg: at, pos, whether the wake channel it took is closed, its
                \* result; history: whether a demand of its own found the channel full
    msDemand,   \* the demand channel, of one entry
    msFetch,    \* the two goroutines: at, next offset, end of the fetch, last unit of the response
    msNetwork,  \* who holds the network lock
    msCancelled, msSeeks, msBreaks

spoolVars == <<msRanged, msFiles, msSpans, msSpool, msReader, msDemand, msFetch, msNetwork,
               msCancelled, msSeeks, msBreaks>>

Units == 0..(MediaUnits - 1)
BlockOf(u) == u \div BlockUnits
Blocks == 0..BlockOf(MediaUnits - 1)
Fetchers == {"prefetch", "demand"}
FetchEnd(offset) == Min({offset + FetchBlocks * BlockUnits, MediaUnits})

SpoolTypeOK ==
    /\ msRanged \in BOOLEAN /\ msCancelled \in BOOLEAN
    /\ msFiles \in [Blocks -> SUBSET Units] /\ msSpans \in [Blocks -> SUBSET Units]
    /\ msSpool \in [ended : BOOLEAN, failed : BOOLEAN, closed : BOOLEAN]
    /\ msReader \in [at : {"idle", "reads", "looks", "rechecks", "asks", "waits"}, pos : 0..MediaUnits,
                     woken : BOOLEAN, dropped : BOOLEAN, result : {"none", "data", "eof", "error"}]
    /\ msDemand \in Seq(Units) /\ Len(msDemand) <= 1
    /\ msFetch \in [Fetchers -> [at : {"idle", "queued", "holds", "body", "gone"}, next : 0..MediaUnits,
                                 end : 0..MediaUnits, last : 0..MediaUnits]]
    /\ msNetwork \in SUBSET Fetchers /\ Cardinality(msNetwork) <= 1

SpoolInit ==
    /\ msRanged \in BOOLEAN
    /\ msFiles = [b \in Blocks |-> {}] /\ msSpans = msFiles
    /\ msSpool = [ended |-> FALSE, failed |-> FALSE, closed |-> FALSE]
    /\ msReader = [at |-> "idle", pos |-> 0, woken |-> FALSE, dropped |-> FALSE,
                   result |-> "none"]
    /\ msDemand = <<>> /\ msNetwork = {}
    /\ msFetch = [f \in Fetchers |-> [at |-> "idle", next |-> 0, end |-> 0, last |-> 0]]
    /\ msCancelled = FALSE /\ msSeeks = 0 /\ msBreaks = 0

Opened == msFetch["prefetch"].at # "idle"

\* OpenSpoolingHTTP: the range that detected the capability is in the spool
\* before the goroutines start.
OpenSpool ==
    LET first == [b \in Blocks |-> IF msRanged /\ b = 0 THEN {0} ELSE {}] IN
    /\ ~Opened
    /\ msFiles' = first /\ msSpans' = first
    /\ msFetch' = [msFetch EXCEPT !["prefetch"].at = "queued", !["prefetch"].end = FetchEnd(0)]
    /\ UNCHANGED <<msRanged, msSpool, msReader, msDemand, msNetwork, msCancelled, msSeeks, msBreaks>>

-----------------------------------------------------------------------------
(* blockSpool, each operation under its lock *)

Refuses == msSpool.failed \/ msSpool.closed
Valid(u) == u \in msSpans[BlockOf(u)]

\* notify: the channel that a reader may have taken is closed.
Notified == [msReader EXCEPT !.woken = TRUE]

WriteAt(u) ==
    /\ msFiles' = [msFiles EXCEPT ![BlockOf(u)] = @ \cup {u}]
    /\ msSpans' = [msSpans EXCEPT ![BlockOf(u)] = @ \cup {u}]
    /\ msReader' = Notified

\* The units that one readAt may return from u on: a run inside one block.
Runs(u) == {k \in 1..BlockUnits : \A v \in u..(u + k - 1) : v \in Units /\ BlockOf(v) = BlockOf(u) /\ Valid(v)}

\* discard of the block that the reader leaves.
Discarded(spool, passed) == [b \in Blocks |-> IF b \in passed THEN {} ELSE spool[b]]

\* mutant: the wake channel is not closed at the end
EndMutated(failed) ==
    /\ msSpool' = [msSpool EXCEPT !.ended = TRUE, !.failed = @ \/ failed]
    /\ UNCHANGED msReader
\* end: nil, or the first error.
End(failed) ==
    /\ msSpool' = [msSpool EXCEPT !.ended = TRUE, !.failed = @ \/ failed]
    /\ msReader' = Notified

-----------------------------------------------------------------------------
(* The goroutines of HTTPSpool *)

To(f, rec) == msFetch' = [msFetch EXCEPT ![f] = rec]
Over(f) == [msFetch[f] EXCEPT !.at = "gone"]

\* fetch fails, or the copy does: End(err), and the goroutine is gone.
FetchFails(f) ==
    /\ To(f, Over(f)) /\ msNetwork' = msNetwork \ {f}
    /\ End(TRUE)
    /\ UNCHANGED <<msFiles, msSpans>>

\* fetch is done: the prefetcher goes on three blocks further, or ends the spool.
FetchEnds(f) ==
    /\ msNetwork' = msNetwork \ {f}
    /\ UNCHANGED <<msFiles, msSpans>>
    /\ IF f = "demand"
       THEN To(f, [msFetch[f] EXCEPT !.at = "idle"]) /\ UNCHANGED <<msSpool, msReader>>
       ELSE LET more == msFetch[f].end < MediaUnits IN
            /\ To(f, IF more THEN [at |-> "queued", next |-> msFetch[f].end,
                                   end |-> FetchEnd(msFetch[f].end), last |-> 0]
                     ELSE Over(f))
            /\ IF more THEN UNCHANGED <<msSpool, msReader>> ELSE End(FALSE)

FetchLocks(f) ==
    /\ msRanged /\ msFetch[f].at = "queued" /\ msNetwork = {}
    /\ IF msCancelled THEN FetchFails(f)
       ELSE /\ msNetwork' = {f} /\ To(f, [msFetch[f] EXCEPT !.at = "holds"])
            /\ UNCHANGED <<msFiles, msSpans, msSpool, msReader>>
    /\ UNCHANGED <<msRanged, msDemand, msCancelled, msSeeks, msBreaks>>

\* What the spool has already is passed over; else a request for the rest, whose
\* answer may be shorter.
FetchLooks(f) ==
    LET me == msFetch[f] IN
    /\ me.at = "holds"
    /\ \/ me.next = me.end /\ FetchEnds(f)
       \/ me.next < me.end /\ Refuses /\ FetchFails(f)
       \/ /\ me.next < me.end /\ ~Refuses
          /\ IF Valid(me.next) THEN To(f, [me EXCEPT !.next = @ + 1])
             ELSE \E last \in me.next..(me.end - 1) : To(f, [me EXCEPT !.at = "body", !.last = last])
          /\ UNCHANGED <<msFiles, msSpans, msSpool, msReader, msNetwork>>
    /\ UNCHANGED <<msRanged, msDemand, msCancelled, msSeeks, msBreaks>>

FetchReceives(f) ==
    LET me == msFetch[f] IN
    /\ me.at = "body"
    /\ IF Refuses THEN FetchFails(f)
       ELSE /\ WriteAt(me.next)
            /\ To(f, [me EXCEPT !.next = @ + 1, !.at = IF me.next = me.last THEN "holds" ELSE "body"])
            /\ UNCHANGED <<msSpool, msNetwork>>
    /\ UNCHANGED <<msRanged, msDemand, msCancelled, msSeeks, msBreaks>>

\* The request fails, its answer does not fit, the body breaks, or ctx is over.
FetchBreaks(f) ==
    /\ msFetch[f].at = "body"
    /\ \/ msCancelled /\ UNCHANGED msBreaks
       \/ msBreaks < MaxBreaks /\ msBreaks' = msBreaks + 1
    /\ FetchFails(f)
    /\ UNCHANGED <<msRanged, msDemand, msCancelled, msSeeks>>

\* A source without ranges: CopyBuffer of the open body into DiskInput.Write.
CopyUnit ==
    LET me == msFetch["prefetch"] IN
    /\ ~msRanged /\ me.at = "queued"
    /\ \/ /\ me.next < MediaUnits /\ ~msCancelled /\ ~Refuses /\ ~msSpool.ended
          /\ WriteAt(me.next) /\ To("prefetch", [me EXCEPT !.next = @ + 1])
          /\ UNCHANGED <<msSpool, msNetwork, msBreaks>>
       \/ /\ me.next = MediaUnits
          /\ To("prefetch", Over("prefetch")) /\ End(FALSE)
          /\ UNCHANGED <<msFiles, msSpans, msNetwork, msBreaks>>
       \/ msCancelled /\ FetchFails("prefetch") /\ UNCHANGED msBreaks
       \/ /\ msBreaks < MaxBreaks /\ msBreaks' = msBreaks + 1
          /\ me.next < MediaUnits /\ FetchFails("prefetch")
    /\ UNCHANGED <<msRanged, msDemand, msCancelled, msSeeks>>

\* The demand goroutine: a position that was filled meanwhile is dropped, with
\* nothing for the reader to wake up by.
DemandTaken ==
    LET me == msFetch["demand"]
        from == BlockUnits * BlockOf(Head(msDemand)) IN
    /\ msRanged /\ me.at = "idle" /\ msDemand # <<>>
    /\ msDemand' = <<>>
    /\ IF Refuses \/ Valid(Head(msDemand)) THEN UNCHANGED msFetch
       ELSE To("demand", [me EXCEPT !.at = "queued", !.next = from, !.end = FetchEnd(from)])
    /\ UNCHANGED <<msRanged, msFiles, msSpans, msSpool, msReader, msNetwork, msCancelled, msSeeks, msBreaks>>

DemandLeaves ==
    /\ msCancelled /\ msFetch["demand"].at = "idle"
    /\ To("demand", Over("demand"))
    /\ UNCHANGED <<msRanged, msFiles, msSpans, msSpool, msReader, msDemand, msNetwork, msCancelled, msSeeks, msBreaks>>

-----------------------------------------------------------------------------
(* Read, Seek and Close *)

Reads(at, result) == msReader' = [msReader EXCEPT !.at = at, !.woken = FALSE, !.result = result]
readerOnly == <<msRanged, msSpool, msFetch, msNetwork, msCancelled, msSeeks, msBreaks>>

ReadBegins ==
    /\ Opened /\ msReader.at = "idle" /\ ~(msReader.result = "error")
    /\ msReader' = [msReader EXCEPT !.at = "reads", !.woken = FALSE, !.dropped = FALSE, !.result = "none"]
    /\ UNCHANGED <<readerOnly, msFiles, msSpans, msDemand>>

\* The end of a source with ranges is known by its size.
ReadAtEnd ==
    /\ msReader.at = "reads" /\ msRanged /\ msReader.pos = MediaUnits
    /\ msSpans' = Discarded(msSpans, {BlockOf(MediaUnits - 1)})
    /\ msFiles' = Discarded(msFiles, {BlockOf(MediaUnits - 1)})
    /\ Reads("idle", "eof")
    /\ UNCHANGED <<readerOnly, msDemand>>

\* Bytes: as many as one block has in a row and the caller asked for.
ReadData ==
    /\ msReader.at = "reads" /\ ~msCancelled /\ ~Refuses /\ msReader.pos < MediaUnits
    /\ \E k \in Runs(msReader.pos) :
          LET next == msReader.pos + k
              passed == {BlockOf(msReader.pos)} \ {BlockOf(next)} IN
          /\ msReader' = [msReader EXCEPT !.at = "idle", !.pos = next, !.woken = FALSE, !.result = "data"]
          /\ msSpans' = Discarded(msSpans, passed) /\ msFiles' = Discarded(msFiles, passed)
    /\ UNCHANGED <<readerOnly, msDemand>>

\* Nothing there: the reader keeps the wake channel of this moment.
ReadMisses ==
    /\ msReader.at = "reads" /\ ~msCancelled /\ ~Refuses
    /\ ~(msReader.pos < MediaUnits /\ Valid(msReader.pos)) /\ ~(msRanged /\ msReader.pos = MediaUnits)
    /\ Reads(IF msRanged THEN "asks" ELSE "looks", "none")
    /\ UNCHANGED <<readerOnly, msFiles, msSpans, msDemand>>

ReadFails ==
    /\ msReader.at \in {"reads", "rechecks"} /\ ~(msRanged /\ msReader.pos = MediaUnits)
    /\ Refuses \/ (msCancelled /\ msReader.at = "reads")
    /\ Reads("idle", "error")
    /\ UNCHANGED <<readerOnly, msFiles, msSpans, msDemand>>

\* mutant: the end is believed without a second look
EndSeenMutated == Reads("idle", "eof")
\* DiskInput.Read: "End can race the missing-data check; recheck after observing it."
EndSeen == msReader' = [msReader EXCEPT !.at = "rechecks"]

ReadLooksForEnd ==
    /\ msReader.at = "looks"
    /\ IF msSpool.ended THEN EndSeen ELSE msReader' = [msReader EXCEPT !.at = "waits"]
    /\ UNCHANGED <<readerOnly, msFiles, msSpans, msDemand>>

ReadRechecks ==
    /\ msReader.at = "rechecks" /\ ~Refuses
    /\ IF msReader.pos < MediaUnits /\ Valid(msReader.pos)
       THEN Reads("reads", "none") /\ UNCHANGED <<msFiles, msSpans>>
       ELSE /\ Reads("idle", "eof")
            /\ msSpans' = Discarded(msSpans, {BlockOf(msReader.pos)})
            /\ msFiles' = Discarded(msFiles, {BlockOf(msReader.pos)})
    /\ UNCHANGED <<readerOnly, msDemand>>

\* The demand is dropped where one waits already.
ReadAsks ==
    /\ msReader.at = "asks"
    /\ msReader' = [msReader EXCEPT !.at = "waits",
                                    !.dropped = @ \/ msDemand \notin {<<>>, <<msReader.pos>>}]
    /\ msDemand' = IF msDemand = <<>> THEN <<msReader.pos>> ELSE msDemand
    /\ UNCHANGED <<readerOnly, msFiles, msSpans>>

ReadWakes ==
    /\ msReader.at = "waits"
    /\ \/ msReader.woken /\ Reads("reads", "none")
       \/ msCancelled /\ Reads("idle", "error")
    /\ UNCHANGED <<readerOnly, msFiles, msSpans, msDemand>>

Seek ==
    /\ Opened /\ msRanged /\ msReader.at = "idle" /\ ~(msReader.result = "error") /\ msSeeks < MaxSeeks
    /\ \E pos \in 0..MediaUnits : msReader' = [msReader EXCEPT !.pos = pos, !.result = "none"]
    /\ msSeeks' = msSeeks + 1
    /\ UNCHANGED <<msRanged, msFiles, msSpans, msSpool, msDemand, msFetch, msNetwork, msCancelled, msBreaks>>

\* Close: the context, then both goroutines, then the files.
CloseSpool ==
    /\ Opened /\ ~msCancelled /\ msCancelled' = TRUE
    /\ UNCHANGED <<msRanged, msFiles, msSpans, msSpool, msReader, msDemand, msFetch, msNetwork, msSeeks, msBreaks>>

CloseRemoves ==
    /\ msCancelled /\ ~msSpool.closed /\ \A f \in Fetchers : msFetch[f].at = "gone"
    /\ msSpool' = [msSpool EXCEPT !.closed = TRUE]
    /\ msSpans' = [b \in Blocks |-> {}] /\ msFiles' = [b \in Blocks |-> {}]
    /\ msReader' = Notified
    /\ UNCHANGED <<msRanged, msDemand, msFetch, msNetwork, msCancelled, msSeeks, msBreaks>>

FetchStep(f) == FetchLocks(f) \/ FetchLooks(f) \/ FetchReceives(f)
ReadStep ==
    \/ ReadAtEnd \/ ReadData \/ ReadMisses \/ ReadFails
    \/ ReadLooksForEnd \/ ReadRechecks \/ ReadAsks \/ ReadWakes

SpoolNext ==
    \/ OpenSpool
    \/ \E f \in Fetchers : FetchStep(f) \/ FetchBreaks(f)
    \/ CopyUnit \/ DemandTaken \/ DemandLeaves
    \/ ReadBegins \/ ReadStep \/ Seek
    \/ CloseSpool \/ CloseRemoves

\* Every goroutine goes on, and a request that was sent is answered.
SpoolFairness ==
    /\ \A f \in Fetchers : WF_spoolVars(FetchStep(f))
    /\ WF_spoolVars(CopyUnit) /\ WF_spoolVars(DemandTaken) /\ WF_spoolVars(DemandLeaves)
    /\ WF_spoolVars(ReadStep) /\ WF_spoolVars(CloseRemoves)

SpoolSpec == SpoolInit /\ [][SpoolNext]_spoolVars /\ SpoolFairness

-----------------------------------------------------------------------------
(* Properties *)

\* The end of file that FFmpeg sees is the end of the source: never a moment in
\* which the prefetcher wrote its last bytes and ended between two looks of the
\* reader, nor the end of a source that failed.
EofIsTheEnd == msReader.result = "eof" => msReader.pos = MediaUnits

\* A Read returns, with bytes, the end or an error, whichever of the prefetcher,
\* the demands, Seek and Close comes between, "including blocks already evicted"
\* (HTTPSpool), unless its demand was dropped for one of another position that
\* the one-entry channel still had (HTTPSpool.Read).
ReadsReturn == msReader.at = "reads" ~> (msReader.at = "idle" \/ msReader.dropped)
=============================================================================
