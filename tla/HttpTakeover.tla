---------------------------- MODULE HttpTakeover ----------------------------
(***************************************************************************)
(* One connection of the HTTP fetcher (internal/protocol/http/fetcher.go)  *)
(* from Resolve on: the response of Resolve is prefetched into a temporary *)
(* file and stays the fall back until the first Range response takes over; *)
(* a server that ignores Range turns the download into a sequential one,   *)
(* whose prefix may be resumed with If-Range; a size may be unknown; Pause *)
(* and a restart from the stored record come between.                      *)
(*                                                                         *)
(* The server holds one version of the resource at a time. A byte of the   *)
(* file is the version it was read from, 0 where none was written. The     *)
(* steps of one request and of its answer that hold no lock together are   *)
(* one action each: nobody else writes what they read but Resolve's        *)
(* prefetch, whose moment the answer stops.                                *)
(***************************************************************************)
EXTENDS Integers, Sequences, FiniteSets

CONSTANTS
    VersionSizes,   \* size of each version, in reads of the body
    MaxHtFaults,    \* bound: broken bodies and refused requests
    MaxHtStops      \* bound: pauses, crashes and checkpoints

ASSUME HtAssumption ==
    /\ VersionSizes \in Seq(Nat \ {0}) /\ Len(VersionSizes) > 0
    /\ {MaxHtFaults, MaxHtStops} \subseteq Nat

VARIABLES
    htServer,   \* the version, and what the server sends: validator, length, Range support;
                \* beside it the version that the task's checksum expects, 0 for no checksum
    htState,    \* f.state
    htRes,      \* meta.Res and the recovery fields beside it
    htPre,      \* the prefetch: place, version, bytes; the temporary file; resolveFallback
    htHeld,     \* version of the resolve response that Start will read itself, 0 for none
    htDataPos,  \* resolveDataPos
    htConn,     \* f.connections: none or the only one
    htReq,      \* the goroutine of the connection
    htFile,     \* the target, by position
    htStored,   \* the record of the last checkpoint
    htMismatch, \* checksumFailed
    htFaults, htStops,
    htSpoilt    \* the bytes before the connection's chunk were lost: at a restart from
                \* an older record, or with a prefetch that failed

htVars == <<htServer, htState, htRes, htPre, htHeld, htDataPos, htConn, htReq, htFile, htStored,
            htMismatch, htFaults, htStops, htSpoilt>>

Versions == 1..Len(VersionSizes)
SizeOf(v) == VersionSizes[v]
Positions == 0..(CHOOSE m \in {SizeOf(v) : v \in Versions} : \A v \in Versions : SizeOf(v) <= m) - 1
TagOf(v) == IF htServer.validator THEN v ELSE 0

OpenEnd == -1
NoConn == [there |-> FALSE, begin |-> 0, end |-> OpenEnd, got |-> 0, total |-> 0, state |-> "new"]
NoPre == [at |-> "off", version |-> 0, got |-> 0, failed |-> FALSE, file |-> FALSE, fallback |-> FALSE]
NoReq == [at |-> "off", plain |-> FALSE, range |-> FALSE, start |-> 0, end |-> OpenEnd, ifRange |-> 0,
          probe |-> FALSE, restart |-> FALSE, version |-> 0, from |-> 0, read |-> 0, expected |-> -1,
          discard |-> 0, why |-> "none"]
NoRes == [range |-> FALSE, size |-> 0, known |-> FALSE, unknown |-> FALSE, tag |-> 0,
          eligible |-> FALSE, pinned |-> FALSE]

HtTypeOK ==
    /\ htState \in {"idle", "resolved", "running", "paused", "error", "done"}
    /\ htPre.at \in {"off", "reading", "done"} /\ htPre.got \in Nat
    /\ htHeld \in 0..Len(VersionSizes)
    /\ htConn.got \in Nat /\ htConn.total \in Nat
    /\ htConn.state \in {"new", "failed", "broken", "refused", "forbidden", "completed"}
    /\ htReq.at \in {"off", "ask", "asked", "body", "await", "held"}
    /\ htFile \in [Positions -> 0..Len(VersionSizes)]
    /\ htPre.fallback => htPre.file
    /\ htMismatch \in BOOLEAN

HtInit ==
    /\ htServer \in [version : {1}, validator : BOOLEAN, lengths : BOOLEAN, ranges : BOOLEAN,
                     checksum : {0, 1}]
    /\ htState = "idle" /\ htRes = NoRes /\ htPre = NoPre /\ htHeld = 0 /\ htDataPos = 0
    /\ htConn = NoConn /\ htReq = NoReq
    /\ htFile = [p \in Positions |-> 0]
    /\ htStored = [there |-> FALSE, res |-> NoRes, conn |-> NoConn]
    /\ htMismatch = FALSE /\ htFaults = 0 /\ htStops = 0 /\ htSpoilt = FALSE

-----------------------------------------------------------------------------
(* Resolve and the prefetch *)

\* A normal request without Range; the body is kept for Start, or prefetched
\* where the server takes ranges. A partial response that starts elsewhere is of
\* no use as a prefix, but states the size.
HtResolve ==
    LET v == htServer.version IN
    /\ htState = "idle"
    /\ htState' = "resolved"
    /\ \E segment \in {FALSE, htServer.ranges} :
         LET known == segment \/ htServer.lengths IN
         /\ htRes' = [NoRes EXCEPT !.range = htServer.ranges, !.size = IF known THEN SizeOf(v) ELSE 0,
                                   !.known = known, !.unknown = ~htServer.ranges /\ ~known,
                                   !.tag = TagOf(v)]
         /\ htPre' = IF htServer.ranges /\ ~segment
                     THEN [NoPre EXCEPT !.at = "reading", !.version = v, !.file = TRUE, !.fallback = TRUE]
                     ELSE NoPre
         /\ htHeld' = IF htServer.ranges THEN 0 ELSE v
    /\ UNCHANGED <<htServer, htDataPos, htConn, htReq, htFile, htStored, htFaults, htStops,
                   htSpoilt, htMismatch>>

\* asyncPrefetch: one read, the end of the body, or an error.
Prefetch ==
    /\ htPre.at = "reading"
    /\ \/ /\ htPre.got < SizeOf(htPre.version)
          /\ htPre' = [htPre EXCEPT !.got = @ + 1]
          /\ UNCHANGED htFaults
       \/ /\ htPre.got = SizeOf(htPre.version)
          /\ htPre' = [htPre EXCEPT !.at = "done"]
          /\ UNCHANGED htFaults
       \/ /\ htFaults < MaxHtFaults
          /\ htFaults' = htFaults + 1
          /\ htPre' = [htPre EXCEPT !.at = "done", !.failed = TRUE]
    /\ UNCHANGED <<htServer, htState, htRes, htHeld, htDataPos, htConn, htReq, htFile, htStored,
                   htStops, htSpoilt, htMismatch>>

\* stopPrefetchAndCopyData and cleanupPrefetchFile: the bytes go to the target
\* and the temporary file goes.
Copied == IF htPre.file THEN htPre.got ELSE 0
FileWithPrefix == [p \in Positions |-> IF p < Copied THEN htPre.version ELSE htFile[p]]
PreStopped == [NoPre EXCEPT !.at = IF htPre.at = "off" THEN "off" ELSE "done", !.failed = htPre.failed]

-----------------------------------------------------------------------------
(* The connection *)

\* hasSequentialPrefixLocked and canProbeSequentialResumeLocked
KnownSize(res) == IF res.known THEN res.size ELSE 0
HasPrefix == /\ ~htRes.range /\ htRes.eligible /\ htConn.there
             /\ 0 < htConn.got /\ htConn.got < KnownSize(htRes)
CanProbe == HasPrefix /\ ~htRes.unknown /\ htRes.tag # 0

\* resetConnectionForRestart, where the resource has no ranges.
ResetIn(res, conn) ==
    IF res.range THEN conn
    ELSE [conn EXCEPT !.begin = 0, !.end = 0, !.got = 0, !.total = 0,
                      !.state = IF @ = "completed" THEN "new" ELSE @]

FirstChunk(pos) == [NoConn EXCEPT !.there = TRUE, !.begin = pos, !.total = pos,
                                  !.end = IF KnownSize(htRes) > 0 THEN htRes.size - 1 ELSE OpenEnd]

AskFor(plain) == [NoReq EXCEPT !.at = "ask", !.plain = plain]

\* verifyChecksum, of the file that is now closed.
Mismatches(file) ==
    /\ htServer.checksum # 0
    /\ \E p \in Positions :
         file[p] # IF p < SizeOf(htServer.checksum) THEN htServer.checksum ELSE 0
Verified ==
    /\ htState' = IF Mismatches(htFile') THEN "error" ELSE "done"
    /\ htMismatch' = (htMismatch \/ Mismatches(htFile'))

\* doStart and downloadLoop. An error resets what did not complete; the prefetch
\* goes on until the first Range response, or is copied where it is complete or
\* no longer the fall back.
StartFresh(pos) ==
    IF htRes.range
    THEN IF htRes.known /\ pos >= htRes.size /\ htRes.size > 0
         THEN Verified /\ UNCHANGED <<htConn, htReq>>
         ELSE /\ htState' = "running"
              /\ htConn' = FirstChunk(pos)
              /\ htReq' = AskFor(FALSE)
              /\ UNCHANGED htMismatch
    ELSE /\ htState' = "running" /\ UNCHANGED htMismatch
         /\ htConn' = [NoConn EXCEPT !.there = TRUE, !.end = 0]
         /\ htReq' = IF htHeld = 0 THEN AskFor(TRUE)
                     ELSE [NoReq EXCEPT !.at = "held", !.version = htHeld]

\* resumeConnections leaves what has completed or was refused for good.
StartResumed ==
    LET skips == \/ htConn.state = "completed"
                 \/ htConn.state \in {"refused", "forbidden"} /\ htState # "error" IN
    /\ htState' = "running" /\ UNCHANGED htMismatch
    /\ htConn' = IF skips THEN htConn
                 ELSE [(IF HasPrefix THEN htConn ELSE ResetIn(htRes, htConn)) EXCEPT !.state = "new"]
    /\ htReq' = IF skips THEN NoReq ELSE AskFor(FALSE)

RetriesMismatch == htState = "error" /\ htMismatch

HtStart ==
    LET whole == htRes.known /\ htPre.at = "done" /\ ~htPre.failed /\ htPre.got >= htRes.size
        stays == htRes.range /\ htPre.fallback /\ ~whole
        pos == IF stays THEN htPre.got ELSE IF htRes.range THEN Copied ELSE htDataPos
    IN
    /\ htState \in {"resolved", "paused", "error"} /\ ~RetriesMismatch
    /\ IF htRes.range /\ ~stays
       THEN htFile' = FileWithPrefix /\ htPre' = PreStopped
       ELSE UNCHANGED <<htFile, htPre>>
    /\ htDataPos' = pos
    /\ IF htConn.there THEN StartResumed ELSE StartFresh(pos)
    /\ htHeld' = 0
    /\ UNCHANGED <<htServer, htRes, htStored, htFaults, htStops, htSpoilt>>

\* A retry after a mismatch: every byte is wrong until it is read again
\* (prepareFullRedownload), with one connection from the start.
FullRedownload ==
    /\ RetriesMismatch /\ htMismatch' = FALSE
    /\ htState' = "running" /\ htReq' = AskFor(FALSE)
    /\ htFile' = [p \in Positions |-> 0]
    /\ htPre' = PreStopped /\ htDataPos' = 0 /\ htHeld' = 0
    /\ IF htRes.range
       THEN /\ htRes' = [htRes EXCEPT !.eligible = FALSE, !.pinned = FALSE]
            /\ htConn' = FirstChunk(0)
       ELSE /\ htConn' = [ResetIn(htRes, htConn) EXCEPT !.state = "new"]
            /\ UNCHANGED htRes
    /\ UNCHANGED <<htServer, htStored, htFaults, htStops, htSpoilt>>

\* The head of downloadChunkOnce: a prefix that cannot be validated starts over,
\* a chunk that has nothing left is done.
Ask ==
    LET restart == htRes.unknown \/ (HasPrefix /\ ~CanProbe)
        conn == IF restart THEN ResetIn(htRes, htConn) ELSE htConn
        open == htRes.range /\ conn.end = OpenEnd
        res == [htRes EXCEPT !.pinned = @ /\ ~restart]
    IN
    /\ htReq.at = "ask"
    /\ htRes' = res
    /\ htDataPos' = IF restart THEN 0 ELSE htDataPos
    /\ IF htRes.range /\ ~open /\ conn.end + 1 - conn.begin - conn.got <= 0
       THEN htConn' = [conn EXCEPT !.state = "completed"] /\ htReq' = NoReq
       ELSE /\ htConn' = conn
            /\ htReq' = [NoReq EXCEPT
                 !.at = "asked", !.plain = htReq.plain, !.probe = CanProbe, !.restart = restart,
                 !.range = htRes.range \/ CanProbe,
                 !.start = conn.begin + conn.got,
                 !.end = IF CanProbe THEN htRes.size - 1 ELSE IF open THEN OpenEnd ELSE conn.end,
                 !.ifRange = IF CanProbe \/ (htRes.range /\ (res.pinned \/ htPre.fallback))
                             THEN htRes.tag ELSE 0]
    /\ UNCHANGED <<htServer, htState, htPre, htHeld, htFile, htStored, htFaults, htStops,
                   htSpoilt, htMismatch>>

\* What runConnection does with an error: the fall back of Resolve first, then
\* by its kind; a 403 is final ("forbidden"), another status after three times
\* ("refused"). The plain loop (runConnectionFallback) knows no terminal error.
AfterError(kind, res, conn) ==
    IF kind = "terminal" /\ ~htReq.plain
    THEN htConn' = [conn EXCEPT !.state = "failed"] /\ htReq' = NoReq
    ELSE \/ /\ htConn' = LET prefix == /\ ~res.range /\ res.eligible /\ 0 < conn.got
                                       /\ conn.got < KnownSize(res)
                         IN IF prefix /\ ~htReq.plain THEN conn ELSE ResetIn(res, conn)
            /\ htReq' = AskFor(htReq.plain)
         \/ /\ kind = "http" /\ htReq' = NoReq
            /\ \E s \in {"refused", "forbidden"} : htConn' = [conn EXCEPT !.state = s]

\* completeFromResolveFallback claims the fall back and waits for its end.
FailsWith(kind, res, conn) ==
    IF htPre.fallback /\ ~htReq.plain
    THEN /\ htPre' = [htPre EXCEPT !.fallback = FALSE]
         /\ htReq' = [NoReq EXCEPT !.at = "await", !.why = kind]
         /\ htConn' = conn
    ELSE AfterError(kind, res, conn) /\ UNCHANGED htPre

FallBackCompletes ==
    /\ htReq.at = "await" /\ htPre.at = "done"
    /\ ~htPre.failed /\ (htRes.known => htPre.got = htRes.size)
    /\ htFile' = FileWithPrefix
    /\ htPre' = PreStopped
    /\ htDataPos' = Copied
    /\ htRes' = [htRes EXCEPT !.range = FALSE, !.eligible = FALSE, !.pinned = FALSE, !.known = TRUE,
                              !.size = IF htRes.known THEN @ ELSE Copied]
    /\ htConn' = [htConn EXCEPT !.begin = 0, !.end = Copied - 1, !.got = Copied, !.total = Copied,
                                !.state = "completed"]
    /\ htReq' = NoReq
    /\ UNCHANGED <<htServer, htState, htHeld, htStored, htFaults, htStops,
                   htSpoilt, htMismatch>>

FallBackFails ==
    /\ htReq.at = "await" /\ htPre.at = "done"
    /\ htPre.failed \/ (htRes.known /\ htPre.got # htRes.size)
    /\ htPre' = PreStopped
    /\ htSpoilt' = (htSpoilt \/ (htRes.range /\ htConn.begin > 0))
    /\ AfterError(htReq.why, htRes, htConn)
    /\ UNCHANGED <<htServer, htState, htRes, htHeld, htDataPos, htFile, htStored, htFaults,
                   htStops, htMismatch>>

\* A status that only means later (isFailureExemptHTTPCode) leaves the fall back.
RequestFails ==
    /\ htReq.at = "asked" /\ htFaults < MaxHtFaults
    /\ htFaults' = htFaults + 1
    /\ \/ FailsWith("http", htRes, htConn) \/ FailsWith("network", htRes, htConn)
       \/ AfterError("network", htRes, htConn) /\ UNCHANGED htPre
    /\ UNCHANGED <<htServer, htState, htRes, htHeld, htDataPos, htFile, htStored, htStops,
                   htSpoilt, htMismatch>>

Truncated(file, size) == [p \in Positions |-> IF p < size THEN file[p] ELSE 0]

Body(v, from, expected, discard, restart) ==
    [htReq EXCEPT !.at = "body", !.version = v, !.from = from, !.read = 0, !.expected = expected,
                  !.discard = discard, !.restart = restart]

\* 200 to a request: the complete resource. After a Range request the download
\* becomes sequential and starts over with this body; so does a restart that was
\* meant. Its length sizes the file, or stays unknown until the end.
Answer200 ==
    LET v == htServer.version
        restart == htReq.restart \/ htReq.range
        stops == htReq.range /\ htPre.fallback
        base == IF htReq.range
                THEN [htRes EXCEPT !.range = FALSE, !.eligible = TRUE, !.pinned = FALSE, !.tag = TagOf(v)]
                ELSE [htRes EXCEPT !.tag = IF htRes.eligible THEN TagOf(v) ELSE @]
        conn == IF htReq.range THEN ResetIn(base, htConn) ELSE htConn
        file == IF stops THEN FileWithPrefix ELSE htFile
        fits == ~htRes.known \/ SizeOf(v) = htRes.size
    IN
    /\ htReq.at = "asked"
    /\ htDataPos' = IF htReq.range THEN 0 ELSE htDataPos
    /\ IF ~restart /\ htServer.lengths /\ ~fits
       THEN /\ FailsWith("terminal", base, conn)
            /\ htRes' = base /\ htFile' = file
       ELSE /\ htPre' = IF stops THEN PreStopped ELSE htPre
            /\ htConn' = conn
            /\ IF restart /\ htServer.lengths
               THEN /\ htRes' = [base EXCEPT !.size = SizeOf(v), !.known = TRUE, !.unknown = FALSE]
                    /\ htFile' = Truncated(file, SizeOf(v))
                    /\ htReq' = Body(v, 0, SizeOf(v), 0, TRUE)
               ELSE IF restart
               THEN /\ htRes' = [base EXCEPT !.size = 0, !.known = FALSE, !.unknown = TRUE, !.tag = 0,
                                             !.pinned = FALSE]
                    /\ htFile' = Truncated(file, 0)
                    /\ htReq' = Body(v, 0, -1, 0, TRUE)
               ELSE /\ htRes' = base /\ htFile' = file
                    /\ htReq' = Body(v, 0, IF KnownSize(htRes) > 0 THEN htRes.size ELSE -1, 0, FALSE)
    /\ UNCHANGED <<htServer, htState, htHeld, htStored, htFaults, htStops,
                   htSpoilt, htMismatch>>

\* mutant: the takeover forgets what the prefetch has read since the request
TakenOverMutated(conn) == [conn EXCEPT !.got = 0, !.total = Copied]

\* commitResolveTakeover: the overlap is discarded from the Range response.
TakenOver(conn) == [conn EXCEPT !.got = Copied - htReq.start, !.total = Copied]

\* 206: the range that was asked for, of a resource of the size that is known.
Answer206 ==
    LET v == htServer.version
        last == SizeOf(v) - 1
        valid == /\ htReq.start <= last /\ htReq.end \in {OpenEnd, last}
                 /\ KnownSize(htRes) \in {0, SizeOf(v)}
        takes == htPre.fallback
        inside == htReq.start <= Copied /\ Copied <= SizeOf(v)
        sized == IF htReq.end = OpenEnd THEN [htRes EXCEPT !.size = SizeOf(v), !.known = TRUE] ELSE htRes
        conn == IF htReq.end = OpenEnd THEN [htConn EXCEPT !.end = last] ELSE htConn
        file == IF htReq.end = OpenEnd THEN Truncated(htFile, SizeOf(v)) ELSE htFile
    IN
    /\ htReq.at = "asked" /\ htReq.range /\ htServer.ranges
    /\ htReq.ifRange \in {0, v}
    /\ IF ~valid
       THEN FailsWith("terminal", htRes, htConn) /\ UNCHANGED <<htRes, htFile, htDataPos>>
       ELSE IF takes
       THEN /\ htFile' = [p \in Positions |-> IF p < Copied THEN htPre.version ELSE file[p]]
            /\ htPre' = PreStopped
            /\ IF inside
               THEN /\ htDataPos' = Copied
                    /\ htRes' = [sized EXCEPT !.pinned = @ \/ htRes.tag # 0]
                    /\ htConn' = TakenOver(conn)
                    /\ htReq' = Body(v, htReq.start, SizeOf(v) - htReq.start, Copied - htReq.start, FALSE)
               ELSE /\ htRes' = sized /\ UNCHANGED htDataPos
                    /\ AfterError("network", sized, conn)
       ELSE /\ htRes' = IF htReq.probe
                        THEN [sized EXCEPT !.range = TRUE, !.eligible = FALSE, !.pinned = TRUE,
                                           !.unknown = FALSE]
                        ELSE sized
            /\ htConn' = IF htReq.probe THEN [conn EXCEPT !.begin = 0, !.end = last] ELSE conn
            /\ htFile' = file
            /\ htReq' = Body(v, htReq.start, SizeOf(v) - htReq.start, 0, FALSE)
            /\ UNCHANGED <<htPre, htDataPos>>
    /\ UNCHANGED <<htServer, htState, htHeld, htStored, htFaults, htStops,
                   htSpoilt, htMismatch>>

\* One read of the body: the overlap is dropped, the rest written at the chunk's
\* position and counted.
BodyLeft == htReq.from + htReq.read < SizeOf(htReq.version)

ReadBody ==
    /\ htReq.at = "body" /\ BodyLeft
    /\ IF htReq.expected >= 0 /\ htReq.read + 1 > htReq.expected
       THEN FailsWith("terminal", htRes, htConn) /\ UNCHANGED htFile
       ELSE /\ UNCHANGED htPre
            /\ IF htReq.discard > 0
               THEN /\ htReq' = [htReq EXCEPT !.read = @ + 1, !.discard = @ - 1]
                    /\ UNCHANGED <<htFile, htConn>>
               ELSE IF htRes.range /\ htConn.end + 1 - htConn.begin - htConn.got <= 0
               THEN /\ htConn' = [htConn EXCEPT !.state = "completed"] /\ htReq' = NoReq
                    /\ UNCHANGED htFile
               ELSE /\ htReq' = [htReq EXCEPT !.read = @ + 1]
                    /\ htFile' = [htFile EXCEPT ![htConn.begin + htConn.got] = htReq.version]
                    /\ htConn' = [htConn EXCEPT !.got = @ + 1, !.total = @ + 1]
    /\ UNCHANGED <<htServer, htState, htRes, htHeld, htDataPos, htStored, htFaults, htStops,
                   htSpoilt, htMismatch>>

EndOfBody ==
    LET sizes == htReq.restart /\ ~htServer.lengths IN
    /\ htReq.at = "body" /\ ~BodyLeft
    /\ IF sizes
       THEN /\ htRes' = [htRes EXCEPT !.size = htReq.read, !.known = TRUE, !.unknown = FALSE]
            /\ htFile' = Truncated(htFile, htReq.read)
       ELSE UNCHANGED <<htRes, htFile>>
    /\ IF htReq.expected >= 0 /\ htReq.read # htReq.expected
       THEN FailsWith(IF htReq.range THEN "network" ELSE "terminal", htRes, htConn)
       ELSE /\ htConn' = [htConn EXCEPT !.state = "completed"] /\ htReq' = NoReq
            /\ UNCHANGED htPre
    /\ UNCHANGED <<htServer, htState, htHeld, htDataPos, htStored, htFaults, htStops,
                   htSpoilt, htMismatch>>

BodyBreaks ==
    /\ htReq.at = "body" /\ htFaults < MaxHtFaults
    /\ htFaults' = htFaults + 1
    /\ FailsWith("network", htRes, htConn)
    /\ UNCHANGED <<htServer, htState, htRes, htHeld, htDataPos, htFile, htStored, htStops,
                   htSpoilt, htMismatch>>

\* runConnectionWithResolveResp: the body of Resolve, from the first byte; it
\* cannot be asked for again.
ReadHeld ==
    LET v == htReq.version IN
    /\ htReq.at = "held"
    /\ \/ /\ htConn.got < SizeOf(v)
          /\ htFile' = [htFile EXCEPT ![htConn.got] = v]
          /\ htConn' = [htConn EXCEPT !.got = @ + 1, !.total = @ + 1]
          /\ UNCHANGED <<htRes, htReq, htFaults>>
       \/ /\ htConn.got = SizeOf(v)
          /\ htConn' = [htConn EXCEPT !.state = "completed"] /\ htReq' = NoReq
          /\ htRes' = IF htRes.known THEN htRes
                      ELSE [htRes EXCEPT !.size = htConn.total, !.known = TRUE, !.unknown = FALSE]
          /\ UNCHANGED <<htFile, htFaults>>
       \/ /\ htFaults < MaxHtFaults
          /\ htFaults' = htFaults + 1
          /\ htConn' = [htConn EXCEPT !.state = "broken"] /\ htReq' = NoReq
          /\ UNCHANGED <<htRes, htFile>>
    /\ UNCHANGED <<htServer, htState, htPre, htHeld, htDataPos, htStored, htStops,
                   htSpoilt, htMismatch>>

\* onDownloadComplete. An integrity error always counts. Any other counts where
\* bytes are missing, but a 403 only while the size is unknown: it is taken for
\* the server's limit of connections, also where this one was the only one.
DownloadEnds ==
    LET missing == IF htRes.range
                   THEN htConn.end = OpenEnd \/ htConn.end + 1 - htConn.begin - htConn.got > 0
                   ELSE KnownSize(htRes) > 0 => htConn.total < htRes.size
        complete == KnownSize(htRes) > 0 /\ htConn.total >= htRes.size
        excused == htConn.state = "forbidden" /\ htRes.known
        failed == \/ htConn.state = "failed"
                  \/ /\ htConn.state \in {"broken", "refused", "forbidden"} /\ ~excused
                     /\ missing /\ ~complete
    IN
    /\ htState = "running" /\ htReq.at = "off"
    /\ UNCHANGED htFile
    /\ IF failed THEN htState' = "error" /\ UNCHANGED htMismatch ELSE Verified
    /\ UNCHANGED <<htServer, htRes, htPre, htHeld, htDataPos, htConn, htReq, htStored,
                   htFaults, htStops, htSpoilt>>

-----------------------------------------------------------------------------
(* Pause, the stored record, restart; the server *)

\* Everything is stopped first. What the prefetch has is moved to the target
\* before its file goes, and the first connection starts behind it.
HtPause ==
    LET keeps == htRes.range /\ htPre.file
        moves == keeps /\ Copied > 0
        written == htState # "resolved" IN      \* f.file is open after the first Start
    /\ htState \in {"resolved", "running", "error"} /\ htStops < MaxHtStops
    /\ htStops' = htStops + 1
    /\ htState' = "paused"
    /\ htReq' = NoReq /\ htHeld' = 0 /\ htPre' = PreStopped
    /\ htFile' = IF moves /\ written THEN FileWithPrefix ELSE htFile
    /\ htDataPos' = IF moves THEN Copied ELSE htDataPos
    /\ htConn' = IF moves /\ htConn.there /\ htConn.state # "completed"
                 THEN [FirstChunk(Copied) EXCEPT !.state = htConn.state] ELSE htConn
    /\ UNCHANGED <<htServer, htRes, htStored, htFaults, htSpoilt, htMismatch>>

\* FetcherManager.Store under connMu; a task is stored once it was resolved.
HtCheckpoint ==
    /\ htState # "idle" /\ htStops < MaxHtStops
    /\ htStops' = htStops + 1
    /\ htStored' = [there |-> TRUE, res |-> htRes, conn |->
                      [htConn EXCEPT !.state = IF @ = "completed" THEN @ ELSE "new"]]
    /\ UNCHANGED <<htServer, htState, htRes, htPre, htHeld, htDataPos, htConn, htReq, htFile, htFaults,
                   htSpoilt, htMismatch>>

HtCrash ==
    /\ htStored.there /\ htStops < MaxHtStops
    /\ htStops' = htStops + 1
    /\ htSpoilt' = (htSpoilt \/ \E p \in Positions : p < htStored.conn.begin + htStored.conn.got
                                                     /\ htFile[p] = 0)
    /\ htState' = "resolved"
    /\ htRes' = htStored.res /\ htConn' = htStored.conn
    /\ htPre' = NoPre /\ htHeld' = 0 /\ htDataPos' = 0 /\ htReq' = NoReq
    /\ htMismatch' = FALSE
    /\ UNCHANGED <<htServer, htFile, htStored, htFaults>>

ResourceChanges ==
    /\ htServer.version < Len(VersionSizes) /\ htState # "idle"
    /\ htServer' = [htServer EXCEPT !.version = @ + 1]
    /\ UNCHANGED <<htState, htRes, htPre, htHeld, htDataPos, htConn, htReq, htFile, htStored, htFaults,
                   htStops, htSpoilt, htMismatch>>

HtNext ==
    \/ HtResolve \/ Prefetch \/ HtStart \/ FullRedownload \/ Ask \/ RequestFails \/ Answer200 \/ Answer206
    \/ ReadBody \/ EndOfBody \/ BodyBreaks \/ ReadHeld \/ FallBackCompletes \/ FallBackFails
    \/ DownloadEnds \/ HtPause \/ HtCheckpoint \/ HtCrash \/ ResourceChanges

HtSpec == HtInit /\ [][HtNext]_htVars

-----------------------------------------------------------------------------
(* Properties *)

\* What a connection leaves of its chunk when it is refused with a 403
LeftBehind == {p \in 0..htRes.size - 1 : htConn.state = "forbidden" /\ p >= htConn.begin + htConn.got}

OneVersion == \E v \in Versions : \A p \in 0..SizeOf(v) - 1 : htFile[p] = v

\* A download that a connection ended has no hole but the rest of a chunk whose
\* connection was refused with a 403, which the code excuses: the prefix of Resolve
\* reaches the target where the Range response takes over, where it is ignored,
\* and where a pause comes before it. And where nothing was left behind, and the
\* download ended sequentially or its Range requests kept to a validator, it is
\* one version of the resource from the first byte to the last: whenever the
\* resource changed, through broken bodies, unknown lengths, the fall back to
\* Resolve's response, pauses, and restarts from a record whose bytes are still
\* there.
DoneIsWhole ==
    htState = "done" /\ ~htSpoilt =>
        /\ htConn.there => \A p \in (0..htRes.size - 1) \ LeftBehind : htFile[p] # 0
        /\ LeftBehind = {} /\ (~htRes.range \/ htRes.pinned) => OneVersion

-----------------------------------------------------------------------------
(* Statements of the repository that the code does not keep *)

\* cleanupPrefetchFile forgets the byte count with the file that backs it, for
\* "retaining the count would make the next Start skip bytes that were never
\* copied": no connection skips bytes that were never written. What it had yet to
\* fetch when a 403 ended it was not skipped in this sense.
NoByteIsSkipped ==
    htState = "done" /\ htConn.there => \A p \in (0..htRes.size - 1) \ LeftBehind : htFile[p] # 0
=============================================================================
