-------------------------- MODULE HttpChunksProofs --------------------------
(* Theorems about HttpChunks, for any file, number of connections, buffer   *)
(* and smallest stolen chunk.                                               *)
EXTENDS HttpChunks, FiniteSetTheorems, WellFoundedInduction, TLAPS

-----------------------------------------------------------------------------
\* The inductive invariant

\* A connection that is not open owns nothing, and Remain is never negative.
ChunkOK(m, b, e, g) ==
  \A c \in Conns :
    /\ b[c] + g[c] <= e[c] + 1
    /\ c >= m => b[c] = 0 /\ e[c] = -1 /\ g[c] = 0

\* No two connections own a byte.
Disjoint(b, e, g) ==
  \A c, d \in Conns : c # d => \A x \in Bytes :
    ~ (b[c] + g[c] <= x /\ x <= e[c] /\ b[d] + g[d] <= x /\ x <= e[d])

\* Every byte is on disk or owned.
Owned(m, b, e, g, f) ==
  m > 0 => \A x \in Bytes : x \in f \/ \E c \in Conns : b[c] + g[c] <= x /\ x <= e[c]

\* A goroutine runs for open connections only; what it has read fits in its
\* chunk; what it has written is on disk; it seeks work only when it has none.
Running ==
  \A c \in Conns :
    /\ c >= n => run[c] = "off"
    /\ run[c] \in {"writing", "written"} => inflight[c] <= Remain(c)
    /\ run[c] = "written" => \A x \in Bytes : Pos(c) <= x /\ x < Pos(c) + inflight[c] => x \in file
    /\ run[c] = "finished" => Remain(c) = 0

Prefix == \A x \in Bytes : x < prefetched => x \in file

IInv ==
  /\ ChunkOK(n, begin, end, got)
  /\ Disjoint(begin, end, got)
  /\ Owned(n, begin, end, got, file)
  /\ Running
  /\ Prefix
  /\ ChunkOK(saved.n, saved.begin, saved.end, saved.got)
  /\ Disjoint(saved.begin, saved.end, saved.got)
  /\ Owned(saved.n, saved.begin, saved.end, saved.got, file)

-----------------------------------------------------------------------------
\* Type correctness

\* Half of a number, as the chunks are cut.
LEMMA Half ==
  ASSUME NEW r \in Nat
  PROVE  r \div 2 \in Nat /\ 2 * (r \div 2) <= r /\ r <= 2 * (r \div 2) + 1
OBVIOUS

\* Where a chunk with enough left is cut, by a new connection or by a thief.
LEMMA Cut ==
  ASSUME TypeOK, IInv, NEW v \in Conns, Remain(v) >= MinSteal
  PROVE  /\ SplitEnd(v) \in Int /\ StealEnd(v) \in Int
         /\ Pos(v) + Buf <= SplitEnd(v) + 1 /\ SplitEnd(v) <= end[v]
         /\ Pos(v) + Buf <= StealEnd(v) + 1 /\ StealEnd(v) < end[v]
<1>1. Remain(v) \in Nat /\ end[v] \in Int /\ Pos(v) \in Int /\ Remain(v) = end[v] + 1 - Pos(v)
  BY SizeAssumption DEF TypeOK, Remain, Pos
<1>2. /\ Remain(v) \div 2 \in Nat
      /\ 2 * (Remain(v) \div 2) <= Remain(v) /\ Remain(v) <= 2 * (Remain(v) \div 2) + 1
  BY <1>1, Half
<1> DEFINE h == Remain(v) \div 2
<1>3. h \in Nat /\ 2 * h <= Remain(v) /\ Remain(v) <= 2 * h + 1 BY <1>2
<1>4. SplitEnd(v) = end[v] - h /\ StealEnd(v) = end[v] - h - 1 BY DEF SplitEnd, StealEnd
<1> HIDE DEF h
<1>5. Remain(v) >= 2 * Buf + 1 /\ Buf \in Nat BY <1>1, SizeAssumption
<1> QED BY <1>1, <1>3, <1>4, <1>5

ConnsOK ==
  /\ state \in [Conns -> ConnState] /\ fault \in [Conns -> Fault] /\ tries \in [Conns -> Nat]
  /\ run \in [Conns -> RunState] /\ inflight \in [Conns -> 0 .. Buf]

ChunksOK ==
  /\ n \in 0 .. MaxConns
  /\ begin \in [Conns -> 0 .. Size] /\ end \in [Conns -> -1 .. Size - 1]
  /\ got \in [Conns -> Nat] /\ total \in [Conns -> Nat]
  /\ file \in SUBSET Bytes

LoopOK ==
  /\ prefetched \in 0 .. Size - 1
  /\ fstate \in {"resolved", "active", "paused", "done", "error"}
  /\ expanding \in BOOLEAN /\ canc \in BOOLEAN
  /\ stops \in Nat

SavedOK ==
  saved \in [n : 0 .. MaxConns, begin : [Conns -> 0 .. Size], end : [Conns -> -1 .. Size - 1],
             got : [Conns -> Nat], total : [Conns -> Nat], state : [Conns -> ConnState]]

\* The type invariant in four parts.
LEMMA TypeParts == TypeOK <=> ConnsOK /\ ChunksOK /\ LoopOK /\ SavedOK
BY DEF TypeOK, ConnsOK, ChunksOK, LoopOK, SavedOK

\* The four parts again make the type invariant of the next state.
LEMMA TypeJoin == ConnsOK' /\ ChunksOK' /\ LoopOK' /\ SavedOK' => TypeOK'
BY DEF TypeOK, ConnsOK, ChunksOK, LoopOK, SavedOK

\* Every step keeps the types of the connections.
LEMMA ConnsType ==
  ASSUME TypeOK, Next
  PROVE  ConnsOK'
<1> USE SizeAssumption DEF TypeOK, ConnsOK, connVars, Goto, At, AllConns, ConnState, Fault, RunState
<1>0. Conns \subseteq Int /\ (n \in 1 .. MaxConns - 1 => n \in Conns) /\ 0 \in Conns BY DEF Conns
<1>1. CASE OpenFirst          BY <1>0, <1>1 DEF OpenFirst
<1>2. CASE \E v \in Conns : Expand(v)  BY <1>0, <1>2 DEF Expand
<1>3. CASE StopExpanding      BY <1>3 DEF StopExpanding
<1>4. CASE \E c \in Conns : ConnNext(c)
  <2> PICK c \in Conns : ConnNext(c) BY <1>4
  <2>1. CASE NothingLeft(c)   BY <2>1 DEF NothingLeft
  <2>2. CASE Accepted(c)      BY <2>2 DEF Accepted
  <2>3. CASE Refused(c)       BY <2>3 DEF Refused, Give
  <2>4. CASE Unreachable(c)   BY <2>4 DEF Unreachable, Give
  <2>5. CASE Malformed(c)     BY <2>5 DEF Malformed, Give
  <2>6. CASE Read(c)          BY <2>6 DEF Read
  <2>7. CASE WriteAt(c)       BY <2>7 DEF WriteAt
  <2>8. CASE WriteFails(c)    BY <2>8 DEF WriteFails, Give
  <2>9. CASE Count(c)         BY <2>9 DEF Count
  <2>10. CASE ChunkDone(c)    BY <2>10 DEF ChunkDone
  <2>11. CASE \E v \in Conns : Help(c, v)  BY <2>11 DEF Help
  <2>12. CASE Complete(c)     BY <2>12 DEF Complete
  <2>13. CASE Cancelled(c)    BY <2>13 DEF Cancelled
  <2> QED BY <2>1, <2>2, <2>3, <2>4, <2>5, <2>6, <2>7, <2>8, <2>9, <2>10, <2>11, <2>12, <2>13
          DEF ConnNext
<1>5. CASE OnDownloadComplete BY <1>5 DEF OnDownloadComplete
<1>6. CASE Start              BY <1>6 DEF Start
<1>7. CASE Cancel             BY <1>7 DEF Cancel
<1>8. CASE PauseReturns       BY <1>8 DEF PauseReturns
<1>9. CASE Store              BY <1>9 DEF Store
<1>10. CASE Crash             BY <1>10 DEF Crash
<1>11. CASE PauseLate         BY <1>11 DEF PauseLate
<1> QED BY <1>1, <1>2, <1>3, <1>4, <1>5, <1>6, <1>7, <1>8, <1>9, <1>10, <1>11 DEF Next

\* The steps of a connection that leave chunks and file alone
Quiet(c) ==
  \/ NothingLeft(c) \/ Accepted(c) \/ Refused(c) \/ Unreachable(c) \/ Malformed(c)
  \/ Read(c) \/ WriteFails(c) \/ ChunkDone(c) \/ Complete(c) \/ Cancelled(c)

\* The steps that leave chunks, file and snapshot alone
Neutral ==
  \/ \E c \in Conns : Quiet(c)
  \/ StopExpanding \/ OnDownloadComplete \/ Start \/ Cancel

\* The steps, grouped by what they change.
LEMMA NextSplit ==
  ASSUME Next
  PROVE  \/ Neutral \/ OpenFirst \/ (\E v \in Conns : Expand(v))
         \/ (\E c \in Conns : WriteAt(c) \/ Count(c) \/ \E v \in Conns : Help(c, v))
         \/ PauseReturns \/ PauseLate \/ Store \/ Crash
BY DEF Next, ConnNext, Neutral, Quiet

\* A neutral step leaves chunks, file and snapshot as they are.
LEMMA NeutralSame ==
  ASSUME Neutral
  PROVE  UNCHANGED <<n, begin, end, got, total, file, saved, prefetched>>
<1> USE DEF chunkVars, loopVars
<1>1. CASE \E c \in Conns : Quiet(c)
  BY <1>1 DEF Quiet, NothingLeft, Accepted, Refused, Unreachable, Malformed, Read, WriteFails,
              ChunkDone, Complete, Cancelled
<1>2. CASE StopExpanding      BY <1>2 DEF StopExpanding
<1>3. CASE OnDownloadComplete BY <1>3 DEF OnDownloadComplete
<1>4. CASE Start              BY <1>4 DEF Start
<1>5. CASE Cancel             BY <1>5 DEF Cancel
<1> QED BY <1>1, <1>2, <1>3, <1>4, <1>5 DEF Neutral

\* What the steps with new chunks may assume of the chunks they cut
LEMMA ExpandCut ==
  ASSUME TypeOK, IInv, NEW v \in Conns, Expand(v)
  PROVE  /\ n \in Conns /\ n # v /\ v < n
         /\ SplitEnd(v) \in Int
         /\ Pos(v) + Buf <= SplitEnd(v) + 1 /\ SplitEnd(v) <= end[v]
<1>1. Remain(v) >= MinSteal /\ v < n
  BY SizeAssumption DEF Expand, Splittable, Open, TypeOK, Remain
<1>2. n \in Conns BY <1>1, SizeAssumption DEF Expand, Conns
<1>3. n # v BY <1>1 DEF Conns
<1> QED BY <1>1, <1>2, <1>3, Cut

\* The same for a thief: c has nothing left, v keeps more than is in flight.
LEMMA HelpCut ==
  ASSUME TypeOK, IInv, NEW c \in Conns, NEW v \in Conns, Help(c, v)
  PROVE  /\ c # v /\ v < n /\ c < n
         /\ StealEnd(v) \in Int
         /\ Pos(v) + Buf <= StealEnd(v) + 1 /\ StealEnd(v) < end[v]
         /\ Remain(c) = 0
<1>1. Remain(v) >= MinSteal /\ v < n /\ v # c /\ c < n
  BY DEF Help, Open, At
<1>2. Remain(c) = 0 BY DEF IInv, Running, Help, At
<1> QED BY <1>1, <1>2, Cut

\* Every step keeps the chunks within the file.
LEMMA ChunksType ==
  ASSUME TypeOK, IInv, Next
  PROVE  ChunksOK'
<1>0. /\ Conns \subseteq Int /\ 0 \in Conns
      /\ ChunksOK /\ LoopOK
      /\ inflight \in [Conns -> 0 .. Buf]
  BY TypeParts, SizeAssumption DEF Conns, ConnsOK
<1> USE SizeAssumption DEF ChunksOK, chunkVars, loopVars, connVars, Bytes
<1>1. CASE Neutral            BY <1>0, <1>1, NeutralSame
<1>2. CASE OpenFirst          BY <1>0, <1>2 DEF OpenFirst, LoopOK
<1>3. CASE \E v \in Conns : Expand(v)
  <2> PICK v \in Conns : Expand(v) BY <1>3
  <2>1. SplitEnd(v) \in 0 .. Size - 1
    BY <1>0, ExpandCut DEF Pos
  <2>2. n \in Conns BY ExpandCut
  <2>3. begin' \in [Conns -> 0 .. Size] BY <1>0, <2>1, <2>2 DEF Expand
  <2>4. end' \in [Conns -> -1 .. Size - 1] BY <1>0, <2>1, <2>2 DEF Expand
  <2> QED BY <1>0, <2>3, <2>4 DEF Expand
<1>4. CASE \E c \in Conns : WriteAt(c)
  <2> PICK c \in Conns : WriteAt(c) BY <1>4
  <2>1. inflight[c] <= Remain(c) BY DEF WriteAt, At, IInv, Running
  <2>2. Pos(c) .. Pos(c) + inflight[c] - 1 \subseteq Bytes
    BY <1>0, <2>1 DEF Pos, Remain
  <2> QED BY <1>0, <2>2 DEF WriteAt
<1>5. CASE \E c \in Conns : Count(c)  BY <1>0, <1>5 DEF Count
<1>6. CASE \E c, v \in Conns : Help(c, v)
  <2> PICK c \in Conns, v \in Conns : Help(c, v) BY <1>6
  <2>1. StealEnd(v) \in -1 .. Size - 2
    BY <1>0, HelpCut DEF Pos
  <2> QED BY <1>0, <2>1, HelpCut DEF Help
<1>7. CASE PauseReturns       BY <1>0, <1>7 DEF PauseReturns
<1>8. CASE Store              BY <1>0, <1>8 DEF Store
<1>9. CASE Crash              BY <1>0, <1>9, TypeParts DEF Crash, SavedOK
<1>10. CASE PauseLate         BY <1>0, <1>10 DEF PauseLate
<1> QED BY <1>1, <1>2, <1>3, <1>4, <1>5, <1>6, <1>7, <1>8, <1>9, <1>10, NextSplit

\* Every step keeps the types of the download loop.
LEMMA LoopType ==
  ASSUME TypeOK, Next
  PROVE  LoopOK'
<1>0. LoopOK /\ 0 \in 0 .. Size - 1 BY TypeParts, SizeAssumption
<1> USE <1>0 DEF LoopOK, loopVars
<1>1. CASE PauseLate          BY <1>1 DEF PauseLate
<1>2. CASE StopExpanding      BY <1>2 DEF StopExpanding
<1>3. CASE OnDownloadComplete BY <1>3 DEF OnDownloadComplete
<1>4. CASE Start              BY <1>4 DEF Start
<1>5. CASE Cancel             BY <1>5 DEF Cancel
<1>6. CASE PauseReturns       BY <1>6 DEF PauseReturns
<1>7. CASE Store              BY <1>7 DEF Store
<1>8. CASE Crash
  <2>1. prefetched' = 0 /\ fstate' = "resolved" /\ stops' = stops + 1 /\ ~expanding' /\ ~canc'
    BY <1>8 DEF Crash
  <2>2. expanding' \in BOOLEAN /\ canc' \in BOOLEAN BY <1>8 DEF Crash
  <2> QED BY <2>1, <2>2
<1>9. CASE \E v \in Conns : Expand(v)  BY <1>9 DEF Expand
<1>10. CASE \E c \in Conns : ConnNext(c)
  BY <1>10 DEF ConnNext, NothingLeft, Accepted, Refused, Unreachable, Malformed, Read, WriteAt,
               WriteFails, Count, ChunkDone, Help, Complete, Cancelled
<1>11. CASE OpenFirst         BY <1>11 DEF OpenFirst
<1> QED BY <1>1, <1>2, <1>3, <1>4, <1>5, <1>6, <1>7, <1>8, <1>9, <1>10, <1>11 DEF Next

\* Only a checkpoint and a pause change the snapshot.
LEMMA SavedUnchanged ==
  ASSUME Next, ~Store, ~PauseReturns, ~PauseLate
  PROVE  saved' = saved
<1>1. CASE OpenFirst          BY <1>1 DEF OpenFirst
<1>2. CASE \E v \in Conns : Expand(v)  BY <1>2 DEF Expand
<1>3. CASE \E c \in Conns : WriteAt(c) \/ Count(c) \/ \E v \in Conns : Help(c, v)
  BY <1>3 DEF WriteAt, Count, Help
<1>4. CASE Crash              BY <1>4 DEF Crash
<1> QED BY <1>1, <1>2, <1>3, <1>4, NextSplit, NeutralSame

\* Every step keeps the type of the snapshot.
LEMMA SavedType ==
  ASSUME TypeOK, Next
  PROVE  SavedOK'
<1>1. CASE Store \/ PauseReturns \/ PauseLate
  BY <1>1, TypeParts DEF Store, PauseReturns, PauseLate, Snapshot, SavedOK, ChunksOK, ConnsOK
<1>2. CASE ~Store /\ ~PauseReturns /\ ~PauseLate  BY <1>2, SavedUnchanged, TypeParts DEF SavedOK
<1> QED BY <1>1, <1>2

-----------------------------------------------------------------------------
\* The chunks cover the file and do not overlap

\* The invariant as the arithmetic below uses it
LEMMA ChunkNumbers ==
  ASSUME TypeOK, IInv, NEW c \in Conns
  PROVE  /\ c \in Int /\ begin[c] \in Int /\ end[c] \in Int /\ got[c] \in Int /\ inflight[c] \in Int
         /\ inflight[c] >= 0 /\ inflight[c] <= Buf /\ got[c] >= 0
         /\ begin[c] + got[c] <= end[c] + 1
         /\ end[c] <= Size - 1
<1>1. c \in Int /\ Size \in Int /\ Buf \in Int BY SizeAssumption DEF Conns
<1>2. begin[c] \in 0 .. Size /\ end[c] \in -1 .. Size - 1 /\ got[c] \in Nat /\ inflight[c] \in 0 .. Buf
  BY DEF TypeOK
<1>3. begin[c] + got[c] <= end[c] + 1 BY DEF IInv, ChunkOK
<1> QED BY <1>1, <1>2, <1>3

\* Connection w, which has nothing left, gets the bytes of v behind s.
LEMMA CutChunk ==
  ASSUME TypeOK, IInv, NEW v \in Conns, NEW w \in Conns, w # v, NEW s \in Int,
         Pos(v) <= s + 1, s <= end[v], Pos(w) = end[w] + 1, v < n,
         n' \in Int, n <= n', w < n', file' = file,
         begin' = [begin EXCEPT ![w] = s + 1],
         end' = [end EXCEPT ![w] = end[v], ![v] = s],
         got' = [got EXCEPT ![w] = 0]
  PROVE  /\ ChunkOK(n, begin, end, got)'
         /\ Disjoint(begin, end, got)'
         /\ Owned(n, begin, end, got, file)'
<1>0. n \in Int /\ Bytes \subseteq Int BY DEF TypeOK, Bytes
<1>1. /\ begin'[w] = s + 1 /\ end'[w] = end[v] /\ got'[w] = 0
      /\ begin'[v] = begin[v] /\ end'[v] = s /\ got'[v] = got[v]
      /\ \A c \in Conns \ {w, v} : begin'[c] = begin[c] /\ end'[c] = end[c] /\ got'[c] = got[c]
  BY DEF TypeOK
<1>2. begin[v] + got[v] <= s + 1 /\ begin[w] + got[w] = end[w] + 1 BY DEF Pos
<1>3. ChunkOK(n, begin, end, got)'
  <2> SUFFICES ASSUME NEW c \in Conns
               PROVE  /\ begin'[c] + got'[c] <= end'[c] + 1
                      /\ c >= n' => begin'[c] = 0 /\ end'[c] = -1 /\ got'[c] = 0
    BY DEF ChunkOK
  <2>1. CASE c = w  BY <2>1, <1>1, ChunkNumbers
  <2>2. CASE c = v  BY <2>2, <1>0, <1>1, <1>2, ChunkNumbers
  <2>3. CASE c \notin {v, w}
    <3>1. c >= n' => c >= n BY <1>0, ChunkNumbers
    <3>2. c >= n => begin[c] = 0 /\ end[c] = -1 /\ got[c] = 0 BY DEF IInv, ChunkOK
    <3> QED BY <2>3, <3>1, <3>2, <1>1, ChunkNumbers
  <2> QED BY <2>1, <2>2, <2>3
<1>4. Disjoint(begin, end, got)'
  <2> SUFFICES ASSUME NEW c \in Conns, NEW d \in Conns, c # d, NEW x \in Bytes,
                      begin'[c] + got'[c] <= x, x <= end'[c], begin'[d] + got'[d] <= x, x <= end'[d]
               PROVE  FALSE
    BY DEF Disjoint
  <2> DEFINE Has(u) == begin[u] + got[u] <= x /\ x <= end[u]
  <2>1. \A t, u \in Conns : t # u => ~ (Has(t) /\ Has(u)) BY DEF IInv, Disjoint
  <2>x. x \in Int BY <1>0
  <2>2. ASSUME NEW u \in Conns, begin'[u] + got'[u] <= x, x <= end'[u]
        PROVE  IF u = v \/ u = w THEN Has(v) ELSE Has(u)
    <3>1. CASE u = w BY <2>2, <3>1, <2>x, <1>1, <1>2, ChunkNumbers
    <3>2. CASE u = v BY <2>2, <3>2, <2>x, <1>1, <1>2, ChunkNumbers
    <3>3. CASE u \notin {v, w} BY <2>2, <3>3, <1>1
    <3> QED BY <3>1, <3>2, <3>3
  <2>3. ~ (begin'[v] + got'[v] <= x /\ x <= end'[v] /\ begin'[w] + got'[w] <= x /\ x <= end'[w])
    BY <2>x, <1>1
  <2>4. CASE {c, d} = {v, w} BY <2>3, <2>4
  <2>5. CASE {c, d} # {v, w} BY <2>5, <2>1, <2>2
  <2> QED BY <2>4, <2>5
<1>5. Owned(n, begin, end, got, file)'
  <2> SUFFICES ASSUME NEW x \in Bytes, x \notin file
               PROVE  \E c \in Conns : begin'[c] + got'[c] <= x /\ x <= end'[c]
    BY DEF Owned
  <2>1. n > 0 /\ x \in Int BY <1>0, ChunkNumbers DEF Conns
  <2>2. PICK c \in Conns : begin[c] + got[c] <= x /\ x <= end[c] BY <2>1 DEF IInv, Owned
  <2>3. c # w BY <2>2, <1>0, <1>2, ChunkNumbers
  <2>4. CASE c # v        BY <2>2, <2>3, <2>4, <1>1
  <2>5. CASE c = v /\ x <= s  BY <2>2, <2>5, <1>1
  <2>6. CASE c = v /\ x > s   BY <2>2, <2>6, <1>0, <1>1, ChunkNumbers
  <2>7. x <= s \/ x > s BY <2>1
  <2> QED BY <2>4, <2>5, <2>6, <2>7
<1> QED BY <1>3, <1>4, <1>5

\* Every step keeps the chunks disjoint, and each byte on disk or owned.
LEMMA ChunksStep ==
  ASSUME TypeOK, IInv, Next
  PROVE  /\ ChunkOK(n, begin, end, got)'
         /\ Disjoint(begin, end, got)'
         /\ Owned(n, begin, end, got, file)'
<1>0. /\ \A c \in Conns : c \in Int /\ begin[c] \in Int /\ end[c] \in Int /\ got[c] \in Int
      /\ Bytes \subseteq Int
      /\ n \in Int
  BY ChunkNumbers DEF Bytes, TypeOK
<1>t. /\ begin \in [Conns -> Int] /\ end \in [Conns -> Int] /\ got \in [Conns -> Int]
      /\ inflight \in [Conns -> Int]
  BY SizeAssumption DEF TypeOK
<1>i. /\ ChunkOK(n, begin, end, got) /\ Disjoint(begin, end, got) /\ Owned(n, begin, end, got, file)
      /\ Running /\ Prefix
  BY DEF IInv
<1>1. CASE Neutral            BY <1>1, <1>i, NeutralSame
<1>2. CASE OpenFirst
  <2>1. /\ 0 \in Conns /\ n = 0 /\ n' = 1
        /\ begin' = [begin EXCEPT ![0] = prefetched] /\ end' = [end EXCEPT ![0] = Size - 1]
        /\ got' = [got EXCEPT ![0] = 0] /\ file' = file
        /\ prefetched \in Int /\ prefetched <= Size - 1
    BY <1>2, SizeAssumption DEF OpenFirst, Conns, TypeOK
  <2>2. \A c \in Conns : begin[c] = 0 /\ end[c] = -1 /\ got[c] = 0
    BY <1>i, <2>1, <1>0 DEF ChunkOK, Conns
  <2>3. ChunkOK(n, begin, end, got)' BY <1>t, <2>1, <2>2, SizeAssumption DEF ChunkOK, Conns
  <2>4. Disjoint(begin, end, got)'   BY <1>t, <1>0, <2>1, <2>2 DEF Disjoint
  <2>5. Owned(n, begin, end, got, file)'
    BY <1>t, <1>i, <2>1, SizeAssumption DEF Owned, Prefix, Bytes
  <2> QED BY <2>3, <2>4, <2>5
<1>3. CASE \E v \in Conns : Expand(v)
  <2> PICK v \in Conns : Expand(v) BY <1>3
  <2>1. begin[n] = 0 /\ end[n] = -1 /\ got[n] = 0 BY <1>i, <1>0, ExpandCut DEF ChunkOK
  <2>2. Pos(v) <= SplitEnd(v) + 1 BY <1>0, ExpandCut, SizeAssumption DEF Pos
  <2>3. got' = [got EXCEPT ![n] = 0] BY <1>t, <2>1, ExpandCut DEF Expand
  <2>4. n' \in Int /\ n <= n' /\ n < n' BY <1>0 DEF Expand
  <2>5. /\ file' = file
        /\ begin' = [begin EXCEPT ![n] = SplitEnd(v) + 1]
        /\ end' = [end EXCEPT ![n] = end[v], ![v] = SplitEnd(v)]
    BY DEF Expand
  <2>6. Pos(n) = end[n] + 1 BY <2>1 DEF Pos
  <2>7. /\ n \in Conns /\ n # v /\ v < n
        /\ SplitEnd(v) \in Int /\ SplitEnd(v) <= end[v]
    BY ExpandCut
  <2> QED BY <2>2, <2>3, <2>4, <2>5, <2>6, <2>7, CutChunk
<1>4. CASE \E c \in Conns : WriteAt(c)
  <2> PICK c \in Conns : WriteAt(c) BY <1>4
  <2>1. UNCHANGED <<n, begin, end, got>> /\ file \subseteq file' BY DEF WriteAt, chunkVars
  <2> QED BY <1>i, <2>1 DEF Owned, Disjoint, ChunkOK
<1>5. CASE \E c \in Conns : Count(c)
  <2> PICK c \in Conns : Count(c) BY <1>5
  <2>1. /\ UNCHANGED <<n, begin, end, file>> /\ got' = [got EXCEPT ![c] = got[c] + inflight[c]]
        /\ run[c] = "written" /\ c < n
    BY DEF Count, At, Open
  <2>2. inflight[c] >= 0 /\ begin[c] + got[c] + inflight[c] <= end[c] + 1
    BY <1>i, <2>1, ChunkNumbers DEF Running, Remain
  <2>3. \A x \in Bytes : begin[c] + got[c] <= x /\ x < begin[c] + got[c] + inflight[c] => x \in file
    BY <1>i, <2>1 DEF Running, Pos
  <2>4. got'[c] = got[c] + inflight[c] /\ \A d \in Conns \ {c} : got'[d] = got[d]
    BY <1>t, <2>1
  <2>5. inflight[c] \in Int BY <1>t
  <2>6. ChunkOK(n, begin, end, got)' BY <1>i, <1>0, <2>1, <2>2, <2>4, <2>5 DEF ChunkOK
  <2>7. Disjoint(begin, end, got)'   BY <1>i, <1>0, <2>1, <2>2, <2>4, <2>5 DEF Disjoint
  <2>8. Owned(n, begin, end, got, file)'
    BY <1>i, <1>0, <2>1, <2>2, <2>3, <2>4, <2>5 DEF Owned
  <2> QED BY <2>6, <2>7, <2>8
<1>6. CASE \E c, v \in Conns : Help(c, v)
  <2> PICK c \in Conns, v \in Conns : Help(c, v) BY <1>6
  <2>1. Pos(v) <= StealEnd(v) + 1 BY <1>0, HelpCut, SizeAssumption DEF Pos
  <2>2. Pos(c) = end[c] + 1 BY <1>0, HelpCut DEF Remain, Pos
  <2>3. /\ n' = n /\ file' = file
        /\ begin' = [begin EXCEPT ![c] = StealEnd(v) + 1]
        /\ end' = [end EXCEPT ![c] = end[v], ![v] = StealEnd(v)]
        /\ got' = [got EXCEPT ![c] = 0]
    BY DEF Help
  <2>4. c # v /\ v < n /\ c < n /\ StealEnd(v) \in Int /\ StealEnd(v) < end[v] BY HelpCut
  <2>5. StealEnd(v) <= end[v] BY <1>0, <2>4
  <2>6. n' \in Int /\ n <= n' /\ c < n' BY <1>0, <2>3, <2>4
  <2> QED BY <2>1, <2>2, <2>3, <2>4, <2>5, <2>6, CutChunk
<1>7. CASE PauseReturns \/ PauseLate \/ Store
  BY <1>7, <1>i DEF PauseReturns, PauseLate, Store, chunkVars
<1>8. CASE Crash              BY <1>8 DEF Crash, IInv
<1> QED BY <1>1, <1>2, <1>3, <1>4, <1>5, <1>6, <1>7, <1>8, NextSplit

\* A step that moves one goroutine, and leaves what the others have read alone
LEMMA RunningMove ==
  ASSUME TypeOK, IInv, NEW c \in Conns, c < n,
         UNCHANGED <<n, begin, end, got>>, file \subseteq file',
         NEW p, run' = [run EXCEPT ![c] = p],
         NEW k, inflight' = [inflight EXCEPT ![c] = k],
         p \in {"writing", "written"} => k <= Remain(c),
         p = "written" => \A x \in Bytes : Pos(c) <= x /\ x < Pos(c) + k => x \in file',
         p = "finished" => Remain(c) = 0
  PROVE  Running'
<1>1. /\ run'[c] = p /\ inflight'[c] = k
      /\ \A d \in Conns \ {c} : run'[d] = run[d] /\ inflight'[d] = inflight[d]
      /\ \A d \in Conns : Pos(d)' = Pos(d) /\ Remain(d)' = Remain(d)
  BY DEF TypeOK, Pos, Remain
<1>2. c \in Int /\ n \in Int /\ ~ (c >= n) BY DEF Conns, TypeOK
<1> QED BY <1>1, <1>2 DEF IInv, Running

\* Connection w is sent to fetch what was cut from v: what v has read is left
\* to it, because the smallest chunk that is cut is longer than two buffers.
LEMMA RunningCut ==
  ASSUME TypeOK, IInv, NEW v \in Conns, NEW w \in Conns, w # v, NEW s \in Int,
         Pos(v) + Buf <= s + 1, s <= end[v], Remain(v) > 0,
         n' \in Int, n <= n', w < n', file' = file, inflight' = inflight,
         begin' = [begin EXCEPT ![w] = s + 1],
         end' = [end EXCEPT ![w] = end[v], ![v] = s],
         got' = [got EXCEPT ![w] = 0],
         run' = [run EXCEPT ![w] = "request"]
  PROVE  Running'
<1> SUFFICES ASSUME NEW c \in Conns
             PROVE  /\ c >= n' => run'[c] = "off"
                    /\ run'[c] \in {"writing", "written"} => inflight[c] <= Remain(c)'
                    /\ run'[c] = "written" =>
                         \A x \in Bytes : Pos(c)' <= x /\ x < Pos(c)' + inflight[c] => x \in file
                    /\ run'[c] = "finished" => Remain(c)' = 0
  BY DEF Running, Pos, Remain
<1>0. n \in Int /\ Running /\ Buf \in Int BY SizeAssumption DEF TypeOK, IInv
<1>1. CASE c = w
  <2>1. run'[w] = "request" BY DEF TypeOK
  <2> QED BY <1>1, <2>1, <1>0, ChunkNumbers
<1>2. CASE c = v
  <2>1. run'[v] = run[v] /\ begin'[v] = begin[v] /\ end'[v] = s /\ got'[v] = got[v] BY DEF TypeOK
  <2>2. Pos(v)' = Pos(v) /\ Remain(v)' = s + 1 - Pos(v) /\ Pos(v) \in Int
    BY <2>1, ChunkNumbers DEF Pos, Remain
  <2>3. inflight[v] <= Remain(v)' BY <2>2, <1>0, ChunkNumbers
  <2>4. run[v] # "finished" BY <1>0 DEF Running
  <2>5. v >= n' => v >= n BY <1>0, ChunkNumbers
  <2> QED BY <1>2, <2>1, <2>2, <2>3, <2>4, <2>5, <1>0 DEF Running
<1>3. CASE c \notin {v, w}
  <2>1. /\ run'[c] = run[c] /\ Pos(c)' = Pos(c) /\ Remain(c)' = Remain(c)
    BY <1>3 DEF TypeOK, Pos, Remain
  <2>2. c >= n' => c >= n BY <1>0, ChunkNumbers
  <2> QED BY <2>1, <2>2, <1>0 DEF Running
<1> QED BY <1>1, <1>2, <1>3

\* Every step keeps what is known of the goroutines of the connections.
LEMMA RunningStep ==
  ASSUME TypeOK, IInv, Next
  PROVE  Running'
<1>t. /\ run \in [Conns -> RunState] /\ inflight \in [Conns -> 0 .. Buf] /\ n \in Int
      /\ \A c \in Conns : c \in Int
  BY DEF TypeOK, Conns
<1>r. Running BY DEF IInv
<1>u. \A c \in Conns : inflight = [inflight EXCEPT ![c] = inflight[c]] BY <1>t
<1>1. CASE \E c \in Conns : Quiet(c) \/ WriteAt(c)
  <2> PICK c \in Conns : Quiet(c) \/ WriteAt(c) BY <1>1
  <2>0. c < n BY DEF Quiet, WriteAt, At, Open, NothingLeft, Accepted, Refused, Unreachable,
                     Malformed, Responding, Read, WriteFails, ChunkDone, Complete, Cancelled
  <2> USE <2>0 DEF Goto, chunkVars, connVars
  <2>1. CASE \E p \in {"off", "request", "reading"} :
               /\ run' = [run EXCEPT ![c] = p]
               /\ UNCHANGED <<chunkVars, file>>
               /\ \E k : inflight' = [inflight EXCEPT ![c] = k]
    BY <2>1, RunningMove
  <2>2. CASE NothingLeft(c) \/ ChunkDone(c)
    <3>1. Remain(c) = 0
      BY <2>2, ChunkNumbers DEF NothingLeft, ChunkDone, Remain
    <3> QED BY <2>2, <3>1, <1>u, RunningMove DEF NothingLeft, ChunkDone
  <2>3. CASE Read(c)
    <3>1. PICK k \in 1 .. Buf : k <= Remain(c) /\ inflight' = [inflight EXCEPT ![c] = k]
      BY <2>3 DEF Read
    <3>2. run' = [run EXCEPT ![c] = "writing"] /\ UNCHANGED <<n, begin, end, got, file>>
      BY <2>3 DEF Read
    <3>3. run'[c] = "writing" /\ inflight'[c] = k BY <3>1, <3>2, <1>t
    <3>4. \A d \in Conns \ {c} : run'[d] = run[d] /\ inflight'[d] = inflight[d] BY <3>1, <3>2, <1>t
    <3>5. \A d \in Conns : Pos(d)' = Pos(d) /\ Remain(d)' = Remain(d) BY <3>2 DEF Pos, Remain
    <3>6. ~ (c >= n) BY <1>t, <2>0
    <3> QED BY <1>r, <3>1, <3>2, <3>3, <3>4, <3>5, <3>6 DEF Running
  <2>4. CASE WriteAt(c)
    <3>1. inflight[c] <= Remain(c) BY <2>4, <1>r DEF WriteAt, At, Running
    <3>2. \A x \in Bytes : Pos(c) <= x /\ x < Pos(c) + inflight[c] => x \in file'
      BY <2>4, ChunkNumbers DEF WriteAt, Pos, Bytes
    <3>3. /\ UNCHANGED <<n, begin, end, got, inflight>> /\ file \subseteq file'
          /\ run' = [run EXCEPT ![c] = "written"]
      BY <2>4 DEF WriteAt
    <3>4. run'[c] = "written" /\ \A d \in Conns \ {c} : run'[d] = run[d] BY <3>3, <1>t
    <3>5. \A d \in Conns : Pos(d)' = Pos(d) /\ Remain(d)' = Remain(d) BY <3>3 DEF Pos, Remain
    <3>6. ~ (c >= n) BY <1>t, <2>0
    <3> QED BY <1>r, <3>1, <3>2, <3>3, <3>4, <3>5, <3>6 DEF Running
  <2>5. CASE Accepted(c) \/ Refused(c) \/ Unreachable(c) \/ Malformed(c) \/ WriteFails(c)
             \/ Complete(c) \/ Cancelled(c)
    BY <2>5, <2>1, <1>u DEF Accepted, Refused, Unreachable, Malformed, WriteFails, Complete, Cancelled, Give
  <2> QED BY <2>2, <2>3, <2>4, <2>5 DEF Quiet
<1>2. CASE StopExpanding \/ OnDownloadComplete \/ Cancel \/ PauseReturns \/ PauseLate \/ Store
  BY <1>2, <1>r DEF StopExpanding, OnDownloadComplete, Cancel, PauseReturns, PauseLate, Store, chunkVars, connVars,
                    Running, Pos, Remain
<1>3. CASE Start
  <2>1. \A c \in Conns : run'[c] \in {"off", "request"} /\ (c >= n => run'[c] = "off") /\ n' = n
    BY <1>3, <1>t DEF Start, Open, chunkVars
  <2> QED BY <2>1 DEF Running
<1>4. CASE OpenFirst
  <2>1. \A c \in Conns : run[c] = "off" BY <1>4, <1>r, <1>t DEF OpenFirst, Running, Conns
  <2>2. \A c \in Conns : run'[c] \in {"off", "request"} /\ (c # 0 => run'[c] = "off") /\ n' = 1
    BY <1>4, <1>t, <2>1 DEF OpenFirst, Goto
  <2> QED BY <2>2, <1>t DEF Running
<1>5. CASE \E v \in Conns : Expand(v)
  <2> PICK v \in Conns : Expand(v) BY <1>5
  <2>0. /\ begin[n] = 0 /\ end[n] = -1 /\ got[n] = 0
        /\ n \in Conns /\ n # v /\ v < n
        /\ SplitEnd(v) \in Int /\ Pos(v) + Buf <= SplitEnd(v) + 1 /\ SplitEnd(v) <= end[v]
    BY <1>t, ExpandCut DEF IInv, ChunkOK
  <2>1. got' = [got EXCEPT ![n] = 0] BY <2>0 DEF Expand, TypeOK
  <2>2. n' \in Int /\ n <= n' /\ n < n' BY <1>t DEF Expand
  <2>3. Remain(v) > 0 BY ChunkNumbers, SizeAssumption DEF Expand, Splittable, Remain
  <2>4. /\ UNCHANGED <<inflight, file>>
        /\ run' = [run EXCEPT ![n] = "request"]
        /\ begin' = [begin EXCEPT ![n] = SplitEnd(v) + 1]
        /\ end' = [end EXCEPT ![n] = end[v], ![v] = SplitEnd(v)]
    BY DEF Expand, Goto
  <2> QED BY <2>0, <2>1, <2>2, <2>3, <2>4, RunningCut
<1>6. CASE \E c, v \in Conns : Help(c, v)
  <2> PICK c \in Conns, v \in Conns : Help(c, v) BY <1>6
  <2>0. /\ c # v /\ v < n /\ c < n
        /\ StealEnd(v) \in Int /\ Pos(v) + Buf <= StealEnd(v) + 1 /\ StealEnd(v) < end[v]
    BY HelpCut
  <2>1. StealEnd(v) <= end[v] BY <2>0, ChunkNumbers
  <2>2. n' \in Int /\ n <= n' /\ c < n' BY <1>t, <2>0 DEF Help
  <2>3. Remain(v) > 0 BY ChunkNumbers, SizeAssumption DEF Help, Remain
  <2>4. /\ UNCHANGED <<inflight, file>>
        /\ run' = [run EXCEPT ![c] = "request"]
        /\ begin' = [begin EXCEPT ![c] = StealEnd(v) + 1]
        /\ end' = [end EXCEPT ![c] = end[v], ![v] = StealEnd(v)]
        /\ got' = [got EXCEPT ![c] = 0]
    BY DEF Help, Goto
  <2> QED BY <2>0, <2>1, <2>2, <2>3, <2>4, RunningCut
<1>7. CASE \E c \in Conns : Count(c)
  <2> PICK c \in Conns : Count(c) BY <1>7
  <2>1. /\ c < n /\ UNCHANGED <<n, begin, end, file>>
        /\ run' = [run EXCEPT ![c] = "reading"]
        /\ got' = [got EXCEPT ![c] = got[c] + inflight[c]]
        /\ inflight' = [inflight EXCEPT ![c] = 0]
    BY DEF Count, At, Open, Goto
  <2>2. /\ run'[c] = "reading"
        /\ \A d \in Conns \ {c} : /\ run'[d] = run[d] /\ inflight'[d] = inflight[d]
                                  /\ Remain(d)' = Remain(d) /\ Pos(d)' = Pos(d)
    BY <2>1 DEF TypeOK, Remain, Pos
  <2>3. ~ (c >= n) BY <1>t, <2>1
  <2> QED BY <1>r, <2>1, <2>2, <2>3 DEF Running
<1>8. CASE Crash
  <2>1. \A c \in Conns : run'[c] = "off" BY <1>8 DEF Crash, AllConns
  <2> QED BY <2>1 DEF Running
<1>9. CASE \E c \in Conns : ConnNext(c)
  BY <1>9, <1>1, <1>6, <1>7 DEF ConnNext, Quiet
<1> QED BY <1>2, <1>3, <1>4, <1>5, <1>8, <1>9 DEF Next

\* Nothing that is on disk is lost.
LEMMA FileGrows ==
  ASSUME Next
  PROVE  file \subseteq file'
<1>1. CASE OpenFirst          BY <1>1 DEF OpenFirst
<1>2. CASE \E v \in Conns : Expand(v)  BY <1>2 DEF Expand
<1>3. CASE \E c \in Conns : WriteAt(c) \/ Count(c) \/ \E v \in Conns : Help(c, v)
  BY <1>3 DEF WriteAt, Count, Help
<1>4. CASE PauseReturns \/ PauseLate \/ Store \/ Crash
  BY <1>4 DEF PauseReturns, PauseLate, Store, Crash
<1> QED BY <1>1, <1>2, <1>3, <1>4, NextSplit, NeutralSame

\* Every step keeps the prefetched bytes on disk.
LEMMA PrefixStep ==
  ASSUME TypeOK, IInv, Next
  PROVE  Prefix'
<1>1. Prefix /\ file \subseteq file' BY FileGrows DEF IInv
<1>2. prefetched' = prefetched \/ Crash
  <2>1. CASE OpenFirst          BY <2>1 DEF OpenFirst, loopVars
  <2>2. CASE \E v \in Conns : Expand(v)  BY <2>2 DEF Expand, loopVars
  <2>3. CASE \E c \in Conns : WriteAt(c) \/ Count(c) \/ \E v \in Conns : Help(c, v)
    BY <2>3 DEF WriteAt, Count, Help, loopVars
  <2>4. CASE PauseReturns \/ PauseLate \/ Store  BY <2>4 DEF PauseReturns, PauseLate, Store, loopVars
  <2> QED BY <2>1, <2>2, <2>3, <2>4, NextSplit, NeutralSame
<1>3. CASE prefetched' = prefetched  BY <1>1, <1>3 DEF Prefix
<1>4. CASE Crash
  <2>1. prefetched' = 0 BY <1>4 DEF Crash
  <2>2. \A x \in Bytes : ~ (x < 0) BY DEF Bytes
  <2> QED BY <2>1, <2>2 DEF Prefix
<1> QED BY <1>2, <1>3, <1>4

\* Every step keeps the snapshot disjoint and complete.
LEMMA SavedStep ==
  ASSUME TypeOK, IInv, Next
  PROVE  /\ ChunkOK(saved.n, saved.begin, saved.end, saved.got)'
         /\ Disjoint(saved.begin, saved.end, saved.got)'
         /\ Owned(saved.n, saved.begin, saved.end, saved.got, file)'
<1>1. CASE Store \/ PauseReturns \/ PauseLate
  <2>1. /\ saved'.n = n /\ saved'.begin = begin /\ saved'.end = end /\ saved'.got = got
        /\ file' = file
    BY <1>1 DEF Store, PauseReturns, PauseLate, Snapshot
  <2> QED BY <2>1 DEF IInv
<1>2. CASE ~Store /\ ~PauseReturns /\ ~PauseLate
  <2>1. saved' = saved /\ file \subseteq file' BY <1>2, SavedUnchanged, FileGrows
  <2>2. Owned(saved.n, saved.begin, saved.end, saved.got, file)' BY <2>1 DEF IInv, Owned
  <2> QED BY <2>1, <2>2 DEF IInv
<1> QED BY <1>1, <1>2

-----------------------------------------------------------------------------
\* The theorems

\* The initial states satisfy the invariant.
LEMMA Initial ==
  ASSUME Init
  PROVE  TypeOK /\ IInv
<1> USE SizeAssumption
<1>1. ConnsOK  BY DEF Init, ConnsOK, AllConns, ConnState, Fault, RunState
<1>2. ChunksOK
  <2>1. begin = [c \in Conns |-> 0] /\ end = [c \in Conns |-> -1] BY DEF Init, AllConns
  <2>2. 0 \in 0 .. Size /\ -1 \in -1 .. Size - 1 OBVIOUS
  <2>3. file \subseteq Bytes BY DEF Init, Bytes
  <2> QED BY <2>1, <2>2, <2>3 DEF Init, ChunksOK, AllConns
<1>3. LoopOK   BY DEF Init, LoopOK
<1>4. SavedOK  BY <1>1, <1>2 DEF Init, SavedOK, Snapshot, ConnsOK, ChunksOK
<1>5. /\ n = 0 /\ saved.n = 0
      /\ \A c \in Conns : begin[c] = 0 /\ end[c] = -1 /\ got[c] = 0 /\ run[c] = "off"
      /\ saved.begin = begin /\ saved.end = end /\ saved.got = got
  BY DEF Init, AllConns, Snapshot
<1>6. ChunkOK(n, begin, end, got) BY <1>5 DEF ChunkOK
<1>7. Disjoint(begin, end, got)
  <2>1. \A x \in Bytes : ~ (x <= -1) BY DEF Bytes
  <2> QED BY <1>5, <2>1 DEF Disjoint
<1>8. Owned(n, begin, end, got, file) BY <1>5 DEF Owned
<1>9. Running BY <1>5 DEF Running
<1>10. Prefix BY DEF Init, Prefix, Bytes
<1> QED BY <1>1, <1>2, <1>3, <1>4, <1>5, <1>6, <1>7, <1>8, <1>9, <1>10, TypeParts DEF IInv

\* So does a step that changes nothing.
LEMMA Stutter ==
  ASSUME TypeOK, IInv, UNCHANGED vars
  PROVE  TypeOK' /\ IInv'
<1> USE DEF vars, chunkVars, connVars, loopVars
<1>1. ConnsOK'  BY TypeParts DEF ConnsOK
<1>2. ChunksOK' BY TypeParts DEF ChunksOK
<1>3. LoopOK'   BY TypeParts DEF LoopOK
<1>4. SavedOK'  BY TypeParts DEF SavedOK
<1>5. Running' /\ Prefix' BY DEF IInv, Running, Prefix, Pos, Remain
<1>6. IInv' BY <1>5 DEF IInv
<1> QED BY <1>1, <1>2, <1>3, <1>4, <1>6, TypeJoin

\* The variables of the fetcher keep their types, no chunk leaves the file, and
\* the invariant of the chunks, of what is being written and of the snapshot
\* holds in every reachable state.
THEOREM Invariant == Spec => [](TypeOK /\ IInv)
<1>1. Init => TypeOK /\ IInv BY Initial
<1>2. TypeOK /\ IInv /\ [Next]_vars => (TypeOK /\ IInv)'
  <2> SUFFICES ASSUME TypeOK, IInv, [Next]_vars PROVE TypeOK' /\ IInv' OBVIOUS
  <2>1. CASE Next
    <3>1. TypeOK' BY <2>1, ConnsType, ChunksType, LoopType, SavedType, TypeJoin
    <3>2. IInv' BY <2>1, ChunksStep, RunningStep, PrefixStep, SavedStep DEF IInv
    <3> QED BY <3>1, <3>2
  <2>2. CASE UNCHANGED vars BY <2>2, Stutter
  <2> QED BY <2>1, <2>2
<1> QED BY <1>1, <1>2, PTL DEF Spec

\* A variable of the fetcher never leaves its type: no chunk begins or ends
\* outside the file, and no more than a buffer is in flight.
THEOREM TypeCorrect == Spec => []TypeOK
BY Invariant, PTL

\* Whatever is split, stolen, refused, paused or restarted, each byte of the
\* file is on disk or belongs to a connection.
THEOREM NothingForgotten == Spec => []Covered
<1>1. TypeOK /\ IInv => Covered
  <2> SUFFICES ASSUME TypeOK, IInv, n > 0, NEW b \in Bytes, b \notin file
               PROVE  \E c \in Open : b \in Left(c)
    BY DEF Covered
  <2>1. PICK c \in Conns : begin[c] + got[c] <= b /\ b <= end[c] BY DEF IInv, Owned
  <2>2. b \in Int /\ ~ (b <= -1) /\ n \in Int BY DEF Bytes, TypeOK
  <2>3. c < n
    <3>1. c >= n => end[c] = -1 BY DEF IInv, ChunkOK
    <3> QED BY <2>1, <2>2, <3>1, ChunkNumbers
  <2>4. c \in Open BY <2>3 DEF Open
  <2>5. b \in Left(c) BY <2>1, <2>2, ChunkNumbers DEF Left, Pos
  <2> QED BY <2>4, <2>5
<1> QED BY <1>1, Invariant, PTL

\* The chunks are disjoint, and none is cut back behind what its connection has
\* read: no byte is fetched for two connections.
THEOREM NothingTwice == Spec => []NeverTwice
<1>1. TypeOK /\ IInv => NeverTwice
  <2> SUFFICES ASSUME TypeOK, IInv, NEW c \in Open
               PROVE  /\ run[c] \in {"writing", "written"} => inflight[c] <= Remain(c)
                      /\ \A d \in Open \ {c} : Left(c) \cap Left(d) = {}
    BY DEF NeverTwice
  <2>0. c \in Conns /\ Open \subseteq Conns BY DEF Open
  <2>1. run[c] \in {"writing", "written"} => inflight[c] <= Remain(c) BY <2>0 DEF IInv, Running
  <2>2. ASSUME NEW d \in Open \ {c}, NEW x \in Left(c) \cap Left(d)
        PROVE  FALSE
    <3>1. d \in Conns /\ d # c BY <2>0, <2>2
    <3>2. x \in Int /\ begin[c] + got[c] <= x /\ x <= end[c] /\ begin[d] + got[d] <= x /\ x <= end[d]
      BY <2>0, <3>1, ChunkNumbers DEF Left, Pos
    <3>3. x \in Bytes
      <4>1. begin[c] \in Nat /\ got[c] \in Nat BY <2>0 DEF TypeOK
      <4>2. Size \in Int BY SizeAssumption
      <4> QED BY <2>0, <3>2, <4>1, <4>2, ChunkNumbers DEF Bytes
    <3> QED BY <2>0, <3>1, <3>2, <3>3 DEF IInv, Disjoint
  <2> QED BY <2>1, <2>2
<1> QED BY <1>1, Invariant, PTL

\* A restart loses nothing: each byte is on disk or in a chunk of the snapshot
\* that Restore would read.
THEOREM RestartLosesNothing == Spec => []SnapshotResumable
<1>1. TypeOK /\ IInv => SnapshotResumable
  <2> SUFFICES ASSUME TypeOK, IInv, saved.n > 0, NEW b \in Bytes, b \notin file
               PROVE  \E c \in Conns : c < saved.n /\ b \in saved.begin[c] + saved.got[c] .. saved.end[c]
    BY DEF SnapshotResumable
  <2>1. PICK c \in Conns : saved.begin[c] + saved.got[c] <= b /\ b <= saved.end[c] BY DEF IInv, Owned
  <2>2. /\ b \in Int /\ ~ (b <= -1) /\ c \in Int
    BY DEF Bytes, Conns
  <2>3. saved.n \in Int /\ saved.begin[c] \in Int /\ saved.got[c] \in Int /\ saved.end[c] \in Int
    BY SizeAssumption DEF TypeOK
  <2>4. c >= saved.n => saved.end[c] = -1 BY DEF IInv, ChunkOK
  <2>5. c < saved.n BY <2>1, <2>2, <2>3, <2>4
  <2>6. b \in saved.begin[c] + saved.got[c] .. saved.end[c] BY <2>1, <2>2, <2>3
  <2> QED BY <2>5, <2>6
<1> QED BY <1>1, Invariant, PTL

-----------------------------------------------------------------------------
\* Sums over sets of connections: TotalDownloaded folds an addition over the
\* open connections in an order that is not given, so that what it does is found
\* by induction over the size of the set.

\* What the connections of a set have, added up, as TotalDownloaded adds it.
SumOver(f, S) == MapThenSumSet(LAMBDA c : f[c], S)

\* Some element of a set.
Some(s) == CHOOSE x \in s : TRUE

\* One step of the summation: g says the sums of smaller sets.
Added(f, g, s) == IF s = {} THEN 0 ELSE f[Some(s)] + g[s \ {Some(s)}]

\* g says the sum of each subset of S.
SumsOf(f, g, S) == \A s \in SUBSET S : g[s] = Added(f, g, s)

\* The same as an equation of functions, which is how the fold defines its own.
Sums(f, g, S) == g = [s \in SUBSET S |-> Added(f, g, s)]

\* g says the sum of each subset of S with at most m elements.
SumsUpTo(f, g, S, m) ==
  /\ g = [s \in SUBSET S |-> g[s]]
  /\ \A s \in SUBSET S : Cardinality(s) <= m => g[s] = Added(f, g, s)

\* A set of numbers with a member has a least one.
LEMMA Least ==
  ASSUME NEW Q \in SUBSET Nat, Q # {}
  PROVE  \E m \in Q : \A k \in Q : m <= k
<1>1. IsWellFoundedOn(OpToRel(<, Nat), Nat)
  BY NatLessThanWellFounded
<1>2. PICK m \in Q : \A k \in Q : ~ (<<k, m>> \in OpToRel(<, Nat))
  BY <1>1, WFMin
<1>3. \A k \in Q : ~ (k < m)
  BY <1>2 DEF OpToRel
<1>4. \A k \in Q : k \in Nat /\ m \in Nat
  OBVIOUS
<1> QED
  BY <1>3, <1>4

\* Taking one element out of a finite set.
LEMMA OneLess ==
  ASSUME NEW S, IsFiniteSet(S), NEW s \in SUBSET S, s # {}
  PROVE  /\ Some(s) \in s /\ s \ {Some(s)} \in SUBSET S
         /\ Cardinality(s) \in Nat /\ Cardinality(s) # 0
         /\ Cardinality(s \ {Some(s)}) = Cardinality(s) - 1
<1>1. Some(s) \in s
  BY DEF Some
<1>2. IsFiniteSet(s)
  BY FS_Subset
<1>3. Cardinality(s) \in Nat /\ (Cardinality(s) = 0 <=> s = {})
  BY <1>2, FS_CardinalityType, FS_EmptySet
<1>4. Cardinality(s \ {Some(s)}) = Cardinality(s) - 1
  BY <1>1, <1>2, FS_RemoveElement
<1> QED
  BY <1>1, <1>3, <1>4

\* The sums of the subsets up to any size exist.
LEMMA SumsExistUpTo ==
  ASSUME NEW S, IsFiniteSet(S), NEW f, NEW limit \in Nat
  PROVE  \E g : SumsUpTo(f, g, S, limit)
<1> DEFINE Bad == {m \in Nat : ~ \E g : SumsUpTo(f, g, S, m)}
<1>1. SUFFICES ASSUME Bad # {} PROVE FALSE
  BY <1>1
<1>2. PICK m \in Bad : \A k \in Bad : m <= k
  <2>1. Bad \subseteq Nat
    OBVIOUS
  <2> HIDE DEF Bad
  <2> QED
    BY <1>1, <2>1, Least
<1>3. \A s \in SUBSET S : Cardinality(s) \in Nat /\ (Cardinality(s) = 0 <=> s = {})
  BY FS_Subset, FS_CardinalityType, FS_EmptySet
<1>4. CASE m = 0
  <2> DEFINE G == [s \in SUBSET S |-> 0]
  <2>1. \A s \in SUBSET S : Cardinality(s) <= 0 => s = {}
    BY <1>3
  <2>2. SumsUpTo(f, G, S, 0)
    BY <2>1 DEF SumsUpTo, Added
  <2> QED
    BY <2>2, <1>4, <1>2
<1>5. CASE m # 0
  <2>1. m \in Nat /\ m - 1 \in Nat /\ m - 1 < m
    BY <1>2, <1>5
  <2>2. m - 1 \notin Bad
    <3>1. \A k \in Bad : m <= k
      BY <1>2
    <3> HIDE DEF Bad
    <3> QED
      BY <3>1, <2>1
  <2>3. PICK F : SumsUpTo(f, F, S, m - 1)
    BY <2>1, <2>2
  <2> DEFINE G == [s \in SUBSET S |-> IF Cardinality(s) <= m - 1 THEN F[s] ELSE Added(f, F, s)]
  <2>4. G = [s \in SUBSET S |-> G[s]]
    OBVIOUS
  <2>5. \A s \in SUBSET S : Cardinality(s) <= m - 1 => G[s] = F[s]
    OBVIOUS
  <2>6. \A s \in SUBSET S : G[s] = Added(f, F, s)
    <3>1. \A s \in SUBSET S : Cardinality(s) <= m - 1 => F[s] = Added(f, F, s)
      BY <2>3 DEF SumsUpTo
    <3> QED
      BY <3>1
  <2> HIDE DEF G
  <2>7. ASSUME NEW s \in SUBSET S, Cardinality(s) <= m
        PROVE  G[s] = Added(f, G, s)
    <3>1. CASE s = {}
      BY <3>1, <2>6 DEF Added
    <3>2. CASE s # {}
      <4>1. s \ {Some(s)} \in SUBSET S /\ Cardinality(s \ {Some(s)}) <= m - 1
        BY <3>2, <2>1, <2>7, OneLess
      <4>2. G[s \ {Some(s)}] = F[s \ {Some(s)}]
        BY <4>1, <2>5
      <4> QED
        BY <4>2, <2>6, <3>2 DEF Added
    <3> QED
      BY <3>1, <3>2
  <2>8. SumsUpTo(f, G, S, m)
    BY <2>4, <2>7 DEF SumsUpTo
  <2> QED
    BY <2>8, <1>2
<1> QED
  BY <1>4, <1>5

\* The sum of a finite set is found through the sums of its subsets.
LEMMA SumUnrolls ==
  ASSUME NEW S, IsFiniteSet(S), NEW f
  PROVE  \E g : SumsOf(f, g, S) /\ SumOver(f, S) = g[S]
<1> DEFINE G == CHOOSE g : Sums(f, g, S)
<1>1. \E g : Sums(f, g, S)
  <2>1. Cardinality(S) \in Nat /\ \A s \in SUBSET S : Cardinality(s) <= Cardinality(S)
    BY FS_Subset, FS_CardinalityType
  <2>2. PICK g : SumsUpTo(f, g, S, Cardinality(S))
    BY <2>1, SumsExistUpTo
  <2>3. \A s \in SUBSET S : g[s] = Added(f, g, s)
    BY <2>1, <2>2 DEF SumsUpTo
  <2>4. g = [s \in SUBSET S |-> g[s]]
    BY <2>2 DEF SumsUpTo
  <2>5. Sums(f, g, S)
    BY <2>3, <2>4 DEF Sums
  <2> QED
    BY <2>5
<1>2. Sums(f, G, S)
  BY <1>1, Zenon
<1>3. SumOver(f, S) = G[S]
  BY DEF SumOver, MapThenSumSet, MapThenFoldSet, Sums, Added, Some
<1> HIDE DEF G
<1>4. \A s \in SUBSET S : G[s] = Added(f, G, s)
  BY <1>2 DEF Sums
<1> QED
  BY <1>3, <1>4 DEF SumsOf

\* Two sets of sums agree on the subsets they share.
LEMMA SumsAgree ==
  ASSUME NEW S, IsFiniteSet(S), NEW f, NEW T \in SUBSET S, NEW g, NEW h,
         SumsOf(f, g, S), SumsOf(f, h, T)
  PROVE  \A s \in SUBSET T : h[s] = g[s]
<1> DEFINE Bad == {m \in Nat : \E s \in SUBSET T : Cardinality(s) = m /\ h[s] # g[s]}
<1>1. Bad \subseteq Nat
  OBVIOUS
<1>2. ASSUME NEW s \in SUBSET T, h[s] # g[s]
      PROVE  Cardinality(s) \in Bad
  <2>1. Cardinality(s) \in Nat
    BY FS_Subset, FS_CardinalityType
  <2> QED
    BY <1>2, <2>1
<1>3. ASSUME Bad # {}
      PROVE  FALSE
  <2>1. PICK m \in Bad : \A k \in Bad : m <= k
    <3> HIDE DEF Bad
    <3> QED
      BY <1>1, <1>3, Least
  <2>2. PICK s \in SUBSET T : Cardinality(s) = m /\ h[s] # g[s]
    BY <2>1
  <2>3. s \in SUBSET S /\ m \in Nat
    BY <2>1
  <2>4. CASE s = {}
    BY <2>2, <2>3, <2>4 DEF Added, SumsOf
  <2>5. CASE s # {}
    <3> DEFINE r == s \ {Some(s)}
    <3>1. r \in SUBSET T /\ Cardinality(r) = m - 1
      BY <2>2, <2>3, <2>5, OneLess
    <3> HIDE DEF r
    <3>2. Cardinality(r) \notin Bad
      <4>1. ~ (m <= m - 1)
        BY <2>3
      <4> HIDE DEF Bad
      <4> QED
        BY <2>1, <3>1, <4>1
    <3>3. h[r] = g[r]
      BY <1>2, <3>1, <3>2
    <3> QED
      BY <2>2, <2>3, <2>5, <3>3 DEF Added, r, SumsOf
  <2> QED
    BY <2>4, <2>5
<1> HIDE DEF Bad
<1> QED
  BY <1>2, <1>3

\* The sum as a recursion over sets: nothing, or one element and the rest.
LEMMA SumSteps ==
  ASSUME NEW S, IsFiniteSet(S), NEW f
  PROVE  SumOver(f, S) = IF S = {} THEN 0 ELSE f[Some(S)] + SumOver(f, S \ {Some(S)})
<1>1. PICK g : SumsOf(f, g, S) /\ SumOver(f, S) = g[S]
  BY SumUnrolls
<1>2. SumOver(f, S) = Added(f, g, S)
  BY <1>1 DEF SumsOf
<1>3. CASE S = {}
  BY <1>2, <1>3 DEF Added
<1>4. CASE S # {}
  <2> DEFINE r == S \ {Some(S)}
  <2>1. r \in SUBSET S /\ IsFiniteSet(r)
    BY FS_Subset
  <2> HIDE DEF r
  <2>2. PICK h : SumsOf(f, h, r) /\ SumOver(f, r) = h[r]
    BY <2>1, SumUnrolls
  <2>3. \A s \in SUBSET r : h[s] = g[s]
    BY <1>1, <2>1, <2>2, SumsAgree
  <2>4. SumOver(f, r) = g[r]
    BY <2>2, <2>3
  <2> QED
    BY <1>2, <1>4, <2>4 DEF Added, r
<1> QED
  BY <1>3, <1>4

\* A sum stays in any set of numbers that contains its terms, and sums of its own.
LEMMA SumClosed ==
  ASSUME NEW S, IsFiniteSet(S), NEW f, NEW T, 0 \in T,
         \A x \in S : f[x] \in T, \A a, b \in T : a + b \in T
  PROVE  \A s \in SUBSET S : SumOver(f, s) \in T
<1> DEFINE Bad == {m \in Nat : \E s \in SUBSET S : Cardinality(s) = m /\ SumOver(f, s) \notin T}
<1>1. Bad \subseteq Nat
  OBVIOUS
<1>2. ASSUME NEW s \in SUBSET S, SumOver(f, s) \notin T
      PROVE  Cardinality(s) \in Bad
  <2>1. Cardinality(s) \in Nat
    BY FS_Subset, FS_CardinalityType
  <2> QED
    BY <1>2, <2>1
<1>3. ASSUME Bad # {}
      PROVE  FALSE
  <2>1. PICK m \in Bad : \A k \in Bad : m <= k
    <3> HIDE DEF Bad
    <3> QED
      BY <1>1, <1>3, Least
  <2>2. PICK s \in SUBSET S : Cardinality(s) = m /\ SumOver(f, s) \notin T
    BY <2>1
  <2>3. m \in Nat /\ IsFiniteSet(s)
    BY <2>1, FS_Subset
  <2>4. s # {}
    <3>1. s = {} => SumOver(f, s) = 0
      BY <2>3, SumSteps
    <3> QED
      BY <2>2, <3>1
  <2> DEFINE r == s \ {Some(s)}
  <2>5. r \in SUBSET S /\ Cardinality(r) = m - 1 /\ Some(s) \in S
    BY <2>2, <2>3, <2>4, OneLess
  <2>6. SumOver(f, s) = f[Some(s)] + SumOver(f, r)
    BY <2>3, <2>4, SumSteps
  <2> HIDE DEF r
  <2>7. Cardinality(r) \notin Bad
    <3>1. ~ (m <= m - 1)
      BY <2>3
    <3> HIDE DEF Bad
    <3> QED
      BY <2>1, <2>5, <3>1
  <2>8. SumOver(f, r) \in T
    BY <1>2, <2>5, <2>7
  <2>9. f[Some(s)] \in T
    BY <2>5
  <2> QED
    BY <2>2, <2>6, <2>8, <2>9
<1> HIDE DEF Bad
<1> QED
  BY <1>2, <1>3

\* A sum of integers is one.
LEMMA SumType ==
  ASSUME NEW S, IsFiniteSet(S), NEW f \in [S -> Int]
  PROVE  \A s \in SUBSET S : SumOver(f, s) \in Int
<1> DEFINE T == Int
<1>1. 0 \in T /\ (\A x \in S : f[x] \in T) /\ \A a, b \in T : a + b \in T
  OBVIOUS
<1> HIDE DEF T
<1>2. \A s \in SUBSET S : SumOver(f, s) \in T
  BY <1>1, SumClosed
<1> QED
  BY <1>2 DEF T

\* Zeros add up to zero.
LEMMA SumOfZeros ==
  ASSUME NEW S, IsFiniteSet(S), NEW f, \A x \in S : f[x] = 0
  PROVE  SumOver(f, S) = 0
<1> DEFINE T == {0}
<1>1. 0 \in T /\ (\A x \in S : f[x] \in T) /\ (\A a, b \in T : a + b \in T) /\ S \in SUBSET S
  OBVIOUS
<1> HIDE DEF T
<1>2. SumOver(f, S) \in T
  BY <1>1, SumClosed
<1> QED
  BY <1>2 DEF T

\* Any element may be taken first.
LEMMA SumTake ==
  ASSUME NEW S, IsFiniteSet(S), NEW f \in [S -> Int]
  PROVE  \A s \in SUBSET S : \A x \in s : SumOver(f, s) = f[x] + SumOver(f, s \ {x})
<1> DEFINE Off(s) == \E x \in s : SumOver(f, s) # f[x] + SumOver(f, s \ {x})
           Bad == {m \in Nat : \E s \in SUBSET S : Cardinality(s) = m /\ Off(s)}
<1>1. Bad \subseteq Nat
  OBVIOUS
<1>2. ASSUME NEW s \in SUBSET S, Off(s)
      PROVE  Cardinality(s) \in Bad
  <2>1. Cardinality(s) \in Nat
    BY FS_Subset, FS_CardinalityType
  <2> HIDE DEF Off
  <2> QED
    BY <1>2, <2>1
<1>3. ASSUME Bad # {}
      PROVE  FALSE
  <2>1. PICK m \in Bad : \A k \in Bad : m <= k
    <3> HIDE DEF Bad
    <3> QED
      BY <1>1, <1>3, Least
  <2>2. PICK s \in SUBSET S : Cardinality(s) = m /\ Off(s)
    BY <2>1
  <2>3. PICK x \in s : SumOver(f, s) # f[x] + SumOver(f, s \ {x})
    BY <2>2
  <2>4. m \in Nat /\ IsFiniteSet(s)
    BY <2>1, FS_Subset
  <2> DEFINE y == Some(s)
             r == s \ {y}
             q == s \ {x}
  <2>5. y \in s /\ r \in SUBSET S /\ Cardinality(r) = m - 1
    BY <2>2, <2>3, OneLess
  <2>6. SumOver(f, s) = f[y] + SumOver(f, r)
    BY <2>3, <2>4, SumSteps
  <2>7. q \in SUBSET S /\ Cardinality(q) = m - 1
    BY <2>2, <2>3, <2>4, FS_RemoveElement
  <2>8. x # y
    BY <2>3, <2>6
  <2>9. x \in r /\ y \in q /\ r \ {x} = q \ {y} /\ r \ {x} \in SUBSET S
    BY <2>3, <2>5, <2>8
  <2> HIDE DEF y, r, q
  <2>10. ASSUME NEW u \in SUBSET S, Cardinality(u) = m - 1
         PROVE  \A z \in u : SumOver(f, u) = f[z] + SumOver(f, u \ {z})
    <3>1. Cardinality(u) \notin Bad
      <4>1. ~ (m <= m - 1)
        BY <2>4
      <4> HIDE DEF Bad
      <4> QED
        BY <2>1, <2>10, <4>1
    <3> HIDE DEF Bad
    <3>2. ~ Off(u)
      BY <1>2, <3>1
    <3> QED
      BY <3>2
  <2>11. SumOver(f, r) = f[x] + SumOver(f, r \ {x})
    BY <2>5, <2>9, <2>10
  <2>12. SumOver(f, q) = f[y] + SumOver(f, q \ {y})
    BY <2>7, <2>9, <2>10
  <2>13. SumOver(f, r \ {x}) \in Int /\ f[x] \in Int /\ f[y] \in Int
    BY <2>3, <2>5, <2>9, SumType
  <2>14. SumOver(f, s) # f[x] + SumOver(f, q)
    BY <2>3 DEF q
  <2>15. SumOver(f, q \ {y}) = SumOver(f, r \ {x})
    BY <2>9
  <2> QED
    BY <2>6, <2>11, <2>12, <2>13, <2>14, <2>15
<1>4. \A s \in SUBSET S : ~ Off(s)
  <2> HIDE DEF Bad, Off
  <2> QED
    BY <1>2, <1>3
<1> QED
  BY <1>4

\* What is nowhere more, and nowhere negative beyond, does not add up to more.
LEMMA SumBelow ==
  ASSUME NEW S, IsFiniteSet(S), NEW f \in [S -> Int], NEW h \in [S -> Int], NEW D \in SUBSET S
  PROVE  \A s \in SUBSET S :
           (\A x \in s : IF x \in D THEN f[x] <= h[x] ELSE 0 <= h[x])
             => SumOver(f, s \cap D) <= SumOver(h, s)
<1> DEFINE Below(s) == \A x \in s : IF x \in D THEN f[x] <= h[x] ELSE 0 <= h[x]
           Off(s) == Below(s) /\ ~ (SumOver(f, s \cap D) <= SumOver(h, s))
           Bad == {m \in Nat : \E s \in SUBSET S : Cardinality(s) = m /\ Off(s)}
<1>1. Bad \subseteq Nat
  OBVIOUS
<1>2. ASSUME NEW s \in SUBSET S, Off(s)
      PROVE  Cardinality(s) \in Bad
  <2>1. Cardinality(s) \in Nat
    BY FS_Subset, FS_CardinalityType
  <2> HIDE DEF Off
  <2> QED
    BY <1>2, <2>1
<1>3. ASSUME Bad # {}
      PROVE  FALSE
  <2>1. PICK m \in Bad : \A k \in Bad : m <= k
    <3> HIDE DEF Bad
    <3> QED
      BY <1>1, <1>3, Least
  <2>2. PICK s \in SUBSET S : Cardinality(s) = m /\ Off(s)
    BY <2>1
  <2>3. m \in Nat /\ IsFiniteSet(s)
    BY <2>1, FS_Subset
  <2>4. s # {}
    <3>1. IsFiniteSet({}) /\ SumOver(f, {}) = 0 /\ SumOver(h, {}) = 0
      BY FS_EmptySet, SumSteps
    <3>2. {} \cap D = {}
      OBVIOUS
    <3>3. s = {} => SumOver(f, s \cap D) = 0 /\ SumOver(h, s) = 0
      BY <3>1, <3>2
    <3> QED
      BY <2>2, <3>3
  <2>5. PICK x \in s : TRUE
    BY <2>4
  <2> DEFINE r == s \ {x}
  <2>6. r \in SUBSET S /\ Cardinality(r) = m - 1
    BY <2>2, <2>3, FS_RemoveElement
  <2>7. SumOver(h, s) = h[x] + SumOver(h, r)
    BY SumTake
  <2>8. SumOver(h, r) \in Int /\ SumOver(f, r \cap D) \in Int /\ f[x] \in Int /\ h[x] \in Int
    <3>1. r \cap D \in SUBSET S
      OBVIOUS
    <3> HIDE DEF r
    <3> QED
      BY <2>6, <3>1, SumType
  <2>9. SumOver(f, r \cap D) <= SumOver(h, r)
    <3>1. Cardinality(r) \notin Bad
      <4>1. ~ (m <= m - 1)
        BY <2>3
      <4> HIDE DEF Bad, r
      <4> QED
        BY <2>1, <2>6, <4>1
    <3> HIDE DEF Bad, r
    <3>2. ~ Off(r)
      BY <1>2, <2>6, <3>1
    <3>3. Below(r)
      BY <2>2 DEF r
    <3> QED
      BY <3>2, <3>3
  <2>10. CASE x \in D
    <3>1. x \in s \cap D /\ s \cap D \in SUBSET S /\ (s \cap D) \ {x} = r \cap D
      BY <2>10
    <3>2. SumOver(f, s \cap D) = f[x] + SumOver(f, r \cap D)
      <4>1. SumOver(f, s \cap D) = f[x] + SumOver(f, (s \cap D) \ {x})
        BY <3>1, SumTake
      <4> QED
        BY <3>1, <4>1
    <3>3. f[x] <= h[x]
      BY <2>2, <2>10
    <3>4. ~ (SumOver(f, s \cap D) <= SumOver(h, s))
      BY <2>2
    <3> HIDE DEF r
    <3> QED
      BY <2>7, <2>8, <2>9, <3>2, <3>3, <3>4
  <2>11. CASE x \notin D
    <3>1. s \cap D = r \cap D
      BY <2>11
    <3>2. 0 <= h[x]
      BY <2>2, <2>11
    <3>3. ~ (SumOver(f, r \cap D) <= SumOver(h, s))
      BY <2>2, <3>1
    <3> HIDE DEF r
    <3> QED
      BY <2>7, <2>8, <2>9, <3>2, <3>3
  <2> QED
    BY <2>10, <2>11
<1>4. \A s \in SUBSET S : ~ Off(s)
  <2> HIDE DEF Bad, Off
  <2> QED
    BY <1>2, <1>3
<1> QED
  BY <1>4

\* f and h differ in what v and w exchange.
Exchanged(S, f, h, v, w) ==
  f[v] + f[w] = h[v] + h[w] /\ \A x \in S \ {v, w} : f[x] = h[x]

\* What two elements exchange leaves the sum alone.
LEMMA SumMoves ==
  ASSUME NEW S, IsFiniteSet(S), NEW f \in [S -> Int], NEW h \in [S -> Int],
         NEW v \in S, NEW w \in S, v # w, Exchanged(S, f, h, v, w)
  PROVE  SumOver(f, S) = SumOver(h, S)
<1> DEFINE r == (S \ {v}) \ {w}
<1>1. r \in SUBSET S /\ S \ {v} \in SUBSET S /\ w \in S \ {v} /\ r \cap S = r
  OBVIOUS
<1>2. \A x \in r : f[x] \in Int /\ h[x] \in Int /\ f[x] = h[x]
  BY DEF Exchanged
<1>3. SumOver(f, S) = f[v] + SumOver(f, S \ {v}) /\ SumOver(f, S \ {v}) = f[w] + SumOver(f, r)
  BY <1>1, SumTake
<1>4. SumOver(h, S) = h[v] + SumOver(h, S \ {v}) /\ SumOver(h, S \ {v}) = h[w] + SumOver(h, r)
  BY <1>1, SumTake
<1> HIDE DEF r
<1>5. SumOver(f, r) \in Int /\ SumOver(h, r) \in Int
  BY <1>1, SumType
<1>6. \A x \in r : IF x \in S THEN f[x] <= h[x] ELSE 0 <= h[x]
  BY <1>1, <1>2
<1>7. \A x \in r : IF x \in S THEN h[x] <= f[x] ELSE 0 <= f[x]
  BY <1>1, <1>2
<1>8. S \in SUBSET S
  OBVIOUS
<1>9. SumOver(f, r) <= SumOver(h, r)
  <2>1. SumOver(f, r \cap S) <= SumOver(h, r)
    BY <1>1, <1>6, <1>8, SumBelow
  <2> QED
    BY <1>1, <2>1
<1>10. SumOver(h, r) <= SumOver(f, r)
  <2>1. SumOver(h, r \cap S) <= SumOver(f, r)
    BY <1>1, <1>7, <1>8, SumBelow
  <2> QED
    BY <1>1, <2>1
<1>11. SumOver(f, r) = SumOver(h, r)
  <2> DEFINE a == SumOver(f, r)
             b == SumOver(h, r)
  <2>1. a \in Int /\ b \in Int /\ a <= b /\ b <= a
    BY <1>5, <1>9, <1>10
  <2>2. a = b
    <3> HIDE DEF a, b
    <3> QED
      BY <2>1
  <2> QED
    BY <2>2
<1>12. f[v] \in Int /\ f[w] \in Int /\ h[v] \in Int /\ h[w] \in Int
  OBVIOUS
<1> QED
  BY <1>3, <1>4, <1>5, <1>11, <1>12 DEF Exchanged

-----------------------------------------------------------------------------
\* The byte count, and how connections end

\* What each connection has counted, and what its chunk still misses.
Work(b, e, g, t) == [c \in Conns |-> t[c] + (e[c] + 1 - b[c] - g[c])]

\* Together these are the file: a cut only moves bytes from one connection to
\* another, and a byte that is counted is no longer missed.
Tallied(m, b, e, g, t) ==
  /\ \A c \in Conns : c >= m => t[c] = 0
  /\ m > 0 => SumOver(Work(b, e, g, t), Conns) = Size

\* A completed connection has nothing left, and one that was never opened has
\* no past.
Completed(m, b, e, g, s) ==
  \A c \in Conns :
    /\ c >= m => s[c] = "new"
    /\ s[c] = "completed" => b[c] + g[c] = e[c] + 1

\* A goroutine that ended, other than on a cancelled context, left its
\* connection complete or failed for a reason.
Ended ==
  \A c \in Conns :
    /\ state[c] = "completed" => run[c] = "off"
    /\ fstate = "active" /\ ~canc /\ c < n /\ run[c] = "off" =>
         state[c] = "completed" \/ (state[c] = "failed" /\ fault[c] # "none")

\* After the end nothing moves, and no more is missing than what was refused.
DoneRests == fstate = "done" => AllOff /\ ~expanding /\ DoneHasNoOtherGap

\* What holds of the byte count and of the connections that ended, in memory and
\* in the snapshot.
GapInv ==
  /\ Tallied(n, begin, end, got, total)
  /\ Tallied(saved.n, saved.begin, saved.end, saved.got, saved.total)
  /\ Completed(n, begin, end, got, state)
  /\ Completed(saved.n, saved.begin, saved.end, saved.got, saved.state)
  /\ Ended
  /\ DoneRests

-----------------------------------------------------------------------------
\* The tally

\* There are finitely many connections.
LEMMA ConnsFinite == IsFiniteSet(Conns) /\ 0 \in Conns
<1>1. 0 \in Int /\ MaxConns - 1 \in Int /\ MaxConns - 1 >= 0
  BY SizeAssumption
<1> QED
  BY <1>1, FS_Interval DEF Conns

\* The work of a connection is a number.
LEMMA WorkType ==
  ASSUME TypeOK
  PROVE  /\ Work(begin, end, got, total) \in [Conns -> Int]
         /\ \A c \in Conns : /\ Work(begin, end, got, total)[c] = total[c] + (end[c] + 1 - begin[c] - got[c])
                             /\ total[c] \in Int /\ end[c] \in Int /\ begin[c] \in Int /\ got[c] \in Int
<1>1. \A c \in Conns : total[c] \in Int /\ end[c] \in Int /\ begin[c] \in Int /\ got[c] \in Int
  BY SizeAssumption DEF TypeOK
<1> QED
  BY <1>1 DEF Work

\* The same of the next state.
LEMMA WorkTypeNext ==
  ASSUME TypeOK'
  PROVE  /\ Work(begin', end', got', total') \in [Conns -> Int]
         /\ \A c \in Conns : Work(begin', end', got', total')[c]
                               = total'[c] + (end'[c] + 1 - begin'[c] - got'[c])
<1>1. \A c \in Conns : total'[c] \in Int /\ end'[c] \in Int /\ begin'[c] \in Int /\ got'[c] \in Int
  BY SizeAssumption DEF TypeOK
<1> QED
  BY <1>1 DEF Work

\* The chunk of v is cut behind s, and w, which had nothing left, gets the rest.
CutOff(b, e, g, b2, e2, g2, v, w, s) ==
  /\ b[w] + g[w] = e[w] + 1
  /\ b2[w] = s + 1 /\ e2[w] = e[v] /\ g2[w] = 0
  /\ b2[v] = b[v] /\ e2[v] = s /\ g2[v] = g[v]
  /\ \A c \in Conns \ {v, w} : b2[c] = b[c] /\ e2[c] = e[c] /\ g2[c] = g[c]

\* A cut moves bytes from v to w.
LEMMA TallyCut ==
  ASSUME TypeOK, TypeOK', Tallied(n, begin, end, got, total),
         NEW v \in Conns, NEW w \in Conns, w # v, NEW s \in Int, v < n, n <= n', total' = total,
         CutOff(begin, end, got, begin', end', got', v, w, s)
  PROVE  Tallied(n, begin, end, got, total)'
<1> DEFINE f == Work(begin, end, got, total)
           h == Work(begin', end', got', total')
<1>1. f \in [Conns -> Int] /\ h \in [Conns -> Int]
  BY WorkType, WorkTypeNext
<1>2. \A c \in Conns : /\ f[c] = total[c] + (end[c] + 1 - begin[c] - got[c])
                       /\ total[c] \in Int /\ end[c] \in Int /\ begin[c] \in Int /\ got[c] \in Int
  BY WorkType
<1>3. \A c \in Conns : h[c] = total[c] + (end'[c] + 1 - begin'[c] - got'[c])
  BY WorkTypeNext
<1> HIDE DEF f, h
<1>4. Exchanged(Conns, h, f, v, w)
  <2>1. \A x \in Conns \ {v, w} : h[x] = f[x]
    BY <1>2, <1>3 DEF CutOff
  <2>2. f[v] = total[v] + (end[v] + 1 - begin[v] - got[v]) /\ f[w] = total[w]
    BY <1>2 DEF CutOff
  <2>3. h[v] = total[v] + (s + 1 - begin[v] - got[v]) /\ h[w] = total[w] + (end[v] - s)
    BY <1>2, <1>3 DEF CutOff
  <2>4. h[v] + h[w] = f[v] + f[w]
    BY <1>2, <2>2, <2>3
  <2> QED
    BY <2>1, <2>4 DEF Exchanged
<1>5. SumOver(h, Conns) = SumOver(f, Conns)
  <2>1. IsFiniteSet(Conns) /\ v # w
    BY ConnsFinite
  <2> QED
    BY <1>1, <1>4, <2>1, SumMoves
<1>6. \A c \in Conns : c >= n' => total'[c] = 0
  <2>1. n \in Int /\ n' \in Int /\ Conns \subseteq Int
    BY DEF TypeOK, Conns
  <2> QED
    BY <2>1 DEF Tallied
<1>7. n > 0
  BY DEF Conns, TypeOK
<1> QED
  BY <1>5, <1>6, <1>7 DEF Tallied, f, h

\* The first connection is given the file, less what was prefetched, which it
\* counts as its own.
LEMMA TallyFirst ==
  ASSUME TypeOK, TypeOK', IInv, Tallied(n, begin, end, got, total), OpenFirst
  PROVE  Tallied(n, begin, end, got, total)'
<1> DEFINE h == Work(begin', end', got', total')
<1>1. h \in [Conns -> Int]
      /\ \A c \in Conns : h[c] = total'[c] + (end'[c] + 1 - begin'[c] - got'[c])
  BY WorkTypeNext
<1>2. 0 \in Conns /\ Size \in Int /\ prefetched \in Int /\ n = 0 /\ n' = 1 /\ Conns \subseteq Nat
  BY ConnsFinite, SizeAssumption DEF TypeOK, OpenFirst, Conns
<1>3. /\ begin'[0] = prefetched /\ end'[0] = Size - 1 /\ got'[0] = 0 /\ total'[0] = prefetched
      /\ \A c \in Conns \ {0} : begin'[c] = begin[c] /\ end'[c] = end[c] /\ got'[c] = got[c]
                                /\ total'[c] = total[c]
  BY <1>2 DEF TypeOK, OpenFirst
<1>4. \A c \in Conns : begin[c] = 0 /\ end[c] = -1 /\ got[c] = 0 /\ total[c] = 0
  <2>1. \A c \in Conns : c >= n
    BY <1>2
  <2> QED
    BY <2>1 DEF IInv, ChunkOK, Tallied
<1>5. h[0] = Size
  BY <1>1, <1>2, <1>3
<1>6. \A c \in Conns \ {0} : h[c] = 0
  BY <1>1, <1>3, <1>4
<1>7. SumOver(h, Conns) = Size
  <2> HIDE DEF h
  <2> DEFINE r == Conns \ {0}
  <2>1. IsFiniteSet(r)
    BY ConnsFinite, FS_Subset
  <2>2. SumOver(h, r) = 0
    BY <1>6, <2>1, SumOfZeros
  <2>3. \A x \in Conns : SumOver(h, Conns) = h[x] + SumOver(h, Conns \ {x})
    BY <1>1, ConnsFinite, SumTake
  <2>4. SumOver(h, Conns) = h[0] + SumOver(h, r)
    BY <1>2, <2>3
  <2> QED
    BY <1>2, <1>5, <2>2, <2>4
<1>8. \A c \in Conns : c >= n' => total'[c] = 0
  <2>1. \A c \in Conns : c >= n' => c # 0
    BY <1>2
  <2> QED
    BY <1>3, <1>4, <2>1
<1> QED
  BY <1>7, <1>8 DEF Tallied

\* A read that is counted.
LEMMA TallyCount ==
  ASSUME TypeOK, TypeOK', Tallied(n, begin, end, got, total), NEW c \in Conns, Count(c)
  PROVE  Tallied(n, begin, end, got, total)'
<1>1. /\ n' = n /\ begin' = begin /\ end' = end
      /\ got'[c] = got[c] + inflight[c] /\ total'[c] = total[c] + inflight[c] /\ inflight[c] \in Int
      /\ \A d \in Conns \ {c} : got'[d] = got[d] /\ total'[d] = total[d]
      /\ c < n
  BY SizeAssumption DEF TypeOK, Count, At, Open
<1>2. \A d \in Conns : total[d] \in Int /\ end[d] \in Int /\ begin[d] \in Int /\ got[d] \in Int
  BY SizeAssumption DEF TypeOK
<1>3. \A d \in Conns : total'[d] + (end'[d] + 1 - begin'[d] - got'[d]) = total[d] + (end[d] + 1 - begin[d] - got[d])
  <2> TAKE d \in Conns
  <2>1. CASE d = c
    BY <1>1, <1>2, <2>1
  <2>2. CASE d # c
    BY <1>1, <1>2, <2>2
  <2> QED
    BY <2>1, <2>2
<1>4. Work(begin', end', got', total') = Work(begin, end, got, total)
  BY <1>3 DEF Work
<1>5. \A d \in Conns : d >= n' => total'[d] = 0
  <2>1. n \in Int /\ Conns \subseteq Int
    BY DEF TypeOK, Conns
  <2>2. \A d \in Conns : d >= n => d # c
    BY <1>1, <2>1
  <2> QED
    BY <1>1, <2>2 DEF Tallied
<1> QED
  BY <1>1, <1>4, <1>5 DEF Tallied

\* Every step keeps the tally, of the connections and of the snapshot.
LEMMA TallyStep ==
  ASSUME TypeOK, TypeOK', IInv, Next,
         Tallied(n, begin, end, got, total),
         Tallied(saved.n, saved.begin, saved.end, saved.got, saved.total)
  PROVE  /\ Tallied(n, begin, end, got, total)'
         /\ Tallied(saved.n, saved.begin, saved.end, saved.got, saved.total)'
<1>1. Tallied(n, begin, end, got, total)'
  <2>1. CASE Neutral
    BY <2>1, NeutralSame
  <2>2. CASE OpenFirst
    BY <2>2, TallyFirst
  <2>3. CASE \E v \in Conns : Expand(v)
    <3> PICK v \in Conns : Expand(v)
      BY <2>3
    <3> PICK w \in Conns : w = n
      BY ExpandCut
    <3>1. begin[w] = 0 /\ end[w] = -1 /\ got[w] = 0
      <4>1. w >= n
        BY DEF Conns, TypeOK
      <4> QED
        BY <4>1 DEF IInv, ChunkOK
    <3>2. w # v /\ v < n /\ SplitEnd(v) \in Int
      BY ExpandCut
    <3>3. /\ n <= n' /\ total' = total /\ got' = got
          /\ begin' = [begin EXCEPT ![w] = SplitEnd(v) + 1]
          /\ end' = [end EXCEPT ![w] = end[v], ![v] = SplitEnd(v)]
      BY DEF Expand, TypeOK
    <3>4. CutOff(begin, end, got, begin', end', got', v, w, SplitEnd(v))
      <4>1. begin \in [Conns -> 0 .. Size] /\ end \in [Conns -> -1 .. Size - 1]
        BY DEF TypeOK
      <4> QED
        BY <3>1, <3>2, <3>3, <4>1 DEF CutOff
    <3> DEFINE s == SplitEnd(v)
    <3>5. s \in Int /\ CutOff(begin, end, got, begin', end', got', v, w, s)
      BY <3>2, <3>4
    <3> HIDE DEF s
    <3> QED
      BY <3>2, <3>3, <3>5, TallyCut
  <2>4. CASE \E c \in Conns : WriteAt(c)
    BY <2>4 DEF WriteAt, chunkVars
  <2>5. CASE \E c \in Conns : Count(c)
    BY <2>5, TallyCount
  <2>6. CASE \E c, v \in Conns : Help(c, v)
    <3> PICK c \in Conns, v \in Conns : Help(c, v)
      BY <2>6
    <3>1. c # v /\ v < n /\ StealEnd(v) \in Int /\ Remain(c) = 0
      BY HelpCut
    <3>2. begin[c] + got[c] = end[c] + 1
      BY <3>1, ChunkNumbers DEF Remain
    <3>3. /\ n <= n' /\ total' = total
          /\ begin' = [begin EXCEPT ![c] = StealEnd(v) + 1]
          /\ end' = [end EXCEPT ![c] = end[v], ![v] = StealEnd(v)]
          /\ got' = [got EXCEPT ![c] = 0]
      BY DEF Help, TypeOK
    <3>4. CutOff(begin, end, got, begin', end', got', v, c, StealEnd(v))
      <4>1. begin \in [Conns -> 0 .. Size] /\ end \in [Conns -> -1 .. Size - 1] /\ got \in [Conns -> Nat]
        BY DEF TypeOK
      <4> QED
        BY <3>1, <3>2, <3>3, <4>1 DEF CutOff
    <3> DEFINE s == StealEnd(v)
    <3>5. s \in Int /\ CutOff(begin, end, got, begin', end', got', v, c, s)
      BY <3>1, <3>4
    <3> HIDE DEF s
    <3> QED
      BY <3>1, <3>3, <3>5, TallyCut
  <2>7. CASE PauseReturns \/ PauseLate \/ Store
    BY <2>7 DEF PauseReturns, PauseLate, Store, chunkVars
  <2>8. CASE Crash
    BY <2>8 DEF Crash
  <2> QED
    BY <2>1, <2>2, <2>3, <2>4, <2>5, <2>6, <2>7, <2>8, NextSplit
<1>2. Tallied(saved.n, saved.begin, saved.end, saved.got, saved.total)'
  <2>1. CASE Store \/ PauseReturns \/ PauseLate
    BY <2>1 DEF Store, PauseReturns, PauseLate, Snapshot
  <2>2. CASE ~Store /\ ~PauseReturns /\ ~PauseLate
    BY <2>2, SavedUnchanged
  <2> QED
    BY <2>1, <2>2
<1> QED
  BY <1>1, <1>2

-----------------------------------------------------------------------------
\* How connections end

\* A goroutine that moves has a connection that is open and not complete; the
\* others stay where they are.
LEMMA EndOfOne ==
  ASSUME TypeOK, IInv, Completed(n, begin, end, got, state), Ended, NEW c \in Conns, ConnNext(c),
         ~ (\E v \in Conns : Help(c, v))
  PROVE  Completed(n, begin, end, got, state)' /\ Ended'
<1> USE DEF chunkVars, loopVars
<1>1. /\ n' = n /\ begin' = begin /\ end' = end /\ fstate' = fstate /\ canc' = canc
      /\ c < n /\ state[c] # "completed" /\ n \in Int
  BY DEF ConnNext, NothingLeft, Accepted, Refused, Unreachable, Malformed, Responding, Read, WriteAt,
         WriteFails, Count, ChunkDone, Complete, Cancelled, At, Open, Ended, TypeOK
<1>2. /\ \A d \in Conns \ {c} : state'[d] = state[d] /\ fault'[d] = fault[d] /\ run'[d] = run[d]
                                /\ got'[d] = got[d]
  BY DEF ConnNext, NothingLeft, Accepted, Refused, Unreachable, Malformed, Read, WriteAt,
         WriteFails, Count, ChunkDone, Complete, Cancelled, Goto, Give, TypeOK
<1>3. \/ state'[c] # "completed" /\ run'[c] # "off"
      \/ state'[c] = "failed" /\ fault'[c] # "none"
      \/ state'[c] = "completed" /\ run'[c] = "off" /\ run[c] = "finished" /\ got'[c] = got[c]
      \/ state'[c] # "completed" /\ canc
  <2> USE <1>1 DEF Goto, Give, TypeOK
  <2>1. CASE NothingLeft(c)   BY <2>1 DEF NothingLeft
  <2>2. CASE Accepted(c)      BY <2>2 DEF Accepted
  <2>3. CASE Refused(c)       BY <2>3 DEF Refused
  <2>4. CASE Unreachable(c)   BY <2>4 DEF Unreachable
  <2>5. CASE Malformed(c)     BY <2>5 DEF Malformed
  <2>6. CASE Read(c)          BY <2>6 DEF Read
  <2>7. CASE WriteAt(c)       BY <2>7 DEF WriteAt
  <2>8. CASE WriteFails(c)    BY <2>8 DEF WriteFails
  <2>9. CASE Count(c)         BY <2>9 DEF Count
  <2>10. CASE ChunkDone(c)    BY <2>10 DEF ChunkDone
  <2>11. CASE Complete(c)     BY <2>11 DEF Complete, At
  <2>12. CASE Cancelled(c)    BY <2>12 DEF Cancelled
  <2> QED
    BY <2>1, <2>2, <2>3, <2>4, <2>5, <2>6, <2>7, <2>8, <2>9, <2>10, <2>11, <2>12 DEF ConnNext
<1>4. run[c] = "finished" => begin[c] + got[c] = end[c] + 1
  <2>1. run[c] = "finished" => Remain(c) = 0
    BY DEF IInv, Running
  <2> QED
    BY <2>1, ChunkNumbers DEF Remain
<1>5. Completed(n, begin, end, got, state)'
  <2>1. \A d \in Conns \ {c} : /\ d >= n => state'[d] = "new"
                               /\ state'[d] = "completed" => begin[d] + got'[d] = end[d] + 1
    BY <1>2 DEF Completed
  <2>2. /\ ~ (c >= n)
        /\ state'[c] = "completed" => begin[c] + got'[c] = end[c] + 1
    <3>1. c \in Int
      BY ChunkNumbers
    <3> QED
      BY <1>1, <1>3, <1>4, <3>1
  <2> QED
    BY <1>1, <2>1, <2>2 DEF Completed
<1>6. Ended'
  <2>1. \A d \in Conns \ {c} :
          /\ state'[d] = "completed" => run'[d] = "off"
          /\ fstate' = "active" /\ ~canc' /\ d < n' /\ run'[d] = "off" =>
               state'[d] = "completed" \/ (state'[d] = "failed" /\ fault'[d] # "none")
    BY <1>1, <1>2 DEF Ended
  <2>2. /\ state'[c] = "completed" => run'[c] = "off"
        /\ fstate' = "active" /\ ~canc' /\ c < n' /\ run'[c] = "off" =>
             state'[c] = "completed" \/ (state'[c] = "failed" /\ fault'[c] # "none")
    BY <1>1, <1>3
  <2> QED
    BY <2>1, <2>2 DEF Ended
<1> QED
  BY <1>5, <1>6


\* A chunk is cut only where the connection is not complete, and given to one
\* that is not complete either, which then runs.
LEMMA EndOfCut ==
  ASSUME Completed(n, begin, end, got, state), Ended,
         NEW v \in Conns, NEW w \in Conns, state[v] # "completed", state[w] # "completed",
         \A d \in Conns : d >= n' => d >= n,
         \A d \in Conns : d < n' => d < n \/ d = w,
         \A d \in Conns \ {v, w} : begin'[d] = begin[d] /\ end'[d] = end[d] /\ got'[d] = got[d],
         \A d \in Conns \ {w} : run'[d] = run[d], run'[w] = "request",
         state' = state, fault' = fault, fstate' = fstate, canc' = canc
  PROVE  Completed(n, begin, end, got, state)' /\ Ended'
<1>1. Completed(n, begin, end, got, state)'
  <2>1. \A d \in Conns : d >= n' => state'[d] = "new"
    BY DEF Completed
  <2>2. \A d \in Conns : state'[d] = "completed" => begin'[d] + got'[d] = end'[d] + 1
    <3> SUFFICES ASSUME NEW d \in Conns, state'[d] = "completed"
                 PROVE  begin'[d] + got'[d] = end'[d] + 1
      OBVIOUS
    <3>1. d # v /\ d # w
      OBVIOUS
    <3>2. begin[d] + got[d] = end[d] + 1
      BY DEF Completed
    <3> QED
      BY <3>1, <3>2
  <2> QED
    BY <2>1, <2>2 DEF Completed
<1>2. Ended'
  <2> SUFFICES ASSUME NEW d \in Conns
               PROVE  /\ state'[d] = "completed" => run'[d] = "off"
                      /\ fstate' = "active" /\ ~canc' /\ d < n' /\ run'[d] = "off" =>
                           state'[d] = "completed" \/ (state'[d] = "failed" /\ fault'[d] # "none")
    BY DEF Ended
  <2>1. CASE d = w
    BY <2>1
  <2>2. CASE d # w
    BY <2>2 DEF Ended
  <2> QED
    BY <2>1, <2>2
<1> QED
  BY <1>1, <1>2

\* Every step keeps what is known of connections that ended.
LEMMA EndStep ==
  ASSUME TypeOK, IInv, Next,
         Completed(n, begin, end, got, state),
         Completed(saved.n, saved.begin, saved.end, saved.got, saved.state),
         Ended
  PROVE  /\ Completed(n, begin, end, got, state)'
         /\ Completed(saved.n, saved.begin, saved.end, saved.got, saved.state)'
         /\ Ended'
<1> USE DEF chunkVars, connVars, loopVars
<1>0. n \in Int /\ Conns \subseteq Int /\ 0 \in Conns
  BY ConnsFinite DEF TypeOK, Conns
<1>1. Completed(n, begin, end, got, state)' /\ Ended'
  <2>1. CASE OpenFirst
    <3> PICK w \in Conns : w = 0
      BY <1>0
    <3>1. /\ n = 0 /\ n' = 1 /\ run'[w] = "request" /\ \A d \in Conns \ {w} : run'[d] = run[d]
          /\ \A d \in Conns \ {w} : begin'[d] = begin[d] /\ end'[d] = end[d] /\ got'[d] = got[d]
          /\ state' = state /\ fault' = fault /\ fstate' = fstate /\ canc' = canc
      BY <2>1 DEF OpenFirst, Goto, TypeOK
    <3>2. \A d \in Conns : /\ d >= n' => d >= n
                           /\ d < n' => d < n \/ d = w
      <4>1. \A d \in Conns : d \in Nat
        BY DEF Conns
      <4>2. n = 0 /\ n' = 1 /\ w = 0
        BY <3>1
      <4>3. \A d \in Conns : d < 1 => d = 0
        BY <4>1
      <4> QED
        BY <4>1, <4>2, <4>3
    <3>3. state[w] # "completed"
      <4>1. w >= n
        BY <3>1
      <4> QED
        BY <4>1 DEF Completed
    <3> QED
      BY <3>1, <3>2, <3>3, EndOfCut
  <2>2. CASE \E v \in Conns : Expand(v)
    <3> PICK v \in Conns : Expand(v)
      BY <2>2
    <3> PICK w \in Conns : w = n
      BY ExpandCut
    <3>1. /\ n' = n + 1 /\ run'[w] = "request" /\ \A d \in Conns \ {w} : run'[d] = run[d]
          /\ \A d \in Conns \ {v, w} : begin'[d] = begin[d] /\ end'[d] = end[d] /\ got'[d] = got[d]
          /\ state' = state /\ fault' = fault /\ fstate' = fstate /\ canc' = canc
          /\ state[v] # "completed"
      BY DEF Expand, Goto, TypeOK, Splittable, Sharing
    <3>2. \A d \in Conns : /\ d >= n' => d >= n
                           /\ d < n' => d < n \/ d = w
      BY <1>0, <3>1
    <3>3. state[w] # "completed"
      <4>1. w >= n
        BY <1>0
      <4> QED
        BY <4>1 DEF Completed
    <3> QED
      BY <3>1, <3>2, <3>3, EndOfCut
  <2>3. CASE StopExpanding
    BY <2>3 DEF StopExpanding, Completed, Ended
  <2>4. CASE \E c, v \in Conns : Help(c, v)
    <3> PICK c \in Conns, v \in Conns : Help(c, v)
      BY <2>4
    <3>1. /\ n' = n /\ run'[c] = "request" /\ \A d \in Conns \ {c} : run'[d] = run[d]
          /\ \A d \in Conns \ {v, c} : begin'[d] = begin[d] /\ end'[d] = end[d] /\ got'[d] = got[d]
          /\ state' = state /\ fault' = fault /\ fstate' = fstate /\ canc' = canc
          /\ state[v] # "completed" /\ run[c] # "off"
      BY DEF Help, At, Goto, TypeOK, Sharing
    <3>2. state[c] # "completed"
      BY <3>1 DEF Ended
    <3>3. \A d \in Conns : /\ d >= n' => d >= n
                           /\ d < n' => d < n \/ d = c
      BY <3>1
    <3> QED
      BY <3>1, <3>2, <3>3, EndOfCut
  <2>5. CASE \E c \in Conns : ConnNext(c)
    <3> PICK c \in Conns : ConnNext(c)
      BY <2>5
    <3> QED
      BY <2>4, EndOfOne
  <2>6. CASE OnDownloadComplete \/ Cancel \/ PauseReturns \/ PauseLate \/ Store
    BY <2>6 DEF OnDownloadComplete, Cancel, PauseReturns, PauseLate, Store, Completed, Ended
  <2>7. CASE Start
    <3>1. /\ n' = n /\ begin' = begin /\ end' = end /\ got' = got
          /\ \A c \in Conns :
               \/ c < n /\ state'[c] = "new" /\ run'[c] = "request"
               \/ ~ (c < n) /\ state'[c] = state[c] /\ run'[c] = "off"
               \/ /\ c < n /\ state'[c] = state[c] /\ run'[c] = "off" /\ fault'[c] = fault[c]
                  /\ state[c] = "completed" \/ (state[c] = "failed" /\ fault[c] # "none")
      BY <2>7 DEF Start, Open
    <3>2. Completed(n, begin, end, got, state)'
      BY <3>1 DEF Completed
    <3>3. Ended'
      BY <3>1 DEF Ended
    <3> QED
      BY <3>2, <3>3
  <2>8. CASE Crash
    BY <2>8 DEF Crash, Completed, Ended, AllConns
  <2> QED
    BY <2>1, <2>2, <2>3, <2>4, <2>5, <2>6, <2>7, <2>8 DEF Next
<1>2. Completed(saved.n, saved.begin, saved.end, saved.got, saved.state)'
  <2>1. CASE Store \/ PauseReturns \/ PauseLate
    BY <2>1 DEF Store, PauseReturns, PauseLate, Snapshot
  <2>2. CASE ~Store /\ ~PauseReturns /\ ~PauseLate
    BY <2>2, SavedUnchanged
  <2> QED
    BY <2>1, <2>2
<1> QED
  BY <1>1, <1>2

-----------------------------------------------------------------------------
\* The end of the download

\* While a byte is missing the connections cannot have counted them all.
LEMMA MissingIsNotCounted ==
  ASSUME TypeOK, IInv, Tallied(n, begin, end, got, total), n > 0,
         NEW b \in Bytes, b \notin file
  PROVE  ~ (TotalDownloaded >= Size)
<1> DEFINE h == Work(begin, end, got, total)
<1>1. h \in [Conns -> Int] /\ total \in [Conns -> Int]
  BY WorkType DEF TypeOK
<1>2. \A c \in Conns : 0 <= total[c] /\ total[c] <= h[c] /\ h[c] \in Int
  <2>1. \A c \in Conns : begin[c] + got[c] <= end[c] + 1
    BY DEF IInv, ChunkOK
  <2>2. \A c \in Conns : h[c] = total[c] + (end[c] + 1 - begin[c] - got[c])
                         /\ total[c] \in Int /\ end[c] \in Int /\ begin[c] \in Int /\ got[c] \in Int
    BY WorkType
  <2>3. \A c \in Conns : total[c] \in Nat
    BY DEF TypeOK
  <2> HIDE DEF h
  <2> QED
    BY <2>1, <2>2, <2>3
<1>3. PICK c \in Conns : begin[c] + got[c] <= b /\ b <= end[c]
  BY DEF IInv, Owned
<1>4. c \in Open
  <2>1. b \in Int /\ ~ (b <= -1) /\ n \in Int
    BY DEF Bytes, TypeOK
  <2>2. c >= n => end[c] = -1
    BY DEF IInv, ChunkOK
  <2>3. c < n
    BY <1>3, <2>1, <2>2, ChunkNumbers
  <2> QED
    BY <2>3 DEF Open
<1>5. total[c] < h[c]
  <2>1. h[c] = total[c] + (end[c] + 1 - begin[c] - got[c])
        /\ total[c] \in Int /\ end[c] \in Int /\ begin[c] \in Int /\ got[c] \in Int
    BY WorkType
  <2>2. b \in Int
    BY DEF Bytes
  <2> HIDE DEF h
  <2> QED
    BY <1>3, <2>1, <2>2
<1>6. SumOver(h, Conns) = Size
  BY DEF Tallied
<1> HIDE DEF h
<1> DEFINE r == Conns \ {c}
<1>7. IsFiniteSet(Conns) /\ r \in SUBSET Conns /\ Open \in SUBSET Conns /\ Open \ {c} = r \cap Open
      /\ Open \ {c} \in SUBSET Conns /\ Conns \in SUBSET Conns
  BY ConnsFinite DEF Open
<1>8. SumOver(total, Open) = total[c] + SumOver(total, Open \ {c})
  BY <1>1, <1>4, <1>7, SumTake
<1>9. SumOver(h, Conns) = h[c] + SumOver(h, r)
  BY <1>1, <1>7, SumTake
<1> HIDE DEF r
<1>10. SumOver(total, Open \ {c}) <= SumOver(h, r)
  <2>1. \A x \in r : IF x \in Open THEN total[x] <= h[x] ELSE 0 <= h[x]
    BY <1>2, <1>7 DEF TypeOK
  <2>2. SumOver(total, r \cap Open) <= SumOver(h, r)
    BY <1>1, <1>7, <2>1, SumBelow
  <2> QED
    BY <1>7, <2>2
<1>11. SumOver(total, Open \ {c}) \in Int /\ SumOver(h, r) \in Int
  BY <1>1, <1>7, SumType
<1>12. TotalDownloaded = SumOver(total, Open)
  BY DEF TotalDownloaded, SumOver
<1>13. total[c] \in Int /\ h[c] \in Int /\ Size \in Int
  BY <1>1, SizeAssumption
<1> QED
  BY <1>5, <1>6, <1>8, <1>9, <1>10, <1>11, <1>12, <1>13

\* A fetcher that is done moves no more; it becomes done by OnDownloadComplete,
\* and lacks then no more than refused connections lack.
LEMMA DoneStep ==
  ASSUME TypeOK, IInv, Next, DoneRests, Ended,
         Tallied(n, begin, end, got, total), Completed(n, begin, end, got, state)
  PROVE  DoneRests'
<1> SUFFICES ASSUME fstate' = "done"
             PROVE  DoneRests'
  BY DEF DoneRests
<1>1. OnDownloadComplete
  <2>1. CASE fstate = "done"
    <3>1. (\A c \in Conns : c < n => run[c] = "off") /\ ~expanding
      BY <2>1 DEF DoneRests, AllOff, Open
    <3>2. ~ OpenFirst /\ ~ StopExpanding /\ ~ \E v \in Conns : Expand(v)
      BY <3>1 DEF OpenFirst, StopExpanding, Expand
    <3>3. ~ \E c \in Conns : ConnNext(c)
      BY <3>1 DEF ConnNext, NothingLeft, Accepted, Refused, Unreachable, Malformed, Responding, Read,
                  WriteAt, WriteFails, Count, ChunkDone, Help, Complete, Cancelled, At, Open
    <3>4. ~ Start /\ ~ Cancel /\ ~ PauseReturns /\ ~ PauseLate /\ ~ Store /\ ~ Crash
      BY <2>1 DEF Start, Cancel, PauseReturns, PauseLate, Store, Crash
    <3> QED
      BY <3>2, <3>3, <3>4 DEF Next
  <2>2. CASE fstate # "done"
    <3> USE DEF loopVars
    <3>1. ~ OpenFirst /\ ~ StopExpanding /\ ~ \E v \in Conns : Expand(v)
      BY <2>2 DEF OpenFirst, StopExpanding, Expand
    <3>2. ~ \E c \in Conns : ConnNext(c)
      BY <2>2 DEF ConnNext, NothingLeft, Accepted, Refused, Unreachable, Malformed, Read,
                  WriteAt, WriteFails, Count, ChunkDone, Help, Complete, Cancelled
    <3>3. ~ Start /\ ~ Cancel /\ ~ PauseReturns /\ ~ PauseLate /\ ~ Store /\ ~ Crash
      BY <2>2 DEF Start, Cancel, PauseReturns, PauseLate, Store, Crash
    <3> QED
      BY <3>1, <3>2, <3>3 DEF Next
  <2> QED
    BY <2>1, <2>2
<1>2. /\ fstate = "active" /\ ~expanding /\ ~canc /\ n > 0 /\ AllOff /\ Succeeded
      /\ UNCHANGED <<chunkVars, connVars, file, expanding>>
  BY <1>1 DEF OnDownloadComplete
<1>3. AllOff' /\ ~expanding'
  BY <1>2 DEF AllOff, Open, connVars, chunkVars
<1>4. ASSUME NEW b \in Bytes, b \notin file
      PROVE  \E c \in Open : fault[c] = "forbidden" /\ b \in Left(c)
  <2>1. PICK c \in Conns : begin[c] + got[c] <= b /\ b <= end[c]
    BY <1>2, <1>4 DEF IInv, Owned
  <2>2. b \in Int /\ ~ (b <= -1) /\ n \in Int
    BY DEF Bytes, TypeOK
  <2>3. c < n
    <3>1. c >= n => end[c] = -1
      BY DEF IInv, ChunkOK
    <3> QED
      BY <2>1, <2>2, <3>1, ChunkNumbers
  <2>4. c \in Open /\ b \in Left(c) /\ Remain(c) > 0
    BY <2>1, <2>2, <2>3, ChunkNumbers DEF Open, Left, Pos, Remain
  <2>5. state[c] = "failed" /\ fault[c] # "none"
    <3>1. state[c] # "completed"
      <4>1. begin[c] + got[c] # end[c] + 1
        BY <2>1, <2>2, ChunkNumbers
      <4> QED
        BY <4>1 DEF Completed
    <3> QED
      BY <1>2, <2>3, <2>4, <3>1 DEF Ended, AllOff
  <2>6. ~ (TotalDownloaded >= Size)
    BY <1>2, <1>4, MissingIsNotCounted
  <2>7. fault[c] = "forbidden"
    BY <1>2, <2>4, <2>5, <2>6 DEF Succeeded, Unfinished, Blamed
  <2> QED
    BY <2>4, <2>7
<1>5. DoneHasNoOtherGap'
  <2>1. UNCHANGED <<n, begin, end, got, file, fault>>
    BY <1>2 DEF connVars, chunkVars
  <2> QED
    BY <1>4, <2>1 DEF DoneHasNoOtherGap, Open, Left, Pos
<1> QED
  BY <1>3, <1>5 DEF DoneRests

-----------------------------------------------------------------------------
\* The initial states have no connection yet.
LEMMA GapInitially ==
  ASSUME Init
  PROVE  GapInv
<1>1. /\ n = 0 /\ saved.n = 0 /\ fstate = "resolved"
      /\ \A c \in Conns : total[c] = 0 /\ state[c] = "new" /\ run[c] = "off"
      /\ saved.total = total /\ saved.state = state
  BY DEF Init, AllConns, Snapshot
<1> QED
  BY <1>1 DEF GapInv, Tallied, Completed, Ended, DoneRests

\* What the connections have counted and what their chunks still miss is the
\* file, in memory and in the snapshot; a goroutine ends complete, or with a
\* failure that somebody can be blamed for; and after the end nothing moves.
THEOREM TallyInvariant == Spec => []GapInv
<1>1. Init => GapInv
  BY GapInitially
<1>2. GapInv /\ (TypeOK /\ IInv) /\ (TypeOK /\ IInv)' /\ [Next]_vars => GapInv'
  <2> SUFFICES ASSUME GapInv, TypeOK, IInv, TypeOK', [Next]_vars
               PROVE  GapInv'
    OBVIOUS
  <2>1. CASE Next
    BY <2>1, TallyStep, EndStep, DoneStep DEF GapInv
  <2>2. CASE UNCHANGED vars
    <3>1. UNCHANGED <<n, begin, end, got, total, state, fault, run, file, fstate, expanding, canc, saved>>
      BY <2>2 DEF vars, chunkVars, connVars, loopVars
    <3> QED
      BY <3>1 DEF GapInv, Tallied, Completed, Ended, DoneRests, AllOff, Open, DoneHasNoOtherGap,
                  Left, Pos
  <2> QED
    BY <2>1, <2>2
<1> QED
  BY <1>1, <1>2, Invariant, PTL DEF Spec

\* Once the connections have counted as many bytes as the file has, all of them
\* are on disk: the byte count that onDownloadComplete looks at can be trusted.
THEOREM CountIsTrue == Spec => []CountedMeansWritten
<1>1. TypeOK /\ IInv /\ GapInv => CountedMeansWritten
  <2> SUFFICES ASSUME TypeOK, IInv, GapInv, TotalDownloaded >= Size
               PROVE  file = Bytes
    BY DEF CountedMeansWritten
  <2>1. n > 0
    <3> SUFFICES ASSUME ~ (n > 0)
                 PROVE  FALSE
      OBVIOUS
    <3>1. Open = {}
      BY DEF Open, Conns, TypeOK
    <3>2. TotalDownloaded = SumOver(total, Open)
      BY DEF TotalDownloaded, SumOver
    <3>3. IsFiniteSet(Open)
      BY <3>1, FS_EmptySet
    <3>4. SumOver(total, Open) = 0
      BY <3>1, <3>3, SumSteps
    <3> QED
      BY <3>2, <3>4, SizeAssumption
  <2>2. \A b \in Bytes : b \in file
    BY <2>1, MissingIsNotCounted DEF GapInv
  <2> QED
    BY <2>2 DEF TypeOK
<1> QED
  BY <1>1, Invariant, TallyInvariant, PTL

\* A download that is done lacks nothing but what was left to connections that
\* the server refused with 403.
THEOREM DoneIsComplete == Spec => []DoneHasNoOtherGap
<1>1. GapInv => DoneHasNoOtherGap
  BY DEF GapInv, DoneRests, DoneHasNoOtherGap
<1> QED
  BY <1>1, TallyInvariant, PTL
=============================================================================
