---------------------------- MODULE PlatformProofs ----------------------------
(***************************************************************************)
(* Proofs about the media spool of FFmpeg inputs and about the bodies of   *)
(* blob sources.                                                           *)
(*                                                                         *)
(* The spool: a source without ranges is never evicted, and its prefetch   *)
(* starts where the bytes that are there end, so a reader that finds none  *)
(* at its place is at the end of the source. The arithmetic is that of     *)
(* whole blocks.                                                           *)
(*                                                                         *)
(* The pipe: what the handler has written, what lies in the channel and    *)
(* what the script has made are one run of units; each closure in the      *)
(* loop's queue stands for one goroutine that waits for it; and the source *)
(* keeps no other blame than the streams that failed.                      *)
(***************************************************************************)
EXTENDS MediaSpool, BlobPipe, FiniteSetTheorems, TLAPS

-----------------------------------------------------------------------------
\* The spool: units, blocks and the ends of fetches

\* A quotient is the number of whole blocks below a unit.
LEMMA Quotient ==
  ASSUME NEW n \in Nat, NEW d \in Nat \ {0}
  PROVE  n \div d \in Nat /\ d * (n \div d) <= n /\ n < d * (n \div d) + d
  BY Z3

\* The block of a later unit is not an earlier one.
LEMMA QuotientGrows ==
  ASSUME NEW m \in Nat, NEW n \in Nat, m <= n, NEW d \in Nat \ {0}
  PROVE  m \div d <= n \div d
<1>1. SUFFICES ASSUME n \div d < m \div d PROVE FALSE
  BY Quotient
<1> DEFINE q == n \div d
           r == m \div d
<1>2. q \in Nat /\ r \in Nat /\ q + 1 <= r /\ n < d * q + d /\ d * r <= m
  BY <1>1, Quotient
<1> HIDE DEF q, r
<1>3. d * (q + 1) = d * q + d
  BY <1>2, Z3
<1>4. d * (q + 1) <= d * r
  BY <1>2, Z3
<1> QED
  BY <1>2, <1>3, <1>4

\* What belongs to a unit is in a block, and blocks follow one another.
LEMMA BlocksInOrder ==
  /\ \A u \in Units : BlockOf(u) \in Blocks
  /\ \A u, v \in 0..MediaUnits : u <= v => BlockOf(u) <= BlockOf(v)
  /\ \A u \in Units : BlockUnits * BlockOf(u) \in Units
<1> USE SpoolAssumption DEF Units, BlockOf
<1>1. MediaUnits \in Nat \ {0} /\ BlockUnits \in Nat \ {0}
  OBVIOUS
<1>2. ASSUME NEW u \in 0..MediaUnits, NEW v \in 0..MediaUnits, u <= v
      PROVE  BlockOf(u) <= BlockOf(v)
  BY <1>1, <1>2, QuotientGrows
<1>3. ASSUME NEW u \in Units PROVE BlockOf(u) \in Blocks
  <2>1. u \in Nat /\ u <= MediaUnits - 1 /\ MediaUnits - 1 \in Nat
    BY <1>1
  <2>2. u \div BlockUnits <= (MediaUnits - 1) \div BlockUnits
    BY <1>1, <2>1, QuotientGrows
  <2>3. u \div BlockUnits \in Nat /\ (MediaUnits - 1) \div BlockUnits \in Nat
    BY <1>1, <2>1, Quotient
  <2> QED
    BY <2>2, <2>3 DEF Blocks
<1>4. ASSUME NEW u \in Units PROVE BlockUnits * BlockOf(u) \in Units
  <2>1. u \in Nat /\ u <= MediaUnits - 1
    BY <1>1
  <2> DEFINE q == u \div BlockUnits
  <2>2. q \in Nat /\ BlockUnits * q <= u
    BY <1>1, <2>1, Quotient
  <2> HIDE DEF q
  <2>3. BlockUnits * q \in Nat
    BY <1>1, <2>2
  <2>4. BlockUnits * q \in Units
    BY <1>1, <2>1, <2>2, <2>3
  <2> QED
    BY <2>4 DEF q
<1> QED
  BY <1>2, <1>3, <1>4

\* The least of two numbers.
LEMMA MinOfTwo ==
  ASSUME NEW m \in Nat, NEW n \in Nat
  PROVE  Min({m, n}) = IF m <= n THEN m ELSE n
BY DEF Min

\* The end of a fetch lies behind its begin, inside the source.
LEMMA FetchEndsInside ==
  ASSUME NEW o \in 0..MediaUnits
  PROVE  FetchEnd(o) \in o..MediaUnits
<1>1. MediaUnits \in Nat /\ FetchBlocks \in Nat /\ BlockUnits \in Nat
  BY SpoolAssumption
<1>2. FetchBlocks * BlockUnits \in Nat
  BY <1>1
<1> DEFINE n == o + FetchBlocks * BlockUnits
<1>3. n \in Nat /\ o <= n
  BY <1>1, <1>2
<1> HIDE DEF n
<1>4. Min({n, MediaUnits}) \in o..MediaUnits
  BY <1>1, <1>3, MinOfTwo
<1> QED
  BY <1>4 DEF FetchEnd, n

-----------------------------------------------------------------------------
\* The inductive invariant

ReaderRecs == [at : {"idle", "reads", "looks", "rechecks", "asks", "waits"}, pos : 0..MediaUnits,
               woken : BOOLEAN, dropped : BOOLEAN, result : {"none", "data", "eof", "error"}]
FetchRecs == [at : {"idle", "queued", "holds", "body", "gone"}, next : 0..MediaUnits,
              end : 0..MediaUnits, last : 0..MediaUnits]
SpoolRecs == [ended : BOOLEAN, failed : BOOLEAN, closed : BOOLEAN]

\* A fetch stays inside what it was asked for; the prefetcher begins at 0.
FetchInside ==
    /\ \A f \in Fetchers :
         /\ msRanged /\ msFetch[f].at \in {"queued", "holds"} => msFetch[f].next <= msFetch[f].end
         /\ msFetch[f].at = "body" =>
              msFetch[f].next <= msFetch[f].last /\ msFetch[f].last < msFetch[f].end
    /\ msFetch["prefetch"].at = "idle" => msFetch["prefetch"].next = 0

\* Without ranges only the prefetcher writes, in order, and it ends the spool
\* without an error only at the end of the source.
PlainPrefetch == ~msRanged =>
    /\ msFetch["prefetch"].at \in {"idle", "queued", "gone"}
    /\ msFetch["demand"].at \in {"idle", "gone"}
    /\ msSpool.ended /\ ~msSpool.failed =>
         msFetch["prefetch"].at = "gone" /\ msFetch["prefetch"].next = MediaUnits

\* Without ranges whatever lies between the reader and the prefetcher is kept:
\* the eviction takes only what the reader has passed.
NothingEvicted == ~msRanged /\ ~msSpool.closed =>
    \A u \in Units : msReader.pos <= u /\ u < msFetch["prefetch"].next => Valid(u)

\* Only the reader of a source without ranges asks for the end; it looks again
\* only after the end.
LooksForEnd ==
    /\ msRanged => msReader.at \notin {"looks", "rechecks"}
    /\ msReader.at = "rechecks" => msSpool.ended
    /\ msReader.at = "asks" => msReader.pos < MediaUnits

SpoolInv ==
    /\ SpoolTypeOK /\ FetchInside /\ PlainPrefetch /\ NothingEvicted /\ LooksForEnd
    /\ EofIsTheEnd

\* A step of the reader that moves neither its position nor the blocks.
LEMMA ReaderMoves ==
  ASSUME SpoolInv, NEW r \in ReaderRecs, msReader' = r, r.pos = msReader.pos,
         msRanged => r.at \notin {"looks", "rechecks"},
         r.at = "rechecks" => msSpool.ended, r.at = "asks" => r.pos < MediaUnits,
         r.result = "eof" => r.pos = MediaUnits,
         msDemand' \in Seq(Units), Len(msDemand') <= 1,
         UNCHANGED <<readerOnly, msFiles, msSpans>>
  PROVE  SpoolInv'
BY DEF SpoolInv, SpoolTypeOK, FetchInside, PlainPrefetch, NothingEvicted, LooksForEnd, EofIsTheEnd, Valid,
       readerOnly, ReaderRecs

\* Blocks are discarded: what is left was there, and stays where it was.
LEMMA DiscardTyped ==
  ASSUME NEW spool \in [Blocks -> SUBSET Units], NEW passed
  PROVE  /\ Discarded(spool, passed) \in [Blocks -> SUBSET Units]
         /\ \A b \in Blocks : b \notin passed => Discarded(spool, passed)[b] = spool[b]
BY DEF Discarded

\* A step of the reader that ends its Read, and discards what it has passed.
LEMMA ReaderDiscards ==
  ASSUME SpoolInv, NEW r \in ReaderRecs, msReader' = r, r.at = "idle", msReader.pos <= r.pos,
         r.result = "eof" => r.pos = MediaUnits, NEW passed,
         \A u \in Units : r.pos <= u => BlockOf(u) \notin passed,
         msSpans' = Discarded(msSpans, passed), msFiles' = Discarded(msFiles, passed),
         UNCHANGED <<readerOnly, msDemand>>
  PROVE  SpoolInv'
<1>1. msSpans' \in [Blocks -> SUBSET Units] /\ msFiles' \in [Blocks -> SUBSET Units]
  BY DiscardTyped DEF SpoolInv, SpoolTypeOK
<1>2. SpoolTypeOK' /\ FetchInside' /\ PlainPrefetch' /\ LooksForEnd' /\ EofIsTheEnd'
  BY <1>1 DEF SpoolInv, SpoolTypeOK, FetchInside, PlainPrefetch, LooksForEnd, EofIsTheEnd,
     readerOnly, ReaderRecs
<1>3. NothingEvicted'
  <2> SUFFICES ASSUME ~msRanged, ~msSpool.closed, NEW u \in Units, r.pos <= u,
                      u < msFetch["prefetch"].next
               PROVE  Valid(u)'
    BY DEF NothingEvicted, readerOnly
  <2>1. msReader.pos <= u
    BY DEF SpoolInv, SpoolTypeOK, ReaderRecs, Units
  <2>2. Valid(u)
    BY <2>1 DEF SpoolInv, NothingEvicted
  <2>3. BlockOf(u) \in Blocks /\ msSpans'[BlockOf(u)] = msSpans[BlockOf(u)]
    BY BlocksInOrder, DiscardTyped DEF SpoolInv, SpoolTypeOK
  <2> QED
    BY <2>2, <2>3 DEF Valid
<1> QED
  BY <1>2, <1>3 DEF SpoolInv

\* What Read does, and Seek.
LEMMA ReadSteps ==
  ASSUME SpoolInv, ReadBegins \/ ReadStep \/ Seek
  PROVE  SpoolInv'
<1>0. /\ msReader \in ReaderRecs /\ msDemand \in Seq(Units) /\ Len(msDemand) <= 1
      /\ msReader.result = "eof" => msReader.pos = MediaUnits
      /\ LooksForEnd
  BY DEF SpoolInv, SpoolTypeOK, ReaderRecs, EofIsTheEnd
<1>1. CASE ReadBegins
  <2> DEFINE r == [msReader EXCEPT !.at = "reads", !.woken = FALSE, !.dropped = FALSE, !.result = "none"]
  <2>1. r \in ReaderRecs /\ r.pos = msReader.pos /\ r.at = "reads" /\ r.result = "none"
    BY <1>0 DEF ReaderRecs
  <2>2. msReader' = r /\ UNCHANGED <<readerOnly, msFiles, msSpans, msDemand>>
    BY <1>1 DEF ReadBegins
  <2> HIDE DEF r
  <2> QED
    BY <1>0, <2>1, <2>2, ReaderMoves
<1>2. CASE ReadAtEnd
  <2> DEFINE r == [msReader EXCEPT !.at = "idle", !.woken = FALSE, !.result = "eof"]
             p == {BlockOf(MediaUnits - 1)}
  <2>1. r \in ReaderRecs /\ r.pos = msReader.pos /\ r.at = "idle" /\ r.pos = MediaUnits
    BY <1>0, <1>2 DEF ReaderRecs, ReadAtEnd
  <2>2. /\ msReader' = r /\ UNCHANGED <<readerOnly, msDemand>>
        /\ msSpans' = Discarded(msSpans, p) /\ msFiles' = Discarded(msFiles, p)
    BY <1>2 DEF ReadAtEnd, Reads
  <2>3. \A u \in Units : ~(r.pos <= u)
    BY <2>1, SpoolAssumption DEF Units
  <2> HIDE DEF r, p
  <2>4. msReader.pos <= r.pos
    BY <2>1 DEF ReaderRecs
  <2> QED
    BY <2>1, <2>2, <2>3, <2>4, ReaderDiscards
<1>3. CASE ReadData
  <2>1. PICK k \in Runs(msReader.pos) :
          LET next == msReader.pos + k
              passed == {BlockOf(msReader.pos)} \ {BlockOf(next)} IN
          /\ msReader' = [msReader EXCEPT !.at = "idle", !.pos = next, !.woken = FALSE, !.result = "data"]
          /\ msSpans' = Discarded(msSpans, passed) /\ msFiles' = Discarded(msFiles, passed)
    BY <1>3 DEF ReadData
  <2>2. k \in Nat \ {0} /\ msReader.pos + k - 1 \in Units /\ msReader.pos \in Nat
    BY <1>0, SpoolAssumption DEF Runs, ReaderRecs
  <2> DEFINE n == msReader.pos + k
             p == {BlockOf(msReader.pos)} \ {BlockOf(n)}
             r == [msReader EXCEPT !.at = "idle", !.pos = n, !.woken = FALSE, !.result = "data"]
  <2>3. n \in 0..MediaUnits /\ msReader.pos <= n
    BY <2>2, SpoolAssumption DEF Units
  <2>4. r \in ReaderRecs /\ r.pos = n /\ r.at = "idle" /\ r.result = "data"
    BY <1>0, <2>3 DEF ReaderRecs
  <2>5. /\ msReader' = r /\ UNCHANGED <<readerOnly, msDemand>>
        /\ msSpans' = Discarded(msSpans, p) /\ msFiles' = Discarded(msFiles, p)
    BY <1>3, <2>1 DEF ReadData
  <2>6. ASSUME NEW u \in Units, n <= u PROVE BlockOf(u) \notin p
    <3> SUFFICES ASSUME BlockOf(u) = BlockOf(msReader.pos) PROVE BlockOf(n) = BlockOf(u)
      OBVIOUS
    <3>1. u \in 0..MediaUnits /\ msReader.pos \in 0..MediaUnits
      BY <1>0, SpoolAssumption DEF Units, ReaderRecs
    <3>2. BlockOf(n) <= BlockOf(u) /\ BlockOf(msReader.pos) <= BlockOf(n)
      BY <2>3, <2>6, <3>1, BlocksInOrder
    <3>3. BlockOf(n) \in Nat /\ BlockOf(u) \in Nat
      BY <2>3, <3>1, SpoolAssumption, Quotient DEF BlockOf
    <3> QED
      BY <3>2, <3>3
  <2> HIDE DEF n, p, r
  <2> QED
    BY <2>3, <2>4, <2>5, <2>6, ReaderDiscards
<1>4. CASE ReadMisses
  <2> DEFINE r == [msReader EXCEPT !.at = IF msRanged THEN "asks" ELSE "looks", !.woken = FALSE,
                                   !.result = "none"]
  <2>1. /\ r \in ReaderRecs /\ r.pos = msReader.pos /\ r.result = "none" /\ r.at \in {"asks", "looks"}
        /\ msRanged => r.at = "asks"
    BY <1>0 DEF ReaderRecs
  <2>3. msRanged => msReader.pos < MediaUnits
    BY <1>0, <1>4, SpoolAssumption DEF ReaderRecs, ReadMisses
  <2>4. r.at = "asks" => r.pos < MediaUnits
    BY <2>1, <2>3
  <2>2. msReader' = r /\ UNCHANGED <<readerOnly, msFiles, msSpans, msDemand>>
    BY <1>4 DEF ReadMisses, Reads
  <2> HIDE DEF r
  <2> QED
    BY <1>0, <2>1, <2>2, <2>4, ReaderMoves
<1>5. CASE ReadFails
  <2> DEFINE r == [msReader EXCEPT !.at = "idle", !.woken = FALSE, !.result = "error"]
  <2>1. r \in ReaderRecs /\ r.pos = msReader.pos /\ r.result = "error" /\ r.at = "idle"
    BY <1>0 DEF ReaderRecs
  <2>2. msReader' = r /\ UNCHANGED <<readerOnly, msFiles, msSpans, msDemand>>
    BY <1>5 DEF ReadFails, Reads
  <2> HIDE DEF r
  <2> QED
    BY <1>0, <2>1, <2>2, ReaderMoves
<1>6. CASE ReadLooksForEnd
  <2> DEFINE r == [msReader EXCEPT !.at = IF msSpool.ended THEN "rechecks" ELSE "waits"]
  <2>1. /\ r \in ReaderRecs /\ r.pos = msReader.pos /\ r.result = msReader.result
        /\ r.at = IF msSpool.ended THEN "rechecks" ELSE "waits"
    BY <1>0 DEF ReaderRecs
  <2>2. msReader' = r /\ UNCHANGED <<readerOnly, msFiles, msSpans, msDemand>>
    BY <1>6 DEF ReadLooksForEnd, EndSeen
  <2>3. ~msRanged
    BY <1>0, <1>6 DEF ReadLooksForEnd, LooksForEnd
  <2> HIDE DEF r
  <2> QED
    BY <1>0, <2>1, <2>2, <2>3, ReaderMoves
<1>7. CASE ReadRechecks
  <2>0. msReader.at = "rechecks" /\ ~Refuses /\ msSpool.ended /\ ~msRanged /\ UNCHANGED <<readerOnly, msDemand>>
    BY <1>0, <1>7 DEF ReadRechecks, LooksForEnd
  <2>1. CASE msReader.pos < MediaUnits /\ Valid(msReader.pos)
    <3> DEFINE r == [msReader EXCEPT !.at = "reads", !.woken = FALSE, !.result = "none"]
    <3>1. r \in ReaderRecs /\ r.pos = msReader.pos /\ r.result = "none" /\ r.at = "reads"
      BY <1>0 DEF ReaderRecs
    <3>2. msReader' = r /\ UNCHANGED <<readerOnly, msFiles, msSpans, msDemand>>
      BY <1>7, <2>1 DEF ReadRechecks, Reads
    <3> HIDE DEF r
    <3> QED
      BY <1>0, <3>1, <3>2, ReaderMoves
  <2>2. CASE ~(msReader.pos < MediaUnits /\ Valid(msReader.pos))
    <3> DEFINE r == [msReader EXCEPT !.at = "idle", !.woken = FALSE, !.result = "eof"]
               p == {BlockOf(msReader.pos)}
    <3>1. r \in ReaderRecs /\ r.pos = msReader.pos /\ r.at = "idle"
      BY <1>0 DEF ReaderRecs
    <3>2. /\ msReader' = r
          /\ msSpans' = Discarded(msSpans, p) /\ msFiles' = Discarded(msFiles, p)
      BY <1>7, <2>2 DEF ReadRechecks, Reads
    <3>3. msFetch["prefetch"].next = MediaUnits /\ ~msSpool.closed
      BY <2>0 DEF SpoolInv, PlainPrefetch, Refuses
    <3>4. msReader.pos = MediaUnits
      <4> SUFFICES ASSUME msReader.pos < MediaUnits PROVE FALSE
        BY <1>0, SpoolAssumption DEF ReaderRecs
      <4>1. msReader.pos \in Units /\ msReader.pos <= msReader.pos
        BY <1>0, SpoolAssumption DEF ReaderRecs, Units
      <4>2. Valid(msReader.pos)
        BY <2>0, <3>3, <4>1 DEF SpoolInv, NothingEvicted
      <4> QED
        BY <2>2, <4>2
    <3>5. \A u \in Units : ~(r.pos <= u)
      BY <3>1, <3>4, SpoolAssumption DEF Units
    <3>6. msReader.pos <= r.pos /\ r.pos = MediaUnits
      BY <1>0, <3>1, <3>4 DEF ReaderRecs
    <3> HIDE DEF r, p
    <3> QED
      BY <2>0, <3>1, <3>2, <3>5, <3>6, ReaderDiscards
  <2> QED
    BY <2>1, <2>2
<1>8. CASE ReadAsks
  <2> DEFINE w == msReader.dropped \/ msDemand \notin {<<>>, <<msReader.pos>>}
             r == [msReader EXCEPT !.at = "waits", !.dropped = w]
  <2>1. w \in BOOLEAN
    OBVIOUS
  <2>2. msReader' = r /\ UNCHANGED <<readerOnly, msFiles, msSpans>>
    BY <1>8 DEF ReadAsks
  <2> HIDE DEF w
  <2>3. r \in ReaderRecs /\ r.pos = msReader.pos /\ r.result = msReader.result /\ r.at = "waits"
    BY <1>0, <2>1 DEF ReaderRecs
  <2>4. msDemand' \in Seq(Units) /\ Len(msDemand') <= 1
    <3>1. CASE msDemand = <<>>
      <4>1. msReader.pos \in Units
        BY <1>0, <1>8, SpoolAssumption DEF ReadAsks, LooksForEnd, ReaderRecs, Units
      <4>2. msDemand' = <<msReader.pos>>
        BY <1>8, <3>1 DEF ReadAsks
      <4> QED
        BY <4>1, <4>2
    <3>2. CASE msDemand # <<>>
      BY <1>0, <1>8, <3>2 DEF ReadAsks
    <3> QED
      BY <3>1, <3>2
  <2> HIDE DEF r
  <2> QED
    BY <1>0, <2>2, <2>3, <2>4, ReaderMoves
<1>9. CASE ReadWakes
  <2> DEFINE r(a, e) == [msReader EXCEPT !.at = a, !.woken = FALSE, !.result = e]
  <2>1. PICK a \in {"reads", "idle"}, e \in {"none", "error"} : msReader' = r(a, e)
    BY <1>9 DEF ReadWakes, Reads
  <2>2. r(a, e) \in ReaderRecs /\ r(a, e).pos = msReader.pos /\ r(a, e).result = e /\ r(a, e).at = a
    BY <1>0 DEF ReaderRecs
  <2>3. UNCHANGED <<readerOnly, msFiles, msSpans, msDemand>>
    BY <1>9 DEF ReadWakes
  <2> HIDE DEF r
  <2> QED
    BY <1>0, <2>1, <2>2, <2>3, ReaderMoves
<1>10. CASE Seek
  <2>1. PICK pos \in 0..MediaUnits : msReader' = [msReader EXCEPT !.pos = pos, !.result = "none"]
    BY <1>10 DEF Seek
  <2>2. /\ msReader' \in ReaderRecs /\ msReader'.at = "idle" /\ msReader'.result = "none"
        /\ msRanged /\ UNCHANGED <<msRanged, msFiles, msSpans, msSpool, msDemand, msFetch, msNetwork, msCancelled>>
    BY <1>0, <1>10, <2>1 DEF Seek, ReaderRecs
  <2> QED
    BY <2>2 DEF SpoolInv, SpoolTypeOK, ReaderRecs, FetchInside, PlainPrefetch, NothingEvicted, LooksForEnd,
       EofIsTheEnd
<1> QED
  BY <1>1, <1>2, <1>3, <1>4, <1>5, <1>6, <1>7, <1>8, <1>9, <1>10 DEF ReadStep

-----------------------------------------------------------------------------
\* The fetches

\* One goroutine at most holds the network, and lets it go.
LEMMA LessNetwork ==
  ASSUME SpoolInv, NEW n \in SUBSET msNetwork
  PROVE  n \in SUBSET Fetchers /\ Cardinality(n) <= 1
<1>1. msNetwork \in SUBSET Fetchers /\ Cardinality(msNetwork) <= 1
  BY DEF SpoolInv, SpoolTypeOK
<1>2. IsFiniteSet({"prefetch"}) /\ IsFiniteSet({"demand"})
  BY FS_Singleton
<1>3. IsFiniteSet({"prefetch"} \cup {"demand"}) /\ Fetchers = {"prefetch"} \cup {"demand"}
  BY <1>2, FS_Union DEF Fetchers
<1>4. IsFiniteSet(msNetwork) /\ IsFiniteSet(n)
  BY <1>1, <1>3, FS_Subset
<1>5. /\ Cardinality(n) <= Cardinality(msNetwork)
      /\ Cardinality(n) \in Nat /\ Cardinality(msNetwork) \in Nat
  BY <1>4, FS_Subset, FS_CardinalityType
<1> QED
  BY <1>1, <1>5

\* A step of a fetch with ranges that writes nothing: the spool may end, and the
\* reader be woken.
LEMMA FetchMoves ==
  ASSUME SpoolInv, msRanged, NEW f \in Fetchers, NEW e \in FetchRecs,
         msFetch' = [msFetch EXCEPT ![f] = e],
         e.at \in {"queued", "holds"} => e.next <= e.end,
         e.at = "body" => e.next <= e.last /\ e.last < e.end,
         e.at = "idle" => msFetch[f].at # "idle" /\ f = "demand",
         msSpool' \in SpoolRecs, msSpool.ended => msSpool'.ended,
         msReader' \in {msReader, Notified},
         msNetwork' \subseteq msNetwork \/ msNetwork' = {f},
         msDemand' \in {<<>>, msDemand},
         UNCHANGED <<msRanged, msFiles, msSpans, msCancelled>>
  PROVE  SpoolInv'
<1>1. msFetch \in [Fetchers -> FetchRecs] /\ msReader \in ReaderRecs
  BY DEF SpoolInv, SpoolTypeOK, ReaderRecs, FetchRecs
<1>2. msFetch' \in [Fetchers -> FetchRecs]
  BY <1>1
<1>3. /\ msReader' \in ReaderRecs /\ msReader'.pos = msReader.pos /\ msReader'.at = msReader.at
      /\ msReader'.result = msReader.result
  BY <1>1 DEF Notified, ReaderRecs
<1>4. msNetwork' \in SUBSET Fetchers /\ Cardinality(msNetwork') <= 1
  <2>1. CASE msNetwork' \subseteq msNetwork
    BY <2>1, LessNetwork
  <2>2. CASE msNetwork' = {f}
    <3>1. {f} \in SUBSET Fetchers /\ Cardinality({f}) = 1
      BY FS_Singleton
    <3> QED
      BY <2>2, <3>1
  <2> QED
    BY <2>1, <2>2
<1>5. msDemand' \in Seq(Units) /\ Len(msDemand') <= 1
  <2>1. msDemand \in Seq(Units) /\ Len(msDemand) <= 1
    BY DEF SpoolInv, SpoolTypeOK
  <2>2. CASE msDemand' = <<>>
    BY <2>2
  <2>3. CASE msDemand' = msDemand
    BY <2>1, <2>3
  <2> QED
    BY <2>2, <2>3
<1>6. SpoolTypeOK'
  BY <1>2, <1>3, <1>4, <1>5 DEF SpoolInv, SpoolTypeOK, ReaderRecs, FetchRecs, SpoolRecs
<1>7. FetchInside'
  BY <1>1 DEF SpoolInv, FetchInside
<1> QED
  BY <1>3, <1>6, <1>7 DEF SpoolInv, PlainPrefetch, NothingEvicted, LooksForEnd, EofIsTheEnd
\* A failure ends the spool with an error.
LEMMA FetchGivenUp ==
  ASSUME SpoolInv, NEW f \in Fetchers, ~msRanged => f = "prefetch", FetchFails(f), msFetch[f].at # "idle",
         UNCHANGED <<msRanged, msDemand, msCancelled>>
  PROVE  SpoolInv'
<1>0. /\ msFetch \in [Fetchers -> FetchRecs] /\ msReader \in ReaderRecs /\ msSpool \in SpoolRecs
  BY DEF SpoolInv, SpoolTypeOK, ReaderRecs, FetchRecs, SpoolRecs
<1> DEFINE o == Over(f)
<1>1. o \in FetchRecs /\ o.at = "gone"
  BY <1>0 DEF Over, FetchRecs
<1>2. /\ msFetch' = [msFetch EXCEPT ![f] = o] /\ msNetwork' = msNetwork \ {f}
      /\ msSpool' = [msSpool EXCEPT !.ended = TRUE, !.failed = TRUE] /\ msReader' = Notified
      /\ UNCHANGED <<msFiles, msSpans>>
  BY DEF FetchFails, To, End
<1>3. msSpool' \in SpoolRecs /\ msSpool'.ended /\ msSpool'.failed /\ msSpool'.closed = msSpool.closed
  BY <1>0, <1>2 DEF SpoolRecs
<1>4. /\ msReader' \in ReaderRecs /\ msReader'.pos = msReader.pos /\ msReader'.at = msReader.at
      /\ msReader'.result = msReader.result
  BY <1>0, <1>2 DEF Notified, ReaderRecs
<1>5. msNetwork' \in SUBSET Fetchers /\ Cardinality(msNetwork') <= 1
  BY <1>2, LessNetwork
<1> HIDE DEF o
<1>6. msFetch' \in [Fetchers -> FetchRecs]
  BY <1>0, <1>1, <1>2
<1>7. SpoolTypeOK'
  BY <1>2, <1>3, <1>4, <1>5, <1>6 DEF SpoolInv, SpoolTypeOK, ReaderRecs, FetchRecs, SpoolRecs
<1>8. FetchInside'
  BY <1>0, <1>1, <1>2 DEF SpoolInv, FetchInside
<1>9. PlainPrefetch'
  BY <1>0, <1>1, <1>2, <1>3 DEF SpoolInv, PlainPrefetch
<1>10. msFetch'["prefetch"].next = msFetch["prefetch"].next
  BY <1>0, <1>1, <1>2 DEF Over, o, FetchRecs
<1>11. NothingEvicted'
  BY <1>2, <1>3, <1>4, <1>10 DEF SpoolInv, NothingEvicted, Valid
<1> QED
  BY <1>2, <1>3, <1>4, <1>7, <1>8, <1>9, <1>11 DEF SpoolInv, LooksForEnd, EofIsTheEnd

\* The goroutines of a source with ranges.
LEMMA RangedSteps ==
  ASSUME SpoolInv,
         OpenSpool \/ DemandTaken \/ DemandLeaves \/ \E f \in Fetchers : FetchLocks(f) \/ FetchLooks(f)
  PROVE  SpoolInv'
<1>0. /\ msFetch \in [Fetchers -> FetchRecs] /\ msReader \in ReaderRecs /\ msSpool \in SpoolRecs
      /\ msDemand \in Seq(Units) /\ Len(msDemand) <= 1 /\ FetchInside /\ PlainPrefetch
      /\ "prefetch" \in Fetchers /\ "demand" \in Fetchers /\ MediaUnits \in Nat \ {0}
  BY SpoolAssumption DEF SpoolInv, SpoolTypeOK, ReaderRecs, FetchRecs, SpoolRecs, Fetchers
<1>1. CASE OpenSpool
  <2> DEFINE e == [msFetch["prefetch"] EXCEPT !.at = "queued", !.end = FetchEnd(0)]
             first == [b \in Blocks |-> IF msRanged /\ b = 0 THEN {0} ELSE {}]
  <2>1. /\ msFetch' = [msFetch EXCEPT !["prefetch"] = e] /\ msFiles' = first /\ msSpans' = first
        /\ msFetch["prefetch"].at = "idle"
        /\ UNCHANGED <<msRanged, msSpool, msReader, msDemand, msNetwork, msCancelled, msSeeks, msBreaks>>
    BY <1>1 DEF OpenSpool, Opened
  <2>2. FetchEnd(0) \in 0..MediaUnits
    BY <1>0, FetchEndsInside
  <2>3. msFetch["prefetch"].next = 0
    BY <1>0, <2>1 DEF FetchInside
  <2>4. e \in FetchRecs /\ e.at = "queued" /\ e.next = 0 /\ e.end \in Nat
    <3> DEFINE m == FetchEnd(0)
    <3>1. m \in 0..MediaUnits /\ msFetch["prefetch"] \in FetchRecs
      BY <1>0, <2>2
    <3> HIDE DEF m
    <3>2. [msFetch["prefetch"] EXCEPT !.at = "queued", !.end = m] \in FetchRecs
      BY <3>1 DEF FetchRecs
    <3> QED
      BY <1>0, <2>3, <3>1, <3>2 DEF FetchRecs, m
  <2> HIDE DEF e
  <2>5. first \in [Blocks -> SUBSET Units]
    BY <1>0 DEF Units
  <2> HIDE DEF first
  <2>6. SpoolTypeOK'
    BY <1>0, <2>1, <2>4, <2>5 DEF SpoolInv, SpoolTypeOK, FetchRecs
  <2>7. FetchInside'
    BY <1>0, <2>1, <2>4 DEF FetchInside
  <2>8. NothingEvicted'
    BY <1>0, <2>1, <2>4 DEF NothingEvicted, Units, ReaderRecs
  <2>9. PlainPrefetch'
    BY <1>0, <2>1, <2>4 DEF PlainPrefetch
  <2> QED
    BY <2>1, <2>6, <2>7, <2>8, <2>9 DEF SpoolInv, LooksForEnd, EofIsTheEnd
<1>2. CASE DemandTaken
  <2> DEFINE u == Head(msDemand)
             from == BlockUnits * BlockOf(u)
             e == [msFetch["demand"] EXCEPT !.at = "queued", !.next = from, !.end = FetchEnd(from)]
  <2>1. /\ msRanged /\ msFetch["demand"].at = "idle" /\ msDemand # <<>> /\ msDemand' = <<>>
        /\ msFetch' = msFetch \/ msFetch' = [msFetch EXCEPT !["demand"] = e]
        /\ UNCHANGED <<msRanged, msFiles, msSpans, msSpool, msReader, msNetwork, msCancelled, msSeeks, msBreaks>>
    BY <1>2 DEF DemandTaken, To
  <2>2. u \in Units
    BY <1>0, <2>1
  <2>3. from \in 0..MediaUnits
    BY <1>0, <2>2, BlocksInOrder DEF Units
  <2> HIDE DEF from
  <2>4. FetchEnd(from) \in from..MediaUnits
    BY <2>3, FetchEndsInside
  <2>5. e \in FetchRecs /\ e.at = "queued" /\ e.next = from /\ e.end = FetchEnd(from)
    <3> DEFINE m == FetchEnd(from)
    <3>1. m \in 0..MediaUnits /\ msFetch["demand"] \in FetchRecs
      BY <1>0, <2>3, <2>4
    <3> HIDE DEF m
    <3>2. [msFetch["demand"] EXCEPT !.at = "queued", !.next = from, !.end = m] \in FetchRecs
      BY <2>3, <3>1 DEF FetchRecs
    <3> QED
      BY <3>1, <3>2 DEF FetchRecs, m
  <2>6. from <= FetchEnd(from)
    BY <2>3, <2>4
  <2> HIDE DEF e, u
  <2>7. CASE msFetch' = msFetch
    <3>1. <<>> \in Seq(Units) /\ Len(<<>>) = 0
      OBVIOUS
    <3> QED
      BY <2>1, <2>7, <3>1 DEF SpoolInv, SpoolTypeOK, FetchInside, PlainPrefetch, NothingEvicted, LooksForEnd,
         EofIsTheEnd, Valid
  <2>8. CASE msFetch' = [msFetch EXCEPT !["demand"] = e]
    BY <1>0, <2>1, <2>5, <2>6, <2>8, FetchMoves
  <2> QED
    BY <2>1, <2>7, <2>8
<1>3. CASE DemandLeaves
  <2>1. /\ msFetch["demand"].at = "idle" /\ msFetch' = [msFetch EXCEPT !["demand"] = Over("demand")]
        /\ UNCHANGED <<msRanged, msFiles, msSpans, msSpool, msReader, msDemand, msNetwork, msCancelled, msSeeks, msBreaks>>
    BY <1>3 DEF DemandLeaves, To
  <2>2. Over("demand") \in FetchRecs /\ Over("demand").at = "gone"
    BY <1>0 DEF Over, FetchRecs
  <2> DEFINE o == Over("demand")
  <2> HIDE DEF o
  <2>5. o \in FetchRecs /\ o.at = "gone" /\ msFetch' = [msFetch EXCEPT !["demand"] = o]
    BY <2>1, <2>2 DEF o
  <2>6. msFetch' \in [Fetchers -> FetchRecs]
    BY <1>0, <2>5
  <2>7. SpoolTypeOK'
    BY <2>1, <2>6 DEF SpoolInv, SpoolTypeOK, FetchRecs
  <2>3. SpoolTypeOK' /\ FetchInside'
    BY <1>0, <2>1, <2>5, <2>7 DEF FetchInside
  <2>4. PlainPrefetch' /\ msFetch'["prefetch"] = msFetch["prefetch"]
    BY <1>0, <2>1, <2>2 DEF PlainPrefetch
  <2> QED
    BY <2>1, <2>3, <2>4 DEF SpoolInv, NothingEvicted, LooksForEnd, EofIsTheEnd, Valid
<1>4. ASSUME NEW f \in Fetchers, FetchLocks(f) PROVE SpoolInv'
  <2>1. /\ msRanged /\ msFetch[f].at = "queued" /\ msFetch[f] \in FetchRecs /\ msFetch[f].next <= msFetch[f].end
        /\ UNCHANGED <<msRanged, msDemand, msCancelled, msSeeks, msBreaks>>
    BY <1>0, <1>4 DEF FetchLocks, FetchInside
  <2>2. CASE msCancelled
    BY <1>4, <2>1, <2>2, FetchGivenUp DEF FetchLocks
  <2>3. CASE ~msCancelled
    <3> DEFINE e == [msFetch[f] EXCEPT !.at = "holds"]
    <3>1. e \in FetchRecs /\ e.at = "holds" /\ e.next <= e.end
      BY <2>1 DEF FetchRecs
    <3>2. /\ msFetch' = [msFetch EXCEPT ![f] = e] /\ msNetwork' = {f}
          /\ UNCHANGED <<msFiles, msSpans, msSpool, msReader>>
      BY <1>4, <2>3 DEF FetchLocks, To
    <3> HIDE DEF e
    <3> QED
      BY <1>0, <2>1, <3>1, <3>2, FetchMoves
  <2> QED
    BY <2>2, <2>3
<1>5. ASSUME NEW f \in Fetchers, FetchLooks(f) PROVE SpoolInv'
  <2>1. /\ msFetch[f].at = "holds" /\ msFetch[f] \in FetchRecs
        /\ UNCHANGED <<msRanged, msDemand, msCancelled, msSeeks, msBreaks>>
    BY <1>0, <1>5 DEF FetchLooks
  <2>2. msRanged
    BY <1>0, <2>1 DEF PlainPrefetch, Fetchers
  <2>3. msFetch[f].next <= msFetch[f].end
    BY <1>0, <2>1, <2>2 DEF FetchInside
  <2>4. CASE msFetch[f].next = msFetch[f].end /\ FetchEnds(f)
    <3>1. CASE f = "demand"
      <4> DEFINE e == [msFetch[f] EXCEPT !.at = "idle"]
      <4>1. e \in FetchRecs /\ e.at = "idle"
        BY <2>1 DEF FetchRecs
      <4>2. /\ msFetch' = [msFetch EXCEPT ![f] = e] /\ msNetwork' = msNetwork \ {f}
            /\ UNCHANGED <<msFiles, msSpans, msSpool, msReader>>
        BY <2>4, <3>1 DEF FetchEnds, To
      <4>3. msNetwork' \subseteq msNetwork
        BY <4>2
      <4> HIDE DEF e
      <4> QED
        BY <1>0, <2>1, <2>2, <3>1, <4>1, <4>2, <4>3, FetchMoves
    <3>2. CASE f # "demand"
      <4> DEFINE more == msFetch[f].end < MediaUnits
                 n == msFetch[f].end
                 q == [at |-> "queued", next |-> n, end |-> FetchEnd(n), last |-> 0]
                 e == IF more THEN q ELSE Over(f)
      <4>1. /\ msFetch' = [msFetch EXCEPT ![f] = e] /\ msNetwork' = msNetwork \ {f}
            /\ UNCHANGED <<msFiles, msSpans>>
            /\ IF more THEN UNCHANGED <<msSpool, msReader>> ELSE End(FALSE)
        BY <2>4, <3>2 DEF FetchEnds, To, Fetchers
      <4>2. n \in 0..MediaUnits
        BY <2>1 DEF FetchRecs
      <4>3. FetchEnd(n) \in n..MediaUnits
        BY <4>2, FetchEndsInside
      <4>4. q \in FetchRecs /\ q.at = "queued" /\ q.next <= q.end
        BY <1>0, <4>2, <4>3 DEF FetchRecs
      <4>5. Over(f) \in FetchRecs /\ Over(f).at = "gone"
        BY <2>1 DEF Over, FetchRecs
      <4> HIDE DEF q, n
      <4>6. e \in FetchRecs /\ e.at \in {"queued", "gone"} /\ (e.at = "queued" => e.next <= e.end)
        BY <4>4, <4>5
      <4>7. msSpool' \in SpoolRecs /\ (msSpool.ended => msSpool'.ended)
        BY <1>0, <4>1 DEF End, SpoolRecs
      <4>8. msReader' \in {msReader, Notified}
        BY <4>1 DEF End
      <4>9. msNetwork' \subseteq msNetwork
        BY <4>1
      <4> HIDE DEF e, more
      <4> QED
        BY <1>0, <2>1, <2>2, <4>1, <4>6, <4>7, <4>8, <4>9, FetchMoves
    <3> QED
      BY <3>1, <3>2
  <2>5. CASE FetchFails(f)
    BY <2>1, <2>2, <2>5, FetchGivenUp
  <2> DEFINE same == UNCHANGED <<msFiles, msSpans, msSpool, msReader, msNetwork>>
  <2>6. CASE msFetch[f].next < msFetch[f].end /\ To(f, [msFetch[f] EXCEPT !.next = @ + 1]) /\ same
    <3> DEFINE e == [msFetch[f] EXCEPT !.next = @ + 1]
    <3>1. e \in FetchRecs /\ e.at = "holds" /\ e.next <= e.end
      <4>1. msFetch[f].next + 1 \in 0..MediaUnits /\ msFetch[f].next + 1 <= msFetch[f].end
        BY <1>0, <2>1, <2>6 DEF FetchRecs
      <4> DEFINE m == msFetch[f]
                 n == msFetch[f].next + 1
      <4>2. m \in FetchRecs /\ m.at = "holds" /\ n \in 0..MediaUnits /\ n <= m.end
        BY <2>1, <4>1
      <4>3. e = [m EXCEPT !.next = n]
        OBVIOUS
      <4> HIDE DEF m, n, e
      <4> QED
        BY <4>2, <4>3 DEF FetchRecs
    <3>2. msFetch' = [msFetch EXCEPT ![f] = e]
      BY <2>6 DEF To
    <3> HIDE DEF e
    <3> QED
      BY <1>0, <2>1, <2>2, <2>6, <3>1, <3>2, FetchMoves
  <2>7. ASSUME NEW last \in msFetch[f].next..(msFetch[f].end - 1),
               To(f, [msFetch[f] EXCEPT !.at = "body", !.last = last]), same
        PROVE  SpoolInv'
    <3> DEFINE e == [msFetch[f] EXCEPT !.at = "body", !.last = last]
    <3>1. e \in FetchRecs /\ e.at = "body" /\ e.next <= e.last /\ e.last < e.end
      <4>1. last \in 0..MediaUnits /\ msFetch[f].next <= last /\ last < msFetch[f].end
        BY <1>0, <2>1, <2>7 DEF FetchRecs
      <4> DEFINE m == msFetch[f]
                 a == "body"
      <4>2. m \in FetchRecs /\ m.next <= last /\ last < m.end /\ a \in {"idle", "queued", "holds", "body", "gone"}
        BY <2>1, <4>1
      <4>3. e = [m EXCEPT !.at = a, !.last = last]
        OBVIOUS
      <4> HIDE DEF m, a, e
      <4>4. e \in FetchRecs /\ e.at = a /\ e.next = m.next /\ e.last = last /\ e.end = m.end
        BY <4>1, <4>2, <4>3 DEF FetchRecs
      <4> QED
        BY <4>2, <4>4 DEF a
    <3>2. msFetch' = [msFetch EXCEPT ![f] = e]
      BY <2>7 DEF To
    <3> HIDE DEF e
    <3> QED
      BY <1>0, <2>1, <2>2, <2>7, <3>1, <3>2, FetchMoves
  <2> QED
    BY <1>5, <2>1, <2>4, <2>5, <2>6, <2>7 DEF FetchLooks
<1> QED
  BY <1>1, <1>2, <1>3, <1>4, <1>5

\* A unit is written: to the files, the spans, and the reader is woken.
LEMMA WriteKeeps ==
  ASSUME SpoolInv, NEW f \in Fetchers, NEW e \in FetchRecs, WriteAt(msFetch[f].next),
         msFetch[f].next \in Units, ~msRanged => f = "prefetch" /\ ~msSpool.ended /\ e.at = "queued",
         msFetch' = [msFetch EXCEPT ![f] = e], e.next = msFetch[f].next + 1,
         msRanged => e.at \in {"holds", "body"},
         e.at = "holds" => e.next <= e.end,
         e.at = "body" => e.next <= e.last /\ e.last < e.end,
         UNCHANGED <<msRanged, msSpool, msNetwork, msDemand, msCancelled>>
  PROVE  SpoolInv'
<1> DEFINE u == msFetch[f].next
<1>0. /\ msFetch \in [Fetchers -> FetchRecs] /\ msReader \in ReaderRecs
      /\ msSpans \in [Blocks -> SUBSET Units] /\ msFiles \in [Blocks -> SUBSET Units]
      /\ BlockOf(u) \in Blocks
  BY BlocksInOrder DEF SpoolInv, SpoolTypeOK, ReaderRecs, FetchRecs
<1>1. /\ msReader' \in ReaderRecs /\ msReader'.pos = msReader.pos /\ msReader'.at = msReader.at
      /\ msReader'.result = msReader.result
  BY <1>0 DEF WriteAt, Notified, ReaderRecs
<1>2. /\ msSpans' = [msSpans EXCEPT ![BlockOf(u)] = @ \cup {u}]
      /\ msFiles' = [msFiles EXCEPT ![BlockOf(u)] = @ \cup {u}]
  BY DEF WriteAt
<1>3. msSpans' \in [Blocks -> SUBSET Units] /\ msFiles' \in [Blocks -> SUBSET Units]
  BY <1>0, <1>2
<1>4. msFetch' \in [Fetchers -> FetchRecs]
  BY <1>0
<1>5. SpoolTypeOK'
  BY <1>1, <1>3, <1>4 DEF SpoolInv, SpoolTypeOK, ReaderRecs, FetchRecs
<1>6. FetchInside'
  BY <1>0 DEF SpoolInv, FetchInside, FetchRecs
<1>7. PlainPrefetch'
  BY <1>0 DEF SpoolInv, PlainPrefetch
<1>8. NothingEvicted'
  <2> SUFFICES ASSUME ~msRanged, ~msSpool.closed, NEW v \in Units, msReader.pos <= v, v < u + 1
               PROVE  Valid(v)'
    BY <1>0, <1>1 DEF NothingEvicted
  <2>1. BlockOf(v) \in Blocks
    BY BlocksInOrder
  <2>2. CASE v = u
    BY <1>0, <1>2, <2>2 DEF Valid
  <2>3. CASE v < u
    <3>1. Valid(v)
      BY <2>3 DEF SpoolInv, NothingEvicted
    <3> QED
      BY <1>0, <1>2, <2>1, <3>1 DEF Valid
  <2>4. v \in Int /\ u \in Int
    BY SpoolAssumption DEF Units
  <2> QED
    BY <2>2, <2>3, <2>4
<1> QED
  BY <1>1, <1>5, <1>6, <1>7, <1>8 DEF SpoolInv, LooksForEnd, EofIsTheEnd

\* A response arrives unit by unit, or breaks; the source is copied; Close.
LEMMA BodySteps ==
  ASSUME SpoolInv,
         CopyUnit \/ CloseSpool \/ CloseRemoves \/ \E f \in Fetchers : FetchReceives(f) \/ FetchBreaks(f)
  PROVE  SpoolInv'
<1>0. /\ msFetch \in [Fetchers -> FetchRecs] /\ msReader \in ReaderRecs /\ msSpool \in SpoolRecs
      /\ FetchInside /\ PlainPrefetch
      /\ "prefetch" \in Fetchers /\ "demand" \in Fetchers /\ MediaUnits \in Nat \ {0}
  BY SpoolAssumption DEF SpoolInv, SpoolTypeOK, ReaderRecs, FetchRecs, SpoolRecs, Fetchers
<1>1. ASSUME NEW f \in Fetchers, FetchReceives(f) PROVE SpoolInv'
  <2>1. /\ msFetch[f].at = "body" /\ msFetch[f] \in FetchRecs
        /\ UNCHANGED <<msRanged, msDemand, msCancelled, msSeeks, msBreaks>>
    BY <1>0, <1>1 DEF FetchReceives
  <2>2. msRanged
    BY <1>0, <2>1 DEF PlainPrefetch, Fetchers
  <2>3. msFetch[f].next <= msFetch[f].last /\ msFetch[f].last < msFetch[f].end
    BY <1>0, <2>1 DEF FetchInside
  <2>4. CASE Refuses
    BY <1>1, <2>1, <2>2, <2>4, FetchGivenUp DEF FetchReceives
  <2>5. CASE ~Refuses
    <3> DEFINE a == IF msFetch[f].next = msFetch[f].last THEN "holds" ELSE "body"
               e == [msFetch[f] EXCEPT !.next = @ + 1, !.at = a]
    <3>1. /\ WriteAt(msFetch[f].next) /\ msFetch' = [msFetch EXCEPT ![f] = e]
          /\ UNCHANGED <<msSpool, msNetwork>>
      BY <1>1, <2>5 DEF FetchReceives, To
    <3>2. /\ e \in FetchRecs /\ e.next = msFetch[f].next + 1 /\ e.at = a /\ e.last = msFetch[f].last
          /\ e.end = msFetch[f].end
      <4>1. msFetch[f].next + 1 \in 0..MediaUnits
        BY <1>0, <2>1, <2>3 DEF FetchRecs
      <4> HIDE DEF a
      <4>2. a \in {"idle", "queued", "holds", "body", "gone"}
        BY DEF a
      <4> QED
        <5> DEFINE m == msFetch[f]
                   n == msFetch[f].next + 1
        <5>1. m \in FetchRecs /\ n \in 0..MediaUnits /\ e = [m EXCEPT !.next = n, !.at = a]
          BY <2>1, <4>1
        <5> HIDE DEF m, n, e
        <5>2. e.next = n /\ e \in FetchRecs /\ e.at = a /\ e.last = m.last /\ e.end = m.end
          BY <4>2, <5>1 DEF FetchRecs
        <5> QED
          BY <5>2 DEF m, n
    <3>3. /\ e.at \in {"holds", "body"} /\ (e.at = "holds" => e.next <= e.end)
          /\ (e.at = "body" => e.next <= e.last /\ e.last < e.end)
      BY <2>1, <2>3, <3>2 DEF FetchRecs
    <3>4. msFetch[f].next \in Units
      BY <1>0, <2>1, <2>3 DEF FetchRecs, Units
    <3> HIDE DEF e
    <3> QED
      BY <2>1, <2>2, <3>1, <3>2, <3>3, <3>4, WriteKeeps
  <2> QED
    BY <2>4, <2>5
<1>2. ASSUME NEW f \in Fetchers, FetchBreaks(f) PROVE SpoolInv'
  <2>1. msFetch[f].at = "body" /\ FetchFails(f) /\ UNCHANGED <<msRanged, msDemand, msCancelled>>
    BY <1>2 DEF FetchBreaks
  <2>2. msRanged
    BY <1>0, <2>1 DEF PlainPrefetch, Fetchers
  <2> QED
    BY <2>1, <2>2, FetchGivenUp
<1>3. CASE CopyUnit
  <2> DEFINE f == "prefetch"
  <2>1. /\ ~msRanged /\ msFetch[f].at = "queued" /\ msFetch[f] \in FetchRecs
        /\ UNCHANGED <<msRanged, msDemand, msCancelled, msSeeks>>
    BY <1>0, <1>3 DEF CopyUnit
  <2>2. CASE /\ msFetch[f].next < MediaUnits /\ ~msSpool.ended
             /\ WriteAt(msFetch[f].next) /\ To(f, [msFetch[f] EXCEPT !.next = @ + 1])
             /\ UNCHANGED <<msSpool, msNetwork>>
    <3> DEFINE e == [msFetch[f] EXCEPT !.next = @ + 1]
    <3>1. msFetch' = [msFetch EXCEPT ![f] = e]
      BY <2>2 DEF To
    <3>2. e \in FetchRecs /\ e.next = msFetch[f].next + 1 /\ e.at = "queued"
      BY <2>1, <2>2, <1>0 DEF FetchRecs
    <3>3. msFetch[f].next \in Units
      BY <1>0, <2>1, <2>2 DEF FetchRecs, Units
    <3> HIDE DEF e
    <3> QED
      BY <1>0, <2>1, <2>2, <3>1, <3>2, <3>3, WriteKeeps
  <2>3. CASE /\ msFetch[f].next = MediaUnits /\ To(f, Over(f)) /\ End(FALSE)
             /\ UNCHANGED <<msFiles, msSpans, msNetwork>>
    <3> DEFINE o == Over(f)
    <3>1. o \in FetchRecs /\ o.at = "gone" /\ o.next = MediaUnits /\ msFetch' = [msFetch EXCEPT ![f] = o]
      BY <2>1, <2>3 DEF Over, FetchRecs, To
    <3>2. /\ msSpool' \in SpoolRecs /\ msSpool'.ended /\ msSpool'.closed = msSpool.closed
          /\ msReader' = Notified
      BY <1>0, <2>3 DEF End, SpoolRecs
    <3>3. /\ msReader' \in ReaderRecs /\ msReader'.pos = msReader.pos /\ msReader'.at = msReader.at
          /\ msReader'.result = msReader.result
      BY <1>0, <3>2 DEF Notified, ReaderRecs
    <3> HIDE DEF o, f
    <3>4. f = "prefetch" /\ f \in Fetchers
      BY <1>0 DEF f
    <3>5. msFetch' \in [Fetchers -> FetchRecs]
      BY <1>0, <3>1, <3>4
    <3>6. SpoolTypeOK'
      BY <2>1, <2>3, <3>2, <3>3, <3>5 DEF SpoolInv, SpoolTypeOK, ReaderRecs, FetchRecs, SpoolRecs
    <3>7. FetchInside'
      BY <1>0, <2>1, <3>1, <3>4 DEF FetchInside
    <3>8. PlainPrefetch'
      BY <1>0, <2>1, <3>1, <3>4 DEF PlainPrefetch
    <3>9. NothingEvicted'
      BY <1>0, <2>1, <2>3, <3>1, <3>2, <3>3, <3>4 DEF SpoolInv, NothingEvicted, Valid
    <3> QED
      BY <2>1, <3>2, <3>3, <3>6, <3>7, <3>8, <3>9 DEF SpoolInv, LooksForEnd, EofIsTheEnd
  <2>4. CASE FetchFails(f)
    BY <1>0, <2>1, <2>4, FetchGivenUp
  <2> QED
    BY <1>3, <2>2, <2>3, <2>4 DEF CopyUnit
<1>4. CASE CloseSpool
  BY <1>4 DEF CloseSpool, SpoolInv, SpoolTypeOK, FetchInside, PlainPrefetch, NothingEvicted, LooksForEnd,
     EofIsTheEnd, Valid
<1>5. CASE CloseRemoves
  <2>1. /\ msSpool' = [msSpool EXCEPT !.closed = TRUE] /\ msReader' = Notified
        /\ msSpans' = [b \in Blocks |-> {}] /\ msFiles' = [b \in Blocks |-> {}]
        /\ UNCHANGED <<msRanged, msDemand, msFetch, msNetwork, msCancelled, msSeeks, msBreaks>>
    BY <1>5 DEF CloseRemoves
  <2>2. /\ msSpool' \in SpoolRecs /\ msSpool'.ended = msSpool.ended /\ msSpool'.failed = msSpool.failed
        /\ msSpool'.closed
    BY <1>0, <2>1 DEF SpoolRecs
  <2>3. /\ msReader' \in ReaderRecs /\ msReader'.pos = msReader.pos /\ msReader'.at = msReader.at
        /\ msReader'.result = msReader.result
    BY <1>0, <2>1 DEF Notified, ReaderRecs
  <2>4. msSpans' \in [Blocks -> SUBSET Units] /\ msFiles' \in [Blocks -> SUBSET Units]
    BY <2>1
  <2> QED
    BY <2>1, <2>2, <2>3, <2>4 DEF SpoolInv, SpoolTypeOK, FetchInside, PlainPrefetch, NothingEvicted, LooksForEnd,
       EofIsTheEnd, ReaderRecs, SpoolRecs
<1> QED
  BY <1>1, <1>2, <1>3, <1>4, <1>5

\* Every behaviour of the spool keeps to the inductive invariant.
THEOREM SpoolInvariant == SpoolSpec => []SpoolInv
<1>1. SpoolInit => SpoolInv
  <2> SUFFICES ASSUME SpoolInit PROVE SpoolInv
    OBVIOUS
  <2>1. MediaUnits \in Nat \ {0} /\ Cardinality({}) = 0
    BY SpoolAssumption, FS_EmptySet
  <2>2. /\ \A f \in Fetchers : msFetch[f] = [at |-> "idle", next |-> 0, end |-> 0, last |-> 0]
        /\ "prefetch" \in Fetchers /\ "demand" \in Fetchers
    BY DEF SpoolInit, Fetchers
  <2>3. msFetch \in [Fetchers -> FetchRecs] /\ msReader \in ReaderRecs /\ msSpool \in SpoolRecs
    BY <2>1 DEF SpoolInit, FetchRecs, ReaderRecs, SpoolRecs
  <2>4. msDemand \in Seq(Units) /\ Len(msDemand) <= 1
    BY DEF SpoolInit
  <2>5. SpoolTypeOK
    BY <2>1, <2>3, <2>4 DEF SpoolInit, SpoolTypeOK, FetchRecs, ReaderRecs, SpoolRecs
  <2>6. FetchInside /\ PlainPrefetch /\ NothingEvicted
    BY <2>1, <2>2 DEF SpoolInit, FetchInside, PlainPrefetch, NothingEvicted, Units
  <2> QED
    BY <2>5, <2>6 DEF SpoolInit, SpoolInv, LooksForEnd, EofIsTheEnd
<1>2. SpoolInv /\ [SpoolNext]_spoolVars => SpoolInv'
  <2> SUFFICES ASSUME SpoolInv, [SpoolNext]_spoolVars PROVE SpoolInv'
    OBVIOUS
  <2>1. CASE UNCHANGED spoolVars
    BY <2>1 DEF SpoolInv, SpoolTypeOK, FetchInside, PlainPrefetch, NothingEvicted, LooksForEnd, EofIsTheEnd, Valid,
       spoolVars
  <2>2. CASE SpoolNext
    BY <2>2, ReadSteps, RangedSteps, BodySteps DEF SpoolNext, FetchStep
  <2> QED
    BY <2>1, <2>2
<1> QED
  BY <1>1, <1>2, PTL DEF SpoolSpec

\* The end of file that FFmpeg sees is the end of the source, for any sizes of the
\* source, of a block and of a fetch.
THEOREM EofIsReal == SpoolSpec => []EofIsTheEnd
<1>1. SpoolInv => EofIsTheEnd
  BY DEF SpoolInv
<1> QED
  BY <1>1, SpoolInvariant, PTL

\* Type correctness of the spool.
THEOREM SpoolTypeCorrect == SpoolSpec => []SpoolTypeOK
<1>1. SpoolInv => SpoolTypeOK
  BY DEF SpoolInv
<1> QED
  BY <1>1, SpoolInvariant, PTL

-----------------------------------------------------------------------------
\* The inductive invariant of BlobPipe

SourceRecs == [sized : BOOLEAN, ranged : BOOLEAN, produces : BOOLEAN, failures : 0..RangeFailures, broken : BOOLEAN]
JobRecs == {"open", "cancel", "true", "false"} \X Pipes
UnitSeqs == Seq(1..2 * PipeChunks)
HandlerRecs == [at : {"idle", "opening", "waiting", "reading", "closing", "cancelling", "refused", "gone"},
                limit : {0, BlobUnits}, ranged : BOOLEAN, result : {"none", "whole", "failed", "left"}]
PipeRecs == [ready : BOOLEAN, listed : BOOLEAN, closed : BOOLEAN, ch : Seq(PipeItems), buf : Seq(1..2 * PipeChunks)]
EndRecs == [at : {"none", "looking", "sending", "done"}, item : PipeItems]
ScriptRecs == [at : {"none", "opening", "reading", "pushing", "ended"}, cancel : BOOLEAN, made : 0..PipeChunks,
               reader : {"none", "open", "finished", "failed", "cancelled"}]

EndItems == {<<"end">>, <<"error">>}

\* A handler that has not ended its copy.
Reading(p) == bpHandler[p].at \in {"idle", "opening", "waiting", "reading"}

\* What the closures in the loop's queue stand for, each of them once.
JobClass(kind) == IF kind \in {"true", "false"} THEN "answer" ELSE kind
JobsKnown ==
    /\ \A i \in DOMAIN bpJobs : LET p == bpJobs[i][2] IN
         CASE bpJobs[i][1] = "open"   -> bpHandler[p].at = "opening"
           [] bpJobs[i][1] = "cancel" -> bpHandler[p].at = "cancelling"
           [] OTHER                   -> bpScript[p].at = "pushing" /\ bpPush[p] = "none"
    /\ \A i, j \in DOMAIN bpJobs :
         bpJobs[i][2] = bpJobs[j][2] /\ JobClass(bpJobs[i][1]) = JobClass(bpJobs[j][1]) => i = j

\* A request that was not opened yet has done nothing; one that has not ended has
\* no result, and its pipe is not closed.
Untouched(p) ==
    /\ bpHandler[p].at \in {"idle", "opening", "refused"} =>
         /\ bpScript[p] = [at |-> "none", cancel |-> FALSE, made |-> 0, reader |-> "none"]
         /\ bpPush[p] = "none" /\ bpEnd[p].at = "none"
    /\ bpHandler[p].at \in {"idle", "opening", "waiting", "refused"} => bpGot[p] = <<>> /\ bpPipe[p].buf = <<>>
    /\ Reading(p) \/ bpHandler[p].at = "refused" => bpHandler[p].result = "none"
    /\ bpPipe[p].closed => bpHandler[p].at \in {"cancelling", "gone"}

\* Where the script stands, and what that says of its goroutines and its reader.
ScriptSound(p) ==
    /\ bpPush[p] # "none" => bpScript[p].at = "pushing"
    /\ bpScript[p].at = "pushing" => bpScript[p].made > 0
    /\ bpEnd[p].at # "none" => bpScript[p].at = "ended"
    /\ bpEnd[p].item \in EndItems
    /\ bpEnd[p].at # "none" =>
         IF bpEnd[p].item = <<"error">> THEN bpScript[p].reader \in {"none", "failed"}
         ELSE bpScript[p].reader = "finished" \/ bpHandler[p].at = "gone"
    /\ bpScript[p].at \in {"none", "opening"} => bpScript[p].reader = "none"
    /\ bpScript[p].reader \in {"finished", "failed"} => bpScript[p].at = "ended"

\* A cancelled reader is the work of Close, and is there when Close returns.
LetGo(p) ==
    /\ bpScript[p].at = "ended" \/ bpScript[p].cancel => bpScript[p].reader # "open"
    /\ bpHandler[p].at = "gone" => bpScript[p].at = "ended" \/ bpScript[p].cancel
    /\ bpScript[p].reader = "cancelled" => bpScript[p].at = "ended" \/ bpHandler[p].at = "gone"

\* What the handler has read, what is on its way, and what the script has made are
\* one run of units, with the end of the stream behind it.
ReadSoFar(p) == Len(bpGot[p]) + Len(bpPipe[p].buf)
EndIn(p) == \E j \in DOMAIN bpPipe[p].ch : bpPipe[p].ch[j] = bpEnd[p].item
OnItsWay(p) == ReadSoFar(p) + 2 * (IF EndIn(p) THEN Len(bpPipe[p].ch) - 1 ELSE Len(bpPipe[p].ch))
InOrder(p) ==
    /\ \A i \in DOMAIN bpGot[p] : bpGot[p][i] = i
    /\ bpHandler[p].limit > 0 => Len(bpGot[p]) <= bpHandler[p].limit
    /\ Reading(p) =>
         /\ bpPipe[p].buf \in {<<>>, <<Len(bpGot[p]) + 1>>}
         /\ \A j \in DOMAIN bpPipe[p].ch :
              \/ bpPipe[p].ch[j] = <<ReadSoFar(p) + 2 * j - 1, ReadSoFar(p) + 2 * j>>
              \/ j = Len(bpPipe[p].ch) /\ bpEnd[p].at = "done" /\ bpPipe[p].ch[j] = bpEnd[p].item
Complete(p) == Reading(p) =>
    /\ bpPush[p] # "none" => OnItsWay(p) + 2 = 2 * bpScript[p].made
    /\ bpScript[p].at \in {"none", "opening", "reading"} \/ bpScript[p].reader = "finished" =>
         OnItsWay(p) = 2 * bpScript[p].made
    /\ (\E i \in DOMAIN bpJobs : bpJobs[i] = <<"true", p>>) => OnItsWay(p) = 2 * bpScript[p].made

\* What the results say of the streams, once the copies have ended.
ResultsTrue(p) ==
    /\ ~Reading(p) /\ bpHandler[p].at # "refused" /\ p \notin bpLeft =>
         bpHandler[p].result \in {"whole", "failed"}
    /\ bpHandler[p].limit = 0 => ~bpHandler[p].ranged
    /\ bpHandler[p].result = "whole" =>
         IF bpHandler[p].limit > 0 THEN Len(bpGot[p]) = bpHandler[p].limit
         ELSE bpScript[p].reader = "finished" /\ Len(bpGot[p]) = 2 * bpScript[p].made
    /\ bpHandler[p].result = "failed" =>
         /\ bpScript[p].at = "ended"
         /\ \/ bpScript[p].reader \in {"none", "failed"}
            \/ bpScript[p].reader = "finished" /\ 2 * bpScript[p].made < bpHandler[p].limit
         /\ ~bpHandler[p].ranged => bpSource.broken

\* A source is broken by a stream, one with ranges by enough of them in a row.
Failed == {p \in Pipes : bpHandler[p].result = "failed"}
RangedFailed == {p \in Failed : bpHandler[p].ranged}
BlameCounted ==
    /\ bpSource.ranged => bpSource.sized
    /\ ~bpSource.broken => bpSource.failures < RangeFailures /\ bpSource.failures <= Cardinality(RangedFailed)
    /\ bpSource.broken =>
         /\ Failed # {}
         /\ Failed = RangedFailed => Cardinality(Failed) >= RangeFailures

\* What holds of one pipe.
Keeps(p) == Untouched(p) /\ ScriptSound(p) /\ LetGo(p) /\ InOrder(p) /\ Complete(p) /\ ResultsTrue(p)

PipeInv == PipeTypeOK /\ JobsKnown /\ BlameCounted /\ \A p \in Pipes : Keeps(p)

\* The types, by their names.
LEMMA PipeTypes ==
  PipeTypeOK <=>
    /\ bpSource \in SourceRecs /\ bpLoop \in BOOLEAN /\ bpJobs \in Seq(JobRecs) /\ bpLeft \in SUBSET Pipes
    /\ bpHandler \in [Pipes -> HandlerRecs] /\ bpGot \in [Pipes -> UnitSeqs]
    /\ bpPipe \in [Pipes -> PipeRecs] /\ bpPush \in [Pipes -> {"none", "looking", "sending"}]
    /\ bpEnd \in [Pipes -> EndRecs] /\ bpScript \in [Pipes -> ScriptRecs]
BY DEF PipeTypeOK, SourceRecs, JobRecs, HandlerRecs, UnitSeqs, PipeRecs, EndRecs, ScriptRecs

\* A step of the goroutines of one pipe leaves the other pipes alone.
Only(p) == \A q \in Pipes \ {p} :
    /\ bpHandler'[q] = bpHandler[q] /\ bpGot'[q] = bpGot[q] /\ bpPipe'[q] = bpPipe[q]
    /\ bpPush'[q] = bpPush[q] /\ bpEnd'[q] = bpEnd[q] /\ bpScript'[q] = bpScript[q]

\* What one pipe does keeps what holds of the others.
LEMMA StepOfOne ==
  ASSUME PipeInv, NEW p \in Pipes, Only(p), PipeTypeOK', JobsKnown', BlameCounted', Keeps(p)',
         bpLeft \subseteq bpLeft', bpSource.broken => bpSource'.broken,
         \A q \in Pipes \ {p} : (\E i \in DOMAIN bpJobs' : bpJobs'[i] = <<"true", q>>)
                                  => \E i \in DOMAIN bpJobs : bpJobs[i] = <<"true", q>>
  PROVE  PipeInv'
<1>1. ASSUME NEW q \in Pipes \ {p} PROVE Keeps(q)'
  <2>0. /\ bpHandler'[q] = bpHandler[q] /\ bpGot'[q] = bpGot[q] /\ bpPipe'[q] = bpPipe[q]
        /\ bpPush'[q] = bpPush[q] /\ bpEnd'[q] = bpEnd[q] /\ bpScript'[q] = bpScript[q]
        /\ Keeps(q)
    BY DEF Only, PipeInv
  <2>1. Untouched(q)' /\ ScriptSound(q)' /\ LetGo(q)'
    BY <2>0 DEF Keeps, Untouched, ScriptSound, LetGo, Reading
  <2>2. (Reading(q)' <=> Reading(q)) /\ ReadSoFar(q)' = ReadSoFar(q) /\ OnItsWay(q)' = OnItsWay(q)
    BY <2>0 DEF Reading, ReadSoFar, OnItsWay, EndIn
  <2>3. InOrder(q)'
    BY <2>0, <2>2 DEF Keeps, InOrder
  <2>4. Complete(q)'
    BY <2>0, <2>2 DEF Keeps, Complete
  <2>5. ResultsTrue(q)'
    BY <2>0, <2>2 DEF Keeps, ResultsTrue
  <2> QED
    BY <2>1, <2>3, <2>4, <2>5 DEF Keeps
<1> QED
  BY <1>1 DEF PipeInv

-----------------------------------------------------------------------------
\* The queue of the loop

\* What the steps leave of the claims of the queued closures, but those of one
\* class of one pipe.
ClaimsStay(class, p) == \A q \in Pipes :
    /\ bpHandler[q].at = "opening" /\ ~(q = p /\ class = "open") => bpHandler'[q].at = "opening"
    /\ bpHandler[q].at = "cancelling" /\ ~(q = p /\ class = "cancel") => bpHandler'[q].at = "cancelling"
    /\ bpScript[q].at = "pushing" /\ bpPush[q] = "none" /\ ~(q = p /\ class = "answer")
         => bpScript'[q].at = "pushing" /\ bpPush'[q] = "none"

Claim(kind, p) ==
    CASE kind = "open"   -> bpHandler[p].at = "opening"
      [] kind = "cancel" -> bpHandler[p].at = "cancelling"
      [] OTHER           -> bpScript[p].at = "pushing" /\ bpPush[p] = "none"

\* What JobsKnown says, closure by closure.
LEMMA JobsAsClaims ==
  JobsKnown <=>
    /\ \A i \in DOMAIN bpJobs : Claim(bpJobs[i][1], bpJobs[i][2])
    /\ \A i, j \in DOMAIN bpJobs :
         bpJobs[i][2] = bpJobs[j][2] /\ JobClass(bpJobs[i][1]) = JobClass(bpJobs[j][1]) => i = j
BY DEF JobsKnown, Claim

\* A claim that a step leaves alone stays.
LEMMA ClaimStays ==
  ASSUME NEW class, NEW p \in Pipes, ClaimsStay(class, p), NEW kind \in {"open", "cancel", "true", "false"},
         NEW q \in Pipes, Claim(kind, q), q # p \/ JobClass(kind) # class
  PROVE  Claim(kind, q)'
BY DEF ClaimsStay, Claim, JobClass

\* With the queue as it was, and every claim kept.
LEMMA JobsSame ==
  ASSUME PipeInv, NEW p \in Pipes, ClaimsStay("none", p), bpJobs' = bpJobs
  PROVE  JobsKnown'
<1>1. bpJobs \in Seq(JobRecs) /\ JobsKnown
  BY PipeTypes DEF PipeInv
<1>2. ASSUME NEW i \in DOMAIN bpJobs PROVE Claim(bpJobs[i][1], bpJobs[i][2])'
  <2>1. bpJobs[i] \in JobRecs
    BY <1>1
  <2>2. bpJobs[i][1] \in {"open", "cancel", "true", "false"} /\ bpJobs[i][2] \in Pipes
    BY <2>1 DEF JobRecs
  <2>3. JobClass(bpJobs[i][1]) # "none"
    BY <2>2 DEF JobClass
  <2>4. Claim(bpJobs[i][1], bpJobs[i][2])
    BY <1>1, JobsAsClaims
  <2> DEFINE k == bpJobs[i][1]
             q == bpJobs[i][2]
             none == "none"
  <2>5. ClaimsStay(none, p)
    OBVIOUS
  <2> HIDE DEF k, q, none
  <2>6. Claim(k, q)'
    BY <2>2, <2>3, <2>4, <2>5, ClaimStays DEF k, q, none
  <2> QED
    BY <2>6 DEF k, q
<1> QED
  BY <1>1, <1>2 DEF JobsKnown, Claim

\* What is enough for the queue after a step.
LEMMA JobsThen ==
  ASSUME bpJobs' \in Seq(JobRecs),
         \A i \in DOMAIN bpJobs' : \A kind, q : bpJobs'[i] = <<kind, q>> => Claim(kind, q)',
         \A i, j \in DOMAIN bpJobs' :
           bpJobs'[i][2] = bpJobs'[j][2] /\ JobClass(bpJobs'[i][1]) = JobClass(bpJobs'[j][1]) => i = j
  PROVE  JobsKnown'
<1>1. ASSUME NEW i \in DOMAIN bpJobs' PROVE (Claim(bpJobs[i][1], bpJobs[i][2]))'
  <2>1. bpJobs'[i] \in JobRecs
    OBVIOUS
  <2>2. PICK kind, q : kind = bpJobs'[i][1] /\ q = bpJobs'[i][2] /\ bpJobs'[i] = <<kind, q>>
    BY <2>1 DEF JobRecs
  <2>3. Claim(kind, q)'
    BY <2>2
  <2> QED
    BY <2>2, <2>3 DEF Claim
<1> QED
  BY <1>1 DEF JobsKnown, Claim, JobClass

\* One more closure, of a class that has none yet.
LEMMA JobsMore ==
  ASSUME PipeInv, NEW p \in Pipes, NEW kind \in {"open", "cancel", "true", "false"},
         NEW none, none = "none", ClaimsStay(none, p), bpJobs' = Append(bpJobs, <<kind, p>>),
         ~Claim(kind, p), Claim(kind, p)'
  PROVE  /\ JobsKnown' /\ bpJobs' \in Seq(JobRecs)
         /\ \A q \in Pipes : (\E i \in DOMAIN bpJobs' : bpJobs'[i] = <<"true", q>>) =>
              \/ q = p /\ kind = "true"
              \/ \E i \in DOMAIN bpJobs : bpJobs[i] = <<"true", q>>
<1> DEFINE n == Len(bpJobs)
<1>1. bpJobs \in Seq(JobRecs) /\ JobsKnown /\ n \in Nat /\ n = Len(bpJobs) /\ DOMAIN bpJobs = 1..n
  BY PipeTypes DEF PipeInv
<1>2. <<kind, p>> \in JobRecs
  BY DEF JobRecs
<1>3. /\ bpJobs' \in Seq(JobRecs) /\ Len(bpJobs') = n + 1 /\ DOMAIN bpJobs' = 1..(n + 1)
      /\ bpJobs'[n + 1] = <<kind, p>>
      /\ \A i \in 1..n : bpJobs'[i] = bpJobs[i]
  BY <1>1, <1>2
<1> HIDE DEF n
<1>4. ASSUME NEW i \in 1..n, NEW k, NEW q, bpJobs[i] = <<k, q>>
      PROVE  k \in {"open", "cancel", "true", "false"} /\ q \in Pipes /\ Claim(k, q) /\ Claim(k, q)'
  <2>0. <<k, q>>[1] = k /\ <<k, q>>[2] = q
    OBVIOUS
  <2>1. bpJobs[i] \in JobRecs /\ bpJobs[i][1] = k /\ bpJobs[i][2] = q
    BY <1>1, <1>4, <2>0
  <2>2. k \in {"open", "cancel", "true", "false"} /\ q \in Pipes /\ Claim(k, q)
    BY <1>1, <2>1, JobsAsClaims DEF JobRecs
  <2>3. JobClass(k) # none
    BY <2>2 DEF JobClass
  <2>4. Claim(k, q)'
    BY <2>2, <2>3, ClaimStays
  <2> QED
    BY <2>2, <2>4
<1>5. ASSUME NEW i \in 1..n, bpJobs[i][2] = p PROVE JobClass(bpJobs[i][1]) # JobClass(kind)
  <2> DEFINE k == bpJobs[i][1]
  <2>1. bpJobs[i] = <<k, p>>
    BY <1>1, <1>5 DEF JobRecs
  <2>2. k \in {"open", "cancel", "true", "false"} /\ Claim(k, p)
    BY <1>4, <2>1
  <2> QED
    BY <2>2 DEF Claim, JobClass
<1>6. ASSUME NEW i \in DOMAIN bpJobs', NEW k, NEW q, bpJobs'[i] = <<k, q>> PROVE Claim(k, q)'
  <2>1. CASE i = n + 1
    <3>1. k = kind /\ q = p
      BY <1>3, <1>6, <2>1
    <3> QED
      BY <3>1
  <2>2. CASE i # n + 1
    <3>1. i \in 1..n /\ bpJobs[i] = <<k, q>>
      BY <1>1, <1>3, <1>6, <2>2
    <3> QED
      BY <1>4, <3>1
  <2> QED
    BY <2>1, <2>2
<1>7. ASSUME NEW i \in DOMAIN bpJobs', NEW j \in DOMAIN bpJobs',
             bpJobs'[i][2] = bpJobs'[j][2], JobClass(bpJobs'[i][1]) = JobClass(bpJobs'[j][1])
      PROVE  i = j
  <2>1. CASE i \in 1..n /\ j \in 1..n
    BY <1>1, <1>3, <1>7, <2>1 DEF JobsKnown
  <2>2. CASE i = n + 1 /\ j \in 1..n
    BY <1>3, <1>5, <1>7, <2>2
  <2>3. CASE i \in 1..n /\ j = n + 1
    BY <1>3, <1>5, <1>7, <2>3
  <2> QED
    BY <1>1, <1>3, <2>1, <2>2, <2>3
<1>8. JobsKnown'
  BY <1>3, <1>6, <1>7, JobsThen
<1>9. ASSUME NEW q \in Pipes, NEW i \in DOMAIN bpJobs', bpJobs'[i] = <<"true", q>>
      PROVE  \/ q = p /\ kind = "true"
             \/ \E k \in DOMAIN bpJobs : bpJobs[k] = <<"true", q>>
  <2>1. CASE i = n + 1
    BY <1>3, <1>9, <2>1
  <2>2. CASE i \in 1..n
    BY <1>1, <1>3, <1>9, <2>2
  <2> QED
    BY <1>1, <1>3, <2>1, <2>2
<1> QED
  BY <1>3, <1>8, <1>9

\* The first closure is run.
LEMMA JobsLess ==
  ASSUME PipeInv, NEW p \in Pipes, NEW kind \in {"open", "cancel", "true", "false"},
         bpJobs # <<>>, Head(bpJobs) = <<kind, p>>, bpJobs' = Tail(bpJobs), ClaimsStay(JobClass(kind), p)
  PROVE  /\ JobsKnown' /\ bpJobs' \in Seq(JobRecs) /\ Claim(kind, p)
         /\ \A q \in Pipes : (\E i \in DOMAIN bpJobs' : bpJobs'[i] = <<"true", q>>) =>
              \E i \in DOMAIN bpJobs : bpJobs[i] = <<"true", q>>
         /\ \A i \in DOMAIN bpJobs' : bpJobs'[i][2] = p => JobClass(bpJobs'[i][1]) # JobClass(kind)
<1> DEFINE n == Len(bpJobs)
           class == JobClass(kind)
<1>1. /\ bpJobs \in Seq(JobRecs) /\ JobsKnown /\ n \in Nat \ {0} /\ DOMAIN bpJobs = 1..n
      /\ bpJobs[1] = <<kind, p>>
  BY PipeTypes DEF PipeInv
<1>2. /\ bpJobs' \in Seq(JobRecs) /\ DOMAIN bpJobs' = 1..(n - 1)
      /\ \A i \in 1..(n - 1) : bpJobs'[i] = bpJobs[i + 1]
  BY <1>1
<1>3. Claim(kind, p)
  <2>1. 1 \in DOMAIN bpJobs /\ bpJobs[1][1] = kind /\ bpJobs[1][2] = p
    BY <1>1
  <2> QED
    BY <1>1, <2>1, JobsAsClaims
<1> HIDE DEF n, class
<1>4. ASSUME NEW i \in 1..(n - 1), bpJobs'[i][2] = p PROVE JobClass(bpJobs'[i][1]) # class
  <2>1. i + 1 \in 1..n /\ 1 \in 1..n /\ i + 1 # 1 /\ bpJobs'[i] = bpJobs[i + 1]
    BY <1>1, <1>2
  <2> QED
    BY <1>1, <1>4, <2>1 DEF JobsKnown, class
<1>5. ASSUME NEW i \in 1..(n - 1), NEW k, NEW q, bpJobs'[i] = <<k, q>> PROVE Claim(k, q)'
  <2>0. <<k, q>>[1] = k /\ <<k, q>>[2] = q
    OBVIOUS
  <2>1. i + 1 \in 1..n /\ bpJobs'[i] = bpJobs[i + 1] /\ bpJobs[i + 1] \in JobRecs
    BY <1>1, <1>2
  <2>2. k \in {"open", "cancel", "true", "false"} /\ q \in Pipes /\ Claim(k, q)
    <3>1. bpJobs[i + 1][1] = k /\ bpJobs[i + 1][2] = q
      BY <1>5, <2>0, <2>1
    <3> QED
      BY <1>1, <2>1, <3>1, JobsAsClaims DEF JobRecs
  <2>3. q # p \/ JobClass(k) # class
    BY <1>4, <1>5, <2>0
  <2>4. ClaimsStay(class, p)
    BY DEF class
  <2> QED
    BY <2>2, <2>3, <2>4, ClaimStays
<1>6. ASSUME NEW i \in 1..(n - 1), NEW j \in 1..(n - 1),
             bpJobs'[i][2] = bpJobs'[j][2], JobClass(bpJobs'[i][1]) = JobClass(bpJobs'[j][1])
      PROVE  i = j
  <2>1. i + 1 \in 1..n /\ j + 1 \in 1..n /\ bpJobs'[i] = bpJobs[i + 1] /\ bpJobs'[j] = bpJobs[j + 1]
    BY <1>1, <1>2
  <2>2. i + 1 = j + 1
    BY <1>1, <1>6, <2>1 DEF JobsKnown
  <2> QED
    BY <1>1, <2>2
<1>7. JobsKnown'
  BY <1>2, <1>5, <1>6, JobsThen
<1>8. ASSUME NEW q \in Pipes, NEW i \in 1..(n - 1), bpJobs'[i] = <<"true", q>>
      PROVE  \E k \in DOMAIN bpJobs : bpJobs[k] = <<"true", q>>
  <2>1. i + 1 \in 1..n /\ bpJobs'[i] = bpJobs[i + 1]
    BY <1>1, <1>2
  <2> QED
    BY <1>1, <1>8, <2>1
<1> QED
  BY <1>2, <1>3, <1>4, <1>7, <1>8 DEF class

-----------------------------------------------------------------------------
\* The blame

\* Nothing ends, and nobody is blamed.
LEMMA BlameSame ==
  ASSUME PipeInv, bpSource'.broken = bpSource.broken, bpSource'.failures = bpSource.failures,
         bpSource'.ranged => bpSource'.sized,
         \A q \in Pipes : bpHandler'[q].result = bpHandler[q].result
                          /\ (bpHandler[q].result = "failed" => bpHandler'[q].ranged = bpHandler[q].ranged)
  PROVE  BlameCounted'
<1>1. Failed' = Failed
  BY DEF Failed
<1>2. RangedFailed' = RangedFailed
  BY <1>1 DEF RangedFailed, Failed
<1> QED
  BY <1>1, <1>2 DEF PipeInv, BlameCounted

\* A copy ends.
LEMMA BlameEnds ==
  ASSUME PipeInv, NEW p \in Pipes, bpHandler[p].at = "reading",
         NEW result \in {"whole", "failed", "left"}, Ends(p, result)
  PROVE  /\ BlameCounted' /\ bpSource' \in SourceRecs
         /\ bpSource.broken => bpSource'.broken
         /\ result = "failed" /\ ~bpHandler[p].ranged => bpSource'.broken
<1>1. /\ bpSource \in SourceRecs /\ bpHandler \in [Pipes -> HandlerRecs] /\ BlameCounted
      /\ bpHandler[p].result = "none" /\ RangeFailures \in Nat \ {0} /\ IsFiniteSet(Pipes)
  BY PipeTypes, PipeAssumption DEF PipeInv, Keeps, Untouched, Reading
<1>2. /\ bpHandler' = [bpHandler EXCEPT ![p] = [bpHandler[p] EXCEPT !.at = "closing", !.result = result]]
  BY DEF Ends
<1>3. /\ bpHandler'[p].result = result /\ bpHandler'[p].ranged = bpHandler[p].ranged
      /\ \A q \in Pipes \ {p} : bpHandler'[q] = bpHandler[q]
  BY <1>1, <1>2 DEF HandlerRecs
<1>4. Failed' = IF result = "failed" THEN Failed \cup {p} ELSE Failed
  BY <1>1, <1>3 DEF Failed
<1>5. RangedFailed' = IF result = "failed" /\ bpHandler[p].ranged THEN RangedFailed \cup {p} ELSE RangedFailed
  BY <1>1, <1>3, <1>4 DEF Failed, RangedFailed
<1>6. /\ IsFiniteSet(Failed) /\ IsFiniteSet(RangedFailed) /\ p \notin Failed /\ p \notin RangedFailed
      /\ Cardinality(Failed) \in Nat /\ Cardinality(RangedFailed) \in Nat
      /\ Cardinality(Failed \cup {p}) = Cardinality(Failed) + 1
      /\ Cardinality(RangedFailed \cup {p}) = Cardinality(RangedFailed) + 1
  <2>1. Failed \subseteq Pipes /\ RangedFailed \subseteq Pipes /\ p \notin Failed /\ p \notin RangedFailed
    BY <1>1 DEF Failed, RangedFailed
  <2>2. IsFiniteSet(Failed) /\ IsFiniteSet(RangedFailed)
    BY <1>1, <2>1, FS_Subset
  <2> QED
    BY <2>1, <2>2, FS_CardinalityType, FS_AddElement
<1>7. CASE result = "failed" /\ ~bpSource.broken
  <2>1. bpSource' = Blamed(bpHandler[p].ranged)
    BY <1>7 DEF Ends
  <2>2. CASE bpHandler[p].ranged
    <3>1. bpSource' = [bpSource EXCEPT !.failures = bpSource.failures + 1,
                                       !.broken = bpSource.failures + 1 >= RangeFailures]
      BY <1>7, <2>1, <2>2 DEF Blamed
    <3>2. bpSource.failures < RangeFailures /\ bpSource.failures <= Cardinality(RangedFailed)
      BY <1>1, <1>7 DEF BlameCounted
    <3> DEFINE b == bpSource.failures + 1 >= RangeFailures
    <3>3. /\ bpSource'.ranged = bpSource.ranged /\ bpSource'.sized = bpSource.sized
          /\ bpSource'.failures = bpSource.failures + 1 /\ bpSource'.broken = b
          /\ bpSource.failures \in Nat
      BY <1>1, <3>1 DEF SourceRecs
    <3>4. bpSource' \in SourceRecs
      <4>1. bpSource.failures + 1 \in 0..RangeFailures
        BY <1>1, <3>2, <3>3
      <4> DEFINE f == bpSource.failures + 1
      <4>2. b \in BOOLEAN /\ bpSource' = [bpSource EXCEPT !.failures = f, !.broken = b]
        BY <3>1
      <4> HIDE DEF f, b
      <4>3. f \in 0..RangeFailures
        BY <4>1 DEF f
      <4> QED
        BY <1>1, <4>2, <4>3 DEF SourceRecs
    <3>5. Failed' = Failed \cup {p} /\ RangedFailed' = RangedFailed \cup {p}
      BY <1>4, <1>5, <1>7, <2>2
    <3>6. Cardinality(RangedFailed)' = Cardinality(RangedFailed) + 1
      BY <1>6, <3>5
    <3>7. ~b => bpSource'.failures < RangeFailures /\ bpSource'.failures <= Cardinality(RangedFailed)'
      BY <1>1, <1>6, <3>2, <3>3, <3>6
    <3>8. b => Cardinality(RangedFailed)' >= RangeFailures
      BY <1>1, <1>6, <3>2, <3>3, <3>6
    <3> HIDE DEF b
    <3> QED
      BY <1>1, <2>2, <1>7, <3>3, <3>4, <3>5, <3>7, <3>8 DEF BlameCounted
  <2>3. CASE ~bpHandler[p].ranged
    <3>1. bpSource' = [bpSource EXCEPT !.broken = TRUE]
      BY <1>1, <1>7, <2>1, <2>3 DEF Blamed, SourceRecs
    <3>2. bpSource' \in SourceRecs /\ bpSource'.broken /\ bpSource'.ranged = bpSource.ranged /\ bpSource'.sized = bpSource.sized
      BY <1>1, <3>1 DEF SourceRecs
    <3>3. Failed' = Failed \cup {p} /\ RangedFailed' = RangedFailed
      BY <1>4, <1>5, <1>7, <2>3
    <3>4. Failed' # {} /\ Failed' # RangedFailed'
      BY <1>6, <3>3
    <3> QED
      BY <1>1, <3>2, <3>4 DEF BlameCounted
  <2> QED
    BY <2>2, <2>3
<1>8. CASE ~(result = "failed" /\ ~bpSource.broken)
  <2>1. bpSource' \in {bpSource, [bpSource EXCEPT !.failures = 0]} /\ (bpSource' # bpSource => ~bpSource.broken)
    BY <1>8 DEF Ends, Blamed, Cleared
  <2>2. /\ bpSource' \in SourceRecs /\ bpSource'.broken = bpSource.broken /\ bpSource'.ranged = bpSource.ranged
        /\ bpSource'.sized = bpSource.sized /\ bpSource'.failures \in {0, bpSource.failures}
    BY <1>1, <2>1 DEF SourceRecs
  <2>3. CASE bpSource.broken
    <3>1. Failed \subseteq Failed' /\ (Failed' = RangedFailed' => Failed = RangedFailed)
      <4>1. RangedFailed \subseteq Failed
        BY DEF RangedFailed
      <4>2. Failed' = RangedFailed' => Failed = RangedFailed
        <5>1. CASE result = "failed" /\ bpHandler[p].ranged
          <6>1. Failed' = Failed \cup {p} /\ RangedFailed' = RangedFailed \cup {p}
            BY <1>4, <1>5, <5>1
          <6> QED
            BY <1>6, <6>1
        <5>2. CASE ~(result = "failed" /\ bpHandler[p].ranged)
          <6>1. RangedFailed' = RangedFailed /\ Failed \subseteq Failed'
            BY <1>4, <1>5, <5>2
          <6> QED
            BY <4>1, <6>1
        <5> QED
          BY <5>1, <5>2
      <4> QED
        BY <1>4, <4>2
    <3>2. Cardinality(Failed)' \in Nat /\ Cardinality(Failed)' >= Cardinality(Failed)
      BY <1>4, <1>6
    <3> QED
      BY <1>1, <1>6, <2>2, <2>3, <3>1, <3>2 DEF BlameCounted
  <2>4. CASE ~bpSource.broken
    <3>1. Failed' = Failed /\ RangedFailed' = RangedFailed
      BY <1>4, <1>5, <1>8, <2>4
    <3>2. bpSource.failures \in Nat
      BY <1>1 DEF SourceRecs
    <3>3. BlameCounted'
      BY <1>1, <1>6, <2>2, <2>4, <3>1, <3>2 DEF BlameCounted
    <3> QED
      BY <1>8, <2>2, <2>4, <3>3
  <2> QED
    BY <1>8, <2>2, <2>3, <2>4
<1> QED
  BY <1>7, <1>8
-----------------------------------------------------------------------------
\* The handler

\* What is known of one pipe.
LEMMA Known ==
  ASSUME PipeInv, NEW p \in Pipes
  PROVE  /\ bpSource \in SourceRecs /\ bpLoop \in BOOLEAN /\ bpJobs \in Seq(JobRecs) /\ bpLeft \in SUBSET Pipes
         /\ bpHandler \in [Pipes -> HandlerRecs] /\ bpGot \in [Pipes -> UnitSeqs]
         /\ bpPipe \in [Pipes -> PipeRecs] /\ bpPush \in [Pipes -> {"none", "looking", "sending"}]
         /\ bpEnd \in [Pipes -> EndRecs] /\ bpScript \in [Pipes -> ScriptRecs]
         /\ bpHandler[p] \in HandlerRecs /\ bpGot[p] \in UnitSeqs /\ bpPipe[p] \in PipeRecs
         /\ bpEnd[p] \in EndRecs /\ bpScript[p] \in ScriptRecs
         /\ Untouched(p) /\ ScriptSound(p) /\ LetGo(p) /\ InOrder(p) /\ Complete(p) /\ ResultsTrue(p)
         /\ bpSource.ranged => bpSource.sized
         /\ BlobUnits \in Nat \ {0}
BY PipeTypes, PipeAssumption DEF PipeInv, Keeps, BlameCounted

\* The units of a pipe stay what and where they are.
FlowSame(p) ==
    /\ bpGot'[p] = bpGot[p] /\ bpPipe'[p].ch = bpPipe[p].ch /\ bpPipe'[p].buf = bpPipe[p].buf
    /\ bpEnd'[p] = bpEnd[p]

\* With the units where they were, they stay in order.
LEMMA OrderKept ==
  ASSUME PipeInv, NEW p \in Pipes, FlowSame(p), Reading(p)' => Reading(p),
         bpHandler'[p].limit > 0 => Len(bpGot[p]) <= bpHandler'[p].limit
  PROVE  /\ InOrder(p)'
         /\ ReadSoFar(p)' = ReadSoFar(p) /\ OnItsWay(p)' = OnItsWay(p)
<1>1. ReadSoFar(p)' = ReadSoFar(p)
  BY DEF FlowSame, ReadSoFar
<1>2. EndIn(p)' <=> EndIn(p)
  BY DEF FlowSame, EndIn
<1>3. OnItsWay(p)' = OnItsWay(p)
  BY <1>1, <1>2 DEF FlowSame, OnItsWay
<1>4. InOrder(p)
  BY Known
<1>5. InOrder(p)'
  BY <1>1, <1>4 DEF InOrder, FlowSame
<1> QED
  BY <1>1, <1>3, <1>5

\* With the script where it was, too, the stream stays complete.
LEMMA CompleteKept ==
  ASSUME PipeInv, NEW p \in Pipes, OnItsWay(p)' = OnItsWay(p), Reading(p)' => Reading(p),
         bpPush'[p] = bpPush[p], bpScript'[p] = bpScript[p],
         (\E i \in DOMAIN bpJobs' : bpJobs'[i] = <<"true", p>>) => \E i \in DOMAIN bpJobs : bpJobs[i] = <<"true", p>>
  PROVE  Complete(p)'
<1>1. Complete(p)
  BY Known
<1> QED
  BY <1>1 DEF Complete

\* A request is refused by a broken source, or its pipe is to be opened.
LEMMA ServeKeeps ==
  ASSUME PipeInv, NEW p \in Pipes, Serve(p)
  PROVE  PipeInv'
<1> USE Known
<1>1. CASE bpSource.broken
  <2> DEFINE h == [bpHandler[p] EXCEPT !.at = "refused"]
  <2>1. /\ bpHandler[p].at = "idle" /\ bpHandler' = [bpHandler EXCEPT ![p] = h]
        /\ UNCHANGED <<bpSource, bpLoop, bpJobs, bpLeft, bpGot, bpPipe, bpPush, bpEnd, bpScript>>
    BY <1>1 DEF Serve, HandlerAt
  <2>2. /\ h \in HandlerRecs /\ h.at = "refused" /\ h.result = bpHandler[p].result
        /\ h.ranged = bpHandler[p].ranged /\ h.limit = bpHandler[p].limit
    BY DEF HandlerRecs
  <2> HIDE DEF h
  <2>3. /\ bpHandler' \in [Pipes -> HandlerRecs] /\ bpHandler'[p] = h
        /\ \A q \in Pipes \ {p} : bpHandler'[q] = bpHandler[q]
    BY <2>1, <2>2
  <2>4. PipeTypeOK' /\ Only(p)
    BY <2>1, <2>3, PipeTypes DEF Only, PipeTypeOK, HandlerRecs
  <2>5. ClaimsStay("none", p)
    BY <2>1, <2>3 DEF ClaimsStay
  <2>6. JobsKnown' /\ BlameCounted'
    BY <2>1, <2>2, <2>3, <2>5, JobsSame, BlameSame
  <2>7. Untouched(p)' /\ ScriptSound(p)' /\ LetGo(p)'
    BY <2>1, <2>2, <2>3 DEF Untouched, ScriptSound, LetGo, Reading
  <2>8. InOrder(p)' /\ Complete(p)' /\ ResultsTrue(p)'
    BY <2>1, <2>2, <2>3 DEF InOrder, Complete, ResultsTrue, Reading, Untouched
  <2> QED
    BY <2>1, <2>4, <2>6, <2>7, <2>8, StepOfOne DEF Keeps
<1>2. CASE ~bpSource.broken
  <2> DEFINE l == IF bpSource.sized THEN BlobUnits ELSE 0
             h == [bpHandler[p] EXCEPT !.at = "opening", !.ranged = bpSource.ranged, !.limit = l]
             c == [bpPipe[p] EXCEPT !.listed = TRUE]
  <2>1. /\ bpHandler[p].at = "idle" /\ bpHandler' = [bpHandler EXCEPT ![p] = h]
        /\ bpPipe' = [bpPipe EXCEPT ![p] = c] /\ bpJobs' = Append(bpJobs, <<"open", p>>)
        /\ UNCHANGED <<bpSource, bpLoop, bpLeft, bpGot, bpPush, bpEnd, bpScript>>
    BY <1>2 DEF Serve
  <2>2. l \in {0, BlobUnits} /\ bpSource.ranged \in BOOLEAN /\ (l = 0 => ~bpSource.ranged)
    BY DEF SourceRecs
  <2> HIDE DEF l
  <2>3. /\ h \in HandlerRecs /\ h.at = "opening" /\ h.result = bpHandler[p].result /\ h.limit = l
        /\ h.ranged = bpSource.ranged
    BY <2>2 DEF HandlerRecs
  <2>4. /\ c \in PipeRecs /\ c.closed = bpPipe[p].closed /\ c.ch = bpPipe[p].ch /\ c.buf = bpPipe[p].buf
    BY DEF PipeRecs
  <2> HIDE DEF h, c
  <2>5. /\ bpHandler' \in [Pipes -> HandlerRecs] /\ bpHandler'[p] = h
        /\ \A q \in Pipes \ {p} : bpHandler'[q] = bpHandler[q]
        /\ bpPipe' \in [Pipes -> PipeRecs] /\ bpPipe'[p] = c
        /\ \A q \in Pipes \ {p} : bpPipe'[q] = bpPipe[q]
    BY <2>1, <2>3, <2>4
  <2> DEFINE k == "open"
             none == "none"
  <2>6. /\ ~Claim(k, p) /\ Claim(k, p)' /\ ClaimsStay(none, p)
        /\ k \in {"open", "cancel", "true", "false"} /\ none = "none" /\ k # "true"
        /\ bpJobs' = Append(bpJobs, <<k, p>>)
    BY <2>1, <2>3, <2>5 DEF ClaimsStay, Claim
  <2> HIDE DEF k, none
  <2>7. /\ JobsKnown' /\ bpJobs' \in Seq(JobRecs)
        /\ \A q \in Pipes : (\E i \in DOMAIN bpJobs' : bpJobs'[i] = <<"true", q>>) =>
              \E i \in DOMAIN bpJobs : bpJobs[i] = <<"true", q>>
    BY <2>6, JobsMore
  <2>8. PipeTypeOK' /\ Only(p)
    BY <2>1, <2>5, <2>7 DEF Only, PipeTypeOK, HandlerRecs, PipeRecs, SourceRecs, JobRecs, UnitSeqs, EndRecs, ScriptRecs
  <2>9. bpHandler[p].result = "none"
    BY <2>1 DEF Untouched, Reading
  <2>10. BlameCounted'
    BY <2>1, <2>3, <2>5, <2>9, BlameSame
  <2>11. Untouched(p)' /\ ScriptSound(p)' /\ LetGo(p)'
    BY <2>1, <2>3, <2>4, <2>5 DEF Untouched, ScriptSound, LetGo, Reading
  <2>12. /\ FlowSame(p) /\ (Reading(p)' => Reading(p))
         /\ bpHandler'[p].limit > 0 => Len(bpGot[p]) <= bpHandler'[p].limit
    BY <2>1, <2>2, <2>3, <2>4, <2>5 DEF FlowSame, Reading, Untouched
  <2>13. InOrder(p)' /\ Complete(p)'
    BY <2>1, <2>7, <2>12, OrderKept, CompleteKept
  <2>14. ResultsTrue(p)'
    BY <2>1, <2>2, <2>3, <2>5, <2>9 DEF ResultsTrue, Reading
  <2> QED
    BY <2>1, <2>7, <2>8, <2>10, <2>11, <2>13, <2>14, StepOfOne DEF Keeps
<1> QED
  BY <1>1, <1>2

\* The handler goes on to read, or ends its copy; it may have taken an item.
LEMMA HandlerMoves ==
  ASSUME PipeInv, NEW p \in Pipes, bpHandler[p].at \in {"waiting", "reading"},
         NEW h \in HandlerRecs, bpHandler' = [bpHandler EXCEPT ![p] = h],
         NEW c \in PipeRecs, bpPipe' = [bpPipe EXCEPT ![p] = c],
         \/ h.at = "closing"
         \/ h.at = "reading" /\ h.result = "none" /\ c.ch = bpPipe[p].ch /\ c.buf = bpPipe[p].buf,
         c.closed = bpPipe[p].closed,
         h.limit > 0 => Len(bpGot[p]) <= h.limit,
         bpSource' \in SourceRecs, bpSource.broken => bpSource'.broken, BlameCounted', ResultsTrue(p)',
         UNCHANGED <<bpLoop, bpJobs, bpLeft, bpGot, bpPush, bpEnd, bpScript>>
  PROVE  PipeInv'
<1> USE Known
<1>1. /\ bpHandler' \in [Pipes -> HandlerRecs] /\ bpHandler'[p] = h
      /\ \A q \in Pipes \ {p} : bpHandler'[q] = bpHandler[q]
      /\ bpPipe' \in [Pipes -> PipeRecs] /\ bpPipe'[p] = c
      /\ \A q \in Pipes \ {p} : bpPipe'[q] = bpPipe[q]
  OBVIOUS
<1>2. PipeTypeOK' /\ Only(p)
  BY <1>1 DEF Only, PipeTypeOK, HandlerRecs, PipeRecs, SourceRecs, JobRecs, UnitSeqs, EndRecs, ScriptRecs
<1>3. ClaimsStay("none", p)
  BY <1>1 DEF ClaimsStay
<1>4. JobsKnown'
  BY <1>3, JobsSame
<1>5. Untouched(p)'
  BY <1>1 DEF Untouched, Reading
<1>6. ScriptSound(p)' /\ LetGo(p)'
  BY <1>1 DEF ScriptSound, LetGo
<1>7. CASE h.at = "closing"
  <2>1. ~Reading(p)'
    BY <1>1, <1>7 DEF Reading
  <2>2. InOrder(p)'
    BY <1>1, <2>1 DEF InOrder
  <2>3. Complete(p)'
    BY <2>1 DEF Complete
  <2> QED
    BY <1>2, <1>4, <1>5, <1>6, <2>2, <2>3, StepOfOne DEF Keeps
<1>8. CASE h.at # "closing"
  <2>1. FlowSame(p) /\ Reading(p)
    BY <1>1, <1>8 DEF FlowSame, Reading
  <2>2. InOrder(p)' /\ Complete(p)'
    BY <1>1, <2>1, OrderKept, CompleteKept
  <2> QED
    BY <1>2, <1>4, <1>5, <1>6, <2>2, StepOfOne DEF Keeps
<1> QED
  BY <1>7, <1>8

\* A copy ends: what its result must say.
LEMMA CopyEnds ==
  ASSUME PipeInv, NEW p \in Pipes, bpHandler[p].at = "reading",
         NEW result \in {"whole", "failed", "left"}, Ends(p, result),
         NEW c \in PipeRecs, bpPipe' = [bpPipe EXCEPT ![p] = c], c.closed = bpPipe[p].closed,
         result = "left" => p \in bpLeft,
         result = "whole" =>
           IF bpHandler[p].limit > 0 THEN Len(bpGot[p]) = bpHandler[p].limit
           ELSE bpScript[p].reader = "finished" /\ Len(bpGot[p]) = 2 * bpScript[p].made,
         result = "failed" =>
           /\ bpScript[p].at = "ended"
           /\ \/ bpScript[p].reader \in {"none", "failed"}
              \/ bpScript[p].reader = "finished" /\ 2 * bpScript[p].made < bpHandler[p].limit,
         UNCHANGED <<bpLoop, bpJobs, bpLeft, bpGot, bpPush, bpEnd, bpScript>>
  PROVE  PipeInv'
<1> USE Known
<1> DEFINE h == [bpHandler[p] EXCEPT !.at = "closing", !.result = result]
<1>1. bpHandler' = [bpHandler EXCEPT ![p] = h]
  BY DEF Ends
<1>2. /\ h \in HandlerRecs /\ h.at = "closing" /\ h.result = result /\ h.limit = bpHandler[p].limit
      /\ h.ranged = bpHandler[p].ranged
  BY DEF HandlerRecs
<1> HIDE DEF h
<1>3. bpHandler'[p] = h
  BY <1>1
<1>4. /\ BlameCounted' /\ bpSource' \in SourceRecs /\ (bpSource.broken => bpSource'.broken)
      /\ result = "failed" /\ ~bpHandler[p].ranged => bpSource'.broken
  BY BlameEnds
<1>5. ResultsTrue(p)'
  BY <1>2, <1>3, <1>4 DEF ResultsTrue, Reading
<1>6. h.limit > 0 => Len(bpGot[p]) <= h.limit
  BY <1>2 DEF InOrder
<1> QED
  BY <1>1, <1>2, <1>4, <1>5, <1>6, HandlerMoves

\* An update with the value that is there is none.
LEMMA SelfUpdate ==
  ASSUME NEW S, NEW f \in [Pipes -> S], NEW p \in Pipes
  PROVE  f = [f EXCEPT ![p] = f[p]]
OBVIOUS

\* The steps of the handler that take nothing from the pipe.
LEMMA WaitingSteps ==
  ASSUME PipeInv, NEW p \in Pipes,
         Produced(p) \/ WaitGivenUp(p) \/ ReadGivenUp(p) \/ LimitReached(p)
  PROVE  PipeInv'
<1> USE Known
<1> DEFINE c == bpPipe[p]
<1>0. c \in PipeRecs /\ bpPipe = [bpPipe EXCEPT ![p] = c] /\ c.closed = bpPipe[p].closed
      /\ c.ch = bpPipe[p].ch /\ c.buf = bpPipe[p].buf
  BY SelfUpdate
<1>1. CASE Produced(p) /\ bpSource.produces /\ bpScript[p].reader # "none"
  <2> DEFINE h == [bpHandler[p] EXCEPT !.at = "reading", !.limit = 0, !.ranged = FALSE]
  <2>1. /\ bpHandler[p].at = "waiting" /\ bpHandler' = [bpHandler EXCEPT ![p] = h]
        /\ bpSource' = [bpSource EXCEPT !.sized = FALSE, !.ranged = FALSE]
        /\ UNCHANGED <<bpLoop, bpJobs, bpLeft, bpGot, bpPipe, bpPush, bpEnd, bpScript>>
    BY <1>1 DEF Produced
  <2>2. h \in HandlerRecs /\ h.at = "reading" /\ h.result = "none" /\ h.limit = 0 /\ ~h.ranged
    BY <2>1 DEF HandlerRecs, Untouched, Reading
  <2>3. /\ bpSource' \in SourceRecs /\ bpSource'.broken = bpSource.broken
        /\ bpSource'.failures = bpSource.failures /\ ~bpSource'.ranged
    BY <2>1 DEF SourceRecs
  <2> HIDE DEF h, c
  <2>4. bpHandler'[p] = h /\ \A q \in Pipes \ {p} : bpHandler'[q] = bpHandler[q]
    BY <2>1
  <2>5. bpHandler[p].result = "none"
    BY <2>1 DEF Untouched, Reading
  <2>6. BlameCounted'
    BY <2>2, <2>3, <2>4, <2>5, BlameSame
  <2>7. ResultsTrue(p)'
    BY <2>2, <2>4 DEF ResultsTrue, Reading
  <2>8. h.limit > 0 => Len(bpGot[p]) <= h.limit
    BY <2>2
  <2>9. (bpSource.broken => bpSource'.broken) /\ bpHandler[p].at \in {"waiting", "reading"}
    BY <2>1, <2>3
  <2> QED
    BY <1>0, <2>1, <2>2, <2>3, <2>6, <2>7, <2>8, <2>9, HandlerMoves
<1>2. CASE Produced(p) /\ ~(bpSource.produces /\ bpScript[p].reader # "none")
  <2> DEFINE h == [bpHandler[p] EXCEPT !.at = "reading"]
  <2>1. /\ bpHandler[p].at = "waiting" /\ bpHandler' = [bpHandler EXCEPT ![p] = h]
        /\ UNCHANGED <<bpSource, bpLoop, bpJobs, bpLeft, bpGot, bpPipe, bpPush, bpEnd, bpScript>>
    BY <1>2 DEF Produced, HandlerAt
  <2>2. /\ h \in HandlerRecs /\ h.at = "reading" /\ h.result = "none" /\ h.limit = bpHandler[p].limit
        /\ h.ranged = bpHandler[p].ranged /\ bpHandler[p].result = "none"
    BY <2>1 DEF HandlerRecs, Untouched, Reading
  <2> HIDE DEF h, c
  <2>3. bpHandler'[p] = h /\ \A q \in Pipes \ {p} : bpHandler'[q] = bpHandler[q]
    BY <2>1
  <2>4. BlameCounted'
    BY <2>1, <2>2, <2>3, BlameSame
  <2>5. ResultsTrue(p)'
    BY <2>1, <2>2, <2>3 DEF ResultsTrue, Reading
  <2>6. h.limit > 0 => Len(bpGot[p]) <= h.limit
    BY <2>2 DEF InOrder
  <2> QED
    BY <1>0, <2>1, <2>2, <2>4, <2>5, <2>6, HandlerMoves
<1>3. CASE WaitGivenUp(p)
  <2> DEFINE h == [bpHandler[p] EXCEPT !.at = "closing"]
  <2>1. /\ bpHandler[p].at = "waiting" /\ Cut(p) /\ bpHandler' = [bpHandler EXCEPT ![p] = h]
        /\ UNCHANGED <<bpSource, bpLoop, bpJobs, bpLeft, bpGot, bpPipe, bpPush, bpEnd, bpScript>>
    BY <1>3 DEF WaitGivenUp, HandlerAt
  <2>2. /\ h \in HandlerRecs /\ h.at = "closing" /\ h.result = "none" /\ h.limit = bpHandler[p].limit
        /\ h.ranged = bpHandler[p].ranged /\ bpHandler[p].result = "none"
    BY <2>1 DEF HandlerRecs, Untouched, Reading
  <2>3. p \in bpLeft
    BY <2>1 DEF Cut, Untouched
  <2> HIDE DEF h, c
  <2>4. bpHandler'[p] = h /\ \A q \in Pipes \ {p} : bpHandler'[q] = bpHandler[q]
    BY <2>1
  <2>5. BlameCounted'
    BY <2>1, <2>2, <2>4, BlameSame
  <2>6. ResultsTrue(p)'
    BY <2>1, <2>2, <2>3, <2>4 DEF ResultsTrue, Reading
  <2>7. h.limit > 0 => Len(bpGot[p]) <= h.limit
    BY <2>2 DEF InOrder
  <2> QED
    BY <1>0, <2>1, <2>2, <2>5, <2>6, <2>7, HandlerMoves
<1>4. CASE ReadGivenUp(p)
  <2>1. /\ bpHandler[p].at = "reading" /\ Cut(p) /\ Ends(p, "left")
        /\ UNCHANGED <<bpLoop, bpJobs, bpLeft, bpGot, bpPipe, bpPush, bpEnd, bpScript>>
    BY <1>4 DEF ReadGivenUp, Hungry
  <2>2. p \in bpLeft
    BY <2>1 DEF Cut, Untouched
  <2> DEFINE result == "left"
  <2>3. Ends(p, result) /\ result = "left" /\ result \in {"whole", "failed", "left"}
    BY <2>1
  <2> HIDE DEF result, c
  <2> QED
    BY <1>0, <2>1, <2>2, <2>3, CopyEnds
<1>5. CASE LimitReached(p)
  <2>1. /\ bpHandler[p].at = "reading" /\ ~Hungry(p) /\ Ends(p, "whole")
        /\ UNCHANGED <<bpLoop, bpJobs, bpLeft, bpGot, bpPipe, bpPush, bpEnd, bpScript>>
    BY <1>5 DEF LimitReached
  <2>2. bpHandler[p].limit > 0 /\ Len(bpGot[p]) = bpHandler[p].limit
    <3>1. bpHandler[p].limit > 0 /\ ~(Len(bpGot[p]) < bpHandler[p].limit)
      BY <2>1 DEF Hungry
    <3>2. Len(bpGot[p]) <= bpHandler[p].limit /\ Len(bpGot[p]) \in Nat /\ bpHandler[p].limit \in Nat
      BY <3>1 DEF InOrder, UnitSeqs, HandlerRecs
    <3> QED
      BY <3>1, <3>2
  <2> DEFINE result == "whole"
  <2>3. Ends(p, result) /\ result = "whole" /\ result \in {"whole", "failed", "left"}
    BY <2>1
  <2> HIDE DEF result, c
  <2> QED
    BY <1>0, <2>1, <2>2, <2>3, CopyEnds
<1> QED
  BY <1>1, <1>2, <1>3, <1>4, <1>5

\* A pair of units has two items, the end of a stream has one.
LEMMA PairOfUnits ==
  ASSUME NEW a, NEW b
  PROVE  Len(<<a, b>>) = 2 /\ Tail(<<a, b>>) = <<b>>
OBVIOUS

\* The end of a stream cannot be taken for a chunk.
LEMMA EndIsNoPair ==
  ASSUME NEW item \in EndItems
  PROVE  /\ Len(item) = 1
         /\ \A a, b : item # <<a, b>>
<1>1. Len(item) = 1
  <2>1. Len(<<"end">>) = 1 /\ Len(<<"error">>) = 1
    OBVIOUS
  <2> QED
    BY <2>1 DEF EndItems
<1>2. ASSUME NEW a, NEW b PROVE item # <<a, b>>
  BY <1>1, PairOfUnits
<1> QED
  BY <1>1, <1>2

\* A unit is written: what the pipe holds moves up, and nothing is skipped.
LEMMA UnitTaken ==
  ASSUME PipeInv, NEW p \in Pipes, bpHandler[p].at = "reading",
         NEW g \in UnitSeqs, bpGot' = [bpGot EXCEPT ![p] = g],
         NEW c \in PipeRecs, bpPipe' = [bpPipe EXCEPT ![p] = c], c.closed = bpPipe[p].closed,
         InOrder(p)', OnItsWay(p)' = OnItsWay(p),
         UNCHANGED <<bpSource, bpLoop, bpJobs, bpLeft, bpHandler, bpPush, bpEnd, bpScript>>
  PROVE  PipeInv'
<1> USE Known
<1>1. /\ bpGot' \in [Pipes -> UnitSeqs] /\ bpGot'[p] = g
      /\ \A q \in Pipes \ {p} : bpGot'[q] = bpGot[q]
      /\ bpPipe' \in [Pipes -> PipeRecs] /\ bpPipe'[p] = c
      /\ \A q \in Pipes \ {p} : bpPipe'[q] = bpPipe[q]
  OBVIOUS
<1>2. PipeTypeOK' /\ Only(p)
  BY <1>1 DEF Only, PipeTypeOK, HandlerRecs, PipeRecs, SourceRecs, JobRecs, UnitSeqs, EndRecs, ScriptRecs
<1>3. ClaimsStay("none", p)
  BY DEF ClaimsStay
<1>4. JobsKnown' /\ BlameCounted'
  BY <1>3, JobsSame, BlameSame
<1>5. Untouched(p)' /\ ScriptSound(p)' /\ LetGo(p)'
  BY <1>1 DEF Untouched, ScriptSound, LetGo, Reading
<1>6. Complete(p)'
  BY CompleteKept DEF Reading
<1>7. ResultsTrue(p)'
  BY DEF ResultsTrue, Reading, Untouched
<1> QED
  BY <1>2, <1>4, <1>5, <1>6, <1>7, StepOfOne DEF Keeps

\* The second unit of a chunk is read.
LEMMA RestRead ==
  ASSUME PipeInv, NEW p \in Pipes, ReadsRest(p)
  PROVE  PipeInv'
<1> USE Known
<1> DEFINE c == [bpPipe[p] EXCEPT !.buf = <<>>]
           n == Len(bpGot[p])
           g == Append(bpGot[p], n + 1)
<1>1. /\ bpHandler[p].at = "reading" /\ bpPipe[p].buf # <<>> /\ (bpHandler[p].limit > 0 => n < bpHandler[p].limit)
      /\ bpPipe' = [bpPipe EXCEPT ![p].buf = Tail(bpPipe[p].buf)]
      /\ Writes(p, Head(bpPipe[p].buf))
      /\ UNCHANGED <<bpLoop, bpJobs, bpLeft, bpPush, bpEnd, bpScript>>
  BY DEF ReadsRest, Hungry
<1>2. bpPipe[p].buf = <<n + 1>> /\ n \in Nat
  BY <1>1 DEF InOrder, Reading, UnitSeqs
<1>3. Tail(bpPipe[p].buf) = <<>> /\ Head(bpPipe[p].buf) = n + 1 /\ Len(bpPipe[p].buf) = 1
  BY <1>2
<1>4. n + 1 \in 1..2 * PipeChunks
  <2>1. bpPipe[p].buf \in Seq(1..2 * PipeChunks)
    BY DEF PipeRecs
  <2>2. 1 \in DOMAIN bpPipe[p].buf /\ bpPipe[p].buf[1] = n + 1
    BY <1>2
  <2> DEFINE R == 1..2 * PipeChunks
             b == bpPipe[p].buf
  <2> HIDE DEF n, R, b
  <2>3. b[1] \in R
    <3>1. b \in Seq(R) /\ 1 \in DOMAIN b
      BY <2>1, <2>2 DEF R, b
    <3> QED
      BY <3>1
  <2> USE DEF R, b
  <2> QED
    BY <2>2, <2>3
<1>5. /\ c \in PipeRecs /\ c.closed = bpPipe[p].closed /\ c.ch = bpPipe[p].ch /\ c.buf = <<>>
      /\ bpPipe' = [bpPipe EXCEPT ![p] = c]
  <2>1. bpPipe' = [bpPipe EXCEPT ![p] = c]
    BY <1>1, <1>3
  <2> DEFINE e == <<>>
  <2>2. e \in Seq(1..2 * PipeChunks) /\ c = [bpPipe[p] EXCEPT !.buf = e] /\ e = <<>>
    OBVIOUS
  <2> HIDE DEF e, c
  <2>3. c \in PipeRecs /\ c.closed = bpPipe[p].closed /\ c.ch = bpPipe[p].ch /\ c.buf = e
    BY <2>2 DEF PipeRecs
  <2> QED
    BY <2>1, <2>2, <2>3
<1>6. /\ g \in UnitSeqs /\ Len(g) = n + 1 /\ DOMAIN g = 1..(n + 1) /\ g[n + 1] = n + 1
      /\ \A i \in 1..n : g[i] = bpGot[p][i]
  BY <1>4 DEF UnitSeqs
<1>7. /\ Len(bpGot[p]) = n /\ DOMAIN bpGot[p] = 1..n
      /\ (UNCHANGED <<bpHandler, bpSource>> /\ bpGot' = [bpGot EXCEPT ![p] = g])
          \/ (p \in bpLeft /\ Ends(p, "left") /\ UNCHANGED bpGot)
  BY <1>1, <1>3 DEF Writes, UnitSeqs
<1> HIDE DEF c, n, g
<1>8. bpPipe'[p] = c
  BY <1>5
<1>9. CASE UNCHANGED <<bpHandler, bpSource>> /\ bpGot' = [bpGot EXCEPT ![p] = g]
  <2>1. bpGot'[p] = g
    BY <1>9
  <2>2. ReadSoFar(p)' = ReadSoFar(p)
    <3>1. ReadSoFar(p) = n + 1
      BY <1>2, <1>3, <1>7 DEF ReadSoFar
    <3>2. Len(bpGot'[p]) = n + 1 /\ Len(bpPipe'[p].buf) = 0
      BY <1>5, <1>6, <1>8, <2>1
    <3> QED
      BY <1>2, <3>1, <3>2 DEF ReadSoFar
  <2>3. EndIn(p)' <=> EndIn(p)
    BY <1>1, <1>5, <1>8 DEF EndIn
  <2>4. OnItsWay(p)' = OnItsWay(p)
    BY <1>5, <1>8, <2>2, <2>3 DEF OnItsWay
  <2>5. \A i \in DOMAIN bpGot'[p] : bpGot'[p][i] = i
    <3>1. \A i \in 1..n : bpGot[p][i] = i
      BY <1>7 DEF InOrder
    <3> QED
      BY <1>2, <1>6, <2>1, <3>1
  <2>6. bpHandler'[p].limit > 0 => Len(bpGot'[p]) <= bpHandler'[p].limit
    <3>1. bpHandler[p].limit \in Nat /\ bpHandler'[p] = bpHandler[p]
      BY <1>9 DEF HandlerRecs
    <3> QED
      BY <1>1, <1>2, <1>6, <2>1, <3>1
  <2>7. \A j \in DOMAIN c.ch :
           \/ c.ch[j] = <<ReadSoFar(p) + 2 * j - 1, ReadSoFar(p) + 2 * j>>
           \/ j = Len(c.ch) /\ bpEnd[p].at = "done" /\ c.ch[j] = bpEnd[p].item
    BY <1>1, <1>5 DEF InOrder, Reading
  <2>8. InOrder(p)'
    <3>1. \A j \in DOMAIN bpPipe'[p].ch :
            \/ bpPipe'[p].ch[j] = <<ReadSoFar(p)' + 2 * j - 1, ReadSoFar(p)' + 2 * j>>
            \/ j = Len(bpPipe'[p].ch) /\ bpEnd'[p].at = "done" /\ bpPipe'[p].ch[j] = bpEnd'[p].item
      BY <1>1, <1>8, <2>2, <2>7
    <3>2. bpPipe'[p].buf = <<>>
      BY <1>5, <1>8
    <3> QED
      BY <2>5, <2>6, <3>1, <3>2 DEF InOrder
  <2> QED
    BY <1>1, <1>5, <1>6, <1>9, <2>4, <2>8, UnitTaken
<1>10. CASE p \in bpLeft /\ Ends(p, "left") /\ UNCHANGED bpGot
  <2> DEFINE result == "left"
  <2>1. Ends(p, result) /\ result = "left" /\ result \in {"whole", "failed", "left"}
    BY <1>10
  <2> HIDE DEF result
  <2> QED
    BY <1>1, <1>5, <1>10, <2>1, CopyEnds
<1> QED
  BY <1>7, <1>9, <1>10

\* The end of a stream is the last item of its channel, and everything that the
\* script made was read before it.
LEMMA EndFound ==
  ASSUME PipeInv, NEW p \in Pipes, bpHandler[p].at = "reading", bpPipe[p].buf = <<>>,
         bpPipe[p].ch # <<>>, Head(bpPipe[p].ch) \in EndItems
  PROVE  /\ bpEnd[p].at = "done" /\ bpEnd[p].item = Head(bpPipe[p].ch)
         /\ OnItsWay(p) = Len(bpGot[p])
<1> USE Known
<1>1. /\ 1 \in DOMAIN bpPipe[p].ch /\ Head(bpPipe[p].ch) = bpPipe[p].ch[1] /\ Len(bpPipe[p].ch) \in Nat
      /\ Len(bpGot[p]) \in Nat /\ Len(bpPipe[p].buf) = 0
  BY DEF PipeRecs, UnitSeqs
<1>2. ReadSoFar(p) = Len(bpGot[p])
  BY <1>1 DEF ReadSoFar
<1>3. \A a, b : Head(bpPipe[p].ch) # <<a, b>>
  BY EndIsNoPair
<1>4. 1 = Len(bpPipe[p].ch) /\ bpEnd[p].at = "done" /\ bpPipe[p].ch[1] = bpEnd[p].item
  <2>1. \/ bpPipe[p].ch[1] = <<ReadSoFar(p) + 2 * 1 - 1, ReadSoFar(p) + 2 * 1>>
        \/ 1 = Len(bpPipe[p].ch) /\ bpEnd[p].at = "done" /\ bpPipe[p].ch[1] = bpEnd[p].item
    BY <1>1 DEF InOrder, Reading
  <2> QED
    BY <1>1, <1>3, <2>1
<1>5. EndIn(p)
  BY <1>1, <1>4 DEF EndIn
<1>6. OnItsWay(p) = Len(bpGot[p]) + 2 * (1 - 1)
  BY <1>2, <1>4, <1>5 DEF OnItsWay
<1> QED
  BY <1>1, <1>4, <1>6

\* The end of the stream is read: the copy ends, and with the right result.
LEMMA EndRead ==
  ASSUME PipeInv, NEW p \in Pipes, ReadsItem(p), Head(bpPipe[p].ch) \in EndItems
  PROVE  PipeInv'
<1> USE Known
<1> DEFINE item == Head(bpPipe[p].ch)
           c == [bpPipe[p] EXCEPT !.ch = Tail(bpPipe[p].ch), !.buf = <<>>]
<1>1. Len(item) = 1
  BY EndIsNoPair
<1>2. /\ bpHandler[p].at = "reading" /\ bpPipe[p].ch # <<>> /\ bpPipe[p].buf = <<>>
      /\ bpHandler[p].limit > 0 => Len(bpGot[p]) < bpHandler[p].limit
      /\ bpPipe' = [bpPipe EXCEPT ![p] = c]
      /\ UNCHANGED <<bpLoop, bpJobs, bpLeft, bpGot, bpPush, bpEnd, bpScript>>
  <2>1. item = <<"end">> \/ (item # <<"end">> /\ item = <<"error">>)
    BY DEF EndItems
  <2>2. UNCHANGED bpGot
    BY <2>1 DEF ReadsItem
  <2>3. /\ bpHandler[p].at = "reading" /\ bpPipe[p].ch # <<>> /\ bpPipe[p].buf = <<>>
        /\ bpHandler[p].limit > 0 => Len(bpGot[p]) < bpHandler[p].limit
        /\ UNCHANGED <<bpLoop, bpJobs, bpLeft, bpPush, bpEnd, bpScript>>
    BY DEF ReadsItem, Hungry
  <2>4. bpPipe' = [bpPipe EXCEPT ![p].ch = Tail(bpPipe[p].ch), ![p].buf = IF Len(item) = 2 THEN Tail(item) ELSE <<>>]
    BY DEF ReadsItem
  <2>5. bpPipe' = [bpPipe EXCEPT ![p].ch = Tail(bpPipe[p].ch), ![p].buf = <<>>]
    <3> HIDE DEF item, c
    <3>1. Len(item) # 2
      BY <1>1
    <3>2. \A t : (IF Len(item) = 2 THEN t ELSE <<>>) = <<>>
      BY <3>1
    <3> QED
      BY <2>4, <3>2, Zenon
  <2>6. bpPipe' = [bpPipe EXCEPT ![p] = c]
    BY <2>5
  <2> QED
    BY <2>2, <2>3, <2>6
<1>3. c \in PipeRecs /\ c.closed = bpPipe[p].closed
  <2> DEFINE e == <<>>
             t == Tail(bpPipe[p].ch)
  <2>1. e \in Seq(1..2 * PipeChunks) /\ t \in Seq(PipeItems) /\ c = [bpPipe[p] EXCEPT !.ch = t, !.buf = e]
    BY <1>2 DEF PipeRecs
  <2> HIDE DEF e, c, t
  <2> QED
    BY <2>1 DEF PipeRecs
<1> HIDE DEF c
<1>4. /\ bpEnd[p].at = "done" /\ bpEnd[p].item = item /\ bpScript[p].at = "ended"
      /\ OnItsWay(p) = Len(bpGot[p])
  BY <1>2, EndFound DEF ScriptSound
<1>5. CASE item = <<"error">>
  <2> DEFINE result == "failed"
  <2>1. Ends(p, result) /\ result = "failed" /\ result \in {"whole", "failed", "left"}
    BY <1>5 DEF ReadsItem
  <2>2. bpScript[p].reader \in {"none", "failed"}
    BY <1>4, <1>5 DEF ScriptSound
  <2> HIDE DEF result, item
  <2> QED
    BY <1>2, <1>3, <1>4, <2>1, <2>2, CopyEnds
<1>6. CASE item = <<"end">>
  <2> DEFINE result == EndOfBody(p)
  <2>0. bpEnd[p].item # <<"error">>
    <3>1. <<"end">>[1] = "end" /\ <<"error">>[1] = "error"
      OBVIOUS
    <3> QED
      BY <1>4, <1>6, <3>1
  <2>1. Ends(p, result)
    BY <1>6 DEF ReadsItem
  <2>2. bpScript[p].reader = "finished"
    BY <1>2, <1>4, <2>0 DEF ScriptSound
  <2>3. Len(bpGot[p]) = 2 * bpScript[p].made
    BY <1>2, <1>4, <2>2 DEF Complete, Reading
  <2>4. Len(bpGot[p]) \in Nat /\ bpHandler[p].limit \in Nat
    BY DEF UnitSeqs, HandlerRecs
  <2>5. result = IF Len(bpGot[p]) < bpHandler[p].limit THEN "failed" ELSE "whole"
    BY DEF EndOfBody
  <2> HIDE DEF result, item
  <2>6. result \in {"whole", "failed"} /\ result \in {"whole", "failed", "left"} /\ result # "left"
    BY <2>5
  <2>7. result = "whole" => bpHandler[p].limit = 0
    BY <1>2, <2>4, <2>5
  <2>8. result = "failed" => 2 * bpScript[p].made < bpHandler[p].limit
    BY <2>3, <2>5
  <2> QED
    <3>1. result = "failed" =>
            /\ bpScript[p].at = "ended"
            /\ \/ bpScript[p].reader \in {"none", "failed"}
               \/ bpScript[p].reader = "finished" /\ 2 * bpScript[p].made < bpHandler[p].limit
      BY <1>4, <2>2, <2>8
    <3>2. result = "whole" =>
            IF bpHandler[p].limit > 0 THEN Len(bpGot[p]) = bpHandler[p].limit
            ELSE bpScript[p].reader = "finished" /\ Len(bpGot[p]) = 2 * bpScript[p].made
      BY <2>2, <2>3, <2>7
    <3> QED
      BY <1>2, <1>3, <2>1, <2>6, <3>1, <3>2, CopyEnds
<1> QED
  BY <1>5, <1>6 DEF EndItems

\* A chunk is taken from the channel, and its first unit is read.
LEMMA ChunkRead ==
  ASSUME PipeInv, NEW p \in Pipes, ReadsItem(p), Head(bpPipe[p].ch) \notin EndItems
  PROVE  PipeInv'
<1> USE Known
<1> DEFINE m == Len(bpPipe[p].ch)
           n == Len(bpGot[p])
           g == Append(bpGot[p], n + 1)
           c == [bpPipe[p] EXCEPT !.ch = Tail(bpPipe[p].ch), !.buf = <<n + 2>>]
<1>1. /\ bpHandler[p].at = "reading" /\ bpPipe[p].buf = <<>> /\ bpPipe[p].ch # <<>>
      /\ bpHandler[p].limit > 0 => n < bpHandler[p].limit
      /\ Writes(p, Head(bpPipe[p].ch)[1])
      /\ bpPipe' = [bpPipe EXCEPT ![p].ch = Tail(bpPipe[p].ch),
                      ![p].buf = IF Len(Head(bpPipe[p].ch)) = 2 THEN Tail(Head(bpPipe[p].ch)) ELSE <<>>]
      /\ UNCHANGED <<bpLoop, bpJobs, bpLeft, bpPush, bpEnd, bpScript>>
  BY DEF ReadsItem, Hungry, EndItems
<1>2. /\ bpPipe[p].ch \in Seq(PipeItems) /\ m \in Nat \ {0} /\ DOMAIN bpPipe[p].ch = 1..m
      /\ Head(bpPipe[p].ch) = bpPipe[p].ch[1] /\ bpPipe[p].ch[1] \in PipeItems /\ n \in Nat
      /\ DOMAIN bpGot[p] = 1..n /\ Len(bpPipe[p].buf) = 0
  BY <1>1 DEF PipeRecs, UnitSeqs
<1>3. ReadSoFar(p) = n
  BY <1>2 DEF ReadSoFar
<1>4. PICK k \in 1..PipeChunks : bpPipe[p].ch[1] = <<2 * k - 1, 2 * k>>
  BY <1>2 DEF PipeItems, Chunk, EndItems
<1>5. bpPipe[p].ch[1] = <<n + 1, n + 2>> /\ bpPipe[p].ch[1] # bpEnd[p].item
  <2>1. bpEnd[p].item \in EndItems
    BY DEF ScriptSound
  <2>2. bpPipe[p].ch[1] = <<n + 2 * 1 - 1, n + 2 * 1>>
    <3>1. \/ bpPipe[p].ch[1] = <<ReadSoFar(p) + 2 * 1 - 1, ReadSoFar(p) + 2 * 1>>
          \/ bpPipe[p].ch[1] = bpEnd[p].item
      <4>1. 1 \in DOMAIN bpPipe[p].ch /\ Reading(p)
        BY <1>1, <1>2 DEF Reading
      <4> QED
        BY <4>1 DEF InOrder
    <3>2. bpPipe[p].ch[1] # bpEnd[p].item
      BY <1>4, <2>1, EndIsNoPair
    <3> QED
      BY <1>3, <3>1, <3>2
  <2>3. n + 2 * 1 - 1 = n + 1 /\ n + 2 * 1 = n + 2
    BY <1>2
  <2> QED
    BY <1>4, <2>1, <2>2, <2>3, EndIsNoPair
<1>6. n + 1 = 2 * k - 1 /\ n + 2 = 2 * k
  BY <1>4, <1>5
<1>7. n + 1 \in 1..2 * PipeChunks /\ n + 2 \in 1..2 * PipeChunks
  BY <1>2, <1>6, PipeAssumption
<1>8. /\ bpPipe' = [bpPipe EXCEPT ![p] = c]
      /\ Head(bpPipe[p].ch)[1] = n + 1
  <2>1. Len(Head(bpPipe[p].ch)) = 2 /\ Tail(Head(bpPipe[p].ch)) = <<n + 2>>
    BY <1>2, <1>5, PairOfUnits
  <2>2. Head(bpPipe[p].ch)[1] = n + 1
    BY <1>2, <1>5
  <2> QED
    BY <1>1, <2>1, <2>2
<1>9. /\ c \in PipeRecs /\ c.closed = bpPipe[p].closed /\ c.ch = Tail(bpPipe[p].ch) /\ c.buf = <<n + 2>>
  <2>1. Tail(bpPipe[p].ch) \in Seq(PipeItems) /\ <<n + 2>> \in Seq(1..2 * PipeChunks)
    BY <1>1, <1>2, <1>7
  <2> DEFINE t == Tail(bpPipe[p].ch)
             b == <<n + 2>>
  <2> HIDE DEF t, b
  <2>2. [bpPipe[p] EXCEPT !.ch = t, !.buf = b] \in PipeRecs
    BY <2>1 DEF PipeRecs, t, b
  <2> QED
    BY <2>2 DEF PipeRecs, t, b
<1>10. /\ g \in UnitSeqs /\ Len(g) = n + 1 /\ DOMAIN g = 1..(n + 1) /\ g[n + 1] = n + 1
       /\ \A i \in 1..n : g[i] = bpGot[p][i]
  BY <1>7 DEF UnitSeqs
<1>11. /\ Len(c.ch) = m - 1 /\ DOMAIN c.ch = 1..(m - 1) /\ Len(c.buf) = 1
       /\ \A j \in 1..(m - 1) : c.ch[j] = bpPipe[p].ch[j + 1]
  BY <1>2, <1>9
<1>12. (UNCHANGED <<bpHandler, bpSource>> /\ bpGot' = [bpGot EXCEPT ![p] = g])
          \/ (p \in bpLeft /\ Ends(p, "left") /\ UNCHANGED bpGot)
  BY <1>1, <1>8 DEF Writes
<1>13. Len(bpGot[p]) = n /\ m = Len(bpPipe[p].ch)
  OBVIOUS
<1> HIDE DEF c, n, g, m
<1>14. bpPipe'[p] = c
  BY <1>8
<1>15. CASE UNCHANGED <<bpHandler, bpSource>> /\ bpGot' = [bpGot EXCEPT ![p] = g]
  <2>1. bpGot'[p] = g
    BY <1>15
  <2>2. ReadSoFar(p)' = n + 2
    <3>1. Len(bpGot'[p]) = n + 1 /\ Len(bpPipe'[p].buf) = 1
      BY <1>10, <1>11, <1>14, <2>1
    <3> QED
      BY <1>2, <3>1 DEF ReadSoFar
  <2>3. EndIn(p)' <=> EndIn(p)
    <3>1. EndIn(p) => \E j \in 1..(m - 1) : bpPipe[p].ch[j + 1] = bpEnd[p].item
      <4> SUFFICES ASSUME NEW i \in 1..m, bpPipe[p].ch[i] = bpEnd[p].item
                   PROVE  \E j \in 1..(m - 1) : bpPipe[p].ch[j + 1] = bpEnd[p].item
        BY <1>2 DEF EndIn
      <4>1. i # 1
        BY <1>5
      <4>2. i - 1 \in 1..(m - 1) /\ bpPipe[p].ch[(i - 1) + 1] = bpEnd[p].item
        BY <1>2, <4>1
      <4> QED
        BY <4>2
    <3>2. (\E j \in 1..(m - 1) : bpPipe[p].ch[j + 1] = bpEnd[p].item) => EndIn(p)
      <4> SUFFICES ASSUME NEW j \in 1..(m - 1), bpPipe[p].ch[j + 1] = bpEnd[p].item
                   PROVE  EndIn(p)
        OBVIOUS
      <4>1. j + 1 \in 1..m
        BY <1>2
      <4> QED
        BY <1>2, <4>1 DEF EndIn
    <3>3. EndIn(p)' <=> \E j \in 1..(m - 1) : bpPipe[p].ch[j + 1] = bpEnd[p].item
      <4>1. DOMAIN c.ch = 1..(m - 1) /\ bpEnd'[p] = bpEnd[p]
        BY <1>1, <1>11
      <4>2. EndIn(p)' <=> \E j \in 1..(m - 1) : c.ch[j] = bpEnd[p].item
        BY <1>14, <4>1 DEF EndIn
      <4> QED
        BY <1>11, <4>2
    <3> QED
      BY <3>1, <3>2, <3>3
  <2>4. OnItsWay(p)' = OnItsWay(p)
    <3>1. Len(bpPipe'[p].ch) = m - 1 /\ Len(bpPipe[p].ch) = m
      BY <1>11, <1>13, <1>14
    <3>2. OnItsWay(p) = n + 2 * (IF EndIn(p) THEN m - 1 ELSE m)
      BY <1>3, <3>1 DEF OnItsWay
    <3>3. OnItsWay(p)' = (n + 2) + 2 * (IF EndIn(p) THEN (m - 1) - 1 ELSE m - 1)
      BY <2>2, <2>3, <3>1 DEF OnItsWay
    <3> QED
      BY <1>2, <3>2, <3>3
  <2>5. \A i \in DOMAIN bpGot'[p] : bpGot'[p][i] = i
    <3>1. \A i \in 1..n : bpGot[p][i] = i
      BY <1>2 DEF InOrder
    <3> QED
      BY <1>2, <1>10, <2>1, <3>1
  <2>6. bpHandler'[p].limit > 0 => Len(bpGot'[p]) <= bpHandler'[p].limit
    <3>1. bpHandler[p].limit \in Nat /\ bpHandler'[p] = bpHandler[p]
      BY <1>15 DEF HandlerRecs
    <3> QED
      BY <1>1, <1>2, <1>10, <2>1, <3>1
  <2>7. bpPipe'[p].buf = <<Len(bpGot'[p]) + 1>>
    BY <1>2, <1>9, <1>10, <1>14, <2>1
  <2>8. ASSUME NEW j \in 1..(m - 1)
        PROVE  \/ c.ch[j] = <<(n + 2) + 2 * j - 1, (n + 2) + 2 * j>>
               \/ j = m - 1 /\ bpEnd[p].at = "done" /\ c.ch[j] = bpEnd[p].item
    <3>1. j + 1 \in 1..m /\ c.ch[j] = bpPipe[p].ch[j + 1]
      BY <1>2, <1>11
    <3>2. \/ bpPipe[p].ch[j + 1] = <<n + 2 * (j + 1) - 1, n + 2 * (j + 1)>>
          \/ j + 1 = m /\ bpEnd[p].at = "done" /\ bpPipe[p].ch[j + 1] = bpEnd[p].item
      BY <1>1, <1>2, <1>3, <1>13, <3>1 DEF InOrder, Reading
    <3>3. n + 2 * (j + 1) - 1 = (n + 2) + 2 * j - 1 /\ n + 2 * (j + 1) = (n + 2) + 2 * j
      BY <1>2
    <3> QED
      BY <1>2, <3>1, <3>2, <3>3
  <2>9. InOrder(p)'
    <3>1. \A j \in DOMAIN bpPipe'[p].ch :
            \/ bpPipe'[p].ch[j] = <<ReadSoFar(p)' + 2 * j - 1, ReadSoFar(p)' + 2 * j>>
            \/ j = Len(bpPipe'[p].ch) /\ bpEnd'[p].at = "done" /\ bpPipe'[p].ch[j] = bpEnd'[p].item
      <4>1. DOMAIN bpPipe'[p].ch = 1..(m - 1) /\ Len(bpPipe'[p].ch) = m - 1 /\ bpEnd'[p] = bpEnd[p]
        BY <1>1, <1>11, <1>14
      <4>2. ASSUME NEW j \in 1..(m - 1)
            PROVE  \/ bpPipe'[p].ch[j] = <<ReadSoFar(p)' + 2 * j - 1, ReadSoFar(p)' + 2 * j>>
                   \/ j = m - 1 /\ bpEnd[p].at = "done" /\ bpPipe'[p].ch[j] = bpEnd[p].item
        BY <1>14, <2>2, <2>8
      <4> QED
        BY <4>1, <4>2
    <3> QED
      BY <2>5, <2>6, <2>7, <3>1 DEF InOrder
  <2> QED
    BY <1>1, <1>8, <1>9, <1>10, <1>15, <2>4, <2>9, UnitTaken
<1>16. CASE p \in bpLeft /\ Ends(p, "left") /\ UNCHANGED bpGot
  <2> DEFINE result == "left"
  <2>1. Ends(p, result) /\ result = "left" /\ result \in {"whole", "failed", "left"}
    BY <1>16
  <2> HIDE DEF result
  <2> QED
    BY <1>1, <1>8, <1>9, <1>16, <2>1, CopyEnds
<1> QED
  BY <1>12, <1>15, <1>16

-----------------------------------------------------------------------------
\* Close, and the goroutines of the chunks and of the end

\* A closure that is queued for a pipe claims its place.
LEMMA QueuedClaims ==
  ASSUME PipeInv, NEW p \in Pipes, NEW i \in DOMAIN bpJobs, NEW kind, bpJobs[i] = <<kind, p>>
  PROVE  Claim(kind, p)
<1>1. JobsKnown /\ bpJobs[i][1] = kind /\ bpJobs[i][2] = p
  <2>1. <<kind, p>>[1] = kind /\ <<kind, p>>[2] = p
    OBVIOUS
  <2> QED
    BY <2>1 DEF PipeInv
<1> QED
  BY <1>1, JobsAsClaims

\* A script whose chunk has no answer yet has none in the queue either.
LEMMA NoAnswerYet ==
  ASSUME PipeInv, NEW p \in Pipes, bpScript[p].at # "pushing" \/ bpPush[p] # "none",
         NEW i \in DOMAIN bpJobs
  PROVE  bpJobs[i] # <<"true", p>>
<1> SUFFICES ASSUME bpJobs[i] = <<"true", p>> PROVE FALSE
  OBVIOUS
<1> DEFINE k == "true"
<1>1. bpJobs[i] = <<k, p>> /\ k = "true"
  OBVIOUS
<1> HIDE DEF k
<1>2. Claim(k, p)
  BY <1>1, QueuedClaims
<1> QED
  BY <1>1, <1>2 DEF Claim

\* Close queues the cancellation; no other one is queued.
LEMMA CloseKeeps ==
  ASSUME PipeInv, NEW p \in Pipes, ClosePipe(p)
  PROVE  PipeInv'
<1> USE Known
<1> DEFINE h == [bpHandler[p] EXCEPT !.at = "cancelling"]
           c == [bpPipe[p] EXCEPT !.closed = TRUE, !.listed = FALSE]
           k == "cancel"
           none == "none"
<1>1. /\ bpHandler[p].at = "closing" /\ bpHandler' = [bpHandler EXCEPT ![p] = h]
      /\ bpPipe' = [bpPipe EXCEPT ![p] = c] /\ bpJobs' = Append(bpJobs, <<k, p>>)
      /\ UNCHANGED <<bpSource, bpLoop, bpLeft, bpGot, bpPush, bpEnd, bpScript>>
  BY DEF ClosePipe, HandlerAt
<1>2. /\ h \in HandlerRecs /\ h.at = "cancelling" /\ h.result = bpHandler[p].result
      /\ h.limit = bpHandler[p].limit /\ h.ranged = bpHandler[p].ranged
      /\ c \in PipeRecs /\ c.closed /\ c.ch = bpPipe[p].ch /\ c.buf = bpPipe[p].buf
  BY DEF HandlerRecs, PipeRecs
<1>3. k = "cancel" /\ none = "none" /\ k \in {"open", "cancel", "true", "false"}
  OBVIOUS
<1> HIDE DEF h, c, k, none
<1>4. /\ bpHandler' \in [Pipes -> HandlerRecs] /\ bpHandler'[p] = h
      /\ \A q \in Pipes \ {p} : bpHandler'[q] = bpHandler[q]
      /\ bpPipe' \in [Pipes -> PipeRecs] /\ bpPipe'[p] = c
      /\ \A q \in Pipes \ {p} : bpPipe'[q] = bpPipe[q]
  BY <1>1, <1>2
<1>5. ~Claim(k, p) /\ Claim(k, p)' /\ ClaimsStay(none, p)
  BY <1>1, <1>2, <1>3, <1>4 DEF Claim, ClaimsStay
<1>6. /\ JobsKnown' /\ bpJobs' \in Seq(JobRecs)
      /\ \A q \in Pipes : (\E i \in DOMAIN bpJobs' : bpJobs'[i] = <<"true", q>>) =>
            \E i \in DOMAIN bpJobs : bpJobs[i] = <<"true", q>>
  BY <1>1, <1>3, <1>5, JobsMore
<1>7. PipeTypeOK' /\ Only(p)
  BY <1>1, <1>4, <1>6 DEF Only, PipeTypeOK, HandlerRecs, PipeRecs, SourceRecs, JobRecs, UnitSeqs, EndRecs, ScriptRecs
<1>8. BlameCounted'
  BY <1>1, <1>2, <1>4, BlameSame
<1>9. Untouched(p)' /\ ScriptSound(p)' /\ LetGo(p)'
  BY <1>1, <1>2, <1>4 DEF Untouched, ScriptSound, LetGo, Reading
<1>10. ~Reading(p) /\ ~Reading(p)'
  BY <1>1, <1>2, <1>4 DEF Reading
<1>11. InOrder(p)' /\ Complete(p)'
  BY <1>1, <1>2, <1>4, <1>10 DEF InOrder, Complete
<1>12. ResultsTrue(p)'
  BY <1>1, <1>2, <1>4, <1>10 DEF ResultsTrue
<1> QED
  BY <1>1, <1>6, <1>7, <1>8, <1>9, <1>11, <1>12, StepOfOne DEF Keeps

\* The goroutine of a chunk has its answer.
LEMMA PushAnswered ==
  ASSUME PipeInv, NEW p \in Pipes, bpPush[p] # "none", NEW ok \in BOOLEAN, Answers(p, ok),
         NEW c \in PipeRecs, bpPipe' = [bpPipe EXCEPT ![p] = c], c.closed = bpPipe[p].closed,
         c.buf = bpPipe[p].buf, InOrder(p)', ok /\ Reading(p) => OnItsWay(p)' = 2 * bpScript[p].made,
         UNCHANGED <<bpSource, bpLoop, bpLeft, bpHandler, bpGot, bpEnd, bpScript>>
  PROVE  PipeInv'
<1> USE Known
<1> DEFINE k == IF ok THEN "true" ELSE "false"
           none == "none"
<1>1. /\ bpPush' = [bpPush EXCEPT ![p] = none] /\ none = "none"
      /\ k \in {"open", "cancel", "true", "false"} /\ k \in {"true", "false"} /\ (k = "true" <=> ok)
      /\ bpScript[p].at = "pushing"
      /\ bpJobs' = IF bpLoop THEN Append(bpJobs, <<k, p>>) ELSE bpJobs
  BY DEF Answers, ScriptSound
<1> HIDE DEF k, none
<1>2. /\ bpPush' \in [Pipes -> {"none", "looking", "sending"}] /\ bpPush'[p] = "none"
      /\ \A q \in Pipes \ {p} : bpPush'[q] = bpPush[q]
      /\ bpPipe' \in [Pipes -> PipeRecs] /\ bpPipe'[p] = c
      /\ \A q \in Pipes \ {p} : bpPipe'[q] = bpPipe[q]
  BY <1>1
<1>3. ~Claim(k, p) /\ Claim(k, p)' /\ ClaimsStay(none, p)
  BY <1>1, <1>2 DEF Claim, ClaimsStay
<1>4. /\ JobsKnown' /\ bpJobs' \in Seq(JobRecs)
      /\ \A q \in Pipes : (\E i \in DOMAIN bpJobs' : bpJobs'[i] = <<"true", q>>) =>
            \/ q = p /\ k = "true"
            \/ \E i \in DOMAIN bpJobs : bpJobs[i] = <<"true", q>>
  <2>1. CASE bpLoop
    BY <1>1, <1>3, <2>1, JobsMore
  <2>2. CASE ~bpLoop
    BY <1>1, <1>3, <2>2, JobsSame
  <2> QED
    BY <2>1, <2>2
<1>5. PipeTypeOK' /\ Only(p)
  BY <1>1, <1>2, <1>4 DEF Only, PipeTypeOK, HandlerRecs, PipeRecs, SourceRecs, JobRecs, UnitSeqs, EndRecs, ScriptRecs
<1>6. BlameCounted'
  BY BlameSame
<1>7. Untouched(p)' /\ ScriptSound(p)' /\ LetGo(p)' /\ ResultsTrue(p)'
  BY <1>1, <1>2 DEF Untouched, ScriptSound, LetGo, ResultsTrue, Reading
<1>8. Complete(p)'
  <2>1. bpScript[p].reader # "finished"
    BY <1>1 DEF ScriptSound
  <2>2. (\E i \in DOMAIN bpJobs' : bpJobs'[i] = <<"true", p>>) => ok
    BY <1>1, <1>4, NoAnswerYet
  <2> QED
    BY <1>1, <1>2, <2>1, <2>2 DEF Complete, Reading
<1> QED
  BY <1>4, <1>5, <1>6, <1>7, <1>8, StepOfOne DEF Keeps

\* Without an end, the channel holds chunks alone.
LEMMA NoEndYet ==
  ASSUME PipeInv, NEW p \in Pipes, Reading(p), bpEnd[p].at # "done"
  PROVE  /\ ~EndIn(p)
         /\ \A j \in DOMAIN bpPipe[p].ch : bpPipe[p].ch[j] \notin EndItems
         /\ OnItsWay(p) = ReadSoFar(p) + 2 * Len(bpPipe[p].ch)
<1> USE Known
<1>1. ASSUME NEW j \in DOMAIN bpPipe[p].ch PROVE bpPipe[p].ch[j] \notin EndItems
  <2>1. bpPipe[p].ch[j] = <<ReadSoFar(p) + 2 * j - 1, ReadSoFar(p) + 2 * j>>
    BY DEF InOrder
  <2> QED
    BY <2>1, EndIsNoPair
<1>2. ~EndIn(p)
  BY <1>1 DEF EndIn, ScriptSound
<1> QED
  BY <1>1, <1>2 DEF OnItsWay

\* The steps of the goroutine of a chunk.
LEMMA PushKeeps ==
  ASSUME PipeInv, NEW p \in Pipes, PushStep(p)
  PROVE  PipeInv'
<1> USE Known
<1>1. CASE PushLooks(p) /\ bpPipe[p].listed
  <2>1. /\ bpPush[p] = "looking" /\ bpPush' = [bpPush EXCEPT ![p] = "sending"]
        /\ UNCHANGED <<bpSource, bpLoop, bpJobs, bpLeft, bpHandler, bpGot, bpPipe, bpEnd, bpScript>>
    BY <1>1 DEF PushLooks
  <2>2. /\ bpPush' \in [Pipes -> {"none", "looking", "sending"}] /\ bpPush'[p] = "sending"
        /\ \A q \in Pipes \ {p} : bpPush'[q] = bpPush[q]
    BY <2>1
  <2>3. PipeTypeOK' /\ Only(p)
    BY <2>1, <2>2 DEF Only, PipeTypeOK, HandlerRecs, PipeRecs, SourceRecs, JobRecs, UnitSeqs, EndRecs, ScriptRecs
  <2>4. ClaimsStay("none", p)
    BY <2>1, <2>2 DEF ClaimsStay
  <2>5. JobsKnown' /\ BlameCounted'
    BY <2>1, <2>4, JobsSame, BlameSame
  <2>6. Untouched(p)' /\ ScriptSound(p)' /\ LetGo(p)' /\ ResultsTrue(p)'
    BY <2>1, <2>2 DEF Untouched, ScriptSound, LetGo, ResultsTrue, Reading
  <2>7. InOrder(p)' /\ OnItsWay(p)' = OnItsWay(p)
    BY <2>1, OrderKept DEF FlowSame, Reading, InOrder
  <2>8. Complete(p)'
    BY <2>1, <2>2, <2>7 DEF Complete, Reading
  <2> QED
    BY <2>1, <2>3, <2>5, <2>6, <2>7, <2>8, StepOfOne DEF Keeps
<1>2. CASE (PushLooks(p) /\ ~bpPipe[p].listed) \/ PushGivenUp(p)
  <2> DEFINE ok == FALSE
             c == bpPipe[p]
  <2>1. /\ bpPush[p] # "none" /\ Answers(p, ok) /\ ok \in BOOLEAN /\ ~ok
        /\ UNCHANGED <<bpSource, bpLoop, bpLeft, bpHandler, bpGot, bpPipe, bpEnd, bpScript>>
    BY <1>2 DEF PushLooks, PushGivenUp
  <2>2. c \in PipeRecs /\ bpPipe' = [bpPipe EXCEPT ![p] = c] /\ c.closed = bpPipe[p].closed /\ c.buf = bpPipe[p].buf
    BY <2>1, SelfUpdate
  <2>3. InOrder(p)'
    BY <2>1, OrderKept DEF FlowSame, Reading, InOrder
  <2> HIDE DEF ok, c
  <2> QED
    BY <2>1, <2>2, <2>3, PushAnswered
<1>3. CASE PushSends(p)
  <2> DEFINE m == Len(bpPipe[p].ch)
             made == bpScript[p].made
             item == Chunk(made)
             c == [bpPipe[p] EXCEPT !.ch = Append(bpPipe[p].ch, item)]
             ok == TRUE
  <2>1. /\ bpPush[p] = "sending" /\ bpPipe' = [bpPipe EXCEPT ![p] = c] /\ Answers(p, ok) /\ ok \in BOOLEAN
        /\ UNCHANGED <<bpSource, bpLoop, bpLeft, bpHandler, bpGot, bpEnd, bpScript>>
    BY <1>3 DEF PushSends, Sends
  <2>2. /\ made \in 1..PipeChunks /\ bpEnd[p].at = "none" /\ bpEnd[p].item \in EndItems
        /\ m \in Nat /\ DOMAIN bpPipe[p].ch = 1..m /\ bpPipe[p].ch \in Seq(PipeItems)
    <3>1. bpScript[p].at = "pushing" /\ bpScript[p].made > 0 /\ bpEnd[p].item \in EndItems
      BY <2>1 DEF ScriptSound
    <3>2. bpEnd[p].at = "none"
      BY <3>1 DEF ScriptSound
    <3>3. bpScript[p].made \in 0..PipeChunks /\ PipeChunks \in Nat
      BY PipeAssumption DEF ScriptRecs
    <3>4. made \in 1..PipeChunks
      BY <3>1, <3>3
    <3>5. bpPipe[p].ch \in Seq(PipeItems)
      BY DEF PipeRecs
    <3> QED
      BY <3>1, <3>2, <3>4, <3>5
  <2>3. item \in PipeItems /\ item = <<2 * made - 1, 2 * made>> /\ item \notin EndItems
    <3>1. item \in PipeItems
      BY <2>2 DEF PipeItems
    <3>2. item = <<2 * made - 1, 2 * made>>
      BY DEF Chunk
    <3> QED
      BY <3>1, <3>2, EndIsNoPair
  <2> HIDE DEF item
  <2>4. /\ c \in PipeRecs /\ c.closed = bpPipe[p].closed /\ c.buf = bpPipe[p].buf
        /\ c.ch = Append(bpPipe[p].ch, item)
    <3> DEFINE t == Append(bpPipe[p].ch, item)
    <3>1. t \in Seq(PipeItems) /\ c = [bpPipe[p] EXCEPT !.ch = t]
      BY <2>2, <2>3
    <3> HIDE DEF t, c
    <3>2. c \in PipeRecs /\ c.closed = bpPipe[p].closed /\ c.buf = bpPipe[p].buf /\ c.ch = t
      BY <3>1 DEF PipeRecs
    <3> QED
      BY <3>2 DEF t
  <2>5. /\ Len(c.ch) = m + 1 /\ DOMAIN c.ch = 1..(m + 1) /\ c.ch[m + 1] = item
        /\ \A j \in 1..m : c.ch[j] = bpPipe[p].ch[j]
    BY <2>2, <2>3, <2>4
  <2>6. m = Len(bpPipe[p].ch) /\ made = bpScript[p].made
    OBVIOUS
  <2> HIDE DEF c, ok, m, made
  <2>7. bpPipe'[p] = c
    BY <2>1
  <2>8. ReadSoFar(p)' = ReadSoFar(p) /\ ReadSoFar(p) \in Nat
    <3>1. ReadSoFar(p) \in Nat
      <4>1. bpGot[p] \in Seq(1..2 * PipeChunks) /\ bpPipe[p].buf \in Seq(1..2 * PipeChunks)
        BY DEF UnitSeqs, PipeRecs
      <4> DEFINE a == Len(bpGot[p])
                 b == Len(bpPipe[p].buf)
      <4>2. a \in Nat /\ b \in Nat
        BY <4>1
      <4>3. ReadSoFar(p) = a + b
        BY DEF ReadSoFar
      <4> HIDE DEF a, b
      <4> QED
        BY <4>2, <4>3
    <3>2. ReadSoFar(p)' = ReadSoFar(p)
      BY <2>1, <2>4, <2>7 DEF ReadSoFar
    <3> QED
      BY <3>1, <3>2
  <2>9. ASSUME Reading(p)
        PROVE  OnItsWay(p)' = 2 * made /\ item = <<ReadSoFar(p) + 2 * (m + 1) - 1, ReadSoFar(p) + 2 * (m + 1)>>
    <3>1. OnItsWay(p) + 2 = 2 * made
      BY <2>1, <2>6, <2>9 DEF Complete
    <3>2. ~EndIn(p) /\ OnItsWay(p) = ReadSoFar(p) + 2 * m /\ \A j \in 1..m : bpPipe[p].ch[j] \notin EndItems
      BY <2>2, <2>6, <2>9, NoEndYet
    <3>3. ~EndIn(p)'
      <4>1. ASSUME NEW j \in 1..(m + 1) PROVE c.ch[j] # bpEnd[p].item
        <5>1. j = m + 1 \/ j \in 1..m
          BY <2>2
        <5>2. c.ch[j] \notin EndItems
          BY <2>3, <2>5, <3>2, <5>1
        <5> QED
          BY <2>2, <5>2
      <4> QED
        BY <2>1, <2>5, <2>7, <4>1 DEF EndIn
    <3>4. OnItsWay(p)' = ReadSoFar(p) + 2 * (m + 1)
      BY <2>5, <2>7, <2>8, <3>3 DEF OnItsWay
    <3>5. ReadSoFar(p) + 2 * (m + 1) = 2 * made /\ ReadSoFar(p) + 2 * (m + 1) - 1 = 2 * made - 1
      BY <2>2, <2>8, <3>1, <3>2
    <3> QED
      BY <2>3, <3>4, <3>5
  <2>10. InOrder(p)'
    <3>1. ASSUME Reading(p)', NEW j \in DOMAIN bpPipe'[p].ch
          PROVE  \/ bpPipe'[p].ch[j] = <<ReadSoFar(p)' + 2 * j - 1, ReadSoFar(p)' + 2 * j>>
                 \/ j = Len(bpPipe'[p].ch) /\ bpEnd'[p].at = "done" /\ bpPipe'[p].ch[j] = bpEnd'[p].item
      <4>1. Reading(p) /\ j \in 1..(m + 1)
        BY <2>1, <2>5, <2>7, <3>1 DEF Reading
      <4>2. CASE j = m + 1
        BY <2>5, <2>7, <2>8, <2>9, <4>1, <4>2
      <4>3. CASE j \in 1..m
        BY <2>2, <2>5, <2>7, <2>8, <4>1, <4>3 DEF InOrder
      <4> QED
        BY <2>2, <4>1, <4>2, <4>3
    <3>2. Reading(p)' => bpPipe'[p].buf \in {<<>>, <<Len(bpGot'[p]) + 1>>}
      BY <2>1, <2>4, <2>7 DEF InOrder, Reading
    <3> QED
      BY <2>1, <3>1, <3>2 DEF InOrder
  <2> QED
    BY <2>1, <2>4, <2>6, <2>9, <2>10, PushAnswered
<1> QED
  BY <1>1, <1>2, <1>3 DEF PushStep

\* The goroutine of the end goes on; it may have sent its item.
LEMMA EndMoves ==
  ASSUME PipeInv, NEW p \in Pipes, bpEnd[p].at \in {"looking", "sending"},
         NEW e \in EndRecs, bpEnd' = [bpEnd EXCEPT ![p] = e], e.at # "none", e.item = bpEnd[p].item,
         NEW c \in PipeRecs, bpPipe' = [bpPipe EXCEPT ![p] = c], c.closed = bpPipe[p].closed,
         c.buf = bpPipe[p].buf, InOrder(p)', Reading(p) => OnItsWay(p)' = OnItsWay(p),
         UNCHANGED <<bpSource, bpLoop, bpJobs, bpLeft, bpHandler, bpGot, bpPush, bpScript>>
  PROVE  PipeInv'
<1> USE Known
<1>1. /\ bpEnd' \in [Pipes -> EndRecs] /\ bpEnd'[p] = e
      /\ \A q \in Pipes \ {p} : bpEnd'[q] = bpEnd[q]
      /\ bpPipe' \in [Pipes -> PipeRecs] /\ bpPipe'[p] = c
      /\ \A q \in Pipes \ {p} : bpPipe'[q] = bpPipe[q]
  OBVIOUS
<1>2. PipeTypeOK' /\ Only(p)
  BY <1>1 DEF Only, PipeTypeOK, HandlerRecs, PipeRecs, SourceRecs, JobRecs, UnitSeqs, EndRecs, ScriptRecs
<1>3. ClaimsStay("none", p)
  BY DEF ClaimsStay
<1>4. JobsKnown' /\ BlameCounted'
  BY <1>3, JobsSame, BlameSame
<1>5. Untouched(p)' /\ ScriptSound(p)' /\ LetGo(p)' /\ ResultsTrue(p)'
  BY <1>1 DEF Untouched, ScriptSound, LetGo, ResultsTrue, Reading
<1>6. Complete(p)'
  BY DEF Complete, Reading
<1> QED
  BY <1>2, <1>4, <1>5, <1>6, StepOfOne DEF Keeps

\* While the end is not sent, what the channel holds does not depend on it.
LEMMA EndWaits ==
  ASSUME PipeInv, NEW p \in Pipes, bpEnd[p].at # "done", bpEnd'[p].item = bpEnd[p].item,
         bpPipe'[p].ch = bpPipe[p].ch, bpPipe'[p].buf = bpPipe[p].buf,
         UNCHANGED <<bpHandler, bpGot>>
  PROVE  InOrder(p)' /\ OnItsWay(p)' = OnItsWay(p)
<1> USE Known
<1>1. ReadSoFar(p)' = ReadSoFar(p)
  BY DEF ReadSoFar
<1>2. EndIn(p)' <=> EndIn(p)
  BY DEF EndIn
<1>3. OnItsWay(p)' = OnItsWay(p)
  BY <1>1, <1>2 DEF OnItsWay
<1>4. InOrder(p)'
  BY <1>1 DEF InOrder, Reading
<1> QED
  BY <1>3, <1>4

\* The steps of the goroutine of the end.
LEMMA EndKeeps ==
  ASSUME PipeInv, NEW p \in Pipes, EndStep(p)
  PROVE  PipeInv'
<1> USE Known
<1>1. CASE EndLooks(p) /\ bpPipe[p].listed
  <2> DEFINE e == [bpEnd[p] EXCEPT !.at = "sending"]
             c == [bpPipe[p] EXCEPT !.ready = TRUE, !.listed = FALSE]
  <2>1. /\ bpEnd[p].at = "looking" /\ bpEnd' = [bpEnd EXCEPT ![p] = e] /\ bpPipe' = [bpPipe EXCEPT ![p] = c]
        /\ UNCHANGED <<bpSource, bpLoop, bpJobs, bpLeft, bpHandler, bpGot, bpPush, bpScript>>
    BY <1>1 DEF EndLooks, EndPlace
  <2>2. /\ e \in EndRecs /\ e.at # "none" /\ e.item = bpEnd[p].item
        /\ c \in PipeRecs /\ c.closed = bpPipe[p].closed /\ c.ch = bpPipe[p].ch /\ c.buf = bpPipe[p].buf
    BY DEF EndRecs, PipeRecs
  <2> HIDE DEF e, c
  <2>3. bpEnd'[p] = e /\ bpPipe'[p] = c
    BY <2>1
  <2>4. InOrder(p)' /\ OnItsWay(p)' = OnItsWay(p)
    BY <2>1, <2>2, <2>3, EndWaits
  <2>5. bpEnd[p].at \in {"looking", "sending"}
    BY <2>1
  <2> QED
    BY <2>1, <2>2, <2>4, <2>5, EndMoves
<1>2. CASE (EndLooks(p) /\ ~bpPipe[p].listed) \/ EndGivenUp(p)
  <2> DEFINE e == [bpEnd[p] EXCEPT !.at = "done"]
             c == bpPipe[p]
  <2>1. /\ bpEnd[p].at \in {"looking", "sending"} /\ bpEnd' = [bpEnd EXCEPT ![p] = e]
        /\ UNCHANGED <<bpSource, bpLoop, bpJobs, bpLeft, bpHandler, bpGot, bpPipe, bpPush, bpScript>>
    BY <1>2 DEF EndLooks, EndGivenUp, EndPlace
  <2>2. /\ e \in EndRecs /\ e.at # "none" /\ e.item = bpEnd[p].item
        /\ c \in PipeRecs /\ c.closed = bpPipe[p].closed /\ c.buf = bpPipe[p].buf
        /\ bpPipe' = [bpPipe EXCEPT ![p] = c]
    BY <2>1, SelfUpdate DEF EndRecs
  <2> HIDE DEF e, c
  <2>3. bpEnd'[p] = e
    BY <2>1
  <2>4. InOrder(p)' /\ OnItsWay(p)' = OnItsWay(p)
    BY <2>1, <2>2, <2>3, EndWaits
  <2> QED
    BY <2>1, <2>2, <2>4, EndMoves
<1>3. CASE EndSends(p)
  <2> DEFINE m == Len(bpPipe[p].ch)
             item == bpEnd[p].item
             e == [bpEnd[p] EXCEPT !.at = "done"]
             c == [bpPipe[p] EXCEPT !.ch = Append(bpPipe[p].ch, item)]
  <2>1. /\ bpEnd[p].at = "sending" /\ bpPipe' = [bpPipe EXCEPT ![p] = c] /\ bpEnd' = [bpEnd EXCEPT ![p] = e]
        /\ UNCHANGED <<bpSource, bpLoop, bpJobs, bpLeft, bpHandler, bpGot, bpPush, bpScript>>
    BY <1>3 DEF EndSends, Sends, EndPlace
  <2>2. e \in EndRecs /\ e.at = "done" /\ e.item = item /\ item \in PipeItems
    BY DEF EndRecs
  <2> HIDE DEF item, e
  <2>3. m \in Nat /\ DOMAIN bpPipe[p].ch = 1..m /\ bpPipe[p].ch \in Seq(PipeItems)
    BY DEF PipeRecs
  <2>4. /\ c \in PipeRecs /\ c.closed = bpPipe[p].closed /\ c.buf = bpPipe[p].buf
        /\ c.ch = Append(bpPipe[p].ch, item)
    <3> DEFINE t == Append(bpPipe[p].ch, item)
    <3>1. t \in Seq(PipeItems) /\ c = [bpPipe[p] EXCEPT !.ch = t]
      BY <2>2, <2>3
    <3> HIDE DEF t, c
    <3>2. c \in PipeRecs /\ c.closed = bpPipe[p].closed /\ c.buf = bpPipe[p].buf /\ c.ch = t
      BY <3>1 DEF PipeRecs
    <3> QED
      BY <3>2 DEF t
  <2>5. /\ Len(c.ch) = m + 1 /\ DOMAIN c.ch = 1..(m + 1) /\ c.ch[m + 1] = item
        /\ \A j \in 1..m : c.ch[j] = bpPipe[p].ch[j]
    BY <2>2, <2>3, <2>4
  <2>6. m = Len(bpPipe[p].ch)
    OBVIOUS
  <2> HIDE DEF c, m
  <2>7. bpPipe'[p] = c /\ bpEnd'[p] = e
    BY <2>1
  <2>8. ReadSoFar(p)' = ReadSoFar(p)
    BY <2>1, <2>4, <2>7 DEF ReadSoFar
  <2>9. ASSUME Reading(p) PROVE OnItsWay(p)' = OnItsWay(p)
    <3>1. OnItsWay(p) = ReadSoFar(p) + 2 * m
      BY <2>1, <2>6, <2>9, NoEndYet
    <3>2. EndIn(p)'
      <4>1. m + 1 \in DOMAIN bpPipe'[p].ch /\ bpPipe'[p].ch[m + 1] = bpEnd'[p].item
        BY <2>2, <2>3, <2>5, <2>7
      <4> QED
        BY <4>1 DEF EndIn
    <3>3. OnItsWay(p)' = ReadSoFar(p) + 2 * ((m + 1) - 1)
      BY <2>5, <2>7, <2>8, <3>2 DEF OnItsWay
    <3> QED
      BY <2>3, <3>1, <3>3
  <2>10. InOrder(p)'
    <3>1. ASSUME Reading(p)', NEW j \in DOMAIN bpPipe'[p].ch
          PROVE  \/ bpPipe'[p].ch[j] = <<ReadSoFar(p)' + 2 * j - 1, ReadSoFar(p)' + 2 * j>>
                 \/ j = Len(bpPipe'[p].ch) /\ bpEnd'[p].at = "done" /\ bpPipe'[p].ch[j] = bpEnd'[p].item
      <4>1. Reading(p) /\ j \in 1..(m + 1)
        BY <2>1, <2>5, <2>7, <3>1 DEF Reading
      <4>2. CASE j = m + 1
        BY <2>2, <2>5, <2>7, <4>2
      <4>3. CASE j \in 1..m
        <5>1. j \in DOMAIN bpPipe[p].ch /\ bpEnd[p].at # "done"
          BY <2>1, <2>3, <4>3
        <5>2. bpPipe[p].ch[j] = <<ReadSoFar(p) + 2 * j - 1, ReadSoFar(p) + 2 * j>>
          BY <4>1, <5>1 DEF InOrder
        <5> QED
          BY <2>5, <2>7, <2>8, <4>3, <5>2
      <4> QED
        BY <2>3, <4>1, <4>2, <4>3
    <3>2. Reading(p)' => bpPipe'[p].buf \in {<<>>, <<Len(bpGot'[p]) + 1>>}
      BY <2>1, <2>4, <2>7 DEF InOrder, Reading
    <3> QED
      BY <2>1, <3>1, <3>2 DEF InOrder
  <2>11. e.at # "none" /\ bpEnd[p].at \in {"looking", "sending"} /\ e.item = bpEnd[p].item
    BY <2>1, <2>2 DEF item
  <2> QED
    BY <2>1, <2>2, <2>4, <2>9, <2>10, <2>11, EndMoves
<1> QED
  BY <1>1, <1>2, <1>3 DEF EndStep

-----------------------------------------------------------------------------
\* The closures, and the script

\* The loop opens the pipe of a request.
LEMMA OpenKeeps ==
  ASSUME PipeInv, NEW p \in Pipes, RunOpen(p)
  PROVE  PipeInv'
<1> USE Known
<1> DEFINE h == [bpHandler[p] EXCEPT !.at = "waiting"]
           s == [bpScript[p] EXCEPT !.at = "opening"]
           k == "open"
           class == "open"
<1>1. /\ bpJobs # <<>> /\ Head(bpJobs) = <<k, p>> /\ bpJobs' = Tail(bpJobs)
      /\ bpHandler' = [bpHandler EXCEPT ![p] = h] /\ bpScript' = [bpScript EXCEPT ![p] = s]
      /\ UNCHANGED <<bpSource, bpLoop, bpLeft, bpGot, bpPipe, bpPush, bpEnd>>
  BY DEF RunOpen, NextJob, HandlerAt
<1>2. /\ h \in HandlerRecs /\ h.at = "waiting" /\ h.result = bpHandler[p].result
      /\ h.limit = bpHandler[p].limit /\ h.ranged = bpHandler[p].ranged
      /\ s \in ScriptRecs /\ s.at = "opening" /\ s.cancel = bpScript[p].cancel
      /\ s.made = bpScript[p].made /\ s.reader = bpScript[p].reader
  BY DEF HandlerRecs, ScriptRecs
<1>3. k = "open" /\ class = "open" /\ k \in {"open", "cancel", "true", "false"} /\ JobClass(k) = class
  BY DEF JobClass
<1>4. 1 \in DOMAIN bpJobs /\ bpJobs[1] = <<k, p>>
  BY <1>1
<1> HIDE DEF h, s, k, class
<1>5. Claim(k, p)
  BY <1>4, QueuedClaims
<1>6. /\ bpHandler[p].at = "opening" /\ bpScript[p].at = "none" /\ bpPush[p] = "none" /\ bpEnd[p].at = "none"
      /\ bpHandler[p].result = "none" /\ bpScript[p].reader = "none" /\ ~bpScript[p].cancel
  BY <1>3, <1>5 DEF Claim, Untouched, Reading
<1>7. /\ bpHandler' \in [Pipes -> HandlerRecs] /\ bpHandler'[p] = h
      /\ \A q \in Pipes \ {p} : bpHandler'[q] = bpHandler[q]
      /\ bpScript' \in [Pipes -> ScriptRecs] /\ bpScript'[p] = s
      /\ \A q \in Pipes \ {p} : bpScript'[q] = bpScript[q]
  BY <1>1, <1>2
<1>8. ClaimsStay(class, p)
  BY <1>1, <1>3, <1>6, <1>7 DEF ClaimsStay
<1>9. /\ JobsKnown' /\ bpJobs' \in Seq(JobRecs)
      /\ \A q \in Pipes : (\E i \in DOMAIN bpJobs' : bpJobs'[i] = <<"true", q>>) =>
            \E i \in DOMAIN bpJobs : bpJobs[i] = <<"true", q>>
  BY <1>1, <1>3, <1>8, JobsLess
<1>10. PipeTypeOK' /\ Only(p)
  BY <1>1, <1>7, <1>9 DEF Only, PipeTypeOK, HandlerRecs, PipeRecs, SourceRecs, JobRecs, UnitSeqs, EndRecs, ScriptRecs
<1>11. BlameCounted'
  BY <1>1, <1>2, <1>7, BlameSame
<1>12. Untouched(p)' /\ ScriptSound(p)' /\ LetGo(p)' /\ ResultsTrue(p)'
  BY <1>1, <1>2, <1>6, <1>7 DEF Untouched, ScriptSound, LetGo, ResultsTrue, Reading
<1>13. InOrder(p)' /\ OnItsWay(p)' = OnItsWay(p)
  <2>1. FlowSame(p) /\ Reading(p) /\ (bpHandler'[p].limit > 0 => Len(bpGot[p]) <= bpHandler'[p].limit)
    BY <1>1, <1>2, <1>6, <1>7 DEF FlowSame, Reading, InOrder
  <2> QED
    BY <2>1, OrderKept
<1>14. Complete(p)'
  BY <1>1, <1>2, <1>6, <1>7, <1>9, <1>13 DEF Complete, Reading
<1> QED
  BY <1>1, <1>9, <1>10, <1>11, <1>12, <1>13, <1>14, StepOfOne DEF Keeps

\* What the script is after a cancellation.
LEMMA CancelTypes ==
  ASSUME PipeInv, NEW p \in Pipes
  PROVE  /\ CancelledReader(p) \in [Pipes -> ScriptRecs]
         /\ CancelledReader(p)[p].at = bpScript[p].at /\ CancelledReader(p)[p].cancel
         /\ CancelledReader(p)[p].made = bpScript[p].made
         /\ CancelledReader(p)[p].reader = IF bpScript[p].reader = "open" THEN "cancelled" ELSE bpScript[p].reader
         /\ \A q \in Pipes \ {p} : CancelledReader(p)[q] = bpScript[q]
<1> USE Known
<1> DEFINE r == IF bpScript[p].reader = "open" THEN "cancelled" ELSE bpScript[p].reader
           s == [bpScript[p] EXCEPT !.cancel = TRUE, !.reader = r]
<1>1. CancelledReader(p) = [bpScript EXCEPT ![p] = s]
  BY DEF CancelledReader
<1>2. r \in {"none", "open", "finished", "failed", "cancelled"}
  BY DEF ScriptRecs
<1>3. r = IF bpScript[p].reader = "open" THEN "cancelled" ELSE bpScript[p].reader
  OBVIOUS
<1> HIDE DEF r
<1>4. s \in ScriptRecs /\ s.at = bpScript[p].at /\ s.cancel /\ s.made = bpScript[p].made /\ s.reader = r
  BY <1>2 DEF ScriptRecs
<1> HIDE DEF s
<1> QED
  BY <1>1, <1>3, <1>4

\* The loop runs the cancellation that Close waits for.
LEMMA CancelKeeps ==
  ASSUME PipeInv, NEW p \in Pipes, RunCancel(p)
  PROVE  PipeInv'
<1> USE Known
<1> DEFINE h == [bpHandler[p] EXCEPT !.at = "gone"]
           k == "cancel"
           class == "cancel"
<1>1. /\ bpJobs # <<>> /\ Head(bpJobs) = <<k, p>> /\ bpJobs' = Tail(bpJobs)
      /\ bpHandler' = [bpHandler EXCEPT ![p] = h]
      /\ bpScript' = IF bpScript[p].at = "ended" THEN bpScript ELSE CancelledReader(p)
      /\ UNCHANGED <<bpSource, bpLoop, bpLeft, bpGot, bpPipe, bpPush, bpEnd>>
  BY DEF RunCancel, NextJob, HandlerAt
<1>2. /\ h \in HandlerRecs /\ h.at = "gone" /\ h.result = bpHandler[p].result
      /\ h.limit = bpHandler[p].limit /\ h.ranged = bpHandler[p].ranged
  BY DEF HandlerRecs
<1>3. k = "cancel" /\ class = "cancel" /\ k \in {"open", "cancel", "true", "false"} /\ JobClass(k) = class
  BY DEF JobClass
<1>4. 1 \in DOMAIN bpJobs /\ bpJobs[1] = <<k, p>>
  BY <1>1
<1> HIDE DEF h, k, class
<1>5. bpHandler[p].at = "cancelling"
  BY <1>3, <1>4, QueuedClaims DEF Claim
<1>6. /\ bpHandler' \in [Pipes -> HandlerRecs] /\ bpHandler'[p] = h
      /\ \A q \in Pipes \ {p} : bpHandler'[q] = bpHandler[q]
      /\ bpScript' \in [Pipes -> ScriptRecs]
      /\ bpScript'[p].at = bpScript[p].at /\ bpScript'[p].made = bpScript[p].made
      /\ \/ bpScript[p].at = "ended" /\ bpScript'[p] = bpScript[p]
         \/ /\ bpScript[p].at # "ended" /\ bpScript'[p].cancel
            /\ bpScript'[p].reader = IF bpScript[p].reader = "open" THEN "cancelled" ELSE bpScript[p].reader
      /\ \A q \in Pipes \ {p} : bpScript'[q] = bpScript[q]
  BY <1>1, <1>2, CancelTypes
<1>7. ClaimsStay(class, p)
  BY <1>1, <1>3, <1>5, <1>6 DEF ClaimsStay
<1>8. /\ JobsKnown' /\ bpJobs' \in Seq(JobRecs)
      /\ \A q \in Pipes : (\E i \in DOMAIN bpJobs' : bpJobs'[i] = <<"true", q>>) =>
            \E i \in DOMAIN bpJobs : bpJobs[i] = <<"true", q>>
  BY <1>1, <1>3, <1>7, JobsLess
<1>9. PipeTypeOK' /\ Only(p)
  BY <1>1, <1>6, <1>8 DEF Only, PipeTypeOK, HandlerRecs, PipeRecs, SourceRecs, JobRecs, UnitSeqs, EndRecs, ScriptRecs
<1>10. BlameCounted'
  BY <1>1, <1>2, <1>6, BlameSame
<1>11. Untouched(p)' /\ ScriptSound(p)' /\ LetGo(p)'
  BY <1>1, <1>2, <1>5, <1>6 DEF Untouched, ScriptSound, LetGo, Reading
<1>12. ~Reading(p) /\ ~Reading(p)'
  BY <1>2, <1>5, <1>6 DEF Reading
<1>13. InOrder(p)' /\ Complete(p)'
  BY <1>1, <1>2, <1>6, <1>12 DEF InOrder, Complete
<1>14. ResultsTrue(p)'
  BY <1>1, <1>2, <1>5, <1>6, <1>12 DEF ResultsTrue
<1> QED
  BY <1>1, <1>8, <1>9, <1>10, <1>11, <1>13, <1>14, StepOfOne DEF Keeps

\* The loop answers the script: its chunk was sent, or the pipe is gone.
LEMMA AnswerKeeps ==
  ASSUME PipeInv, NEW p \in Pipes, RunAnswer(p)
  PROVE  PipeInv'
<1> USE Known
<1>1. PICK k \in {"true", "false"} :
        /\ bpJobs # <<>> /\ Head(bpJobs) = <<k, p>> /\ bpJobs' = Tail(bpJobs)
        /\ bpScript' = IF k = "true" THEN [bpScript EXCEPT ![p].at = "reading"]
                       ELSE [CancelledReader(p) EXCEPT ![p].at = "ended"]
        /\ UNCHANGED <<bpSource, bpLoop, bpLeft, bpHandler, bpGot, bpPipe, bpPush, bpEnd>>
  <2>1. CASE NextJob("true", p)
    BY <2>1 DEF RunAnswer, NextJob
  <2>2. CASE ~NextJob("true", p)
    BY <2>2 DEF RunAnswer, NextJob
  <2> QED
    BY <2>1, <2>2
<1> DEFINE class == "answer"
<1>2. class = "answer" /\ k \in {"open", "cancel", "true", "false"} /\ JobClass(k) = class
  BY DEF JobClass
<1>3. 1 \in DOMAIN bpJobs /\ bpJobs[1] = <<k, p>>
  BY <1>1
<1> HIDE DEF class
<1>4. bpScript[p].at = "pushing" /\ bpPush[p] = "none"
  BY <1>3, QueuedClaims DEF Claim
<1>5. bpEnd[p].at = "none" /\ bpScript[p].reader \notin {"finished", "failed"} /\ bpHandler[p].result # "failed"
  BY <1>4 DEF ScriptSound, ResultsTrue
<1>6. /\ bpScript' \in [Pipes -> ScriptRecs] /\ bpScript'[p].made = bpScript[p].made
      /\ \/ /\ k = "true" /\ bpScript'[p].at = "reading" /\ bpScript'[p].reader = bpScript[p].reader
            /\ bpScript'[p].cancel = bpScript[p].cancel
         \/ /\ k = "false" /\ bpScript'[p].at = "ended" /\ bpScript'[p].cancel
            /\ bpScript'[p].reader = IF bpScript[p].reader = "open" THEN "cancelled" ELSE bpScript[p].reader
      /\ \A q \in Pipes \ {p} : bpScript'[q] = bpScript[q]
  <2>1. CASE k = "true"
    <3> DEFINE s == [bpScript[p] EXCEPT !.at = "reading"]
    <3>1. bpScript' = [bpScript EXCEPT ![p] = s]
      BY <1>1, <2>1
    <3>2. s \in ScriptRecs /\ s.at = "reading" /\ s.reader = bpScript[p].reader /\ s.cancel = bpScript[p].cancel
          /\ s.made = bpScript[p].made
      BY DEF ScriptRecs
    <3> HIDE DEF s
    <3> QED
      BY <2>1, <3>1, <3>2
  <2>2. CASE k = "false"
    <3> DEFINE f == CancelledReader(p)
               s == [f[p] EXCEPT !.at = "ended"]
    <3>1. bpScript' = [f EXCEPT ![p] = s]
      BY <1>1, <2>2
    <3>2. /\ f \in [Pipes -> ScriptRecs] /\ f[p].cancel /\ f[p].made = bpScript[p].made
          /\ f[p].reader = IF bpScript[p].reader = "open" THEN "cancelled" ELSE bpScript[p].reader
          /\ \A q \in Pipes \ {p} : f[q] = bpScript[q]
      BY CancelTypes
    <3> HIDE DEF f
    <3>3. s \in ScriptRecs /\ s.at = "ended" /\ s.reader = f[p].reader /\ s.cancel = f[p].cancel /\ s.made = f[p].made
      BY <3>2 DEF ScriptRecs
    <3> HIDE DEF s
    <3> QED
      BY <2>2, <3>1, <3>2, <3>3
  <2> QED
    BY <2>1, <2>2
<1>7. ClaimsStay(class, p)
  BY <1>1, <1>2, <1>6 DEF ClaimsStay
<1>8. /\ JobsKnown' /\ bpJobs' \in Seq(JobRecs)
      /\ \A q \in Pipes : (\E i \in DOMAIN bpJobs' : bpJobs'[i] = <<"true", q>>) =>
            \E i \in DOMAIN bpJobs : bpJobs[i] = <<"true", q>>
      /\ \A i \in DOMAIN bpJobs' : bpJobs'[i][2] = p => JobClass(bpJobs'[i][1]) # class
  BY <1>1, <1>2, <1>7, JobsLess
<1>9. ASSUME NEW i \in DOMAIN bpJobs' PROVE bpJobs'[i] # <<"true", p>>
  <2>1. SUFFICES ASSUME bpJobs'[i] = <<"true", p>> PROVE FALSE
    OBVIOUS
  <2>2. bpJobs'[i][1] = "true" /\ bpJobs'[i][2] = p
    BY <2>1
  <2> QED
    BY <1>2, <1>8, <2>2 DEF JobClass
<1>10. PipeTypeOK' /\ Only(p)
  BY <1>1, <1>6, <1>8 DEF Only, PipeTypeOK, HandlerRecs, PipeRecs, SourceRecs, JobRecs, UnitSeqs, EndRecs, ScriptRecs
<1>11. BlameCounted'
  BY <1>1, BlameSame
<1>12. Untouched(p)' /\ ScriptSound(p)' /\ LetGo(p)' /\ ResultsTrue(p)'
  BY <1>1, <1>4, <1>5, <1>6 DEF Untouched, ScriptSound, LetGo, ResultsTrue, Reading
<1>13. InOrder(p)' /\ OnItsWay(p)' = OnItsWay(p)
  BY <1>1, OrderKept DEF FlowSame, Reading, InOrder
<1>14. Complete(p)'
  <2>1. CASE k = "true"
    <3>1. Reading(p) => OnItsWay(p) = 2 * bpScript[p].made
      BY <1>3, <2>1 DEF Complete
    <3> QED
      BY <1>1, <1>4, <1>6, <1>9, <1>13, <3>1 DEF Complete, Reading
  <2>2. CASE k = "false"
    BY <1>1, <1>4, <1>5, <1>6, <1>9, <1>13, <2>2 DEF Complete, Reading
  <2> QED
    BY <2>1, <2>2
<1> QED
  BY <1>1, <1>8, <1>10, <1>11, <1>12, <1>13, <1>14, StepOfOne DEF Keeps

\* A turn of the stream: the script moves, and may start a goroutine.
LEMMA ScriptMoves ==
  ASSUME PipeInv, NEW p \in Pipes, bpScript[p].at \in {"opening", "reading"},
         NEW s \in ScriptRecs, bpScript' = [bpScript EXCEPT ![p] = s],
         NEW e \in EndRecs, bpEnd' = [bpEnd EXCEPT ![p] = e], e.at \in {"none", "looking"},
         bpPush' \in [Pipes -> {"none", "looking", "sending"}], \A q \in Pipes \ {p} : bpPush'[q] = bpPush[q],
         NEW c \in PipeRecs, bpPipe' = [bpPipe EXCEPT ![p] = c],
         c.closed = bpPipe[p].closed, c.ch = bpPipe[p].ch, c.buf = bpPipe[p].buf,
         UNCHANGED <<bpSource, bpLoop, bpJobs, bpLeft, bpHandler, bpGot>>,
         e.item \in EndItems, ScriptSound(p)', LetGo(p)',
         Reading(p) =>
           /\ bpPush'[p] # "none" => OnItsWay(p) + 2 = 2 * s.made
           /\ s.at \in {"none", "opening", "reading"} \/ s.reader = "finished" => OnItsWay(p) = 2 * s.made
  PROVE  PipeInv'
<1> USE Known
<1>1. /\ bpScript' \in [Pipes -> ScriptRecs] /\ bpScript'[p] = s
      /\ \A q \in Pipes \ {p} : bpScript'[q] = bpScript[q]
      /\ bpEnd' \in [Pipes -> EndRecs] /\ bpEnd'[p] = e
      /\ \A q \in Pipes \ {p} : bpEnd'[q] = bpEnd[q]
      /\ bpPipe' \in [Pipes -> PipeRecs] /\ bpPipe'[p] = c
      /\ \A q \in Pipes \ {p} : bpPipe'[q] = bpPipe[q]
  OBVIOUS
<1>2. PipeTypeOK' /\ Only(p)
  BY <1>1 DEF Only, PipeTypeOK, HandlerRecs, PipeRecs, SourceRecs, JobRecs, UnitSeqs, EndRecs, ScriptRecs
<1>3. ClaimsStay("none", p)
  BY <1>1 DEF ClaimsStay
<1>4. JobsKnown' /\ BlameCounted'
  BY <1>3, JobsSame, BlameSame
<1>5. /\ bpEnd[p].at = "none" /\ bpHandler[p].at \notin {"idle", "opening", "refused"}
      /\ bpScript[p].reader \notin {"finished", "failed"}
  BY DEF ScriptSound, Untouched
<1>6. Untouched(p)'
  BY <1>1, <1>5 DEF Untouched, Reading
<1>7. ResultsTrue(p)'
  BY <1>1, <1>5 DEF ResultsTrue, Reading
<1>8. ReadSoFar(p)' = ReadSoFar(p)
  BY <1>1 DEF ReadSoFar
<1>9. InOrder(p)'
  <2>1. ASSUME Reading(p)', NEW j \in DOMAIN bpPipe'[p].ch
        PROVE  bpPipe'[p].ch[j] = <<ReadSoFar(p)' + 2 * j - 1, ReadSoFar(p)' + 2 * j>>
    BY <1>1, <1>5, <1>8, <2>1 DEF InOrder, Reading
  <2>2. Reading(p)' => bpPipe'[p].buf \in {<<>>, <<Len(bpGot'[p]) + 1>>}
    BY <1>1 DEF InOrder, Reading
  <2> QED
    BY <2>1, <2>2 DEF InOrder
<1>10. Reading(p) => OnItsWay(p)' = OnItsWay(p)
  <2> SUFFICES ASSUME Reading(p) PROVE OnItsWay(p)' = OnItsWay(p)
    OBVIOUS
  <2>1. /\ OnItsWay(p) = ReadSoFar(p) + 2 * Len(bpPipe[p].ch)
        /\ \A j \in DOMAIN bpPipe[p].ch : bpPipe[p].ch[j] \notin EndItems
    BY <1>5, NoEndYet
  <2>2. ~EndIn(p)'
    BY <1>1, <2>1 DEF EndIn
  <2> QED
    BY <1>1, <1>8, <2>1, <2>2 DEF OnItsWay
<1>11. Complete(p)'
  BY <1>1, <1>10, NoAnswerYet DEF Complete, Reading
<1> QED
  BY <1>2, <1>4, <1>6, <1>7, <1>9, <1>11, StepOfOne DEF Keeps

\* The opener of the stream returns, also after a cancellation.
LEMMA OpeningKeeps ==
  ASSUME PipeInv, NEW p \in Pipes, StreamOpens(p) \/ OpenFails(p)
  PROVE  PipeInv'
<1> USE Known
<1>1. bpScript[p].at = "opening" /\ bpScript[p].reader = "none" /\ bpPush[p] = "none" /\ bpEnd[p].at = "none"
  BY DEF StreamOpens, OpenFails, Turn, ScriptSound
<1>2. CASE StreamOpens(p)
  <2> DEFINE l == bpPipe[p].ready \/ bpPipe[p].listed
             c == [bpPipe[p] EXCEPT !.ready = l]
             e == bpEnd[p]
             s == IF bpScript[p].cancel THEN [bpScript[p] EXCEPT !.at = "ended", !.reader = "cancelled"]
                  ELSE [bpScript[p] EXCEPT !.at = "reading", !.reader = "open"]
  <2>1. /\ bpPipe' = [bpPipe EXCEPT ![p] = c] /\ bpScript' = [bpScript EXCEPT ![p] = s]
        /\ UNCHANGED <<bpSource, bpLoop, bpJobs, bpLeft, bpHandler, bpGot, bpPush, bpEnd>>
    BY <1>2 DEF StreamOpens
  <2>2. l \in BOOLEAN
    OBVIOUS
  <2> HIDE DEF l
  <2>3. c \in PipeRecs /\ c.closed = bpPipe[p].closed /\ c.ch = bpPipe[p].ch /\ c.buf = bpPipe[p].buf
    BY <2>2 DEF PipeRecs
  <2>4. /\ s \in ScriptRecs /\ s.cancel = bpScript[p].cancel /\ s.made = bpScript[p].made
        /\ IF s.cancel THEN s.at = "ended" /\ s.reader = "cancelled" ELSE s.at = "reading" /\ s.reader = "open"
    BY DEF ScriptRecs
  <2>5. bpEnd' = [bpEnd EXCEPT ![p] = e] /\ e \in EndRecs /\ e = bpEnd[p]
    BY <2>1, SelfUpdate
  <2> HIDE DEF c, s, e
  <2>6. bpScript'[p] = s /\ bpEnd'[p] = bpEnd[p] /\ bpPush'[p] = "none"
    BY <1>1, <2>1
  <2>7. ScriptSound(p)' /\ LetGo(p)'
    BY <1>1, <2>1, <2>4, <2>6 DEF ScriptSound, LetGo
  <2>8. Reading(p) => OnItsWay(p) = 2 * s.made
    BY <1>1, <2>4 DEF Complete
  <2>9. e.item \in EndItems /\ e.at \in {"none", "looking"}
    BY <1>1, <2>5 DEF ScriptSound
  <2>10. bpPush' \in [Pipes -> {"none", "looking", "sending"}] /\ \A q \in Pipes \ {p} : bpPush'[q] = bpPush[q]
    BY <2>1
  <2>11. bpScript[p].at \in {"opening", "reading"}
    BY <1>1
  <2> QED
    BY <2>1, <2>3, <2>4, <2>5, <2>6, <2>7, <2>8, <2>9, <2>10, <2>11, ScriptMoves
<1>3. CASE OpenFails(p)
  <2> DEFINE c == bpPipe[p]
             e == IF bpScript[p].cancel THEN bpEnd[p] ELSE [at |-> "looking", item |-> <<"error">>]
             s == [bpScript[p] EXCEPT !.at = "ended"]
  <2>1. /\ bpScript' = [bpScript EXCEPT ![p] = s]
        /\ UNCHANGED <<bpSource, bpLoop, bpJobs, bpLeft, bpHandler, bpGot, bpPipe, bpPush>>
    BY <1>3 DEF OpenFails
  <2>2. /\ c \in PipeRecs /\ bpPipe' = [bpPipe EXCEPT ![p] = c] /\ c.closed = bpPipe[p].closed
        /\ c.ch = bpPipe[p].ch /\ c.buf = bpPipe[p].buf
    BY <2>1, SelfUpdate
  <2>3. /\ s \in ScriptRecs /\ s.cancel = bpScript[p].cancel /\ s.made = bpScript[p].made
        /\ s.at = "ended" /\ s.reader = "none"
    BY <1>1 DEF ScriptRecs
  <2>4. /\ bpEnd' = [bpEnd EXCEPT ![p] = e] /\ e \in EndRecs /\ e.item \in EndItems
        /\ e.at = "none" \/ (e.at = "looking" /\ e.item = <<"error">>)
    <3>1. CASE bpScript[p].cancel
      <4>1. e = bpEnd[p] /\ bpEnd' = bpEnd
        BY <1>3, <3>1 DEF OpenFails
      <4> QED
        BY <1>1, <4>1, SelfUpdate DEF ScriptSound
    <3>2. CASE ~bpScript[p].cancel
      <4>1. e = [at |-> "looking", item |-> <<"error">>] /\ bpEnd' = [bpEnd EXCEPT ![p] = e]
        BY <1>3, <3>2 DEF OpenFails, Tells
      <4>2. <<"error">> \in PipeItems
        BY DEF PipeItems
      <4> HIDE DEF e
      <4> QED
        BY <4>1, <4>2 DEF EndRecs, EndItems
    <3> QED
      BY <3>1, <3>2
  <2> HIDE DEF c, s, e
  <2>5. bpScript'[p] = s /\ bpEnd'[p] = e /\ bpPush'[p] = "none"
    BY <1>1, <2>1, <2>4
  <2>6. ScriptSound(p)' /\ LetGo(p)'
    BY <1>1, <2>1, <2>3, <2>4, <2>5 DEF ScriptSound, LetGo
  <2>7. bpPush' \in [Pipes -> {"none", "looking", "sending"}] /\ \A q \in Pipes \ {p} : bpPush'[q] = bpPush[q]
    BY <2>1
  <2>8. bpScript[p].at \in {"opening", "reading"} /\ e.at \in {"none", "looking"}
    BY <1>1, <2>4
  <2> QED
    BY <2>1, <2>2, <2>3, <2>4, <2>5, <2>6, <2>7, <2>8, ScriptMoves
<1> QED
  BY <1>2, <1>3

\* The stream yields a chunk.
LEMMA YieldKeeps ==
  ASSUME PipeInv, NEW p \in Pipes, StreamYields(p)
  PROVE  PipeInv'
<1> USE Known
<1> DEFINE c == bpPipe[p]
           e == bpEnd[p]
           made == bpScript[p].made + 1
           s == [bpScript[p] EXCEPT !.at = "pushing", !.made = made]
<1>1. /\ bpScript[p].at = "reading" /\ bpScript[p].reader = "open" /\ bpScript[p].made < PipeChunks
      /\ bpScript' = [bpScript EXCEPT ![p] = s] /\ bpPush' = [bpPush EXCEPT ![p] = "looking"]
      /\ UNCHANGED <<bpSource, bpLoop, bpJobs, bpLeft, bpHandler, bpGot, bpPipe, bpEnd>>
  BY DEF StreamYields, Turn
<1>2. bpScript[p].made \in Nat /\ PipeChunks \in Nat
  BY PipeAssumption DEF ScriptRecs
<1>3. made \in 0..PipeChunks /\ made > 0 /\ 2 * made = 2 * bpScript[p].made + 2
  BY <1>1, <1>2
<1> HIDE DEF made
<1>4. /\ s \in ScriptRecs /\ s.at = "pushing" /\ s.made = made /\ s.reader = "open"
      /\ s.cancel = bpScript[p].cancel
  BY <1>1, <1>3 DEF ScriptRecs
<1>5. /\ c \in PipeRecs /\ bpPipe' = [bpPipe EXCEPT ![p] = c] /\ c.closed = bpPipe[p].closed
      /\ c.ch = bpPipe[p].ch /\ c.buf = bpPipe[p].buf
      /\ e \in EndRecs /\ bpEnd' = [bpEnd EXCEPT ![p] = e] /\ e = bpEnd[p]
  BY <1>1, SelfUpdate
<1> HIDE DEF c, e, s
<1>6. bpScript'[p] = s /\ bpPush'[p] = "looking" /\ bpPush[p] = "none" /\ bpEnd[p].at = "none"
  BY <1>1 DEF ScriptSound
<1>7. ScriptSound(p)' /\ LetGo(p)'
  BY <1>1, <1>3, <1>4, <1>6 DEF ScriptSound, LetGo
<1>8. Reading(p) => OnItsWay(p) + 2 = 2 * s.made
  <2>1. Reading(p) => OnItsWay(p) = 2 * bpScript[p].made
    BY <1>1 DEF Complete
  <2> QED
    BY <1>2, <1>3, <1>4, <2>1
<1>9. bpPush' \in [Pipes -> {"none", "looking", "sending"}] /\ \A q \in Pipes \ {p} : bpPush'[q] = bpPush[q]
  BY <1>1
<1>10. /\ bpScript[p].at \in {"opening", "reading"} /\ e.at \in {"none", "looking"} /\ e.item \in EndItems
       /\ ~(s.at \in {"none", "opening", "reading"} \/ s.reader = "finished")
  BY <1>1, <1>4, <1>5, <1>6 DEF ScriptSound
<1> QED
  BY <1>1, <1>4, <1>5, <1>7, <1>8, <1>9, <1>10, ScriptMoves

\* The stream is at its end, has broken off, or is seen to be cancelled.
LEMMA StopKeeps ==
  ASSUME PipeInv, NEW p \in Pipes, StreamEnds(p) \/ StreamBreaks(p) \/ CancelSeen(p)
  PROVE  PipeInv'
<1> USE Known
<1>1. PICK item \in EndItems, reader \in {"finished", "failed", "cancelled"} :
        /\ \/ item = <<"end">> /\ bpScript[p].reader = "open" /\ reader = "finished"
           \/ item = <<"error">> /\ bpScript[p].reader = "open" /\ reader = "failed"
           \/ item = <<"end">> /\ bpScript[p].reader = "cancelled" /\ reader = "cancelled"
        /\ bpScript[p].at = "reading"
        /\ bpScript' = [bpScript EXCEPT ![p] = [bpScript[p] EXCEPT !.at = "ended", !.reader = reader]]
        /\ bpEnd' = [bpEnd EXCEPT ![p] = [at |-> "looking", item |-> item]]
        /\ UNCHANGED <<bpSource, bpLoop, bpJobs, bpLeft, bpHandler, bpGot, bpPipe, bpPush>>
  <2>1. <<"end">> \in EndItems /\ <<"error">> \in EndItems
    BY DEF EndItems
  <2>2. CASE StreamEnds(p)
    BY <2>1, <2>2 DEF StreamEnds, Turn, Tells
  <2>3. CASE StreamBreaks(p)
    BY <2>1, <2>3 DEF StreamBreaks, Turn, Tells
  <2>4. CASE CancelSeen(p)
    <3> DEFINE s == [bpScript[p] EXCEPT !.at = "ended"]
               t == [bpScript[p] EXCEPT !.at = "ended", !.reader = "cancelled"]
    <3>1. bpScript[p].reader = "cancelled" /\ bpScript[p].at = "reading" /\ bpScript' = [bpScript EXCEPT ![p] = s]
      BY <2>4 DEF CancelSeen, Turn
    <3>2. s = t
      BY <3>1 DEF ScriptRecs
    <3>3. bpScript' = [bpScript EXCEPT ![p] = t]
      BY <3>1, <3>2
    <3> QED
      BY <2>1, <2>4, <3>1, <3>3 DEF CancelSeen, Tells
  <2> QED
    BY <2>2, <2>3, <2>4
<1> DEFINE c == bpPipe[p]
           e == [at |-> "looking", item |-> item]
           s == [bpScript[p] EXCEPT !.at = "ended", !.reader = reader]
<1>2. /\ e \in EndRecs /\ e.at = "looking" /\ e.item = item
      /\ s \in ScriptRecs /\ s.at = "ended" /\ s.reader = reader /\ s.made = bpScript[p].made
      /\ s.cancel = bpScript[p].cancel
  <2>1. item \in PipeItems
    BY DEF PipeItems, EndItems
  <2> QED
    BY <2>1 DEF EndRecs, ScriptRecs
<1>3. /\ c \in PipeRecs /\ bpPipe' = [bpPipe EXCEPT ![p] = c] /\ c.closed = bpPipe[p].closed
      /\ c.ch = bpPipe[p].ch /\ c.buf = bpPipe[p].buf
      /\ bpEnd' = [bpEnd EXCEPT ![p] = e] /\ bpScript' = [bpScript EXCEPT ![p] = s]
  BY <1>1, SelfUpdate
<1> HIDE DEF c, e, s
<1>4. bpScript'[p] = s /\ bpEnd'[p] = e /\ bpPush'[p] = "none" /\ bpPush[p] = "none"
  BY <1>1, <1>3 DEF ScriptSound
<1>5. reader = "cancelled" => bpHandler[p].at = "gone"
  BY <1>1 DEF LetGo
<1>6. <<"end">> # <<"error">>
  <2>1. <<"end">>[1] = "end" /\ <<"error">>[1] = "error"
    OBVIOUS
  <2> QED
    BY <2>1
<1>7. ScriptSound(p)' /\ LetGo(p)'
  BY <1>1, <1>2, <1>4, <1>5, <1>6 DEF ScriptSound, LetGo
<1>8. Reading(p) => OnItsWay(p) = 2 * s.made
  BY <1>1, <1>2 DEF Complete
<1>9. bpPush' \in [Pipes -> {"none", "looking", "sending"}] /\ \A q \in Pipes \ {p} : bpPush'[q] = bpPush[q]
  BY <1>1
<1>10. bpScript[p].at \in {"opening", "reading"} /\ e.at \in {"none", "looking"} /\ e.item \in EndItems
  BY <1>1, <1>2
<1>11. Reading(p) =>
         /\ bpPush'[p] # "none" => OnItsWay(p) + 2 = 2 * s.made
         /\ s.at \in {"none", "opening", "reading"} \/ s.reader = "finished" => OnItsWay(p) = 2 * s.made
  BY <1>4, <1>8
<1>12. UNCHANGED <<bpSource, bpLoop, bpJobs, bpLeft, bpHandler, bpGot>>
  BY <1>1
<1> QED
  BY <1>2, <1>3, <1>7, <1>9, <1>10, <1>11, <1>12, ScriptMoves

-----------------------------------------------------------------------------
\* The client, the end of the source, and the theorems

\* Nothing of a pipe moves, and no closure is new.
LEMMA NothingMoves ==
  ASSUME PipeInv, UNCHANGED <<bpSource, bpHandler, bpGot, bpPipe, bpPush, bpEnd, bpScript>>,
         bpLeft \subseteq bpLeft', bpLeft' \in SUBSET Pipes, bpLoop' \in BOOLEAN, bpJobs' \in {bpJobs, <<>>}
  PROVE  PipeInv'
<1>1. bpJobs' \in Seq(JobRecs) /\ \A i \in DOMAIN bpJobs' : i \in DOMAIN bpJobs /\ bpJobs'[i] = bpJobs[i]
  <2>1. bpJobs \in Seq(JobRecs)
    BY PipeTypes DEF PipeInv
  <2>2. CASE bpJobs' = bpJobs
    BY <2>1, <2>2
  <2>3. CASE bpJobs' = <<>>
    BY <2>3
  <2> QED
    BY <2>2, <2>3
<1>2. PipeTypeOK'
  BY <1>1 DEF PipeInv, PipeTypeOK, JobRecs
<1>3. JobsKnown'
  BY <1>1 DEF PipeInv, JobsKnown
<1>4. BlameCounted'
  BY DEF PipeInv, BlameCounted, Failed, RangedFailed
<1>5. ASSUME NEW p \in Pipes PROVE Keeps(p)'
  <2>1. Keeps(p)
    BY DEF PipeInv
  <2>2. Untouched(p)' /\ ScriptSound(p)' /\ LetGo(p)' /\ InOrder(p)'
    BY <2>1 DEF Keeps, Untouched, ScriptSound, LetGo, InOrder, Reading, ReadSoFar
  <2>3. Complete(p)'
    BY <1>1, <2>1 DEF Keeps, Complete, Reading, OnItsWay, ReadSoFar, EndIn
  <2>4. ResultsTrue(p)'
    BY <2>1 DEF Keeps, ResultsTrue, Reading
  <2> QED
    BY <2>2, <2>3, <2>4 DEF Keeps
<1> QED
  BY <1>2, <1>3, <1>4, <1>5 DEF PipeInv

\* The invariant holds at first.
LEMMA PipeStarts == PipeInit => PipeInv
<1> SUFFICES ASSUME PipeInit PROVE PipeInv
  OBVIOUS
<1>0. RangeFailures \in Nat \ {0} /\ PipeChunks \in Nat \ {0}
  BY PipeAssumption
<1>1. /\ bpSource \in SourceRecs /\ ~bpSource.broken /\ bpSource.failures = 0
      /\ bpSource.ranged => bpSource.sized
  <2>1. bpSource \in [sized : BOOLEAN, ranged : BOOLEAN, produces : BOOLEAN, failures : {0}, broken : {FALSE}]
    BY DEF PipeInit
  <2>2. {0} \subseteq 0..RangeFailures /\ {FALSE} \subseteq BOOLEAN
    BY <1>0
  <2>3. bpSource \in SourceRecs
    BY <2>1, <2>2 DEF SourceRecs
  <2> QED
    BY <2>1, <2>3 DEF PipeInit
<1> DEFINE h == [at |-> "idle", limit |-> 0, ranged |-> FALSE, result |-> "none"]
           c == [ready |-> FALSE, listed |-> FALSE, closed |-> FALSE, ch |-> <<>>, buf |-> <<>>]
           e == [at |-> "none", item |-> <<"end">>]
           s == [at |-> "none", cancel |-> FALSE, made |-> 0, reader |-> "none"]
<1>2. h \in HandlerRecs /\ c \in PipeRecs /\ e \in EndRecs /\ s \in ScriptRecs
  <2>1. <<"end">> \in PipeItems
    BY DEF PipeItems
  <2> QED
    BY <1>0, <2>1 DEF HandlerRecs, PipeRecs, EndRecs, ScriptRecs
<1>3. /\ bpLoop \in BOOLEAN /\ bpJobs = <<>> /\ bpLeft = {}
      /\ bpHandler = [p \in Pipes |-> h] /\ bpGot = [p \in Pipes |-> <<>>] /\ bpPipe = [p \in Pipes |-> c]
      /\ bpPush = [p \in Pipes |-> "none"] /\ bpEnd = [p \in Pipes |-> e] /\ bpScript = [p \in Pipes |-> s]
  BY DEF PipeInit
<1>4. /\ h.at = "idle" /\ h.limit = 0 /\ ~h.ranged /\ h.result = "none"
      /\ ~c.closed /\ c.ch = <<>> /\ c.buf = <<>> /\ e.at = "none" /\ e.item = <<"end">>
      /\ s.at = "none" /\ ~s.cancel /\ s.made = 0 /\ s.reader = "none"
  OBVIOUS
<1>5. PipeTypeOK
  <2>1. bpJobs \in Seq(JobRecs) /\ bpGot \in [Pipes -> UnitSeqs]
    BY <1>3 DEF UnitSeqs
  <2> HIDE DEF h, c, e, s
  <2> QED
    BY <1>1, <1>2, <1>3, <2>1, PipeTypes
<1>6. JobsKnown
  BY <1>3 DEF JobsKnown
<1>7. BlameCounted
  <2>1. Failed = {} /\ RangedFailed = {}
    BY <1>3, <1>4 DEF Failed, RangedFailed
  <2> QED
    BY <1>0, <1>1, <2>1, FS_EmptySet DEF BlameCounted
<1>8. ASSUME NEW p \in Pipes PROVE Keeps(p)
  <2> HIDE DEF h, c, e, s
  <2>1. /\ bpHandler[p] = h /\ bpGot[p] = <<>> /\ bpPipe[p] = c /\ bpPush[p] = "none" /\ bpEnd[p] = e
        /\ bpScript[p] = [at |-> "none", cancel |-> FALSE, made |-> 0, reader |-> "none"] /\ bpScript[p] = s
    BY <1>3 DEF s
  <2>2. Untouched(p)
    BY <1>4, <2>1 DEF Untouched
  <2>3. ScriptSound(p) /\ LetGo(p) /\ ResultsTrue(p)
    BY <1>4, <2>1 DEF ScriptSound, LetGo, ResultsTrue, EndItems, Reading
  <2>4. InOrder(p)
    BY <1>4, <2>1 DEF InOrder
  <2>5. Complete(p)
    <3>1. ~EndIn(p)
      BY <1>4, <2>1 DEF EndIn
    <3>2. Len(bpGot[p]) = 0 /\ Len(bpPipe[p].buf) = 0 /\ Len(bpPipe[p].ch) = 0
      BY <1>4, <2>1
    <3>3. OnItsWay(p) = 0
      BY <3>1, <3>2 DEF OnItsWay, ReadSoFar
    <3> QED
      BY <1>3, <1>4, <2>1, <3>3 DEF Complete
  <2> QED
    BY <2>2, <2>3, <2>4, <2>5 DEF Keeps
<1> QED
  BY <1>5, <1>6, <1>7, <1>8 DEF PipeInv

\* Every step keeps the invariant.
LEMMA PipeSteps == PipeInv /\ [PipeNext]_pipeVars => PipeInv'
<1> SUFFICES ASSUME PipeInv, [PipeNext]_pipeVars PROVE PipeInv'
  OBVIOUS
<1>1. CASE UNCHANGED pipeVars
  BY <1>1, NothingMoves DEF pipeVars, PipeInv, PipeTypeOK
<1>2. CASE EngineCloses
  BY <1>2, NothingMoves DEF EngineCloses, PipeInv, PipeTypeOK
<1>3. ASSUME NEW p \in Pipes,
             \/ Serve(p) \/ HandlerStep(p) \/ PushStep(p) \/ EndStep(p) \/ JobStep(p)
             \/ StreamStep(p) \/ ClientLeaves(p)
      PROVE  PipeInv'
  <2>1. CASE Serve(p)
    BY <2>1, ServeKeeps
  <2>2. CASE HandlerStep(p)
    <3>1. CASE Produced(p) \/ WaitGivenUp(p) \/ ReadGivenUp(p) \/ LimitReached(p)
      BY <3>1, WaitingSteps
    <3>2. CASE ReadsRest(p)
      BY <3>2, RestRead
    <3>3. CASE ReadsItem(p)
      BY <3>3, EndRead, ChunkRead
    <3>4. CASE ClosePipe(p)
      BY <3>4, CloseKeeps
    <3> QED
      BY <2>2, <3>1, <3>2, <3>3, <3>4 DEF HandlerStep
  <2>3. CASE PushStep(p)
    BY <2>3, PushKeeps
  <2>4. CASE EndStep(p)
    BY <2>4, EndKeeps
  <2>5. CASE JobStep(p)
    BY <2>5, OpenKeeps, CancelKeeps, AnswerKeeps DEF JobStep
  <2>6. CASE StreamStep(p)
    BY <2>6, OpeningKeeps, YieldKeeps, StopKeeps DEF StreamStep
  <2>7. CASE ClientLeaves(p)
    <3>1. /\ UNCHANGED <<bpSource, bpHandler, bpGot, bpPipe, bpPush, bpEnd, bpScript>>
          /\ bpLeft \subseteq bpLeft' /\ bpLeft' \in SUBSET Pipes /\ bpLoop' \in BOOLEAN /\ bpJobs' \in {bpJobs, <<>>}
      BY <2>7 DEF ClientLeaves, PipeInv, PipeTypeOK
    <3> QED
      BY <3>1, NothingMoves
  <2> QED
    BY <1>3, <2>1, <2>2, <2>3, <2>4, <2>5, <2>6, <2>7
<1> QED
  BY <1>1, <1>2, <1>3 DEF PipeNext

\* The invariant of the pipes, for every number of requests, of chunks, of slots
\* of the channel and of failures that a source with ranges is allowed.
THEOREM PipeInvariant == PipeSpec => []PipeInv
<1>1. PipeInit => PipeInv
  BY PipeStarts
<1>2. PipeInv /\ [PipeNext]_pipeVars => PipeInv'
  BY PipeSteps
<1> QED
  BY <1>1, <1>2, PTL DEF PipeSpec

\* Type correctness of the pipes.
THEOREM PipeTypeCorrect == PipeSpec => []PipeTypeOK
<1>1. PipeInv => PipeTypeOK
  BY DEF PipeInv
<1> QED
  BY <1>1, PipeInvariant, PTL

\* When the handler of a request returns, no reader of its stream is left open,
\* also when the opener of the stream was still pending (module.go 308-325).
THEOREM StreamsLetGo == PipeSpec => []StreamLetGo
<1>1. PipeInv => StreamLetGo
  BY DEF PipeInv, Keeps, LetGo, StreamLetGo
<1> QED
  BY <1>1, PipeInvariant, PTL

\* What a request has read is a beginning of the units that a stream can make.
LEMMA GotIsPrefix ==
  ASSUME NEW R \in Nat, NEW g \in Seq(1..R), \A i \in DOMAIN g : g[i] = i
  PROVE  IsPrefix(g, [i \in 1..R |-> i])
<1> DEFINE n == Len(g)
           t == [i \in 1..R |-> i]
<1>1. n \in Nat /\ DOMAIN g = 1..n /\ n <= R
  <2>1. n \in Nat /\ DOMAIN g = 1..n
    OBVIOUS
  <2>2. n > 0 => g[n] \in 1..R /\ g[n] = n
    BY <2>1
  <2> QED
    BY <2>1, <2>2
<1>2. t \in Seq(1..R) /\ Len(t) = R
  OBVIOUS
<1>3. \A i \in 1..n : g[i] = i /\ t[i] = i
  BY <1>1
<1>4. SubSeq(g, 1, n) = [i \in 1..n |-> i]
  BY <1>1, <1>3
<1>5. SubSeq(t, 1, n) = [i \in 1..n |-> i]
  BY <1>1, <1>2, <1>3
<1> QED
  BY <1>1, <1>2, <1>4, <1>5 DEF IsPrefix

\* A body that ended without an error is the stream, whole and in order; and a
\* source is given up only for streams that failed, one with ranges only for
\* RangeFailures of them (registry.go 399-406, 484-500).
THEOREM SourceErrorsTrue == PipeSpec => []SourceErrorIsTrue
<1>1. ASSUME PipeInv PROVE SourceErrorIsTrue
  <2> USE <1>1
  <2>1. ASSUME NEW p \in Pipes
        PROVE  /\ IsPrefix(bpGot[p], [i \in 1..2 * PipeChunks |-> i])
               /\ bpHandler[p].at = "gone" /\ p \notin bpLeft /\ ~bpSource.broken /\ bpHandler[p].limit = 0
                    => bpScript[p].reader = "finished" /\ Len(bpGot[p]) = 2 * bpScript[p].made
               /\ bpHandler[p].at = "gone" /\ p \notin bpLeft /\ bpHandler[p].limit > 0
                  /\ bpHandler[p].result = "whole" => Len(bpGot[p]) = bpHandler[p].limit
    <3> USE Known
    <3>1. IsPrefix(bpGot[p], [i \in 1..2 * PipeChunks |-> i])
      <4>1. 2 * PipeChunks \in Nat /\ bpGot[p] \in Seq(1..2 * PipeChunks) /\ \A i \in DOMAIN bpGot[p] : bpGot[p][i] = i
        BY PipeAssumption DEF UnitSeqs, InOrder
      <4> QED
        BY <4>1, GotIsPrefix
    <3>2. ASSUME bpHandler[p].at = "gone", p \notin bpLeft, ~bpSource.broken, bpHandler[p].limit = 0
          PROVE  bpScript[p].reader = "finished" /\ Len(bpGot[p]) = 2 * bpScript[p].made
      <4>1. bpHandler[p].result \in {"whole", "failed"} /\ ~bpHandler[p].ranged
        BY <3>2 DEF ResultsTrue, Reading
      <4>2. bpHandler[p].result = "whole"
        BY <3>2, <4>1 DEF ResultsTrue
      <4> QED
        BY <3>2, <4>2 DEF ResultsTrue
    <3>3. bpHandler[p].limit > 0 /\ bpHandler[p].result = "whole" => Len(bpGot[p]) = bpHandler[p].limit
      BY DEF ResultsTrue
    <3> QED
      BY <3>1, <3>2, <3>3
  <2>2. ASSUME bpSource.broken
        PROVE  /\ Failed # {}
               /\ \A p \in Failed : ~StreamSound(p)
               /\ (\A p \in Failed : bpHandler[p].ranged) => Cardinality(Failed) >= RangeFailures
    <3>1. Failed # {} /\ (Failed = RangedFailed => Cardinality(Failed) >= RangeFailures)
      BY <2>2 DEF PipeInv, BlameCounted
    <3>2. (\A p \in Failed : bpHandler[p].ranged) => Failed = RangedFailed
      BY DEF RangedFailed
    <3>3. ASSUME NEW p \in Failed PROVE ~StreamSound(p)
      <4>1. p \in Pipes /\ bpHandler[p].result = "failed"
        BY DEF Failed
      <4>2. ResultsTrue(p) /\ bpHandler[p].limit \in Nat /\ bpScript[p].made \in Nat
        <5>1. /\ ResultsTrue(p) /\ bpHandler[p] \in HandlerRecs /\ bpScript[p] \in ScriptRecs
              /\ BlobUnits \in Nat /\ PipeChunks \in Nat
          BY <4>1, Known, PipeAssumption
        <5>2. bpHandler[p].limit \in {0, BlobUnits} /\ bpScript[p].made \in 0..PipeChunks
          BY <5>1 DEF HandlerRecs, ScriptRecs
        <5> QED
          BY <5>1, <5>2
      <4>3. \/ bpScript[p].reader \in {"none", "failed"}
            \/ bpScript[p].reader = "finished" /\ 2 * bpScript[p].made < bpHandler[p].limit
        BY <4>1, <4>2 DEF ResultsTrue
      <4> QED
        BY <4>2, <4>3 DEF StreamSound
    <3> QED
      BY <3>1, <3>2, <3>3
  <2> QED
    BY <2>1, <2>2 DEF SourceErrorIsTrue, Failed
<1>2. PipeInv => SourceErrorIsTrue
  BY <1>1
<1> QED
  BY <1>2, PipeInvariant, PTL
=============================================================================
