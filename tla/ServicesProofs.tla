--------------------------- MODULE ServicesProofs ---------------------------
(***************************************************************************)
(* Theorems about two of the services: BlobRegistry, for any finite sets   *)
(* of sources, tasks and requests (the references of the engine session    *)
(* and of the sources balance), and ProtocolJobs, for any callers and      *)
(* subscriptions (a manual trigger never comes back with another's skip,   *)
(* nothing runs after Close, and the state section is the job's alone).    *)
(***************************************************************************)
EXTENDS ProtocolJobs, BlobRegistry, FiniteSetTheorems, TLAPS

-----------------------------------------------------------------------------
\* Counting

\* Sets that differ in one element at most, as a step of one actor leaves them.
LEMMA Switch ==
  ASSUME NEW S, IsFiniteSet(S), NEW A \in SUBSET S, NEW B \in SUBSET S, NEW e \in S,
         A \ {e} = B \ {e}
  PROVE  /\ Cardinality(A) \in Nat /\ Cardinality(B) \in Nat
         /\ e \in A => Cardinality(A) > 0
         /\ Cardinality(B) + (IF e \in A THEN 1 ELSE 0) = Cardinality(A) + (IF e \in B THEN 1 ELSE 0)
<1>1. IsFiniteSet(A) /\ IsFiniteSet(B) /\ Cardinality(A) \in Nat /\ Cardinality(B) \in Nat
  BY FS_Subset, FS_CardinalityType
<1>2. A = B \/ (e \notin A /\ B = A \cup {e}) \/ (e \notin B /\ A = B \cup {e})
  OBVIOUS
<1>3. CASE A = B
  <2>1. e \in A => Cardinality(A) > 0
    BY <1>1, FS_EmptySet
  <2> QED
    BY <1>1, <1>3, <2>1
<1>4. CASE e \notin A /\ B = A \cup {e}
  BY <1>1, <1>4, FS_AddElement
<1>5. CASE e \notin B /\ A = B \cup {e}
  BY <1>1, <1>5, FS_AddElement
<1> QED
  BY <1>2, <1>3, <1>4, <1>5

-----------------------------------------------------------------------------
\* What the steps do to a source

SourceRec == [made : BOOLEAN, revoked : BOOLEAN, refs : Nat,
              timer : {"unset", "armed", "off"}, held : BOOLEAN, counted : BOOLEAN]
SourceIs(m, v, n, tm, h, k) ==
  [made |-> m, revoked |-> v, refs |-> n, timer |-> tm, held |-> h, counted |-> k]
Quenched(tm) == IF tm = "armed" THEN "off" ELSE tm

\* CreateOpener: a new source holds the session.
LEMMA OpenerMade ==
  ASSUME src \in [Blobs -> SourceRec], NEW b \in Blobs,
         src' = [src EXCEPT ![b].made = TRUE, ![b].held = TRUE, ![b].counted = ~session.closed]
  PROVE  src' = [src EXCEPT ![b] =
                   SourceIs(TRUE, src[b].revoked, src[b].refs, src[b].timer, TRUE, ~session.closed)]
<1>1. src'[b] = SourceIs(TRUE, src[b].revoked, src[b].refs, src[b].timer, TRUE, ~session.closed)
  BY DEF SourceIs, SourceRec
<1>2. src' = [src EXCEPT ![b] = src'[b]]
  OBVIOUS
<1> QED
  BY <1>1, <1>2

\* ArmTimer and the timer that lost: only the timer changes.
LEMMA TimerSet ==
  ASSUME src \in [Blobs -> SourceRec], NEW b \in Blobs,
         NEW tm \in {"unset", "armed", "off"}, src' = [src EXCEPT ![b].timer = tm]
  PROVE  src' = [src EXCEPT ![b] =
                   SourceIs(src[b].made, src[b].revoked, src[b].refs, tm, src[b].held, src[b].counted)]
<1>1. src'[b] = SourceIs(src[b].made, src[b].revoked, src[b].refs, tm, src[b].held, src[b].counted)
  BY DEF SourceIs, SourceRec
<1>2. src' = [src EXCEPT ![b] = src'[b]]
  OBVIOUS
<1> QED
  BY <1>1, <1>2

\* Source.close: revoked, the session handed out, the timer stopped.
LEMMA SourceClosed ==
  ASSUME src \in [Blobs -> SourceRec], NEW b \in Blobs,
         NEW tm, src' = [src EXCEPT ![b].revoked = TRUE, ![b].held = FALSE, ![b].timer = tm]
  PROVE  src' = [src EXCEPT ![b] = SourceIs(src[b].made, TRUE, src[b].refs, tm, FALSE,
                                            src[b].counted)]
<1>1. PICK s \in SourceRec : s = src[b]
  OBVIOUS
<1>2. src'[b] = [s EXCEPT !.revoked = TRUE, !.held = FALSE, !.timer = tm]
  BY <1>1
<1>3. src'[b] = SourceIs(s.made, TRUE, s.refs, tm, FALSE, s.counted)
  BY <1>2 DEF SourceIs, SourceRec
<1>4. src' = [src EXCEPT ![b] = src'[b]]
  OBVIOUS
<1> QED
  BY <1>1, <1>3, <1>4

\* expireUnclaimed.
LEMMA SourceExpired ==
  ASSUME src \in [Blobs -> SourceRec], NEW b \in Blobs,
         src' = [Revoked(b) EXCEPT ![b].timer = "off"]
  PROVE  src' = [src EXCEPT ![b] =
                   SourceIs(src[b].made, TRUE, src[b].refs, "off", FALSE, src[b].counted)]
<1>1. src' = [src EXCEPT ![b].revoked = TRUE, ![b].held = FALSE, ![b].timer = "off"]
  BY DEF Revoked
<1> QED
  BY <1>1, SourceClosed

\* Release of the last reference.
LEMMA LastReleased ==
  ASSUME src \in [Blobs -> SourceRec], NEW b \in Blobs,
         src' = [Revoked(b) EXCEPT ![b].refs = 0]
  PROVE  src' = [src EXCEPT ![b] =
                   SourceIs(src[b].made, TRUE, 0, src[b].timer, FALSE, src[b].counted)]
<1>1. src'[b] = SourceIs(src[b].made, TRUE, 0, src[b].timer, FALSE, src[b].counted)
  BY DEF Revoked, SourceIs, SourceRec
<1>2. src' = [src EXCEPT ![b] = src'[b]]
  BY DEF Revoked
<1> QED
  BY <1>1, <1>2

\* Release of one reference of several.
LEMMA OneReleased ==
  ASSUME src \in [Blobs -> SourceRec], NEW b \in Blobs,
         src' = [src EXCEPT ![b].refs = @ - 1]
  PROVE  src' = [src EXCEPT ![b] =
                   SourceIs(src[b].made, src[b].revoked, src[b].refs - 1, src[b].timer, src[b].held,
                             src[b].counted)]
<1>1. src'[b] = SourceIs(src[b].made, src[b].revoked, src[b].refs - 1, src[b].timer, src[b].held,
                             src[b].counted)
  BY DEF SourceIs, SourceRec
<1>2. src' = [src EXCEPT ![b] = src'[b]]
  OBVIOUS
<1> QED
  BY <1>1, <1>2

\* Acquire: one more reference, and no timer.
LEMMA SourceClaimed ==
  ASSUME src \in [Blobs -> SourceRec], NEW b \in Blobs,
         src' = Claimed(b)
  PROVE  src' = [src EXCEPT ![b] =
                   SourceIs(src[b].made, src[b].revoked, src[b].refs + 1, Quenched(src[b].timer),
                             src[b].held, src[b].counted)]
<1>1. src'[b] = SourceIs(src[b].made, src[b].revoked, src[b].refs + 1, Quenched(src[b].timer),
                             src[b].held, src[b].counted)
  BY DEF Claimed, Quenched, SourceIs, SourceRec
<1>2. src' = [src EXCEPT ![b] = src'[b]]
  BY DEF Claimed
<1> QED
  BY <1>1, <1>2

\* The fields of the sources have their types.
LEMMA SourceFields ==
  ASSUME src \in [Blobs -> SourceRec], NEW b \in Blobs
  PROVE  /\ src[b].made \in BOOLEAN /\ src[b].revoked \in BOOLEAN /\ src[b].refs \in Nat
         /\ src[b].timer \in {"unset", "armed", "off"} /\ src[b].held \in BOOLEAN
         /\ src[b].counted \in BOOLEAN
BY DEF SourceRec

\* What BlobTypeOK says of the sources and of the session.
LEMMA TypeParts ==
  ASSUME BlobTypeOK
  PROVE  /\ src \in [Blobs -> SourceRec] /\ session \in [refs : Nat, closed : BOOLEAN]
         /\ session.closed \in BOOLEAN /\ session.refs \in Nat
BY DEF BlobTypeOK, SourceRec

\* CreateOpener.
LEMMA CreateFacts ==
  ASSUME BlobTypeOK, NEW b \in Blobs, CreateOpener(b)
  PROVE  /\ src' \in [Blobs -> SourceRec] /\ \A c \in Blobs \ {b} : src'[c] = src[c]
         /\ src'[b].made /\ src'[b].held /\ src'[b].counted = ~session.closed
         /\ src'[b].revoked = src[b].revoked /\ src'[b].refs = src[b].refs
<1>1. src \in [Blobs -> SourceRec] /\ session.closed \in BOOLEAN
  BY TypeParts
<1>2. src' = [src EXCEPT ![b] = SourceIs(TRUE, src[b].revoked, src[b].refs, src[b].timer,
                                         TRUE, ~session.closed)]
  BY <1>1, OpenerMade DEF CreateOpener
<1>3. SourceIs(TRUE, src[b].revoked, src[b].refs, src[b].timer, TRUE, ~session.closed) \in SourceRec
  BY <1>1 DEF SourceIs, SourceRec
<1> QED
  BY <1>1, <1>2, <1>3 DEF SourceIs

\* Steps of a timer that do not revoke.
LEMMA TimerFacts ==
  ASSUME BlobTypeOK, NEW b \in Blobs, NEW tm \in {"unset", "armed", "off"},
         src' = [src EXCEPT ![b].timer = tm]
  PROVE  /\ src' \in [Blobs -> SourceRec] /\ \A c \in Blobs \ {b} : src'[c] = src[c]
         /\ src'[b].made = src[b].made /\ src'[b].held = src[b].held
         /\ src'[b].counted = src[b].counted
         /\ src'[b].revoked = src[b].revoked /\ src'[b].refs = src[b].refs
<1>1. src \in [Blobs -> SourceRec]
  BY TypeParts
<1>2. src' = [src EXCEPT ![b] = SourceIs(src[b].made, src[b].revoked, src[b].refs, tm,
                                         src[b].held, src[b].counted)]
  BY <1>1, TimerSet
<1>3. SourceIs(src[b].made, src[b].revoked, src[b].refs, tm, src[b].held, src[b].counted)
        \in SourceRec
  BY <1>1 DEF SourceIs, SourceRec
<1> QED
  BY <1>1, <1>2, <1>3 DEF SourceIs

\* CloseSource, whoever closes.
LEMMA CloseFacts ==
  ASSUME BlobTypeOK, NEW b \in Blobs, CloseSource(b)
  PROVE  /\ src' \in [Blobs -> SourceRec] /\ \A c \in Blobs \ {b} : src'[c] = src[c]
         /\ src'[b].made = src[b].made /\ ~src'[b].held /\ src'[b].counted = src[b].counted
         /\ src'[b].revoked /\ src'[b].refs = src[b].refs
         /\ owed' = IF ~src[b].revoked /\ src[b].held THEN owed + 1 ELSE owed
<1> DEFINE tm == Quenched(src[b].timer)
<1>0. owed' = IF ~src[b].revoked /\ src[b].held THEN owed + 1 ELSE owed
  BY DEF CloseSource, Owes
<1>1. src' = [src EXCEPT ![b].revoked = TRUE, ![b].held = FALSE, ![b].timer = tm]
  BY DEF CloseSource, Quenched
<1>2. tm \in {"unset", "armed", "off"}
  BY TypeParts, SourceFields DEF Quenched
<1> HIDE DEF tm
<1>3. src \in [Blobs -> SourceRec]
  BY TypeParts
<1>4. src' = [src EXCEPT ![b] = SourceIs(src[b].made, TRUE, src[b].refs, tm, FALSE,
                                         src[b].counted)]
  BY <1>1, <1>3, SourceClosed
<1>5. SourceIs(src[b].made, TRUE, src[b].refs, tm, FALSE, src[b].counted) \in SourceRec
  BY <1>2, <1>3 DEF SourceIs, SourceRec
<1> QED
  BY <1>0, <1>3, <1>4, <1>5 DEF SourceIs

\* The timer that revokes.
LEMMA ExpireFacts ==
  ASSUME BlobTypeOK, NEW b \in Blobs, src' = [Revoked(b) EXCEPT ![b].timer = "off"]
  PROVE  /\ src' \in [Blobs -> SourceRec] /\ \A c \in Blobs \ {b} : src'[c] = src[c]
         /\ src'[b].made = src[b].made /\ ~src'[b].held /\ src'[b].counted = src[b].counted
         /\ src'[b].revoked /\ src'[b].refs = src[b].refs
<1>1. src \in [Blobs -> SourceRec]
  BY TypeParts
<1>2. src' = [src EXCEPT ![b] = SourceIs(src[b].made, TRUE, src[b].refs, "off", FALSE,
                                         src[b].counted)]
  BY <1>1, SourceExpired
<1>3. SourceIs(src[b].made, TRUE, src[b].refs, "off", FALSE, src[b].counted) \in SourceRec
  BY <1>1 DEF SourceIs, SourceRec
<1>4. src'[b] = SourceIs(src[b].made, TRUE, src[b].refs, "off", FALSE, src[b].counted)
  BY <1>1, <1>2
<1>5. src' \in [Blobs -> SourceRec] /\ \A c \in Blobs \ {b} : src'[c] = src[c]
  BY <1>1, <1>2, <1>3
<1> QED
  BY <1>4, <1>5 DEF SourceIs

\* Release: of the last reference, which revokes, of one of several, or nothing.
LEMMA ReleaseFacts ==
  ASSUME BlobTypeOK, NEW b \in Blobs, ReleaseBlob(b)
  PROVE  /\ src' \in [Blobs -> SourceRec] /\ \A c \in Blobs \ {b} : src'[c] = src[c]
         /\ src'[b].made = src[b].made /\ src'[b].counted = src[b].counted
         /\ listed' \in SUBSET Blobs /\ owed' \in Nat
         /\ \/ /\ ~(Live(b) /\ src[b].refs > 0)
               /\ UNCHANGED <<src, listed, owed>>
            \/ /\ Live(b) /\ src[b].refs = 1
               /\ src'[b].revoked /\ src'[b].refs = 0 /\ ~src'[b].held
               /\ listed' = listed \ {b} /\ Owes(b)
            \/ /\ Live(b) /\ src[b].refs > 1
               /\ src'[b].revoked = src[b].revoked /\ src'[b].refs = src[b].refs - 1
               /\ src'[b].held = src[b].held
               /\ UNCHANGED <<listed, owed>>
<1>0. listed \in SUBSET Blobs /\ owed \in Nat
  BY DEF BlobTypeOK
<1>1. CASE ~(Live(b) /\ src[b].refs > 0)
  BY <1>0, <1>1, TypeParts DEF ReleaseBlob
<1>2. CASE Live(b) /\ src[b].refs = 1
  <2>1. src' = [Revoked(b) EXCEPT ![b].refs = 0] /\ listed' = listed \ {b} /\ Owes(b)
    BY <1>2 DEF ReleaseBlob
  <2>2. /\ src' \in [Blobs -> SourceRec] /\ \A c \in Blobs \ {b} : src'[c] = src[c]
        /\ src'[b].made = src[b].made /\ src'[b].counted = src[b].counted
        /\ src'[b].revoked /\ src'[b].refs = 0 /\ ~src'[b].held
    <3>1. src \in [Blobs -> SourceRec]
      BY TypeParts
    <3>2. src' = [src EXCEPT ![b] = SourceIs(src[b].made, TRUE, 0, src[b].timer, FALSE,
                                             src[b].counted)]
      BY <2>1, <3>1, LastReleased
    <3>3. SourceIs(src[b].made, TRUE, 0, src[b].timer, FALSE, src[b].counted) \in SourceRec
      BY <3>1 DEF SourceIs, SourceRec
    <3> QED
      BY <3>1, <3>2, <3>3 DEF SourceIs
  <2>3. owed' \in Nat
    BY <1>0, <2>1 DEF Owes
  <2> QED
    BY <1>0, <1>2, <2>1, <2>2, <2>3
<1>3. CASE Live(b) /\ src[b].refs > 0 /\ src[b].refs # 1
  <2>1. src[b].refs \in Nat /\ src[b].refs > 1
    BY <1>3, TypeParts, SourceFields
  <2>2. src' = [src EXCEPT ![b].refs = @ - 1] /\ UNCHANGED <<listed, owed>>
    BY <1>3 DEF ReleaseBlob
  <2>3. /\ src' \in [Blobs -> SourceRec] /\ \A c \in Blobs \ {b} : src'[c] = src[c]
        /\ src'[b].made = src[b].made /\ src'[b].counted = src[b].counted
        /\ src'[b].revoked = src[b].revoked /\ src'[b].refs = src[b].refs - 1
        /\ src'[b].held = src[b].held
    <3>1. src \in [Blobs -> SourceRec]
      BY TypeParts
    <3>2. src' = [src EXCEPT ![b] = SourceIs(src[b].made, src[b].revoked, src[b].refs - 1,
                                             src[b].timer, src[b].held, src[b].counted)]
      BY <2>2, <3>1, OneReleased
    <3>3. SourceIs(src[b].made, src[b].revoked, src[b].refs - 1, src[b].timer, src[b].held,
                   src[b].counted) \in SourceRec
      BY <2>1, <3>1 DEF SourceIs, SourceRec
    <3> QED
      BY <3>1, <3>2, <3>3 DEF SourceIs
  <2> QED
    BY <1>0, <1>3, <2>1, <2>2, <2>3
<1> QED
  BY <1>1, <1>2, <1>3

\* Acquire.
LEMMA ClaimFacts ==
  ASSUME BlobTypeOK, NEW b \in Blobs, src' = Claimed(b)
  PROVE  /\ src' \in [Blobs -> SourceRec] /\ \A c \in Blobs \ {b} : src'[c] = src[c]
         /\ src'[b].made = src[b].made /\ src'[b].held = src[b].held
         /\ src'[b].counted = src[b].counted
         /\ src'[b].revoked = src[b].revoked /\ src'[b].refs = src[b].refs + 1
<1> DEFINE tm == Quenched(src[b].timer)
<1>1. src \in [Blobs -> SourceRec]
  BY TypeParts
<1>2. src' = [src EXCEPT ![b] = SourceIs(src[b].made, src[b].revoked, src[b].refs + 1, tm,
                                         src[b].held, src[b].counted)]
  BY <1>1, SourceClaimed
<1>3. tm \in {"unset", "armed", "off"}
  BY <1>1, SourceFields DEF Quenched
<1> HIDE DEF tm
<1>4. SourceIs(src[b].made, src[b].revoked, src[b].refs + 1, tm, src[b].held, src[b].counted)
        \in SourceRec
  BY <1>1, <1>3 DEF SourceIs, SourceRec
<1> QED
  BY <1>1, <1>2, <1>4 DEF SourceIs

-----------------------------------------------------------------------------
\* What the steps do to a request

ReaderRec == [at : {"idle", "found", "open", "gone"}, blob : Maybe, counted : BOOLEAN]
ReaderIs(a, b, k) == [at |-> a, blob |-> b, counted |-> k]

\* The requests have their types.
LEMMA ReaderParts ==
  ASSUME BlobTypeOK
  PROVE  reader \in [Readers -> ReaderRec]
BY DEF BlobTypeOK, ReaderRec

\* A request that has found its source holds what it held before.
LEMMA FindFacts ==
  ASSUME BlobTypeOK, NEW r \in Readers, NEW b \in Blobs, FindSource(r, b)
  PROVE  /\ reader' \in [Readers -> ReaderRec] /\ \A q \in Readers \ {r} : reader'[q] = reader[q]
         /\ reader'[r].at = "found" /\ reader'[r].counted = reader[r].counted
<1>1. reader \in [Readers -> ReaderRec] /\ b \in Maybe
  BY ReaderParts DEF Maybe
<1>2. reader'[r] = ReaderIs("found", b, reader[r].counted)
  BY <1>1 DEF FindSource, ReaderRec, ReaderIs
<1>3. reader' = [reader EXCEPT ![r] = reader'[r]]
  BY <1>1 DEF FindSource
<1>4. ReaderIs("found", b, reader[r].counted) \in ReaderRec
  BY <1>1 DEF ReaderRec, ReaderIs
<1> QED
  BY <1>1, <1>2, <1>3, <1>4 DEF ReaderIs

\* A request that acquires its source retains the session, or is refused.
LEMMA AcquireFacts ==
  ASSUME BlobTypeOK, NEW r \in Readers, AcquireOpen(r)
  PROVE  /\ reader' \in [Readers -> ReaderRec] /\ \A q \in Readers \ {r} : reader'[q] = reader[q]
         /\ \/ /\ reader'[r].at = "gone" /\ reader'[r].counted = reader[r].counted
               /\ UNCHANGED session
            \/ /\ reader'[r].at = "open" /\ reader'[r].counted = ~session.closed
               /\ RetainSession
<1>1. reader \in [Readers -> ReaderRec] /\ session.closed \in BOOLEAN
  BY ReaderParts, TypeParts
<1>2. CASE src[reader[r].blob].revoked
  <2>1. reader' = [reader EXCEPT ![r].at = "gone"] /\ UNCHANGED session
    BY <1>2 DEF AcquireOpen
  <2> QED
    BY <1>1, <2>1 DEF ReaderRec
<1>3. CASE ~src[reader[r].blob].revoked
  <2>0. RetainSession /\ reader' = [reader EXCEPT ![r].counted = ~session.closed, ![r].at = "open"]
    BY <1>3 DEF AcquireOpen
  <2>1. reader'[r] = ReaderIs("open", reader[r].blob, ~session.closed)
    BY <1>1, <2>0 DEF ReaderRec, ReaderIs
  <2>2. reader' = [reader EXCEPT ![r] = reader'[r]]
    BY <1>1, <2>0
  <2>3. ReaderIs("open", reader[r].blob, ~session.closed) \in ReaderRec
    BY <1>1 DEF ReaderRec, ReaderIs
  <2> QED
    BY <1>1, <2>0, <2>1, <2>2, <2>3 DEF ReaderIs
<1> QED
  BY <1>2, <1>3

\* A request that leaves holds no reference any more.
LEMMA LeaveFacts ==
  ASSUME BlobTypeOK, NEW r \in Readers, ReaderReleases(r)
  PROVE  /\ reader' \in [Readers -> ReaderRec] /\ \A q \in Readers \ {r} : reader'[q] = reader[q]
         /\ reader'[r].at = "gone" /\ ~reader'[r].counted
<1>1. reader \in [Readers -> ReaderRec]
  BY ReaderParts
<1>2. reader'[r] = ReaderIs("gone", reader[r].blob, FALSE)
  BY <1>1 DEF ReaderReleases, ReaderRec, ReaderIs
<1>3. reader' = [reader EXCEPT ![r] = reader'[r]]
  BY <1>1 DEF ReaderReleases
<1>4. ReaderIs("gone", reader[r].blob, FALSE) \in ReaderRec
  BY <1>1 DEF ReaderRec, ReaderIs
<1>5. reader' \in [Readers -> ReaderRec] /\ \A q \in Readers \ {r} : reader'[q] = reader[q]
  BY <1>1, <1>2, <1>3, <1>4
<1> QED
  BY <1>2, <1>5 DEF ReaderIs

-----------------------------------------------------------------------------
\* Type correctness

\* Retain, Release and CloseIfIdle of the session.
LEMMA SessionFacts ==
  ASSUME BlobTypeOK
  PROVE  /\ RetainSession => /\ session' \in [refs : Nat, closed : BOOLEAN]
                             /\ session'.closed = session.closed
                             /\ ~session.closed => session'.refs = session.refs + 1
         /\ ReleaseSession => /\ session' \in [refs : Nat, closed : BOOLEAN]
                              /\ session.closed => session'.closed
                              /\ session.refs > 0 => session'.refs = session.refs - 1
         /\ HookEnds => /\ session' \in [refs : Nat, closed : BOOLEAN]
                        /\ session.closed => session'.closed
                        /\ session'.refs = session.refs
<1>1. session \in [refs : Nat, closed : BOOLEAN]
  BY TypeParts
<1>2. ASSUME RetainSession
      PROVE  /\ session' \in [refs : Nat, closed : BOOLEAN]
             /\ session'.closed = session.closed
             /\ ~session.closed => session'.refs = session.refs + 1
  BY <1>1, <1>2 DEF RetainSession
<1>3. ASSUME ReleaseSession
      PROVE  /\ session' \in [refs : Nat, closed : BOOLEAN]
             /\ session.closed => session'.closed
             /\ session.refs > 0 => session'.refs = session.refs - 1
  BY <1>1, <1>3 DEF ReleaseSession
<1>4. ASSUME HookEnds
      PROVE  /\ session' \in [refs : Nat, closed : BOOLEAN]
             /\ session.closed => session'.closed
             /\ session'.refs = session.refs
  BY <1>1, <1>4 DEF HookEnds
<1> QED
  BY <1>2, <1>3, <1>4

\* The initial state has its types.
LEMMA InitType == BlobInit => BlobTypeOK
BY BlobAssumption DEF BlobInit, BlobTypeOK, Maybe

\* BlobTypeOK in the parts that the steps change.
TypeShape ==
    /\ listed \in SUBSET Blobs /\ closing \in SUBSET Blobs
    /\ src \in [Blobs -> SourceRec]
    /\ session \in [refs : Nat, closed : BOOLEAN]
    /\ hook \in {"running", "ended"} /\ owed \in Nat
    /\ url \in [Leasers -> Blobs] /\ lease \in [Leasers -> Maybe] /\ target \in [Leasers -> Maybe]
    /\ status \in [Leasers -> {"idle", "running", "done", "error"}]
    /\ start \in [Leasers -> {"none", "sync", "acquire", "drop"}]
    /\ drop \in [Leasers -> [handler : Maybe, watcher : Maybe]]
    /\ ending \in [Leasers -> BOOLEAN] /\ runs \in [Leasers -> 0..MaxRuns]
    /\ reader \in [Readers -> ReaderRec]

\* BlobTypeOK is TypeShape.
LEMMA Shape == BlobTypeOK <=> TypeShape
BY DEF BlobTypeOK, TypeShape, SourceRec, ReaderRec

\* Steps of the session and the registry.
LEMMA RegistryType ==
  ASSUME BlobTypeOK,
         \/ OwedRelease \/ HookEnds \/ CloseRegistry
         \/ \E b \in Blobs : CreateOpener(b) \/ Revoke(b) \/ SourceStep(b)
  PROVE  BlobTypeOK'
<1> SUFFICES TypeShape'
  BY Shape, PTL
<1> USE Shape DEF TypeShape, leaseVars
<1>1. CASE OwedRelease
  BY <1>1, SessionFacts DEF OwedRelease
<1>2. CASE HookEnds
  BY <1>2, SessionFacts DEF HookEnds
<1>3. CASE CloseRegistry
  BY <1>3 DEF CloseRegistry
<1>4. ASSUME NEW b \in Blobs, CreateOpener(b) PROVE TypeShape'
  BY <1>4, SessionFacts, CreateFacts DEF CreateOpener
<1>5. ASSUME NEW b \in Blobs, Revoke(b) PROVE TypeShape'
  BY <1>5, CloseFacts DEF Revoke
<1>6. ASSUME NEW b \in Blobs, ArmTimer(b) PROVE TypeShape'
  BY <1>6, TimerFacts DEF ArmTimer
<1>7. ASSUME NEW b \in Blobs, ExpireUnclaimed(b) PROVE TypeShape'
  BY <1>7, ExpireFacts, TimerFacts DEF ExpireUnclaimed, Owes
<1>8. ASSUME NEW b \in Blobs, CloseNext(b) PROVE TypeShape'
  BY <1>8, CloseFacts DEF CloseNext
<1> QED
  BY <1>1, <1>2, <1>3, <1>4, <1>5, <1>6, <1>7, <1>8 DEF SourceStep

\* Steps of the requests.
LEMMA ReaderType ==
  ASSUME BlobTypeOK, NEW r \in Readers,
         (\E b \in Blobs : FindSource(r, b)) \/ ReaderStep(r)
  PROVE  BlobTypeOK'
<1> SUFFICES TypeShape'
  BY Shape, PTL
<1> USE Shape DEF TypeShape, leaseVars, registryVars
<1>1. ASSUME NEW b \in Blobs, FindSource(r, b) PROVE TypeShape'
  <2>1. reader' \in [Readers -> ReaderRec]
    BY <1>1, FindFacts
  <2> QED
    BY <1>1, <2>1 DEF FindSource
<1>2. CASE AcquireOpen(r)
  <2>1. reader' \in [Readers -> ReaderRec] /\ session' \in [refs : Nat, closed : BOOLEAN]
    BY <1>2, AcquireFacts, SessionFacts
  <2> QED
    BY <1>2, <2>1 DEF AcquireOpen
<1>3. CASE ReaderReleases(r)
  <2>1. reader' \in [Readers -> ReaderRec] /\ session' \in [refs : Nat, closed : BOOLEAN]
    BY <1>3, LeaveFacts, SessionFacts DEF ReaderReleases
  <2> QED
    BY <1>3, <2>1 DEF ReaderReleases
<1> QED
  BY <1>1, <1>2, <1>3 DEF ReaderStep

\* Steps of the tasks.
LEMMA LeaserType ==
  ASSUME BlobTypeOK, NEW t \in Leasers, StartLeaser(t) \/ LeaserEnds(t) \/ LeaserStep(t)
  PROVE  BlobTypeOK'
<1> SUFFICES TypeShape'
  BY Shape, PTL
<1> USE BlobAssumption, Shape DEF leaseVars, registryVars
<1>1. CASE StartLeaser(t)
  BY <1>1 DEF StartLeaser, TypeShape
<1>2. CASE LeaserEnds(t)
  <2>1. url' \in [Leasers -> Blobs] /\ status' \in [Leasers -> {"idle", "running", "done", "error"}]
    <3>1. url' = url \/ \E b \in Blobs : url' = [url EXCEPT ![t] = b]
      BY <1>2 DEF LeaserEnds
    <3>2. status' = [status EXCEPT ![t] = "done"] \/ status' = [status EXCEPT ![t] = "error"]
      BY <1>2 DEF LeaserEnds
    <3>3. url \in [Leasers -> Blobs] /\ status \in [Leasers -> {"idle", "running", "done", "error"}]
      BY DEF TypeShape
    <3>4. \A b \in Blobs : [url EXCEPT ![t] = b] \in [Leasers -> Blobs]
      BY <3>3
    <3>5. url' \in [Leasers -> Blobs]
      BY <3>1, <3>3, <3>4
    <3>6. status' \in [Leasers -> {"idle", "running", "done", "error"}]
      BY <3>2, <3>3
    <3> QED
      BY <3>5, <3>6
  <2>2. ending' \in [Leasers -> BOOLEAN]
    BY <1>2 DEF LeaserEnds, TypeShape
  <2> QED
    BY <1>2, <2>1, <2>2 DEF LeaserEnds, TypeShape
<1>3. CASE SyncLooks(t)
  BY <1>3 DEF SyncLooks, TypeShape, Wanted, Maybe
<1>4. CASE SyncAcquires(t)
  <2>1. src' \in [Blobs -> SourceRec]
    BY <1>4, ClaimFacts DEF SyncAcquires, TypeShape, Maybe
  <2>2. lease' \in [Leasers -> Maybe] /\ start' \in [Leasers -> {"none", "sync", "acquire", "drop"}]
    BY <1>4 DEF SyncAcquires, TypeShape, Maybe
  <2>3. drop' \in [Leasers -> [handler : Maybe, watcher : Maybe]]
    <3>1. drop' = drop \/ drop' = [drop EXCEPT ![t].handler = lease[t]]
      BY <1>4 DEF SyncAcquires
    <3>2. lease[t] \in Maybe /\ drop \in [Leasers -> [handler : Maybe, watcher : Maybe]]
      BY DEF TypeShape
    <3> QED
      BY <3>1, <3>2
  <2> QED
    BY <1>4, <2>1, <2>2, <2>3 DEF SyncAcquires, TypeShape
<1>5. CASE DropOld(t)
  <2>1. src' \in [Blobs -> SourceRec] /\ listed' \in SUBSET Blobs /\ owed' \in Nat
    BY <1>5, ReleaseFacts DEF DropOld, TypeShape, Maybe
  <2>2. drop' \in [Leasers -> [handler : Maybe, watcher : Maybe]]
    BY <1>5 DEF DropOld, TypeShape, Maybe
  <2>3. start' \in [Leasers -> {"none", "sync", "acquire", "drop"}]
    BY <1>5 DEF DropOld, TypeShape
  <2> QED
    BY <1>5, <2>1, <2>2, <2>3 DEF DropOld, TypeShape
<1>6. CASE EndTakes(t)
  <2>1. drop' \in [Leasers -> [handler : Maybe, watcher : Maybe]]
    BY <1>6 DEF EndTakes, TypeShape, Maybe
  <2>2. lease' \in [Leasers -> Maybe] /\ ending' \in [Leasers -> BOOLEAN]
    BY <1>6 DEF EndTakes, TypeShape, Maybe
  <2> QED
    BY <1>6, <2>1, <2>2 DEF EndTakes, TypeShape
<1>7. CASE EndReleases(t)
  <2>1. src' \in [Blobs -> SourceRec] /\ listed' \in SUBSET Blobs /\ owed' \in Nat
    BY <1>7, ReleaseFacts DEF EndReleases, TypeShape, Maybe
  <2>2. drop' \in [Leasers -> [handler : Maybe, watcher : Maybe]]
    BY <1>7 DEF EndReleases, TypeShape, Maybe
  <2> QED
    BY <1>7, <2>1, <2>2 DEF EndReleases, TypeShape
<1> QED
  BY <1>1, <1>2, <1>3, <1>4, <1>5, <1>6, <1>7 DEF LeaserStep

\* Every step keeps the types.
LEMMA NextType ==
  ASSUME BlobTypeOK, [BlobNext]_blobVars
  PROVE  BlobTypeOK'
<1>1. CASE UNCHANGED blobVars
  BY <1>1 DEF blobVars, BlobTypeOK
<1> QED
  BY <1>1, RegistryType, ReaderType, LeaserType DEF BlobNext

\* The variables of the registry have their types; the session's count is never
\* negative.
THEOREM BlobTypeCorrect == BlobSpec => []BlobTypeOK
<1>1. BlobTypeOK /\ [BlobNext]_blobVars => BlobTypeOK'
  BY NextType
<1> QED
  BY <1>1, InitType, PTL DEF BlobSpec

-----------------------------------------------------------------------------
\* The references of the session

FreshSource == [made |-> FALSE, revoked |-> FALSE, refs |-> 0, timer |-> "unset",
                held |-> FALSE, counted |-> FALSE]

\* Nothing happens to a source before it is created.
MadeInv ==
    /\ \A b \in Blobs : ~src[b].made => src[b] = FreshSource
    /\ \A b \in listed \cup closing : src[b].made

\* A revoked source has handed its session out; while the session lives, whoever
\* holds it was counted: Retain fails on a closed session only, and no session
\* is opened again.
HeldInv ==
    /\ \A b \in Blobs : src[b].revoked => ~src[b].held
    /\ \A b \in Blobs : src[b].held /\ ~session.closed => src[b].counted
    /\ \A r \in Readers : reader[r].counted => reader[r].at = "open"
    /\ \A r \in Readers : reader[r].at = "open" /\ ~session.closed => reader[r].counted

Holders == {b \in Blobs : src[b].held /\ src[b].counted}
OpenReaders == {r \in Readers : reader[r].counted}

\* ReferencesBalance, with its counts named.
Balanced ==
    ~session.closed =>
        session.refs = Cardinality(Holders) + Cardinality(OpenReaders) + owed

SessionInv == BlobTypeOK /\ MadeInv /\ HeldInv /\ Balanced

\* The counts of ReferencesBalance are numbers.
LEMMA CountsAreNat ==
  /\ IsFiniteSet(Holders) /\ Cardinality(Holders) \in Nat
  /\ IsFiniteSet(OpenReaders) /\ Cardinality(OpenReaders) \in Nat
BY BlobAssumption, FS_Subset, FS_CardinalityType DEF Holders, OpenReaders

\* ReferencesBalance, with the counts named by operators.
LEMMA BalanceForm == ReferencesBalance <=> Balanced
BY DEF ReferencesBalance, Balanced, Holders, OpenReaders

\* A step on one source: the holders differ in that source at most.
LEMMA HoldersSwitch ==
  ASSUME NEW b \in Blobs, \A c \in Blobs \ {b} : src'[c] = src[c]
  PROVE  /\ Cardinality(Holders) \in Nat /\ Cardinality(Holders') \in Nat
         /\ b \in Holders /\ b \notin Holders' => Cardinality(Holders') = Cardinality(Holders) - 1
         /\ b \notin Holders /\ b \in Holders' => Cardinality(Holders') = Cardinality(Holders) + 1
         /\ (b \in Holders <=> b \in Holders') => Cardinality(Holders') = Cardinality(Holders)
<1>1. Holders \in SUBSET Blobs /\ Holders' \in SUBSET Blobs /\ Holders \ {b} = Holders' \ {b}
  BY DEF Holders
<1> HIDE DEF Holders
<1>2. /\ Cardinality(Holders) \in Nat /\ Cardinality(Holders') \in Nat
      /\ Cardinality(Holders') + (IF b \in Holders THEN 1 ELSE 0)
           = Cardinality(Holders) + (IF b \in Holders' THEN 1 ELSE 0)
  BY <1>1, BlobAssumption, Switch
<1> QED
  BY <1>2

\* The same for one request.
LEMMA ReadersSwitch ==
  ASSUME NEW r \in Readers, \A q \in Readers \ {r} : reader'[q] = reader[q]
  PROVE  /\ Cardinality(OpenReaders) \in Nat /\ Cardinality(OpenReaders') \in Nat
         /\ r \in OpenReaders => Cardinality(OpenReaders) > 0
         /\ r \in OpenReaders /\ r \notin OpenReaders'
              => Cardinality(OpenReaders') = Cardinality(OpenReaders) - 1
         /\ r \notin OpenReaders /\ r \in OpenReaders'
              => Cardinality(OpenReaders') = Cardinality(OpenReaders) + 1
         /\ (r \in OpenReaders <=> r \in OpenReaders')
              => Cardinality(OpenReaders') = Cardinality(OpenReaders)
<1>1. /\ OpenReaders \in SUBSET Readers /\ OpenReaders' \in SUBSET Readers
      /\ OpenReaders \ {r} = OpenReaders' \ {r}
  BY DEF OpenReaders
<1> HIDE DEF OpenReaders
<1>2. /\ Cardinality(OpenReaders) \in Nat /\ Cardinality(OpenReaders') \in Nat
      /\ r \in OpenReaders => Cardinality(OpenReaders) > 0
      /\ Cardinality(OpenReaders') + (IF r \in OpenReaders THEN 1 ELSE 0)
           = Cardinality(OpenReaders) + (IF r \in OpenReaders' THEN 1 ELSE 0)
  BY <1>1, BlobAssumption, Switch
<1> QED
  BY <1>2

\* A step that only revokes b, or leaves the sources, and owes what b held.
LEMMA RevokeBalance ==
  ASSUME SessionInv, NEW b \in Blobs, \A c \in Blobs \ {b} : src'[c] = src[c],
         UNCHANGED <<session, reader>>,
         src'[b].made = src[b].made, src'[b].counted = src[b].counted, src[b].made,
         listed' \cup closing' \subseteq listed \cup closing,
         \/ src'[b].revoked = src[b].revoked /\ src'[b].held = src[b].held /\ owed' = owed
         \/ src'[b].revoked /\ ~src'[b].held /\ owed' = IF src[b].held THEN owed + 1 ELSE owed
  PROVE  MadeInv' /\ HeldInv' /\ Balanced'
<1>1. MadeInv'
  BY DEF SessionInv, MadeInv, BlobTypeOK
<1>2. HeldInv'
  BY DEF SessionInv, HeldInv
<1>3. OpenReaders' = OpenReaders
  BY DEF OpenReaders
<1>4. CASE src'[b].revoked = src[b].revoked /\ src'[b].held = src[b].held /\ owed' = owed
  <2>1. b \in Holders <=> b \in Holders'
    BY <1>4 DEF Holders
  <2>2. Cardinality(Holders') = Cardinality(Holders)
    BY <2>1, HoldersSwitch
  <2>3. Balanced'
    BY <1>3, <1>4, <2>2 DEF SessionInv, Balanced
  <2> QED
    BY <1>1, <1>2, <2>3
<1>5. CASE src'[b].revoked /\ ~src'[b].held /\ owed' = IF src[b].held THEN owed + 1 ELSE owed
  <2>1. b \notin Holders'
    BY <1>5 DEF Holders
  <2>2. ~session.closed => (b \in Holders <=> src[b].held)
    BY DEF Holders, SessionInv, HeldInv
  <2>3. owed \in Nat /\ session.refs \in Nat
    BY TypeParts DEF SessionInv, BlobTypeOK
  <2>4. ~session.closed => Cardinality(Holders') + owed' = Cardinality(Holders) + owed
    BY <1>5, <2>1, <2>2, <2>3, HoldersSwitch
  <2>5. Balanced'
    BY <1>3, <2>3, <2>4, HoldersSwitch, CountsAreNat DEF SessionInv, Balanced
  <2> QED
    BY <1>1, <1>2, <2>5
<1> QED
  BY <1>4, <1>5

\* A step that leaves the sources, the requests and the session alone.
LEMMA SameBalance ==
  ASSUME SessionInv, UNCHANGED <<src, session, owed, reader>>,
         listed' \cup closing' \subseteq listed \cup closing
  PROVE  MadeInv' /\ HeldInv' /\ Balanced'
<1>1. Holders' = Holders /\ OpenReaders' = OpenReaders
  BY DEF Holders, OpenReaders
<1> QED
  BY <1>1 DEF SessionInv, MadeInv, HeldInv, Balanced

\* The steps of the session and the registry.
LEMMA RegistryBalance ==
  ASSUME SessionInv,
         \/ OwedRelease \/ HookEnds \/ CloseRegistry
         \/ \E b \in Blobs : CreateOpener(b) \/ Revoke(b) \/ SourceStep(b)
  PROVE  MadeInv' /\ HeldInv' /\ Balanced'
<1>0. BlobTypeOK /\ owed \in Nat /\ session.refs \in Nat /\ session.closed \in BOOLEAN
  BY TypeParts DEF SessionInv, BlobTypeOK
<1>1. CASE OwedRelease
  <2>1. /\ UNCHANGED <<src, reader, listed, closing>> /\ ReleaseSession
        /\ owed > 0 /\ owed' = owed - 1
    BY <1>1 DEF OwedRelease
  <2>2. Holders' = Holders /\ OpenReaders' = OpenReaders
    BY <2>1 DEF Holders, OpenReaders
  <2>3. session'.closed \/ ~session.closed
    BY <1>0, <2>1, SessionFacts
  <2>4. ~session.closed => session'.refs = session.refs - 1
    BY <1>0, <2>1, SessionFacts, CountsAreNat DEF SessionInv, Balanced
  <2>5. Balanced'
    BY <1>0, <2>1, <2>2, <2>3, <2>4, CountsAreNat DEF SessionInv, Balanced
  <2> QED
    BY <2>1, <2>3, <2>5 DEF SessionInv, MadeInv, HeldInv
<1>2. CASE HookEnds
  <2>1. UNCHANGED <<src, reader, listed, closing, owed>>
    BY <1>2 DEF HookEnds
  <2>2. Holders' = Holders /\ OpenReaders' = OpenReaders
    BY <2>1 DEF Holders, OpenReaders
  <2>3. (session'.closed \/ ~session.closed) /\ session'.refs = session.refs
    BY <1>0, <1>2, SessionFacts
  <2> QED
    BY <2>1, <2>2, <2>3 DEF SessionInv, MadeInv, HeldInv, Balanced
<1>3. CASE CloseRegistry
  BY <1>3, SameBalance DEF CloseRegistry
<1>4. ASSUME NEW b \in Blobs, CreateOpener(b) PROVE MadeInv' /\ HeldInv' /\ Balanced'
  <2>1. /\ ~src[b].made /\ RetainSession /\ listed' = listed \cup {b}
        /\ UNCHANGED <<reader, closing, owed>>
    BY <1>4 DEF CreateOpener
  <2>2. /\ \A c \in Blobs \ {b} : src'[c] = src[c]
        /\ src'[b].made /\ src'[b].held /\ src'[b].counted = ~session.closed
        /\ src'[b].revoked = src[b].revoked
    BY <1>0, <1>4, CreateFacts
  <2>3. ~src[b].revoked /\ ~src[b].held
    BY <2>1 DEF SessionInv, MadeInv, FreshSource
  <2>4. session'.closed = session.closed /\ (~session.closed => session'.refs = session.refs + 1)
    BY <1>0, <2>1, SessionFacts
  <2>5. MadeInv'
    BY <1>0, <2>1, <2>2 DEF SessionInv, MadeInv, BlobTypeOK
  <2>6. HeldInv'
    <3>1. \A c \in Blobs : src'[c].revoked => ~src'[c].held
      BY <2>2, <2>3 DEF SessionInv, HeldInv
    <3>2. \A c \in Blobs : src'[c].held /\ ~session'.closed => src'[c].counted
      BY <2>2, <2>4 DEF SessionInv, HeldInv
    <3> QED
      BY <2>1, <2>4, <3>1, <3>2 DEF SessionInv, HeldInv
  <2>7. ~session.closed => b \in Holders'
    BY <2>2 DEF Holders
  <2>8. b \notin Holders /\ OpenReaders' = OpenReaders
    BY <2>1, <2>3 DEF Holders, OpenReaders
  <2>9. ~session.closed => Cardinality(Holders') = Cardinality(Holders) + 1
    BY <2>2, <2>7, <2>8, HoldersSwitch
  <2>10. Balanced'
    BY <1>0, <2>1, <2>4, <2>8, <2>9, CountsAreNat DEF SessionInv, Balanced
  <2> QED
    BY <2>5, <2>6, <2>10
<1>5. ASSUME NEW b \in Blobs, Revoke(b) PROVE MadeInv' /\ HeldInv' /\ Balanced'
  <2>1. src[b].made /\ ~src[b].revoked
    BY <1>5 DEF Revoke, Live, SessionInv, MadeInv
  <2> QED
    BY <1>0, <1>5, <2>1, CloseFacts, RevokeBalance DEF Revoke
<1>6. ASSUME NEW b \in Blobs, ArmTimer(b) PROVE MadeInv' /\ HeldInv' /\ Balanced'
  <2>1. (IF src[b].revoked THEN "off" ELSE "armed") \in {"unset", "armed", "off"}
    OBVIOUS
  <2> QED
    BY <1>0, <1>6, <2>1, TimerFacts, RevokeBalance DEF ArmTimer
<1>7. ASSUME NEW b \in Blobs, ExpireUnclaimed(b) PROVE MadeInv' /\ HeldInv' /\ Balanced'
  <2>1. src[b].made
    BY <1>7 DEF ExpireUnclaimed, SessionInv, MadeInv, FreshSource
  <2>2. CASE src[b].revoked \/ src[b].refs > 0
    BY <1>0, <1>7, <2>1, <2>2, TimerFacts, RevokeBalance DEF ExpireUnclaimed
  <2>3. CASE ~(src[b].revoked \/ src[b].refs > 0)
    <3>1. src' = [Revoked(b) EXCEPT ![b].timer = "off"] /\ listed' = listed \ {b} /\ Owes(b)
          /\ UNCHANGED <<session, closing, reader>>
      BY <1>7, <2>3 DEF ExpireUnclaimed
    <3> QED
      BY <1>0, <2>1, <3>1, ExpireFacts, RevokeBalance DEF Owes
  <2> QED
    BY <2>2, <2>3
<1>8. ASSUME NEW b \in Blobs, CloseNext(b) PROVE MadeInv' /\ HeldInv' /\ Balanced'
  <2>1. src[b].made /\ (src[b].revoked => ~src[b].held)
    BY <1>8 DEF CloseNext, SessionInv, MadeInv, HeldInv
  <2> QED
    BY <1>0, <1>8, <2>1, CloseFacts, RevokeBalance DEF CloseNext
<1> QED
  BY <1>1, <1>2, <1>3, <1>4, <1>5, <1>6, <1>7, <1>8 DEF SourceStep

\* The steps of the requests.
LEMMA ReaderBalance ==
  ASSUME SessionInv, NEW r \in Readers,
         (\E b \in Blobs : FindSource(r, b)) \/ ReaderStep(r)
  PROVE  MadeInv' /\ HeldInv' /\ Balanced'
<1>0. BlobTypeOK /\ owed \in Nat /\ session.refs \in Nat /\ session.closed \in BOOLEAN
  BY TypeParts DEF SessionInv, BlobTypeOK
<1> DEFINE Others == \A q \in Readers \ {r} : reader'[q] = reader[q]
<1>1. ASSUME NEW b \in Blobs, FindSource(r, b) PROVE MadeInv' /\ HeldInv' /\ Balanced'
  <2>1. UNCHANGED <<listed, src, session, owed, closing>> /\ reader[r].at = "idle"
    BY <1>1 DEF FindSource, registryVars
  <2>2. Others /\ reader'[r].at = "found" /\ reader'[r].counted = reader[r].counted
    BY <1>0, <1>1, FindFacts
  <2>3. ~reader[r].counted
    BY <2>1 DEF SessionInv, HeldInv
  <2>4. OpenReaders' = OpenReaders /\ Holders' = Holders
    BY <2>1, <2>2, <2>3 DEF OpenReaders, Holders
  <2>5. HeldInv'
    BY <2>1, <2>2, <2>3 DEF SessionInv, HeldInv
  <2> QED
    BY <2>1, <2>4, <2>5 DEF SessionInv, MadeInv, Balanced
<1>2. CASE AcquireOpen(r)
  <2>1. UNCHANGED <<listed, src, owed, closing>> /\ reader[r].at = "found"
    BY <1>2 DEF AcquireOpen
  <2>2. ~reader[r].counted /\ r \notin OpenReaders /\ Holders' = Holders
    BY <2>1 DEF SessionInv, HeldInv, OpenReaders, Holders
  <2>3. CASE /\ Others /\ reader'[r].at = "gone" /\ reader'[r].counted = reader[r].counted
             /\ UNCHANGED session
    <3>1. OpenReaders' = OpenReaders
      BY <2>2, <2>3 DEF OpenReaders
    <3>2. HeldInv'
      BY <2>1, <2>2, <2>3 DEF SessionInv, HeldInv
    <3> QED
      BY <2>1, <2>2, <2>3, <3>1, <3>2 DEF SessionInv, MadeInv, Balanced
  <2>4. CASE /\ Others /\ reader'[r].at = "open" /\ reader'[r].counted = ~session.closed
             /\ RetainSession
    <3>1. session'.closed = session.closed /\ (~session.closed => session'.refs = session.refs + 1)
      BY <1>0, <2>4, SessionFacts
    <3>2. ~session.closed => r \in OpenReaders'
      BY <2>4 DEF OpenReaders
    <3>3. ~session.closed => Cardinality(OpenReaders') = Cardinality(OpenReaders) + 1
      BY <2>2, <2>4, <3>2, ReadersSwitch
    <3>4. HeldInv'
      <4>1. \A q \in Readers : /\ reader'[q].counted => reader'[q].at = "open"
                               /\ reader'[q].at = "open" /\ ~session'.closed => reader'[q].counted
        BY <2>4, <3>1 DEF SessionInv, HeldInv
      <4> QED
        BY <2>1, <3>1, <4>1 DEF SessionInv, HeldInv
    <3>5. Balanced'
      BY <1>0, <2>1, <2>2, <3>1, <3>3, CountsAreNat DEF SessionInv, Balanced
    <3> QED
      BY <2>1, <3>4, <3>5 DEF SessionInv, MadeInv
  <2> QED
    BY <1>0, <1>2, <2>3, <2>4, AcquireFacts
<1>3. CASE ReaderReleases(r)
  <2>1. UNCHANGED <<listed, src, owed, closing>> /\ reader[r].at = "open" /\ ReleaseSession
    BY <1>3 DEF ReaderReleases
  <2>2. Others /\ reader'[r].at = "gone" /\ ~reader'[r].counted
    BY <1>0, <1>3, LeaveFacts
  <2>3. r \notin OpenReaders' /\ Holders' = Holders /\ (~session.closed => r \in OpenReaders)
    BY <2>1, <2>2 DEF OpenReaders, Holders, SessionInv, HeldInv
  <2>4. ~session.closed => /\ Cardinality(OpenReaders) > 0
                           /\ Cardinality(OpenReaders') = Cardinality(OpenReaders) - 1
    BY <2>2, <2>3, ReadersSwitch
  <2>5. session.closed => session'.closed
    BY <1>0, <2>1, SessionFacts
  <2>6. ~session.closed => session'.refs = session.refs - 1
    BY <1>0, <2>1, <2>4, SessionFacts, CountsAreNat DEF SessionInv, Balanced
  <2>7. Balanced'
    BY <1>0, <2>1, <2>3, <2>4, <2>5, <2>6, CountsAreNat DEF SessionInv, Balanced
  <2>8. HeldInv'
    BY <2>1, <2>2, <2>5 DEF SessionInv, HeldInv
  <2> QED
    BY <2>1, <2>7, <2>8 DEF SessionInv, MadeInv
<1> QED
  BY <1>1, <1>2, <1>3 DEF ReaderStep

\* Release of a source, whoever releases: what it held is owed.
LEMMA ReleaseBalance ==
  ASSUME SessionInv, NEW b \in Blobs, ReleaseBlob(b), UNCHANGED <<session, closing, reader>>
  PROVE  MadeInv' /\ HeldInv' /\ Balanced'
<1>0. BlobTypeOK
  BY DEF SessionInv
<1>1. CASE ~(Live(b) /\ src[b].refs > 0)
  BY <1>1, SameBalance DEF ReleaseBlob
<1>2. CASE Live(b) /\ src[b].refs > 0
  <2>1. src[b].made
    BY <1>2 DEF Live, SessionInv, MadeInv
  <2>2. /\ \A c \in Blobs \ {b} : src'[c] = src[c]
        /\ src'[b].made = src[b].made /\ src'[b].counted = src[b].counted
        /\ listed' \subseteq listed
        /\ \/ src'[b].revoked = src[b].revoked /\ src'[b].held = src[b].held /\ owed' = owed
           \/ src'[b].revoked /\ ~src'[b].held /\ Owes(b)
    BY <1>0, <1>2, ReleaseFacts
  <2> QED
    BY <2>1, <2>2, RevokeBalance DEF Owes
<1> QED
  BY <1>1, <1>2

\* The steps of the tasks.
LEMMA LeaserBalance ==
  ASSUME SessionInv, NEW t \in Leasers, StartLeaser(t) \/ LeaserEnds(t) \/ LeaserStep(t)
  PROVE  MadeInv' /\ HeldInv' /\ Balanced'
<1>0. BlobTypeOK /\ target[t] \in Maybe /\ drop[t].handler \in Maybe /\ drop[t].watcher \in Maybe
  BY DEF SessionInv, BlobTypeOK
<1>1. CASE StartLeaser(t) \/ LeaserEnds(t) \/ SyncLooks(t) \/ EndTakes(t)
  BY <1>1, SameBalance DEF StartLeaser, LeaserEnds, SyncLooks, EndTakes, registryVars
<1>2. CASE SyncAcquires(t)
  <2>1. UNCHANGED <<listed, session, owed, closing, reader>>
    BY <1>2 DEF SyncAcquires
  <2>2. CASE UNCHANGED src
    BY <2>1, <2>2, SameBalance
  <2>3. CASE target[t] # NoBlob /\ Live(target[t]) /\ src' = Claimed(target[t])
    <3>1. target[t] \in Blobs /\ src[target[t]].made
      BY <1>0, <2>3 DEF Maybe, Live, SessionInv, MadeInv
    <3> QED
      BY <1>0, <2>1, <2>3, <3>1, ClaimFacts, RevokeBalance
  <2> QED
    BY <1>2, <2>2, <2>3 DEF SyncAcquires
<1>3. CASE DropOld(t)
  <2>1. UNCHANGED <<session, closing, reader>>
    BY <1>3 DEF DropOld
  <2>2. CASE drop[t].handler = NoBlob
    BY <1>3, <2>1, <2>2, SameBalance DEF DropOld
  <2>3. CASE drop[t].handler # NoBlob
    BY <1>0, <1>3, <2>1, <2>3, ReleaseBalance DEF DropOld, Maybe
  <2> QED
    BY <2>2, <2>3
<1>4. CASE EndReleases(t)
  BY <1>0, <1>4, ReleaseBalance DEF EndReleases, Maybe
<1> QED
  BY <1>1, <1>2, <1>3, <1>4 DEF LeaserStep

\* Nothing holds the session at first.
LEMMA InitBalance == BlobInit => SessionInv
<1> SUFFICES ASSUME BlobInit PROVE SessionInv
  OBVIOUS
<1>1. Holders = {} /\ OpenReaders = {}
  BY DEF BlobInit, Holders, OpenReaders
<1>2. Balanced
  BY <1>1, FS_EmptySet DEF BlobInit, Balanced
<1>3. MadeInv /\ HeldInv
  BY DEF BlobInit, MadeInv, HeldInv, FreshSource
<1> QED
  BY <1>2, <1>3, InitType DEF SessionInv

\* Every step keeps the balance.
LEMMA NextBalance ==
  ASSUME SessionInv, [BlobNext]_blobVars
  PROVE  SessionInv'
<1>1. BlobTypeOK'
  BY NextType DEF SessionInv
<1>2. CASE UNCHANGED blobVars
  BY <1>1, <1>2, SameBalance DEF blobVars, SessionInv
<1>3. CASE BlobNext
  BY <1>1, <1>3, RegistryBalance, ReaderBalance, LeaserBalance DEF BlobNext, SessionInv
<1> QED
  BY <1>2, <1>3

\* ReferencesBalance: whoever of the last task, Revoke, the unclaimed timer and
\* Close comes first, the session's count is what sources, requests and releases
\* on their way hold, until it closes (registry.go:230, 249, 498, 530).
THEOREM SessionBalances == BlobSpec => []ReferencesBalance
<1>1. SessionInv /\ [BlobNext]_blobVars => SessionInv'
  BY NextBalance
<1>2. SessionInv => ReferencesBalance
  BY BalanceForm DEF SessionInv
<1> QED
  BY <1>1, <1>2, InitBalance, PTL DEF BlobSpec

-----------------------------------------------------------------------------
\* The references of the sources

LeasedBy(b) == {t \in Leasers : lease[t] = b}
HandlerHas(b) == {t \in Leasers : drop[t].handler = b}
WatcherHas(b) == {t \in Leasers : drop[t].watcher = b}
Refs(b) == Cardinality(LeasedBy(b)) + Cardinality(HandlerHas(b)) + Cardinality(WatcherHas(b))
One(x, b) == IF x = b THEN 1 ELSE 0

\* Who holds a source holds one that was created.
HeldMade ==
    \A t \in Leasers :
        /\ lease[t] # NoBlob => src[lease[t]].made
        /\ drop[t].handler # NoBlob => src[drop[t].handler].made /\ start[t] = "drop"
        /\ drop[t].watcher # NoBlob => src[drop[t].watcher].made

Counted == \A b \in listed : ~src[b].revoked => src[b].refs = Refs(b)

LeaseInv == SessionInv /\ HeldMade /\ Counted

\* LeasesCounted, with its counts named.
LEMMA CountedForm == LeasesCounted <=> Counted
BY DEF LeasesCounted, Counted, Refs, LeasedBy, HandlerHas, WatcherHas

\* A step of one task moves that task's references only.
LEMMA TaskSwitch ==
  ASSUME NEW t \in Leasers, NEW b \in Blobs,
         \A u \in Leasers \ {t} : lease'[u] = lease[u] /\ drop'[u] = drop[u]
  PROVE  /\ Refs(b) \in Nat /\ Refs(b)' \in Nat
         /\ lease[t] = b \/ drop[t].handler = b \/ drop[t].watcher = b => Refs(b) > 0
         /\ Refs(b)' + One(lease[t], b) + One(drop[t].handler, b) + One(drop[t].watcher, b)
              = Refs(b) + One(lease'[t], b) + One(drop'[t].handler, b) + One(drop'[t].watcher, b)
<1>1. /\ LeasedBy(b) \in SUBSET Leasers /\ LeasedBy(b)' \in SUBSET Leasers
      /\ LeasedBy(b) \ {t} = LeasedBy(b)' \ {t}
      /\ (t \in LeasedBy(b) <=> lease[t] = b) /\ (t \in LeasedBy(b)' <=> lease'[t] = b)
  BY DEF LeasedBy
<1>2. /\ HandlerHas(b) \in SUBSET Leasers /\ HandlerHas(b)' \in SUBSET Leasers
      /\ HandlerHas(b) \ {t} = HandlerHas(b)' \ {t}
      /\ (t \in HandlerHas(b) <=> drop[t].handler = b)
      /\ (t \in HandlerHas(b)' <=> drop'[t].handler = b)
  BY DEF HandlerHas
<1>3. /\ WatcherHas(b) \in SUBSET Leasers /\ WatcherHas(b)' \in SUBSET Leasers
      /\ WatcherHas(b) \ {t} = WatcherHas(b)' \ {t}
      /\ (t \in WatcherHas(b) <=> drop[t].watcher = b)
      /\ (t \in WatcherHas(b)' <=> drop'[t].watcher = b)
  BY DEF WatcherHas
<1> HIDE DEF LeasedBy, HandlerHas, WatcherHas
<1>4. /\ Cardinality(LeasedBy(b)) \in Nat /\ Cardinality(LeasedBy(b)') \in Nat
      /\ lease[t] = b => Cardinality(LeasedBy(b)) > 0
      /\ Cardinality(LeasedBy(b)') + One(lease[t], b) = Cardinality(LeasedBy(b)) + One(lease'[t], b)
  BY <1>1, BlobAssumption, Switch DEF One
<1>5. /\ Cardinality(HandlerHas(b)) \in Nat /\ Cardinality(HandlerHas(b)') \in Nat
      /\ drop[t].handler = b => Cardinality(HandlerHas(b)) > 0
      /\ Cardinality(HandlerHas(b)') + One(drop[t].handler, b)
           = Cardinality(HandlerHas(b)) + One(drop'[t].handler, b)
  BY <1>2, BlobAssumption, Switch DEF One
<1>6. /\ Cardinality(WatcherHas(b)) \in Nat /\ Cardinality(WatcherHas(b)') \in Nat
      /\ drop[t].watcher = b => Cardinality(WatcherHas(b)) > 0
      /\ Cardinality(WatcherHas(b)') + One(drop[t].watcher, b)
           = Cardinality(WatcherHas(b)) + One(drop'[t].watcher, b)
  BY <1>3, BlobAssumption, Switch DEF One
<1> QED
  BY <1>4, <1>5, <1>6 DEF Refs, One

\* The steps of others: no reference moves, and none is taken from a live source.
LEMMA OthersCounted ==
  ASSUME LeaseInv, UNCHANGED <<lease, drop, start>>,
         \/ OwedRelease \/ HookEnds \/ CloseRegistry
         \/ \E b \in Blobs : CreateOpener(b) \/ Revoke(b) \/ SourceStep(b)
         \/ \E r \in Readers : (\E b \in Blobs : FindSource(r, b)) \/ ReaderStep(r)
  PROVE  HeldMade' /\ Counted'
<1>0. BlobTypeOK /\ listed \in SUBSET Blobs
  BY DEF LeaseInv, SessionInv, BlobTypeOK
<1>1. \A b : Refs(b)' = Refs(b)
  BY DEF Refs, LeasedBy, HandlerHas, WatcherHas
<1>10. ASSUME \A c \in Blobs : src[c].made => src'[c].made PROVE HeldMade'
  <2>1. \A t \in Leasers : /\ lease[t] # NoBlob => lease[t] \in Blobs
                           /\ drop[t].handler # NoBlob => drop[t].handler \in Blobs
                           /\ drop[t].watcher # NoBlob => drop[t].watcher \in Blobs
    BY <1>0 DEF BlobTypeOK, Maybe
  <2> QED
    BY <1>10, <2>1 DEF LeaseInv, HeldMade
<1>2. ASSUME NEW b \in Blobs, \A c \in Blobs \ {b} : src'[c] = src[c],
             src'[b].made, src'[b].refs = src[b].refs,
             \A c \in listed' : c \in listed /\ (src[c].revoked => src'[c].revoked)
      PROVE  HeldMade' /\ Counted'
  <2>1. HeldMade'
    BY <1>2, <1>10
  <2>2. Counted'
    BY <1>0, <1>1, <1>2 DEF LeaseInv, Counted
  <2> QED
    BY <2>1, <2>2
<1>3. CASE UNCHANGED src /\ listed' \subseteq listed
  BY <1>1, <1>3 DEF LeaseInv, HeldMade, Counted
<1>4. CASE \/ OwedRelease \/ HookEnds \/ CloseRegistry
           \/ \E r \in Readers : (\E b \in Blobs : FindSource(r, b)) \/ ReaderStep(r)
  BY <1>3, <1>4 DEF OwedRelease, HookEnds, CloseRegistry, FindSource, ReaderStep, AcquireOpen,
                    ReaderReleases, registryVars
<1>5. ASSUME NEW b \in Blobs, CreateOpener(b) PROVE HeldMade' /\ Counted'
  <2>1. ~src[b].made /\ listed' = listed \cup {b}
    BY <1>5 DEF CreateOpener
  <2>2. /\ \A c \in Blobs \ {b} : src'[c] = src[c]
        /\ src'[b].made /\ src'[b].refs = src[b].refs
    BY <1>0, <1>5, CreateFacts
  <2>3. src[b].refs = 0
    BY <2>1 DEF LeaseInv, SessionInv, MadeInv, FreshSource
  <2>4. b # NoBlob /\ LeasedBy(b) = {} /\ HandlerHas(b) = {} /\ WatcherHas(b) = {}
    BY <2>1, BlobAssumption DEF LeaseInv, HeldMade, LeasedBy, HandlerHas, WatcherHas
  <2>5. Refs(b) = 0
    BY <2>4, FS_EmptySet DEF Refs
  <2>6. HeldMade'
    BY <2>2, <1>10
  <2>7. Counted'
    BY <1>0, <1>1, <2>1, <2>2, <2>3, <2>5 DEF LeaseInv, Counted
  <2> QED
    BY <2>6, <2>7
<1>6. ASSUME NEW b \in Blobs, Revoke(b) PROVE HeldMade' /\ Counted'
  <2>1. src[b].made /\ listed' = listed \ {b} /\ CloseSource(b)
    BY <1>6 DEF Revoke, Live, LeaseInv, SessionInv, MadeInv
  <2> QED
    BY <1>0, <1>2, <2>1, CloseFacts
<1>7. ASSUME NEW b \in Blobs, ArmTimer(b) PROVE HeldMade' /\ Counted'
  <2>1. (IF src[b].revoked THEN "off" ELSE "armed") \in {"unset", "armed", "off"}
    OBVIOUS
  <2>2. src[b].made /\ UNCHANGED listed
    BY <1>7 DEF ArmTimer
  <2>3. src' = [src EXCEPT ![b].timer = IF src[b].revoked THEN "off" ELSE "armed"]
    BY <1>7 DEF ArmTimer
  <2>4. /\ \A c \in Blobs \ {b} : src'[c] = src[c]
        /\ src'[b].made = src[b].made /\ src'[b].revoked = src[b].revoked
        /\ src'[b].refs = src[b].refs
    BY <1>0, <2>1, <2>3, TimerFacts
  <2> QED
    BY <1>0, <1>2, <2>2, <2>4
<1>8. ASSUME NEW b \in Blobs, ExpireUnclaimed(b) PROVE HeldMade' /\ Counted'
  <2>1. src[b].made
    BY <1>8 DEF ExpireUnclaimed, LeaseInv, SessionInv, MadeInv, FreshSource
  <2>2. CASE src' = [src EXCEPT ![b].timer = "off"] /\ UNCHANGED listed
    <3>1. /\ \A c \in Blobs \ {b} : src'[c] = src[c]
          /\ src'[b].made = src[b].made /\ src'[b].revoked = src[b].revoked
          /\ src'[b].refs = src[b].refs
      BY <1>0, <2>2, TimerFacts
    <3> QED
      BY <1>0, <1>2, <2>1, <2>2, <3>1
  <2>3. CASE src' = [Revoked(b) EXCEPT ![b].timer = "off"] /\ listed' = listed \ {b}
    <3>1. /\ \A c \in Blobs \ {b} : src'[c] = src[c]
          /\ src'[b].made = src[b].made /\ src'[b].refs = src[b].refs
      BY <1>0, <2>3, ExpireFacts
    <3> QED
      BY <1>0, <1>2, <2>1, <2>3, <3>1
  <2> QED
    BY <1>8, <2>2, <2>3 DEF ExpireUnclaimed
<1>9. ASSUME NEW b \in Blobs, CloseNext(b) PROVE HeldMade' /\ Counted'
  <2>1. src[b].made /\ UNCHANGED listed /\ CloseSource(b)
    BY <1>9 DEF CloseNext, LeaseInv, SessionInv, MadeInv
  <2>2. /\ \A c \in Blobs \ {b} : src'[c] = src[c]
        /\ src'[b].made = src[b].made /\ src'[b].refs = src[b].refs /\ src'[b].revoked
    BY <1>0, <2>1, CloseFacts
  <2> QED
    BY <1>0, <1>2, <2>1, <2>2
<1> QED
  BY <1>4, <1>5, <1>6, <1>7, <1>8, <1>9 DEF SourceStep

\* Release takes a reference from a live source.
LEMMA ReleaseCounts ==
  ASSUME LeaseInv, NEW x \in Blobs, ReleaseBlob(x), src[x].made,
         Refs(x) \in Nat, Refs(x) > 0, Refs(x)' = Refs(x) - 1,
         \A b \in Blobs \ {x} : Refs(b)' = Refs(b)
  PROVE  Counted' /\ \A c \in Blobs : src[c].made => src'[c].made
<1>0. BlobTypeOK /\ listed \in SUBSET Blobs
  BY DEF LeaseInv, SessionInv, BlobTypeOK
<1>1. /\ \A c \in Blobs \ {x} : src'[c] = src[c]
      /\ src'[x].made = src[x].made
      /\ \/ /\ ~(Live(x) /\ src[x].refs > 0)
            /\ UNCHANGED <<src, listed>>
         \/ src'[x].revoked /\ listed' = listed \ {x}
         \/ /\ Live(x) /\ src'[x].revoked = src[x].revoked /\ src'[x].refs = src[x].refs - 1
            /\ UNCHANGED listed
  BY <1>0, ReleaseFacts
<1>2. Live(x) => src[x].refs = Refs(x)
  BY DEF Live, LeaseInv, Counted
<1>3. ASSUME NEW b \in listed', ~src'[b].revoked PROVE src'[b].refs = Refs(b)'
  <2>1. b \in listed /\ b \in Blobs
    BY <1>0, <1>1, <1>3
  <2>2. CASE b # x
    BY <1>1, <1>3, <2>1, <2>2 DEF LeaseInv, Counted
  <2>3. CASE b = x
    <3>1. CASE UNCHANGED <<src, listed>> /\ ~(Live(x) /\ src[x].refs > 0)
      BY <1>2, <1>3, <2>1, <2>3, <3>1 DEF Live
    <3>2. CASE src'[x].refs = src[x].refs - 1 /\ Live(x)
      BY <1>2, <2>3, <3>2
    <3> QED
      BY <1>1, <1>3, <2>3, <3>1, <3>2
  <2> QED
    BY <2>2, <2>3
<1> QED
  BY <1>1, <1>3 DEF Counted

\* The steps of the tasks.
LEMMA LeaserCounted ==
  ASSUME LeaseInv, NEW t \in Leasers, StartLeaser(t) \/ LeaserEnds(t) \/ LeaserStep(t)
  PROVE  HeldMade' /\ Counted'
<1>0. /\ BlobTypeOK /\ listed \in SUBSET Blobs
      /\ lease \in [Leasers -> Maybe] /\ target \in [Leasers -> Maybe]
      /\ start \in [Leasers -> {"none", "sync", "acquire", "drop"}]
      /\ drop \in [Leasers -> [handler : Maybe, watcher : Maybe]]
  BY DEF LeaseInv, SessionInv, BlobTypeOK
<1>00. lease[t] \in Maybe /\ target[t] \in Maybe /\ drop[t].handler \in Maybe /\ drop[t].watcher \in Maybe
  BY <1>0
<1> DEFINE Others == \A u \in Leasers \ {t} : /\ lease'[u] = lease[u] /\ drop'[u] = drop[u]
                                              /\ start'[u] = start[u]
<1>1. CASE StartLeaser(t) \/ LeaserEnds(t) \/ SyncLooks(t)
  <2>1. UNCHANGED <<src, listed, lease, drop>>
    BY <1>1 DEF StartLeaser, LeaserEnds, SyncLooks, registryVars
  <2>2. \A b : Refs(b)' = Refs(b)
    BY <2>1 DEF Refs, LeasedBy, HandlerHas, WatcherHas
  <2>3. \A u \in Leasers : start[u] = "drop" => start'[u] = "drop"
    BY <1>0, <1>1 DEF StartLeaser, LeaserEnds, SyncLooks
  <2>4. HeldMade'
    BY <2>1, <2>3 DEF LeaseInv, HeldMade
  <2> QED
    BY <2>1, <2>2, <2>4 DEF LeaseInv, Counted
<1>2. CASE SyncAcquires(t)
  <2> DEFINE x == target[t]
  <2>0. UNCHANGED listed /\ start[t] = "acquire" /\ drop[t].handler = NoBlob
    BY <1>2 DEF SyncAcquires, LeaseInv, HeldMade
  <2>1. CASE x # NoBlob /\ ~Live(x)
    <3>1. UNCHANGED <<src, lease, drop>> /\ start' = [start EXCEPT ![t] = "none"]
      BY <1>2, <2>1 DEF SyncAcquires
    <3>2. \A b : Refs(b)' = Refs(b)
      BY <3>1 DEF Refs, LeasedBy, HandlerHas, WatcherHas
    <3>3. HeldMade'
      BY <1>0, <2>0, <3>1 DEF LeaseInv, HeldMade
    <3> QED
      BY <2>0, <3>1, <3>2, <3>3 DEF LeaseInv, Counted
  <2>2. CASE ~(x # NoBlob /\ ~Live(x))
    <3>1. /\ src' = IF x = NoBlob THEN src ELSE Claimed(x)
          /\ lease' = [lease EXCEPT ![t] = x]
          /\ drop' = [drop EXCEPT ![t].handler = lease[t]]
          /\ start' = [start EXCEPT ![t] = "drop"]
      BY <1>2, <2>2 DEF SyncAcquires
    <3>2. /\ Others /\ lease'[t] = x /\ start'[t] = "drop"
          /\ drop'[t].handler = lease[t] /\ drop'[t].watcher = drop[t].watcher
      BY <1>0, <3>1
    <3>3. x # NoBlob => x \in Blobs /\ src[x].made /\ src[x].refs \in Nat
      BY <1>0, <1>00, <2>2, TypeParts, SourceFields DEF Maybe, Live, LeaseInv, SessionInv, MadeInv
    <3>4. /\ \A b \in Blobs : src'[b].made = src[b].made /\ src'[b].revoked = src[b].revoked
          /\ \A b \in Blobs : src'[b].refs = src[b].refs + One(x, b)
      <4>1. CASE x = NoBlob
        BY <1>0, <3>1, <4>1, BlobAssumption, TypeParts, SourceFields DEF One
      <4>2. CASE x # NoBlob
        <5>1. /\ \A c \in Blobs \ {x} : src'[c] = src[c]
              /\ src'[x].made = src[x].made /\ src'[x].revoked = src[x].revoked
              /\ src'[x].refs = src[x].refs + 1
          BY <1>0, <3>1, <3>3, <4>2, ClaimFacts
        <5> QED
          BY <1>0, <3>3, <4>2, <5>1, TypeParts, SourceFields DEF One
      <4> QED
        BY <4>1, <4>2
    <3>5. ASSUME NEW b \in Blobs PROVE Refs(b)' = Refs(b) + One(x, b) /\ Refs(b) \in Nat
      <4>1. Others /\ One(NoBlob, b) = 0
        BY <3>2, BlobAssumption DEF One
      <4>2. /\ Refs(b) \in Nat /\ Refs(b)' \in Nat
            /\ Refs(b)' + One(lease[t], b) + One(drop[t].handler, b) + One(drop[t].watcher, b)
                 = Refs(b) + One(lease'[t], b) + One(drop'[t].handler, b) + One(drop'[t].watcher, b)
        BY <4>1, TaskSwitch
      <4>3. One(lease[t], b) \in Nat /\ One(drop[t].watcher, b) \in Nat /\ One(x, b) \in Nat
        BY DEF One
      <4> QED
        BY <2>0, <3>2, <4>1, <4>2, <4>3
    <3>6. Counted'
      BY <1>0, <2>0, <3>4, <3>5 DEF LeaseInv, Counted
    <3>7. HeldMade'
      <4>1. ASSUME NEW u \in Leasers \ {t}
            PROVE  /\ lease'[u] # NoBlob => src'[lease'[u]].made
                   /\ drop'[u].handler # NoBlob => src'[drop'[u].handler].made /\ start'[u] = "drop"
                   /\ drop'[u].watcher # NoBlob => src'[drop'[u].watcher].made
        BY <1>0, <3>2, <3>4, <4>1 DEF LeaseInv, HeldMade, Maybe
      <4>2. /\ lease'[t] # NoBlob => src'[lease'[t]].made
            /\ drop'[t].handler # NoBlob => src'[drop'[t].handler].made /\ start'[t] = "drop"
            /\ drop'[t].watcher # NoBlob => src'[drop'[t].watcher].made
        BY <1>00, <3>2, <3>3, <3>4 DEF LeaseInv, HeldMade, Maybe
      <4> QED
        BY <4>1, <4>2 DEF HeldMade
    <3> QED
      BY <3>6, <3>7
  <2> QED
    BY <2>1, <2>2
\* Dropping a reference: the handler's or the watcher's.
<1>3. ASSUME NEW x \in Blobs, ReleaseBlob(x), UNCHANGED lease,
             \A u \in Leasers \ {t} : drop'[u] = drop[u],
             src[x].made,
             \A u \in Leasers \ {t} : start'[u] = start[u],
             \/ /\ drop[t].handler = x /\ drop'[t].handler = NoBlob
                /\ drop'[t].watcher = drop[t].watcher
             \/ /\ drop[t].watcher = x /\ drop'[t].watcher = NoBlob
                /\ drop'[t].handler = drop[t].handler /\ UNCHANGED start
      PROVE  HeldMade' /\ Counted'
  <2>1. ASSUME NEW b \in Blobs
        PROVE  /\ Refs(b) \in Nat /\ Refs(b)' = Refs(b) - One(x, b)
               /\ b = x => Refs(b) > 0
    <3>1. One(NoBlob, b) = 0
      BY BlobAssumption DEF One
    <3>2. /\ Refs(b) \in Nat /\ Refs(b)' \in Nat
          /\ lease[t] = b \/ drop[t].handler = b \/ drop[t].watcher = b => Refs(b) > 0
          /\ Refs(b)' + One(lease[t], b) + One(drop[t].handler, b) + One(drop[t].watcher, b)
               = Refs(b) + One(lease'[t], b) + One(drop'[t].handler, b) + One(drop'[t].watcher, b)
      BY <1>3, TaskSwitch
    <3>3. /\ One(lease[t], b) \in Nat /\ One(drop[t].watcher, b) \in Nat /\ One(x, b) \in Nat
          /\ One(drop[t].handler, b) \in Nat
      BY DEF One
    <3>4. lease'[t] = lease[t]
      BY <1>3
    <3>5. CASE /\ drop[t].handler = x /\ drop'[t].handler = NoBlob
               /\ drop'[t].watcher = drop[t].watcher
      BY <3>1, <3>2, <3>3, <3>4, <3>5
    <3>6. CASE /\ drop[t].watcher = x /\ drop'[t].watcher = NoBlob
               /\ drop'[t].handler = drop[t].handler
      BY <3>1, <3>2, <3>3, <3>4, <3>6
    <3> QED
      BY <1>3, <3>5, <3>6
  <2>2. Refs(x) \in Nat /\ Refs(x) > 0 /\ Refs(x)' = Refs(x) - 1
    BY <2>1 DEF One
  <2>3. \A b \in Blobs \ {x} : Refs(b)' = Refs(b)
    BY <2>1 DEF One
  <2>4. Counted' /\ \A c \in Blobs : src[c].made => src'[c].made
    BY <1>3, <2>2, <2>3, ReleaseCounts
  <2>5. HeldMade'
    <3>1. ASSUME NEW u \in Leasers \ {t}
          PROVE  /\ lease'[u] # NoBlob => src'[lease'[u]].made
                 /\ drop'[u].handler # NoBlob => src'[drop'[u].handler].made /\ start'[u] = "drop"
                 /\ drop'[u].watcher # NoBlob => src'[drop'[u].watcher].made
      BY <1>0, <1>3, <2>4, <3>1 DEF LeaseInv, HeldMade, Maybe
    <3>2. /\ lease'[t] # NoBlob => src'[lease'[t]].made
          /\ drop'[t].handler # NoBlob => src'[drop'[t].handler].made /\ start'[t] = "drop"
          /\ drop'[t].watcher # NoBlob => src'[drop'[t].watcher].made
      BY <1>00, <1>3, <2>4 DEF LeaseInv, HeldMade, Maybe
    <3> QED
      BY <3>1, <3>2 DEF HeldMade
  <2> QED
    BY <2>4, <2>5
<1>4. CASE DropOld(t)
  <2>1. /\ UNCHANGED lease
        /\ drop' = [drop EXCEPT ![t].handler = NoBlob]
        /\ start' = [start EXCEPT ![t] = "none"]
    BY <1>4 DEF DropOld
  <2>2. /\ \A u \in Leasers \ {t} : drop'[u] = drop[u] /\ start'[u] = start[u]
        /\ drop'[t].handler = NoBlob /\ drop'[t].watcher = drop[t].watcher
    BY <1>0, <2>1
  <2>3. CASE drop[t].handler = NoBlob
    <3>1. UNCHANGED <<src, listed>>
      BY <1>4, <2>3 DEF DropOld
    <3>2. /\ \A u \in Leasers : drop'[u].handler = drop[u].handler /\ drop'[u].watcher = drop[u].watcher
      BY <2>2, <2>3
    <3>3. \A b : Refs(b)' = Refs(b)
      BY <2>1, <3>2 DEF Refs, LeasedBy, HandlerHas, WatcherHas
    <3>4. HeldMade'
      BY <2>1, <2>2, <2>3, <3>1, <3>2 DEF LeaseInv, HeldMade
    <3> QED
      BY <3>1, <3>3, <3>4 DEF LeaseInv, Counted
  <2>4. CASE drop[t].handler # NoBlob
    <3>1. /\ drop[t].handler \in Blobs /\ src[drop[t].handler].made
          /\ ReleaseBlob(drop[t].handler)
      BY <1>00, <1>4, <2>4 DEF DropOld, Maybe, LeaseInv, HeldMade
    <3> QED
      BY <1>3, <2>1, <2>2, <3>1
  <2> QED
    BY <2>3, <2>4
<1>5. CASE EndReleases(t)
  <2>1. /\ UNCHANGED <<lease, start>> /\ drop[t].watcher # NoBlob
        /\ drop' = [drop EXCEPT ![t].watcher = NoBlob]
        /\ ReleaseBlob(drop[t].watcher)
    BY <1>5 DEF EndReleases
  <2>2. /\ \A u \in Leasers \ {t} : drop'[u] = drop[u] /\ start'[u] = start[u]
        /\ drop'[t].watcher = NoBlob /\ drop'[t].handler = drop[t].handler
    BY <1>0, <2>1
  <2>3. drop[t].watcher \in Blobs /\ src[drop[t].watcher].made
    BY <1>00, <2>1 DEF Maybe, LeaseInv, HeldMade
  <2> QED
    BY <1>3, <2>1, <2>2, <2>3
<1>6. CASE EndTakes(t)
  <2>1. /\ UNCHANGED <<src, listed, start>> /\ drop[t].watcher = NoBlob
        /\ drop' = [drop EXCEPT ![t].watcher = lease[t]]
        /\ lease' = [lease EXCEPT ![t] = NoBlob]
    BY <1>6 DEF EndTakes, registryVars
  <2>2. /\ \A u \in Leasers \ {t} : drop'[u] = drop[u] /\ lease'[u] = lease[u]
        /\ drop'[t].watcher = lease[t] /\ drop'[t].handler = drop[t].handler
        /\ lease'[t] = NoBlob
    BY <1>0, <2>1
  <2>3. ASSUME NEW b \in Blobs PROVE Refs(b)' = Refs(b)
    <3>1. One(NoBlob, b) = 0
      BY BlobAssumption DEF One
    <3>2. /\ Refs(b) \in Nat /\ Refs(b)' \in Nat
          /\ Refs(b)' + One(lease[t], b) + One(drop[t].handler, b) + One(drop[t].watcher, b)
               = Refs(b) + One(lease'[t], b) + One(drop'[t].handler, b) + One(drop'[t].watcher, b)
      BY <2>2, TaskSwitch
    <3>3. One(lease[t], b) \in Nat /\ One(drop[t].handler, b) \in Nat
      BY DEF One
    <3> QED
      BY <2>1, <2>2, <3>1, <3>2, <3>3
  <2>4. Counted'
    BY <1>0, <2>1, <2>3 DEF LeaseInv, Counted
  <2>5. HeldMade'
    BY <2>1, <2>2 DEF LeaseInv, HeldMade
  <2> QED
    BY <2>4, <2>5
<1> QED
  BY <1>1, <1>2, <1>4, <1>5, <1>6 DEF LeaserStep

\* Nobody holds a source at first.
LEMMA InitCounted == BlobInit => LeaseInv
BY InitBalance DEF BlobInit, LeaseInv, HeldMade, Counted

\* Every step keeps the counts.
LEMMA NextCounted ==
  ASSUME LeaseInv, [BlobNext]_blobVars
  PROVE  LeaseInv'
<1>1. SessionInv'
  BY NextBalance DEF LeaseInv
<1>2. CASE UNCHANGED blobVars
  <2>1. \A b : Refs(b)' = Refs(b)
    BY <1>2 DEF Refs, LeasedBy, HandlerHas, WatcherHas, blobVars
  <2> QED
    BY <1>1, <1>2, <2>1 DEF blobVars, LeaseInv, HeldMade, Counted
<1>3. CASE \E t \in Leasers : StartLeaser(t) \/ LeaserEnds(t) \/ LeaserStep(t)
  BY <1>1, <1>3, LeaserCounted DEF LeaseInv
<1>4. CASE \/ OwedRelease \/ HookEnds \/ CloseRegistry
           \/ \E b \in Blobs : CreateOpener(b) \/ Revoke(b) \/ SourceStep(b)
           \/ \E r \in Readers : (\E b \in Blobs : FindSource(r, b)) \/ ReaderStep(r)
  <2>1. UNCHANGED <<lease, drop, start>>
    BY <1>4 DEF OwedRelease, HookEnds, CloseRegistry, CreateOpener, Revoke, SourceStep, ArmTimer,
                ExpireUnclaimed, CloseNext, FindSource, ReaderStep, AcquireOpen, ReaderReleases,
                leaseVars
  <2> QED
    BY <1>1, <1>4, <2>1, OthersCounted DEF LeaseInv
<1> QED
  BY <1>2, <1>3, <1>4 DEF BlobNext

\* A source that is neither revoked nor deleted counts exactly the tasks that hold
\* it: those that lease it and those that have taken it from their lease and
\* still have to release it, the handler's and the watcher's apart
\* (syncBlobTaskLease, releaseBlobTask).
THEOREM LeasesAreCounted == BlobSpec => []LeasesCounted
<1>1. LeaseInv /\ [BlobNext]_blobVars => LeaseInv'
  BY NextCounted
<1>2. LeaseInv => LeasesCounted
  BY CountedForm DEF LeaseInv
<1> QED
  BY <1>1, <1>2, InitCounted, PTL DEF BlobSpec

-----------------------------------------------------------------------------
\* What a task that has ended holds

\* Once a done task has released, a start handler on its way can only take the
\* lease away: it looked after the end, or has still to look.
EndInv ==
    \A t \in Leasers : status[t] = "done" /\ ~ending[t] =>
        /\ start[t] \in {"none", "drop"} => lease[t] = NoBlob
        /\ start[t] = "acquire" => target[t] = NoBlob

\* Steps that leave the tasks alone.
LEMMA OthersEnd ==
  ASSUME EndInv, UNCHANGED leaseVars
  PROVE  EndInv'
BY DEF EndInv, leaseVars

\* The steps of the tasks.
LEMMA LeaserEnd ==
  ASSUME BlobTypeOK, EndInv, NEW t \in Leasers, StartLeaser(t) \/ LeaserEnds(t) \/ LeaserStep(t)
  PROVE  EndInv'
<1>0. /\ lease \in [Leasers -> Maybe] /\ target \in [Leasers -> Maybe]
      /\ start \in [Leasers -> {"none", "sync", "acquire", "drop"}]
      /\ status \in [Leasers -> {"idle", "running", "done", "error"}]
      /\ ending \in [Leasers -> BOOLEAN]
  BY DEF BlobTypeOK
<1>1. CASE StartLeaser(t)
  BY <1>0, <1>1 DEF StartLeaser, EndInv
<1>2. CASE LeaserEnds(t)
  <2>1. UNCHANGED <<lease, start, target>> /\ ending' = [ending EXCEPT ![t] = TRUE]
        /\ \A u \in Leasers \ {t} : status'[u] = status[u]
    BY <1>0, <1>2 DEF LeaserEnds
  <2> QED
    BY <1>0, <2>1 DEF EndInv
<1>3. CASE SyncLooks(t)
  <2>1. status[t] = "done" => Wanted(t) = NoBlob
    BY DEF Wanted, Terminal
  <2>2. /\ UNCHANGED <<status, ending, lease>> /\ start[t] = "sync"
        /\ target' = [target EXCEPT ![t] = Wanted(t)]
        /\ start' = [start EXCEPT ![t] = IF lease[t] = Wanted(t) THEN "none" ELSE "acquire"]
    BY <1>3 DEF SyncLooks
  <2> QED
    BY <1>0, <2>1, <2>2 DEF EndInv
<1>4. CASE SyncAcquires(t)
  <2>1. UNCHANGED <<status, ending, target>> /\ start[t] = "acquire"
    BY <1>4 DEF SyncAcquires
  <2>2. CASE target[t] # NoBlob /\ start' = [start EXCEPT ![t] = "none"] /\ UNCHANGED lease
    BY <1>0, <2>1, <2>2 DEF EndInv
  <2>3. CASE /\ start' = [start EXCEPT ![t] = "drop"]
             /\ lease' = [lease EXCEPT ![t] = target[t]]
    BY <1>0, <2>1, <2>3 DEF EndInv
  <2> QED
    BY <1>4, <2>2, <2>3 DEF SyncAcquires
<1>5. CASE DropOld(t)
  <2>1. UNCHANGED <<status, ending, lease, target>> /\ start[t] = "drop"
        /\ start' = [start EXCEPT ![t] = "none"]
    BY <1>5 DEF DropOld
  <2> QED
    BY <1>0, <2>1 DEF EndInv
<1>6. CASE EndTakes(t)
  <2>1. /\ UNCHANGED <<status, start, target>> /\ start[t] # "acquire"
        /\ lease' = [lease EXCEPT ![t] = NoBlob]
        /\ ending' = [ending EXCEPT ![t] = FALSE]
    BY <1>6 DEF EndTakes
  <2> QED
    BY <1>0, <2>1 DEF EndInv
<1>7. CASE EndReleases(t)
  BY <1>7 DEF EndReleases, EndInv
<1> QED
  BY <1>1, <1>2, <1>3, <1>4, <1>5, <1>6, <1>7 DEF LeaserStep

\* Every step.
LEMMA NextEnd ==
  ASSUME BlobTypeOK, EndInv, [BlobNext]_blobVars
  PROVE  EndInv'
<1>1. CASE \E t \in Leasers : StartLeaser(t) \/ LeaserEnds(t) \/ LeaserStep(t)
  BY <1>1, LeaserEnd
<1>2. CASE \/ OwedRelease \/ HookEnds \/ CloseRegistry
           \/ \E b \in Blobs : CreateOpener(b) \/ Revoke(b) \/ SourceStep(b)
           \/ \E r \in Readers : (\E b \in Blobs : FindSource(r, b)) \/ ReaderStep(r)
  BY <1>2, OthersEnd
  DEF OwedRelease, HookEnds, CloseRegistry, CreateOpener, Revoke, SourceStep, ArmTimer,
      ExpireUnclaimed, CloseNext, FindSource, ReaderStep, AcquireOpen, ReaderReleases
<1>3. CASE UNCHANGED blobVars
  BY <1>3, OthersEnd DEF blobVars, leaseVars
<1> QED
  BY <1>1, <1>2, <1>3 DEF BlobNext

\* A task that is done and has released holds no source, although a start handler
\* may be between its look at the task and its Acquire when the task ends
\* (syncBlobTaskLease's terminal, releaseBlobTask's wait for blobRefLock).
THEOREM DoneHoldsNothing == BlobSpec => []EndedHoldsNothing
<1>1. BlobInit => EndInv
  BY DEF BlobInit, EndInv
<1>2. BlobTypeOK /\ EndInv /\ [BlobNext]_blobVars => EndInv'
  BY NextEnd
<1>3. EndInv => EndedHoldsNothing
  BY DEF EndInv, EndedHoldsNothing
<1> QED
  BY <1>1, <1>2, <1>3, BlobTypeCorrect, PTL DEF BlobSpec

-----------------------------------------------------------------------------
\* The protocol jobs

\* No work begins once close has returned: what makes NoWorkAfterClose inductive
\* is that the scheduler stays stopped.
StoppedForGood == closeReturned => stopped /\ active = NoRun

\* A trigger that knows of a skip knows of which run.
SkipHasRun == \A c \in Callers : got[c].err = "skipped" => got[c].source \in Sources

\* The state section speaks of subscriptions only, and what a run fetched is
\* among those it read.
StateOfUrls ==
    /\ config.sources \subseteq config.urls
    /\ active # NoRun /\ active.step = "commit" => active.fetched \subseteq active.urls

\* The inductive invariant of ProtocolJobs.
JobsInv == JobsTypeOK /\ StoppedForGood /\ SkipHasRun /\ StateOfUrls /\ ManualNotSkipped

\* The records of a run, as the steps of an execution write them.
LEMMA RunRecords ==
  /\ NoRun \notin Runs
  /\ \A a : NewRun(a) \in Runs
<1>1. NoRun \notin Runs
  BY DEF NoRun, Runs, Sources
<1>2. ASSUME NEW a PROVE NewRun(a) \in Runs
  BY DEF NewRun, SourceOf, Runs, Sources, Errors
<1> QED
  BY <1>1, <1>2

\* JoinOrBegin: a trigger returns with "closed", or waits for a run.
LEMMA Joins ==
  ASSUME JobsInv, NEW a \in Actors, JoinOrBegin(a), UNCHANGED <<closed, stopped, closeReturned>>
  PROVE  /\ at' \in [Actors -> {"idle", "waiting", "woken", "returned"}]
         /\ got' \in [Callers -> [err : Errors, source : Sources \cup {"none"}]]
         /\ active' \in Runs \cup {NoRun}
         /\ StoppedForGood' /\ SkipHasRun' /\ ManualNotSkipped'
         /\ (config' = config => StateOfUrls')
<1> USE DEF JobsInv, JobsTypeOK
<1>1. CASE closed \/ stopped
  <2>1. active' = active
    BY <1>1 DEF JoinOrBegin
  <2>2. /\ at' = [at EXCEPT ![a] = IF a = Loop THEN "idle" ELSE "returned"]
        /\ got' = [c \in Callers |-> IF c = a THEN [err |-> "closed", source |-> "none"] ELSE got[c]]
    BY <1>1 DEF JoinOrBegin, Returns
  <2> QED
    BY <2>1, <2>2 DEF Actors, Errors, StoppedForGood, SkipHasRun, ManualNotSkipped, StateOfUrls
<1>2. CASE ~(closed \/ stopped)
  <2>1. /\ at' = [at EXCEPT ![a] = "waiting"] /\ got' = got
        /\ active' = IF active = NoRun THEN NewRun(a) ELSE active
    BY <1>2 DEF JoinOrBegin
  <2>2. active' \in Runs \cup {NoRun}
    BY <2>1, RunRecords
  <2>3. StoppedForGood'
    BY <1>2 DEF StoppedForGood
  <2>4. config' = config => StateOfUrls'
    BY <2>1 DEF StateOfUrls, NewRun
  <2> QED
    BY <2>1, <2>2, <2>3, <2>4 DEF Actors, SkipHasRun, ManualNotSkipped
<1> QED
  BY <1>1, <1>2

\* The triggers and the loop of the job.
LEMMA TriggerSteps ==
  ASSUME JobsInv,
         \/ \E c \in Callers : TriggerManually(c)
         \/ \E a \in Actors : TriggerAwakes(a)
         \/ LoopTakesToken \/ LoopTimer \/ LoopEnds
  PROVE  JobsInv'
<1> USE DEF JobsInv, JobsTypeOK
<1>1. ASSUME NEW c \in Callers, TriggerManually(c) PROVE JobsInv'
  BY <1>1, Joins DEF TriggerManually, Actors
<1>2. ASSUME NEW a \in Actors, TriggerAwakes(a) PROVE JobsInv'
  <2>1. CASE RunsAgain(a)
    BY <1>2, <2>1, Joins DEF TriggerAwakes
  <2>2. CASE ~RunsAgain(a)
    <3>1. /\ at' = [at EXCEPT ![a] = IF a = Loop THEN "idle" ELSE "returned"]
          /\ got' = got /\ active' = active
      BY <1>2, <2>2 DEF TriggerAwakes
    <3>2. a \in Callers /\ got[a].err = "skipped" => got[a].source = "manual"
      BY <2>2 DEF RunsAgain, SkipHasRun, Sources
    <3> QED
      BY <1>2, <3>1, <3>2 DEF TriggerAwakes, Actors, StoppedForGood, SkipHasRun, ManualNotSkipped, StateOfUrls
  <2> QED
    BY <2>1, <2>2
<1>3. CASE LoopTakesToken
  BY <1>3 DEF LoopTakesToken, StoppedForGood, SkipHasRun, ManualNotSkipped, StateOfUrls
<1>4. CASE LoopTimer
  <2>1. Loop \in Actors
    BY DEF Actors
  <2>2. timers' \in 0..MaxTimers
    BY <1>4, JobsAssumption DEF LoopTimer
  <2> QED
    BY <1>4, <2>1, <2>2, Joins DEF LoopTimer
<1>5. CASE LoopEnds
  <2>1. Loop \notin Callers
    BY JobsAssumption DEF Loop
  <2> QED
    BY <1>5, <2>1 DEF LoopEnds, Actors, StoppedForGood, SkipHasRun, ManualNotSkipped, StateOfUrls
<1> QED
  BY <1>1, <1>2, <1>3, <1>4, <1>5
\* An execution reads, fetches, commits and finishes.
LEMMA RunSteps ==
  ASSUME JobsInv, RunStep
  PROVE  JobsInv'
<1> USE DEF JobsInv, JobsTypeOK
<1>1. CASE RunReads
  <2>1. active \in Runs /\ config.urls \in SUBSET Urls
    BY <1>1 DEF RunReads, Configs
  <2>2. \/ active' = [active EXCEPT !.step = "finish", !.err = "skipped"]
        \/ active' = [active EXCEPT !.step = "fetch", !.urls = config.urls]
    BY <1>1 DEF RunReads, To
  <2>3. active' \in Runs /\ active'.step # "commit"
    <3>1. CASE active' = [active EXCEPT !.step = "finish", !.err = "skipped"]
      BY <2>1, <3>1 DEF Runs, Errors
    <3>2. CASE active' = [active EXCEPT !.step = "fetch", !.urls = config.urls]
      BY <2>1, <3>2 DEF Runs
    <3> QED
      BY <2>2, <3>1, <3>2
  <2> QED
    BY <1>1, <2>3 DEF RunReads, StoppedForGood, SkipHasRun, ManualNotSkipped, StateOfUrls
<1>2. CASE RunFetches
  <2>1. active \in Runs /\ active.urls \in SUBSET Urls
    BY <1>2 DEF RunFetches, Runs
  <2>2. active' \in Runs /\ (active'.step = "commit" => active'.fetched \subseteq active'.urls)
    <3>1. CASE To("finish", "cancelled")
      BY <3>1, <2>1 DEF To, Errors, Runs
    <3>2. ASSUME NEW F \in SUBSET active.urls,
                 active' = [active EXCEPT !.step = "commit", !.fetched = F,
                              !.err = IF closed THEN "cancelled"
                                      ELSE IF F = active.urls THEN "ok" ELSE "failed"]
          PROVE  active' \in Runs /\ active'.fetched \subseteq active'.urls
      BY <3>2, <2>1 DEF Runs, Errors
    <3> QED
      BY <1>2, <3>1, <3>2 DEF RunFetches
  <2> QED
    BY <1>2, <2>2 DEF RunFetches, StoppedForGood, SkipHasRun, ManualNotSkipped, StateOfUrls
<1>3. CASE RunCommits
  <2>1. active \in Runs /\ active.err \in Errors /\ active.fetched \in SUBSET Urls
    BY <1>3 DEF RunCommits, Runs
  <2>2. PICK e \in Errors : active' = [active EXCEPT !.step = "finish", !.err = e]
    BY <1>3, <2>1 DEF RunCommits, To, Errors
  <2>5. active' \in Runs /\ active'.step # "commit"
    BY <2>1, <2>2 DEF Runs
  <2>3. Committed \in Configs /\ Committed.sources \subseteq Committed.urls
    BY <2>1 DEF Committed, Normalized, Configs
  <2>4. config' \in Configs /\ config'.sources \subseteq config'.urls
    BY <1>3, <2>3 DEF RunCommits, StateOfUrls
  <2> QED
    BY <1>3, <2>5, <2>4 DEF RunCommits, StoppedForGood, SkipHasRun, ManualNotSkipped, StateOfUrls
<1>4. CASE RunFinishes
  <2>1. active \in Runs /\ active.err \in Errors /\ active.source \in Sources
    BY <1>4 DEF RunFinishes, Runs
  <2>2. PICK e \in {active.err} \cup (IF active.err = "ok" THEN {"failed"} ELSE {}) :
          got' = [a \in Callers |-> IF at[a] = "waiting" THEN [err |-> e, source |-> active.source]
                                    ELSE got[a]]
    BY <1>4 DEF RunFinishes
  <2>3. e \in Errors
    BY <2>1, <2>2 DEF Errors
  <2>4. got' \in [Callers -> [err : Errors, source : Sources \cup {"none"}]]
    BY <2>1, <2>2, <2>3
  <2>5. at' = [a \in Actors |-> IF at[a] = "waiting" THEN "woken" ELSE at[a]]
    BY <1>4 DEF RunFinishes
  <2>6. SkipHasRun'
    BY <2>1, <2>2 DEF SkipHasRun
  <2>7. ManualNotSkipped'
    BY <2>2, <2>5 DEF ManualNotSkipped, Actors
  <2> QED
    BY <1>4, <2>4, <2>5, <2>6, <2>7 DEF RunFinishes, StoppedForGood, StateOfUrls
<1> QED
  BY <1>1, <1>2, <1>3, <1>4 DEF RunStep

\* PutConfig and Close.
LEMMA ConfigSteps ==
  ASSUME JobsInv,
         PutConfig \/ ChangedForces \/ ChangedSignals \/ CloseDownloader \/ CloseStops \/ CloseReturns
  PROVE  JobsInv'
<1> USE DEF JobsInv, JobsTypeOK, StoppedForGood, SkipHasRun, ManualNotSkipped, StateOfUrls
<1>1. CASE PutConfig
  <2>1. PICK urls \in SUBSET Urls, client \in SUBSET Urls, auto \in BOOLEAN :
          /\ config' = Normalized([urls |-> urls, auto |-> auto, sources |-> Preserved(client)])
          /\ writer' \in {"idle", "force"}
    BY <1>1 DEF PutConfig
  <2>2. config' \in Configs /\ config'.sources \subseteq config'.urls
    BY <2>1 DEF Normalized, Preserved, Configs
  <2>3. puts' \in 0..MaxPuts
    BY <1>1, JobsAssumption DEF PutConfig
  <2> QED
    BY <1>1, <2>1, <2>2, <2>3 DEF PutConfig
<1>2. CASE ChangedForces
  BY <1>2 DEF ChangedForces
<1>3. CASE ChangedSignals
  BY <1>3 DEF ChangedSignals
<1>4. CASE CloseDownloader
  BY <1>4 DEF CloseDownloader
<1>5. CASE CloseStops
  BY <1>5 DEF CloseStops
<1>6. CASE CloseReturns
  BY <1>6 DEF CloseReturns
<1> QED
  BY <1>1, <1>2, <1>3, <1>4, <1>5, <1>6

\* Every behaviour of the protocol jobs keeps to the inductive invariant.
THEOREM JobsInvariant == JobsSpec => []JobsInv
<1>1. JobsInit => JobsInv
  <2> SUFFICES ASSUME JobsInit PROVE JobsInv
    OBVIOUS
  <2>1. config \in Configs /\ config.sources = {}
    BY DEF JobsInit, Configs
  <2>2. JobsTypeOK
    <3>1. got \in [Callers -> [err : Errors, source : Sources \cup {"none"}]]
      BY DEF JobsInit, Errors
    <3>2. puts \in 0..MaxPuts /\ timers \in 0..MaxTimers
      BY JobsAssumption DEF JobsInit
    <3>3. at \in [Actors -> {"idle", "waiting", "woken", "returned"}]
      BY DEF JobsInit
    <3> QED
      BY <2>1, <3>1, <3>2, <3>3 DEF JobsInit, JobsTypeOK
  <2> QED
    BY <2>1, <2>2 DEF JobsInit, JobsInv, StoppedForGood, SkipHasRun, ManualNotSkipped, StateOfUrls
<1>2. JobsInv /\ [JobsNext]_jobVars => JobsInv'
  <2> SUFFICES ASSUME JobsInv, [JobsNext]_jobVars PROVE JobsInv'
    OBVIOUS
  <2>1. CASE UNCHANGED jobVars
    BY <2>1 DEF JobsInv, JobsTypeOK, StoppedForGood, SkipHasRun, ManualNotSkipped, StateOfUrls, jobVars
  <2>2. CASE JobsNext
    BY <2>2, TriggerSteps, RunSteps, ConfigSteps DEF JobsNext
  <2> QED
    BY <2>1, <2>2
<1> QED
  BY <1>1, <1>2, PTL DEF JobsSpec

\* The variables of the protocol jobs have their types.
THEOREM JobsTypeCorrect == JobsSpec => []JobsTypeOK
<1>1. JobsInv => JobsTypeOK
  BY DEF JobsInv
<1> QED
  BY <1>1, JobsInvariant, PTL

\* A manual trigger never comes back with the skip of a scheduled run that it
\* happened to join (protocol_jobs.go:163, 177), for any number of triggers.
THEOREM ManualRuns == JobsSpec => []ManualNotSkipped
<1>1. JobsInv => ManualNotSkipped
  BY DEF JobsInv
<1> QED
  BY <1>1, JobsInvariant, PTL

\* After protocolScheduler.close no execution is under way, whenever a trigger
\* was called: the storage may be closed.
THEOREM ClosedIsQuiet == JobsSpec => []NoWorkAfterClose
<1>1. JobsInv => NoWorkAfterClose
  BY DEF JobsInv, StoppedForGood, NoWorkAfterClose
<1> QED
  BY <1>1, JobsInvariant, PTL

\* The state section changes only by a commit of the job for the subscriptions
\* that it fetched, or loses what a PutConfig unsubscribed.
THEOREM StateKept == JobsSpec => StateOnlyByItsJob
<1> DEFINE Kept == \/ config'.sources = config.sources \cap config'.urls
                   \/ /\ active # NoRun /\ active.step = "commit"
                      /\ config'.urls = config.urls /\ config.urls = active.urls
                      /\ config'.sources = config.sources \cup active.fetched
<1>1. JobsInv /\ [JobsNext]_jobVars => [Kept]_config
  <2> SUFFICES ASSUME JobsInv, JobsNext, config' # config PROVE Kept
    BY DEF jobVars
  <2>1. CASE PutConfig
    <3>1. PICK urls \in SUBSET Urls, client \in SUBSET Urls, auto \in BOOLEAN :
            config' = Normalized([urls |-> urls, auto |-> auto, sources |-> Preserved(client)])
      BY <2>1 DEF PutConfig
    <3> QED
      BY <3>1 DEF Normalized, Preserved
  <2>2. CASE RunCommits
    <3>1. active # NoRun /\ active.step = "commit" /\ config' = Committed /\ config.urls = active.urls
      BY <2>2 DEF RunCommits
    <3>2. config \in Configs
      BY DEF JobsInv, JobsTypeOK
    <3>3. /\ Committed.urls = config.urls
          /\ Committed.sources = (config.sources \cup active.fetched) \cap config.urls
      BY <3>2 DEF Committed, Normalized, Configs
    <3>4. config.sources \subseteq config.urls /\ active.fetched \subseteq config.urls
      BY <3>1 DEF JobsInv, StateOfUrls
    <3> QED
      BY <3>1, <3>3, <3>4
  <2> QED
    BY <2>1, <2>2 DEF JobsNext, RunStep, TriggerManually, TriggerAwakes, LoopTakesToken, LoopTimer, LoopEnds,
       RunReads, RunFetches, RunFinishes, ChangedForces, ChangedSignals, CloseDownloader, CloseStops, CloseReturns
<1> QED
  BY <1>1, JobsInvariant, PTL DEF JobsSpec, StateOnlyByItsJob
=============================================================================
