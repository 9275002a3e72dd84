-------------------------- MODULE ProtocolsProofs --------------------------
(***************************************************************************)
(* Theorems about the HLS and the BitTorrent fetcher, for any playlists,   *)
(* number of segments, workers, runs, files, tasks and crashes; about      *)
(* the connection of HttpTakeover, for any versions of the resource, and   *)
(* any number of faults, pauses, checkpoints and restarts; and about ED2K, *)
(* for any tasks of one link.                                              *)
(***************************************************************************)
EXTENDS HlsFetcher, BtFetcher, Ed2kFetcher, HttpTakeover, WellFoundedInduction, TLAPS

-----------------------------------------------------------------------------
\* HLS: the inductive invariant

Places == {"unused", "work", "merge", "replace", "rename", "check", "remove", "clear",
           "report", "ended"}
WorkerStates == [seg : Segments, at : {"fetch", "journal"}] \cup {Idle, Gone}
RunRecs == [media : Medias \cup {Nothing}, id : 0..MaxHlsRuns, todo : SUBSET Segments,
            kept : SUBSET Segments, failed : BOOLEAN, cancelled : BOOLEAN,
            result : {"ok", "err"}, at : Places, producer : BOOLEAN,
            workers : [HlsWorkers -> WorkerStates]]
Journals == [media : Medias \cup {Nothing}, done : SUBSET Segments]
Folders == [seg : [Segments -> Medias \cup {Nothing}], journal : Journals]

\* The types of the call and of the run objects, which HlsTypeOK states in part.
RunsTyped == hlsRuns \in [RunIds -> RunRecs]
CallTyped ==
    /\ plan \in Plans /\ hasRes \in BOOLEAN /\ activeRun \in 0..MaxHlsRuns /\ hlsClosed \in BOOLEAN
    /\ call \in [kind : {"none", "pause", "close"}, run : 0..MaxHlsRuns]
    /\ crashes \in 0..MaxHlsCrashes
DiskTyped ==
    /\ staging \in [RunIds -> Folders]
    /\ target \in [Segments -> Medias] \cup {Nothing}

Used(n) == hlsRuns[n].at # "unused"

\* Nobody but the active run has something left to do.
ActiveAlone ==
    \A n \in RunIds \ {activeRun} : hlsRuns[n].at \in {"unused", "report", "ended"}

\* Past its work a run has neither a producer nor workers.
AtRest == \A n \in RunIds : hlsRuns[n].at # "work" => Stopped(n)

\* The run that a call of the engine waits for is the active one, or none is.
CallKnown == call.kind # "none" => activeRun \in {0, call.run}

\* A staging identity is the number of the run that resolved the plan, and every
\* later run of that plan has its media.
Identity ==
    \A n \in RunIds : Used(n) =>
        /\ hlsRuns[n].id \in RunIds /\ Used(hlsRuns[n].id)
        /\ hlsRuns[n].media \in Medias /\ hlsRuns[n].media = hlsRuns[hlsRuns[n].id].media

PlanKnown ==
    plan # NoPlan =>
        plan.id \in RunIds /\ Used(plan.id) /\ plan.media = hlsRuns[plan.id].media

\* A staging folder holds segments of the plan it belongs to and of no other.
OwnSegments ==
    \A d \in RunIds, s \in Segments :
        staging[d].seg[s] # Nothing => Used(d) /\ staging[d].seg[s] = hlsRuns[d].media

\* From the merge's check of the part file on, every segment is in the folder.
MergeComplete ==
    \A n \in RunIds : hlsRuns[n].at \in {"replace", "rename"} =>
        \A s \in Segments : staging[hlsRuns[n].id].seg[s] # Nothing

HlsInv ==
    /\ RunsTyped /\ CallTyped /\ DiskTyped
    /\ ActiveAlone /\ AtRest /\ CallKnown
    /\ Identity /\ PlanKnown /\ OwnSegments /\ MergeComplete
    /\ TargetWhole

-----------------------------------------------------------------------------
\* HLS: helpers

\* Min, as the producer hands out indices: a set of numbers has its least one.
LEMMA MinMember ==
  ASSUME NEW S, S \subseteq Nat, S # {}
  PROVE  Min(S) \in S
<1>1. PICK x \in S : \A y \in S : ~ (<<y, x>> \in OpToRel(<, Nat))
  BY WFMin, NatLessThanWellFounded
<1>2. \A y \in S : ~ (y < x)
  BY <1>1, Zenon DEF OpToRel
<1>3. \A y \in S : x =< y
  BY <1>2
<1> QED
  BY <1>3 DEF Min

\* The types of HlsTypeOK are those of the invariant.
LEMMA HlsTypes == RunsTyped /\ CallTyped /\ DiskTyped => HlsTypeOK
<1> SUFFICES ASSUME RunsTyped, CallTyped, DiskTyped PROVE HlsTypeOK
  OBVIOUS
<1>1. \A n \in RunIds : hlsRuns[n] \in RunRecs
  BY DEF RunsTyped
<1>2. \A d \in RunIds : staging[d] \in Folders
  BY DEF DiskTyped
<1>3. \A d \in RunIds : /\ staging[d].seg \in [Segments -> Medias \cup {Nothing}]
                        /\ staging[d].journal.done \subseteq Segments
  BY <1>2 DEF Folders, Journals
<1>4. \A n \in RunIds :
        /\ hlsRuns[n].media \in Medias \cup {Nothing} /\ hlsRuns[n].id \in 0..MaxHlsRuns
        /\ hlsRuns[n].todo \subseteq Segments /\ hlsRuns[n].kept \subseteq Segments
        /\ hlsRuns[n].at \in Places
        /\ hlsRuns[n].result \in {"ok", "err"}
        /\ \A w \in HlsWorkers : hlsRuns[n].workers[w] \in WorkerStates
  BY <1>1 DEF RunRecs
<1> QED
  BY <1>3, <1>4 DEF HlsTypeOK, CallTyped, DiskTyped, Places, WorkerStates

\* Initially nothing has run.
LEMMA HlsStarts == HlsInit => HlsInv
<1> SUFFICES ASSUME HlsInit PROVE HlsInv
  OBVIOUS
<1> USE HlsAssumption DEF HlsInit
<1>0. [w \in HlsWorkers |-> Gone] \in [HlsWorkers -> WorkerStates]
  BY DEF WorkerStates
<1>a. NoRunYet \in RunRecs
  BY <1>0 DEF NoRunYet, RunRecs, Places
<1>1. [NoRunYet EXCEPT !.at = "unused"] \in RunRecs
  BY <1>a DEF RunRecs, Places
<1>2. RunsTyped
  BY <1>1 DEF RunsTyped
<1>3. NoFolder \in Folders
  BY DEF NoFolder, Folders, NoJournal, Journals
<1>4. DiskTyped
  BY <1>3 DEF DiskTyped
<1>b. [kind |-> "none", run |-> 0] \in [kind : {"none", "pause", "close"}, run : 0..MaxHlsRuns]
  OBVIOUS
<1>c. plan \in Plans /\ activeRun \in 0..MaxHlsRuns /\ crashes \in 0..MaxHlsCrashes
  BY DEF Plans
<1>d. hasRes \in BOOLEAN /\ hlsClosed \in BOOLEAN
  OBVIOUS
<1>5. CallTyped
  BY <1>b, <1>c, <1>d DEF CallTyped
<1>6. \A n \in RunIds : /\ hlsRuns[n].at = "unused" /\ ~hlsRuns[n].producer
                        /\ \A w \in HlsWorkers : hlsRuns[n].workers[w] = Gone
  BY DEF NoRunYet
<1>7. ActiveAlone /\ AtRest /\ Identity /\ MergeComplete
  BY <1>6 DEF ActiveAlone, AtRest, Stopped, Identity, Used, MergeComplete
<1>8. \A d \in RunIds, s \in Segments : staging[d].seg[s] = Nothing
  BY DEF NoFolder
<1>9. CallKnown /\ PlanKnown /\ OwnSegments /\ TargetWhole
  BY <1>8 DEF CallKnown, PlanKnown, OwnSegments, TargetWhole
<1> QED
  BY <1>2, <1>4, <1>5, <1>7, <1>9 DEF HlsInv

-----------------------------------------------------------------------------
\* HLS: what a step does to a run

\* A step of run n, or of a call on it, changes no other run, and neither the
\* media nor the staging identity of n.
ChangesOnly(n) ==
    /\ RunsTyped'
    /\ \A m \in RunIds : /\ hlsRuns'[m].id = hlsRuns[m].id
                         /\ hlsRuns'[m].media = hlsRuns[m].media
                         /\ Used(m)' <=> Used(m)
    /\ \A m \in RunIds \ {n} : hlsRuns'[m] = hlsRuns[m]

\* Any update of one entry with a record that keeps media and identity.
LEMMA EntryChanges ==
  ASSUME RunsTyped, NEW n \in RunIds,
         hlsRuns' = [hlsRuns EXCEPT ![n] = hlsRuns'[n]], hlsRuns'[n] \in RunRecs,
         hlsRuns'[n].id = hlsRuns[n].id, hlsRuns'[n].media = hlsRuns[n].media,
         Used(n)' <=> Used(n)
  PROVE  ChangesOnly(n)
<1>1. RunsTyped'
  BY DEF RunsTyped
<1>2. \A m \in RunIds \ {n} : hlsRuns'[m] = hlsRuns[m]
  BY DEF RunsTyped
<1> QED
  BY <1>1, <1>2 DEF ChangesOnly, Used

\* Another place of the supervisor.
LEMMA AtFacts ==
  ASSUME RunsTyped, NEW n \in RunIds, Used(n), NEW place \in Places \ {"unused"}, At(n, place)
  PROVE  /\ ChangesOnly(n) /\ hlsRuns'[n].at = place
         /\ Stopped(n)' <=> Stopped(n)
<1>0. hlsRuns[n] \in RunRecs
  BY DEF RunsTyped
<1>1. hlsRuns' = [hlsRuns EXCEPT ![n] = hlsRuns'[n]]
  BY DEF At
<1>2. hlsRuns'[n] = [hlsRuns[n] EXCEPT !.at = place]
  BY DEF At, RunsTyped
<1>3. hlsRuns'[n] \in RunRecs
  BY <1>0, <1>2 DEF RunRecs
<1>4. /\ hlsRuns'[n].id = hlsRuns[n].id /\ hlsRuns'[n].media = hlsRuns[n].media
      /\ hlsRuns'[n].producer = hlsRuns[n].producer /\ hlsRuns'[n].workers = hlsRuns[n].workers
      /\ hlsRuns'[n].at = place
  BY <1>0, <1>2 DEF RunRecs
<1>5. ChangesOnly(n)
  BY <1>1, <1>3, <1>4, EntryChanges DEF Used
<1> QED
  BY <1>4, <1>5 DEF Stopped

\* The supervisor ends with an error.
LEMMA ErrorFacts ==
  ASSUME RunsTyped, NEW n \in RunIds, Used(n),
         hlsRuns' = [hlsRuns EXCEPT ![n].at = "clear", ![n].result = "err"]
  PROVE  /\ ChangesOnly(n) /\ hlsRuns'[n].at = "clear"
         /\ Stopped(n)' <=> Stopped(n)
<1>0. hlsRuns[n] \in RunRecs
  BY DEF RunsTyped
<1>1. hlsRuns' = [hlsRuns EXCEPT ![n] = hlsRuns'[n]]
  OBVIOUS
<1> DEFINE r == [hlsRuns[n] EXCEPT !.at = "clear"]
<1>2. hlsRuns'[n] = [r EXCEPT !.result = "err"]
  BY DEF RunsTyped
<1>3. /\ r \in RunRecs /\ r.at = "clear"
      /\ r.id = hlsRuns[n].id /\ r.media = hlsRuns[n].media
      /\ r.producer = hlsRuns[n].producer /\ r.workers = hlsRuns[n].workers
  BY ONLY <1>0 DEF RunRecs, Places
<1> HIDE DEF r
<1>a. [r EXCEPT !.result = "err"] \in RunRecs
  BY ONLY <1>3 DEF RunRecs
<1>4. hlsRuns'[n] \in RunRecs
  BY ONLY <1>2, <1>a
<1>5. /\ hlsRuns'[n].id = hlsRuns[n].id /\ hlsRuns'[n].media = hlsRuns[n].media
      /\ hlsRuns'[n].producer = hlsRuns[n].producer /\ hlsRuns'[n].workers = hlsRuns[n].workers
      /\ hlsRuns'[n].at = "clear"
  BY ONLY <1>2, <1>3 DEF RunRecs
<1>6. ChangesOnly(n)
  BY <1>1, <1>4, <1>5, EntryChanges DEF Used
<1> QED
  BY <1>5, <1>6 DEF Stopped

\* A call cancels the run's context.
LEMMA CancelFacts ==
  ASSUME RunsTyped, NEW n \in RunIds, hlsRuns' = [hlsRuns EXCEPT ![n].cancelled = TRUE]
  PROVE  /\ ChangesOnly(n) /\ hlsRuns'[n].at = hlsRuns[n].at
         /\ Stopped(n)' <=> Stopped(n)
<1>0. hlsRuns[n] \in RunRecs
  BY DEF RunsTyped
<1>1. hlsRuns' = [hlsRuns EXCEPT ![n] = hlsRuns'[n]]
  OBVIOUS
<1>2. hlsRuns'[n] = [hlsRuns[n] EXCEPT !.cancelled = TRUE]
  BY DEF RunsTyped
<1>a. [hlsRuns[n] EXCEPT !.cancelled = TRUE] \in RunRecs
  BY ONLY <1>0 DEF RunRecs
<1>3. hlsRuns'[n] \in RunRecs
  BY ONLY <1>a, <1>2
<1>4. /\ hlsRuns'[n].id = hlsRuns[n].id /\ hlsRuns'[n].media = hlsRuns[n].media
      /\ hlsRuns'[n].producer = hlsRuns[n].producer /\ hlsRuns'[n].workers = hlsRuns[n].workers
      /\ hlsRuns'[n].at = hlsRuns[n].at
  BY <1>0, <1>2 DEF RunRecs
<1>5. ChangesOnly(n)
  BY <1>1, <1>3, <1>4, EntryChanges DEF Used
<1> QED
  BY <1>4, <1>5 DEF Stopped

\* The producer and the workers: the run stays in its work, and only one that
\* has not stopped can take such a step.
LEMMA WorkFacts ==
  ASSUME RunsTyped, AtRest, NEW n \in RunIds,
         \/ ProducerEnds(n)
         \/ \E w \in HlsWorkers : WorkerOf(n, w)
  PROVE  /\ ChangesOnly(n)
         /\ hlsRuns[n].at = "work" /\ hlsRuns'[n].at = "work"
<1>0. hlsRuns[n] \in RunRecs
  BY DEF RunsTyped
<1>a. \A w \in HlsWorkers : hlsRuns[n].workers[w] \in WorkerStates
  BY <1>0 DEF RunRecs
<1>b. Idle # Gone /\ Gone.at = "gone" /\ Idle \in WorkerStates /\ Gone \in WorkerStates
  BY DEF Idle, Gone, WorkerStates
<1>1. hlsRuns[n].at = "work"
  <2> SUFFICES ~Stopped(n)
    BY DEF AtRest
  <2> QED
    BY <1>b DEF Stopped, ProducerEnds, WorkerOf, WorkerTakes, WorkerLeaves, WorkerFails, WorkerStores,
                WorkerJournals
<1>2. ASSUME hlsRuns' = [hlsRuns EXCEPT ![n] = hlsRuns'[n]], hlsRuns'[n] \in RunRecs,
             hlsRuns'[n].id = hlsRuns[n].id, hlsRuns'[n].media = hlsRuns[n].media,
             hlsRuns'[n].at = hlsRuns[n].at
      PROVE  ChangesOnly(n) /\ hlsRuns'[n].at = "work"
  BY <1>1, <1>2, EntryChanges DEF Used
<1>3. CASE ProducerEnds(n)
  <2>1. hlsRuns' = [hlsRuns EXCEPT ![n] = hlsRuns'[n]]
    BY <1>3 DEF ProducerEnds
  <2>2. hlsRuns'[n] = [hlsRuns[n] EXCEPT !.producer = FALSE]
    BY <1>3 DEF ProducerEnds, RunsTyped
  <2>3. hlsRuns'[n] \in RunRecs
    BY <1>0, <2>2 DEF RunRecs
  <2>4. /\ hlsRuns'[n].id = hlsRuns[n].id /\ hlsRuns'[n].media = hlsRuns[n].media
        /\ hlsRuns'[n].at = hlsRuns[n].at
    BY <1>0, <2>2 DEF RunRecs
  <2> QED
    BY <1>1, <1>2, <2>1, <2>3, <2>4
<1>4. ASSUME NEW w \in HlsWorkers, WorkerOf(n, w)
      PROVE  ChangesOnly(n) /\ hlsRuns'[n].at = "work"
  <2> DEFINE With(state) == [hlsRuns[n] EXCEPT !.workers = [@ EXCEPT ![w] = state]]
  <2>1. ASSUME NEW state \in WorkerStates
        PROVE  /\ With(state) \in RunRecs
               /\ With(state).id = hlsRuns[n].id /\ With(state).media = hlsRuns[n].media
               /\ With(state).at = hlsRuns[n].at
    BY <1>0 DEF RunRecs
  <2>2. ASSUME NEW state \in WorkerStates, Worker(n, w, state)
        PROVE  ChangesOnly(n) /\ hlsRuns'[n].at = "work"
    <3>1. hlsRuns' = [hlsRuns EXCEPT ![n] = hlsRuns'[n]]
      BY <2>2 DEF Worker
    <3>2. hlsRuns'[n] = With(state)
      BY <2>2 DEF Worker, RunsTyped
    <3> HIDE DEF With
    <3> QED
      BY <1>2, <2>1, <3>1, <3>2
  <2>3. CASE WorkerTakes(n, w)
    <3> DEFINE least == Min(hlsRuns[n].todo)
               state == [seg |-> least, at |-> "fetch"]
    <3>1. least \in Segments
      <4>1. hlsRuns[n].todo \subseteq Nat /\ hlsRuns[n].todo # {} /\ hlsRuns[n].todo \subseteq Segments
        BY <1>0, <2>3, HlsAssumption DEF RunRecs, WorkerTakes, Segments
      <4> QED
        BY <4>1, MinMember
    <3>2. /\ hlsRuns' = [hlsRuns EXCEPT ![n] = hlsRuns'[n]]
          /\ hlsRuns'[n] = [With(state) EXCEPT !.todo = @ \ {least}]
      BY <2>3 DEF WorkerTakes, RunsTyped
    <3> HIDE DEF least
    <3>3. state \in WorkerStates
      BY <3>1 DEF WorkerStates
    <3>4. /\ With(state) \in RunRecs
          /\ With(state).id = hlsRuns[n].id /\ With(state).media = hlsRuns[n].media
          /\ With(state).at = hlsRuns[n].at
      BY <2>1, <3>3
    <3> HIDE DEF With, state
    <3>5. hlsRuns'[n] \in RunRecs
      BY <3>2, <3>4 DEF RunRecs
    <3>6. /\ hlsRuns'[n].id = hlsRuns[n].id /\ hlsRuns'[n].media = hlsRuns[n].media
          /\ hlsRuns'[n].at = hlsRuns[n].at
      BY <3>2, <3>4 DEF RunRecs
    <3> QED
      BY <1>2, <3>2, <3>5, <3>6
  <2>4. CASE WorkerLeaves(n, w)
    BY <1>b, <2>2, <2>4 DEF WorkerLeaves
  <2>5. CASE WorkerFails(n, w)
    <3>1. CASE Worker(n, w, Gone)
      BY <1>b, <2>2, <3>1
    <3>2. CASE hlsRuns' = [hlsRuns EXCEPT ![n].workers[w] = Idle, ![n].failed = TRUE]
      <4>1. /\ hlsRuns' = [hlsRuns EXCEPT ![n] = hlsRuns'[n]]
            /\ hlsRuns'[n] = [With(Idle) EXCEPT !.failed = TRUE]
        BY <3>2 DEF RunsTyped
      <4>2. /\ With(Idle) \in RunRecs
            /\ With(Idle).id = hlsRuns[n].id /\ With(Idle).media = hlsRuns[n].media
            /\ With(Idle).at = hlsRuns[n].at
        BY <1>b, <2>1
      <4> HIDE DEF With
      <4>3. hlsRuns'[n] \in RunRecs
        BY <4>1, <4>2 DEF RunRecs
      <4>4. /\ hlsRuns'[n].id = hlsRuns[n].id /\ hlsRuns'[n].media = hlsRuns[n].media
            /\ hlsRuns'[n].at = hlsRuns[n].at
        BY <4>1, <4>2 DEF RunRecs
      <4> QED
        BY <1>2, <4>1, <4>3, <4>4
    <3> QED
      BY <2>5, <3>1, <3>2 DEF WorkerFails
  <2>6. CASE WorkerStores(n, w)
    <3>1. [hlsRuns[n].workers[w] EXCEPT !.at = "journal"] \in WorkerStates
      BY <1>a, <2>6 DEF WorkerStates, WorkerStores, Idle, Gone
    <3> QED
      BY <2>2, <2>6, <3>1 DEF WorkerStores
  <2>7. CASE WorkerJournals(n, w)
    <3> DEFINE kept == hlsRuns[n].kept \cup {hlsRuns[n].workers[w].seg}
    <3>1. kept \subseteq Segments
      BY <1>0, <1>a, <2>7 DEF RunRecs, WorkerStates, WorkerJournals, Idle, Gone
    <3>2. /\ hlsRuns' = [hlsRuns EXCEPT ![n] = hlsRuns'[n]]
          /\ hlsRuns'[n] = [With(Idle) EXCEPT !.kept = kept]
      BY <2>7 DEF WorkerJournals, RunsTyped
    <3>3. /\ With(Idle) \in RunRecs
          /\ With(Idle).id = hlsRuns[n].id /\ With(Idle).media = hlsRuns[n].media
          /\ With(Idle).at = hlsRuns[n].at
      BY <1>b, <2>1
    <3> HIDE DEF With, kept
    <3>4. hlsRuns'[n] \in RunRecs
      BY <3>1, <3>2, <3>3 DEF RunRecs
    <3>5. /\ hlsRuns'[n].id = hlsRuns[n].id /\ hlsRuns'[n].media = hlsRuns[n].media
          /\ hlsRuns'[n].at = hlsRuns[n].at
      BY <3>2, <3>3 DEF RunRecs
    <3> QED
      BY <1>2, <3>2, <3>4, <3>5
  <2> QED
    BY <1>4, <2>3, <2>4, <2>5, <2>6, <2>7 DEF WorkerOf
<1> QED
  BY <1>1, <1>3, <1>4

-----------------------------------------------------------------------------
\* HLS: the invariant, step by step

\* No run but the active one is in its merge.
LEMMA OnlyActiveMerges ==
  ASSUME ActiveAlone, NEW n \in RunIds, n # activeRun
  PROVE  hlsRuns[n].at \in {"unused", "report", "ended"}
BY DEF ActiveAlone

\* A step of the active run: what it may do to its folder, to the target and to
\* f.activeRun.
LEMMA ActiveStep ==
  ASSUME HlsInv, NEW n \in RunIds, n = activeRun, Used(n), ChangesOnly(n),
         UNCHANGED <<plan, hasRes, hlsClosed, crashes>>,
         CallTyped', CallKnown', DiskTyped', TargetWhole',
         \/ activeRun' = n
         \/ activeRun' = 0 /\ hlsRuns'[n].at \in {"report", "ended"},
         hlsRuns'[n].at # "work" => Stopped(n)',
         \A d \in RunIds, s \in Segments :
             \/ staging'[d].seg[s] = Nothing
             \/ staging'[d].seg[s] = staging[d].seg[s]
             \/ d = hlsRuns[n].id /\ staging'[d].seg[s] = hlsRuns[n].media,
         hlsRuns'[n].at \in {"replace", "rename"} =>
             \A s \in Segments : staging'[hlsRuns[n].id].seg[s] # Nothing
  PROVE  HlsInv'
<1> USE DEF HlsInv
<1>1. RunsTyped'
  BY DEF ChangesOnly
<1>2. ActiveAlone'
  <2> SUFFICES ASSUME NEW m \in RunIds, m # activeRun'
               PROVE  hlsRuns'[m].at \in {"unused", "report", "ended"}
    BY DEF ActiveAlone
  <2>1. CASE m = n
    BY <2>1
  <2>2. CASE m # n
    BY <2>2, OnlyActiveMerges DEF ChangesOnly
  <2> QED
    BY <2>1, <2>2
<1>3. AtRest'
  <2> SUFFICES ASSUME NEW m \in RunIds, hlsRuns'[m].at # "work"
               PROVE  Stopped(m)'
    BY DEF AtRest
  <2>1. CASE m = n
    BY <2>1
  <2>2. CASE m # n
    BY <2>2 DEF ChangesOnly, AtRest, Stopped
  <2> QED
    BY <2>1, <2>2
<1>4. Identity' /\ PlanKnown'
  BY DEF Identity, PlanKnown, ChangesOnly, Used
<1>5. OwnSegments'
  <2> SUFFICES ASSUME NEW d \in RunIds, NEW s \in Segments, staging'[d].seg[s] # Nothing
               PROVE  Used(d)' /\ staging'[d].seg[s] = hlsRuns'[d].media
    BY DEF OwnSegments
  <2>1. CASE staging'[d].seg[s] = staging[d].seg[s]
    BY <2>1 DEF OwnSegments, ChangesOnly
  <2>2. CASE d = hlsRuns[n].id /\ staging'[d].seg[s] = hlsRuns[n].media
    BY <2>2 DEF Identity, ChangesOnly
  <2> QED
    BY <2>1, <2>2
<1>6. MergeComplete'
  <2> SUFFICES ASSUME NEW m \in RunIds, hlsRuns'[m].at \in {"replace", "rename"}
               PROVE  \A s \in Segments : staging'[hlsRuns'[m].id].seg[s] # Nothing
    BY DEF MergeComplete
  <2>1. CASE m = n
    BY <2>1 DEF ChangesOnly
  <2>2. CASE m # n
    BY <2>2, OnlyActiveMerges DEF ChangesOnly
  <2> QED
    BY <2>1, <2>2
<1> QED
  BY <1>1, <1>2, <1>3, <1>4, <1>5, <1>6

\* The producer and the workers.
LEMMA WorkSteps ==
  ASSUME HlsInv, NEW n \in RunIds,
         \/ ProducerEnds(n)
         \/ \E w \in HlsWorkers : WorkerOf(n, w)
  PROVE  HlsInv'
<1> USE DEF HlsInv
<1>1. ChangesOnly(n) /\ hlsRuns[n].at = "work" /\ hlsRuns'[n].at = "work"
  BY WorkFacts
<1>2. n = activeRun /\ Used(n)
  BY <1>1, OnlyActiveMerges DEF Used
<1>3. UNCHANGED <<plan, hasRes, activeRun, hlsClosed, call, target, crashes>>
  BY DEF ProducerEnds, WorkerOf, WorkerTakes, WorkerLeaves, WorkerFails, WorkerStores, WorkerJournals,
         diskVars
<1>4. hlsRuns[n].id \in RunIds /\ hlsRuns[n].media \in Medias
  BY <1>2 DEF Identity
<1>5. ASSUME staging' \in [RunIds -> Folders],
             \A d \in RunIds, s \in Segments :
                \/ staging'[d].seg[s] = staging[d].seg[s]
                \/ d = hlsRuns[n].id /\ staging'[d].seg[s] = hlsRuns[n].media
      PROVE  HlsInv'
  <2>1. CallTyped' /\ CallKnown' /\ DiskTyped' /\ TargetWhole'
    BY <1>3, <1>5 DEF CallTyped, CallKnown, DiskTyped, TargetWhole
  <2> QED
    BY <1>1, <1>2, <1>3, <1>5, <2>1, ActiveStep
<1>6. CASE UNCHANGED staging
  BY <1>5, <1>6 DEF DiskTyped
<1>7. ASSUME NEW w \in HlsWorkers, WorkerStores(n, w)
      PROVE  HlsInv'
  <2> DEFINE d == hlsRuns[n].id
             x == hlsRuns[n].workers[w].seg
             folder == [staging[d] EXCEPT !.seg = [@ EXCEPT ![x] = hlsRuns[n].media]]
  <2>1. staging' = [staging EXCEPT ![d] = folder]
    BY <1>7 DEF WorkerStores
  <2>2. staging[d] \in Folders
    BY <1>4 DEF DiskTyped
  <2>3. /\ folder \in Folders
        /\ \A s \in Segments : folder.seg[s] = staging[d].seg[s] \/ folder.seg[s] = hlsRuns[n].media
    BY <1>4, <2>2 DEF Folders
  <2> HIDE DEF folder
  <2> QED
    BY <1>4, <1>5, <2>1, <2>3 DEF DiskTyped
<1>8. ASSUME NEW w \in HlsWorkers, WorkerJournals(n, w)
      PROVE  HlsInv'
  <2> DEFINE d == hlsRuns[n].id
             journal == [media |-> hlsRuns[n].media,
                         done |-> hlsRuns[n].kept \cup {hlsRuns[n].workers[w].seg}]
             folder == [staging[d] EXCEPT !.journal = journal]
  <2>1. staging' = [staging EXCEPT ![d] = folder]
    BY <1>8 DEF WorkerJournals
  <2>2. staging[d] \in Folders
    BY <1>4 DEF DiskTyped
  <2>3. hlsRuns[n].kept \subseteq Segments /\ hlsRuns[n].workers[w].seg \in Segments
    <3>1. hlsRuns[n].kept \subseteq Segments /\ hlsRuns[n].workers[w] \in WorkerStates
      BY DEF RunsTyped, RunRecs
    <3> QED
      BY <1>8, <3>1 DEF WorkerStates, WorkerJournals, Idle, Gone
  <2>4. journal \in Journals
    BY <1>4, <2>3 DEF Journals
  <2> HIDE DEF journal
  <2>5. folder \in Folders /\ folder.seg = staging[d].seg
    BY <2>2, <2>4 DEF Folders
  <2> HIDE DEF folder
  <2> QED
    BY <1>4, <1>5, <2>1, <2>5 DEF DiskTyped
<1> QED
  BY <1>6, <1>7, <1>8
     DEF ProducerEnds, WorkerOf, WorkerTakes, WorkerLeaves, WorkerFails, diskVars

\* The supervisor, up to the report.
LEMMA SupervisorSteps ==
  ASSUME HlsInv, NEW n \in RunIds, SupervisorStep(n)
  PROVE  HlsInv'
<1> USE DEF HlsInv
<1>0. /\ UNCHANGED <<plan, hasRes, hlsClosed, call, crashes>>
      /\ CallTyped' /\ CallKnown'
  <2>1. UNCHANGED <<plan, hasRes, hlsClosed, call, crashes>>
    BY DEF SupervisorStep, AfterWork, MergeFails, MergeWrites, MergeRemovesTarget, MergeRenames,
           AfterMerge, RemoveStaging, ClearRun, Report
  <2>2. activeRun' = activeRun \/ activeRun' = 0
    BY DEF SupervisorStep, AfterWork, MergeFails, MergeWrites, MergeRemovesTarget, MergeRenames,
           AfterMerge, RemoveStaging, ClearRun, Report, Clears
  <2>3. 0 \in 0..MaxHlsRuns
    BY HlsAssumption
  <2> QED
    BY <2>1, <2>2, <2>3 DEF CallTyped, CallKnown
<1>1. Used(n)
  BY DEF Used, SupervisorStep, AfterWork, MergeFails, MergeWrites, MergeRemovesTarget, MergeRenames,
         AfterMerge, RemoveStaging, ClearRun, Report
<1>2. hlsRuns[n].id \in RunIds /\ hlsRuns[n].media \in Medias
  BY <1>1 DEF Identity
<1>3. CASE Report(n)
  <2>1. ChangesOnly(n) /\ hlsRuns'[n].at = "ended" /\ (Stopped(n)' <=> Stopped(n))
    BY <1>1, <1>3, AtFacts DEF Report, Places
  <2>2. UNCHANGED <<activeRun, staging, target>> /\ hlsRuns[n].at = "report"
    BY <1>3 DEF Report, diskVars
  <2>3. ActiveAlone'
    <3> SUFFICES ASSUME NEW m \in RunIds, m # activeRun
                 PROVE  hlsRuns'[m].at \in {"unused", "report", "ended"}
      BY <2>2 DEF ActiveAlone
    <3> QED
      BY <2>1, OnlyActiveMerges DEF ChangesOnly
  <2>4. AtRest'
    <3> SUFFICES ASSUME NEW m \in RunIds, hlsRuns'[m].at # "work"
                 PROVE  Stopped(m)'
      BY DEF AtRest
    <3>1. CASE m = n
      BY <2>1, <2>2, <3>1 DEF AtRest
    <3>2. CASE m # n
      BY <2>1, <3>2 DEF ChangesOnly, AtRest, Stopped
    <3> QED
      BY <3>1, <3>2
  <2>5. Identity' /\ PlanKnown' /\ OwnSegments'
    BY <1>0, <2>1, <2>2 DEF Identity, PlanKnown, OwnSegments, ChangesOnly, Used
  <2>6. MergeComplete'
    BY <2>1, <2>2 DEF MergeComplete, ChangesOnly
  <2> QED
    BY <1>0, <2>1, <2>2, <2>3, <2>4, <2>5, <2>6 DEF ChangesOnly, DiskTyped, TargetWhole
<1>4. ASSUME ~Report(n) PROVE n = activeRun
  <2>1. hlsRuns[n].at \in Places \ {"unused", "report", "ended"}
    BY <1>4 DEF SupervisorStep, AfterWork, MergeFails, MergeWrites, MergeRemovesTarget, MergeRenames,
                AfterMerge, RemoveStaging, ClearRun, Places
  <2> QED
    BY <2>1, OnlyActiveMerges
\* A change of place alone.
<1>5. ASSUME n = activeRun, UNCHANGED <<staging, target>>, ChangesOnly(n), Stopped(n)',
             activeRun' = n \/ (activeRun' = 0 /\ hlsRuns'[n].at \in {"report", "ended"}),
             hlsRuns'[n].at \in {"replace", "rename"} =>
                 \A s \in Segments : staging[hlsRuns[n].id].seg[s] # Nothing
      PROVE  HlsInv'
  <2>1. DiskTyped' /\ TargetWhole'
    BY <1>5 DEF DiskTyped, TargetWhole
  <2> QED
    BY <1>0, <1>1, <1>5, <2>1, ActiveStep
<1>a. \A place \in Places \ {"unused"} :
        At(n, place) => /\ ChangesOnly(n) /\ hlsRuns'[n].at = place
                        /\ Stopped(n)' <=> Stopped(n)
  BY <1>1, AtFacts
<1>b. hlsRuns[n].at # "work" => Stopped(n)
  BY DEF AtRest
<1>6. CASE AfterWork(n)
  <2>0. n = activeRun
    BY <1>4, <1>6 DEF AfterWork, Report
  <2>1. CASE hlsRuns[n].cancelled /\ Clears(n, "ended")
    BY <1>5, <1>6, <1>a, <2>0, <2>1 DEF AfterWork, Clears, diskVars, Places
  <2>2. CASE ~hlsRuns[n].cancelled /\ hlsRuns[n].failed
    <3>1. /\ hlsRuns' = [hlsRuns EXCEPT ![n].at = "clear", ![n].result = "err"]
          /\ UNCHANGED <<activeRun, staging, target>>
      BY <1>6, <2>2 DEF AfterWork, diskVars
    <3>2. ChangesOnly(n) /\ hlsRuns'[n].at = "clear" /\ Stopped(n)'
      BY <1>1, <1>6, <3>1, ErrorFacts DEF AfterWork
    <3> QED
      BY <1>5, <2>0, <3>1, <3>2
  <2>3. CASE ~hlsRuns[n].cancelled /\ ~hlsRuns[n].failed
    <3>1. At(n, "merge") /\ UNCHANGED <<activeRun, staging, target>>
      BY <1>6, <2>3 DEF AfterWork, At, diskVars
    <3>2. ChangesOnly(n) /\ hlsRuns'[n].at = "merge" /\ Stopped(n)'
      BY <1>6, <1>a, <3>1 DEF AfterWork, Places
    <3> QED
      BY <1>5, <2>0, <3>1, <3>2
  <2> QED
    BY <1>6, <2>1, <2>2, <2>3 DEF AfterWork
<1>7. CASE MergeFails(n)
  <2>1. /\ hlsRuns' = [hlsRuns EXCEPT ![n].at = "clear", ![n].result = "err"]
        /\ UNCHANGED <<activeRun, staging, target>> /\ n = activeRun /\ Stopped(n)
    BY <1>4, <1>7, <1>b DEF MergeFails, Report, diskVars
  <2>2. ChangesOnly(n) /\ hlsRuns'[n].at = "clear" /\ Stopped(n)'
    BY <1>1, <2>1, ErrorFacts
  <2> QED
    BY <1>5, <2>1, <2>2
<1>8. CASE MergeWrites(n)
  <2>1. /\ At(n, "replace") /\ UNCHANGED <<activeRun, staging, target>> /\ n = activeRun /\ Stopped(n)
        /\ \A s \in Segments : staging[hlsRuns[n].id].seg[s] # Nothing
    BY <1>4, <1>8, <1>b DEF MergeWrites, Report, diskVars
  <2>2. ChangesOnly(n) /\ hlsRuns'[n].at = "replace" /\ Stopped(n)'
    BY <1>a, <2>1 DEF Places
  <2> QED
    BY <1>5, <2>1, <2>2
<1>9. CASE MergeRemovesTarget(n)
  <2>1. /\ At(n, "rename") /\ UNCHANGED <<activeRun, staging>> /\ n = activeRun /\ Stopped(n)
        /\ target' = Nothing /\ hlsRuns[n].at = "replace"
    BY <1>4, <1>9, <1>b DEF MergeRemovesTarget, Report
  <2>2. \A s \in Segments : staging[hlsRuns[n].id].seg[s] # Nothing
    BY <2>1 DEF MergeComplete
  <2>3. DiskTyped' /\ TargetWhole'
    BY <2>1 DEF DiskTyped, TargetWhole
  <2>4. ChangesOnly(n) /\ hlsRuns'[n].at = "rename" /\ Stopped(n)'
    BY <1>a, <2>1 DEF Places
  <2> QED
    BY <1>0, <1>1, <2>1, <2>2, <2>3, <2>4, ActiveStep
<1>10. CASE MergeRenames(n)
  <2> DEFINE d == hlsRuns[n].id
  <2>1. /\ At(n, "check") /\ UNCHANGED <<activeRun, staging>> /\ n = activeRun /\ Stopped(n)
        /\ target' = staging[d].seg /\ hlsRuns[n].at = "rename"
    BY <1>4, <1>10, <1>b DEF MergeRenames, Report
  <2>2. \A s \in Segments : staging[d].seg[s] = hlsRuns[n].media
    BY <1>1, <1>2, <2>1 DEF MergeComplete, OwnSegments, Identity
  <2>3. staging[d].seg = [s \in Segments |-> hlsRuns[n].media]
    <3>1. staging[d].seg \in [Segments -> Medias \cup {Nothing}]
      BY <1>2 DEF DiskTyped, Folders
    <3> QED
      BY <2>2, <3>1
  <2>4. TargetWhole'
    BY <1>2, <2>1, <2>3 DEF TargetWhole
  <2>5. DiskTyped'
    BY <1>2, <2>1, <2>3 DEF DiskTyped
  <2>6. ChangesOnly(n) /\ hlsRuns'[n].at = "check" /\ Stopped(n)'
    BY <1>a, <2>1 DEF Places
  <2> QED
    BY <1>0, <1>1, <2>1, <2>4, <2>5, <2>6, ActiveStep
<1>11. CASE AfterMerge(n)
  <2>1. UNCHANGED <<staging, target>> /\ n = activeRun /\ Stopped(n)
    BY <1>4, <1>11, <1>b DEF AfterMerge, Report, diskVars
  <2>2. CASE hlsRuns[n].cancelled
    BY <1>5, <1>11, <1>a, <2>1, <2>2 DEF AfterMerge, Clears, Places
  <2>3. CASE ~hlsRuns[n].cancelled
    <3>1. At(n, "remove") /\ activeRun' = activeRun
      BY <1>11, <2>3 DEF AfterMerge
    <3>2. ChangesOnly(n) /\ hlsRuns'[n].at = "remove" /\ Stopped(n)'
      BY <1>a, <2>1, <3>1 DEF Places
    <3> QED
      BY <1>5, <2>1, <3>1, <3>2
  <2> QED
    BY <2>2, <2>3
<1>12. CASE RemoveStaging(n)
  <2> DEFINE d == hlsRuns[n].id
  <2>1. /\ At(n, "clear") /\ UNCHANGED <<activeRun, target>> /\ n = activeRun /\ Stopped(n)
        /\ staging' = [staging EXCEPT ![d] = NoFolder]
    BY <1>4, <1>12, <1>b DEF RemoveStaging, Report
  <2>2. NoFolder \in Folders /\ \A s \in Segments : NoFolder.seg[s] = Nothing
    BY DEF NoFolder, Folders, NoJournal, Journals
  <2>3. /\ DiskTyped' /\ TargetWhole'
        /\ \A e \in RunIds, s \in Segments :
             staging'[e].seg[s] = Nothing \/ staging'[e].seg[s] = staging[e].seg[s]
    BY <2>1, <2>2 DEF DiskTyped, TargetWhole
  <2>4. ChangesOnly(n) /\ hlsRuns'[n].at = "clear" /\ Stopped(n)'
    BY <1>a, <2>1 DEF Places
  <2> QED
    BY <1>0, <1>1, <2>1, <2>3, <2>4, ActiveStep
<1>13. CASE ClearRun(n)
  <2>1. /\ At(n, "report") /\ UNCHANGED <<staging, target>> /\ n = activeRun /\ Stopped(n)
        /\ activeRun' = 0
    BY <1>4, <1>13, <1>b DEF ClearRun, Clears, Report, diskVars
  <2> QED
    BY <1>5, <1>a, <2>1 DEF Places
<1> QED
  BY <1>3, <1>6, <1>7, <1>8, <1>9, <1>10, <1>11, <1>12, <1>13 DEF SupervisorStep

\* The number of the next call of Start is that of no earlier one.
LEMMA NextRunUnused ==
  ASSUME Unused # {}
  PROVE  NextRun \in RunIds /\ hlsRuns[NextRun].at = "unused"
<1>1. Unused \subseteq Nat
  BY HlsAssumption DEF Unused, RunIds
<1>2. NextRun \in Unused
  BY <1>1, MinMember DEF NextRun
<1> QED
  BY <1>2 DEF Unused

\* The engine's start: the number of the run is new, and so is the staging
\* identity of a plan that is resolved now.
LEMMA StartStep ==
  ASSUME HlsInv, HlsStart
  PROVE  HlsInv'
<1> USE DEF HlsInv
<1> DEFINE n == NextRun
<1>1. n \in RunIds /\ hlsRuns[n].at = "unused"
  BY NextRunUnused DEF HlsStart
<1> HIDE DEF n
<1>2. PICK p \in IF hasRes /\ plan # NoPlan THEN {plan} ELSE FreshPlans :
        plan' = p /\ hlsRuns' = [hlsRuns EXCEPT ![n] = NewHlsRun(p)]
  BY DEF HlsStart, n
<1>3. /\ call.kind = "none" /\ activeRun = 0 /\ hasRes' = TRUE /\ activeRun' = n
      /\ UNCHANGED <<hlsClosed, call, staging, target, crashes>>
  BY DEF HlsStart, n, diskVars
<1>4. /\ p.media \in Medias /\ p.id \in RunIds /\ p \in Plans
      /\ \/ p.id = n
         \/ Used(p.id) /\ p.media = hlsRuns[p.id].media
  <2>1. CASE hasRes /\ plan # NoPlan
    <3>1. p = plan /\ plan \in [media : Medias, id : RunIds]
      BY <1>2, <2>1 DEF CallTyped, Plans
    <3> QED
      BY <2>1, <3>1 DEF PlanKnown, Plans
  <2>2. CASE ~ (hasRes /\ plan # NoPlan)
    BY <1>1, <1>2, <2>2 DEF FreshPlans, Plans, n
  <2> QED
    BY <2>1, <2>2
<1> DEFINE r == NewHlsRun(p)
<1>5. /\ r \in RunRecs /\ r.at = "work" /\ r.id = p.id /\ r.media = p.media
  <2> DEFINE todo == Segments \ Kept(p)
             kept == Kept(p)
  <2>1. kept \subseteq Segments
    <3>1. staging[p.id].journal.done \subseteq Segments
      BY <1>4 DEF DiskTyped, Folders, Journals
    <3> QED
      BY <3>1 DEF Kept
  <2>2. [w \in HlsWorkers |-> IF todo = {} THEN Gone ELSE Idle] \in [HlsWorkers -> WorkerStates]
    BY DEF WorkerStates
  <2>3. p.id \in 0..MaxHlsRuns
    BY <1>4, HlsAssumption DEF RunIds
  <2>4. r = [media |-> p.media, id |-> p.id, todo |-> todo, kept |-> kept, failed |-> FALSE,
             cancelled |-> FALSE, result |-> "ok", at |-> "work", producer |-> todo # {},
             workers |-> [w \in HlsWorkers |-> IF todo = {} THEN Gone ELSE Idle]]
    BY DEF NewHlsRun
  <2>5. (todo # {}) \in BOOLEAN /\ todo \in SUBSET Segments /\ kept \in SUBSET Segments
    BY <2>1
  <2> HIDE DEF todo, kept, r
  <2> QED
    BY <1>4, <2>2, <2>3, <2>4, <2>5 DEF RunRecs, Places
<1> HIDE DEF r
<1>6. /\ hlsRuns'[n] = r
      /\ \A m \in RunIds \ {n} : hlsRuns'[m] = hlsRuns[m]
      /\ RunsTyped'
  BY <1>1, <1>2, <1>5 DEF RunsTyped, r
<1>7. \A m \in RunIds : Used(m)' <=> Used(m) \/ m = n
  BY <1>5, <1>6 DEF Used
<1>8. CallTyped' /\ DiskTyped' /\ CallKnown' /\ TargetWhole'
  <2>1. n \in 0..MaxHlsRuns
    BY <1>1, HlsAssumption DEF RunIds
  <2>2. hasRes' \in BOOLEAN
    BY <1>3
  <2> QED
    BY <1>2, <1>3, <1>4, <2>1, <2>2 DEF CallTyped, DiskTyped, CallKnown, TargetWhole
<1>9. 0 \notin RunIds
  BY DEF RunIds
<1>10. ActiveAlone' /\ AtRest' /\ MergeComplete'
  BY <1>3, <1>5, <1>6, <1>9 DEF ActiveAlone, AtRest, Stopped, MergeComplete
<1>11. Identity'
  <2> SUFFICES ASSUME NEW m \in RunIds, Used(m)'
               PROVE  /\ hlsRuns'[m].id \in RunIds
                      /\ hlsRuns'[hlsRuns'[m].id].at # "unused"
                      /\ hlsRuns'[m].media \in Medias
                      /\ hlsRuns'[m].media = hlsRuns'[hlsRuns'[m].id].media
    BY DEF Identity, Used
  <2> USE DEF Used
  <2>1. CASE m = n
    <3>1. hlsRuns'[m].id = p.id /\ hlsRuns'[m].media = p.media
      BY <1>5, <1>6, <2>1
    <3>2. CASE p.id = n
      BY <1>1, <1>4, <1>7, <2>1, <3>1, <3>2
    <3>3. CASE p.id # n
      BY <1>4, <1>6, <1>7, <3>1, <3>3
    <3> QED
      BY <3>2, <3>3
  <2>2. CASE m # n
    <3>1. /\ hlsRuns[m].id \in RunIds /\ Used(hlsRuns[m].id)
          /\ hlsRuns[m].media \in Medias /\ hlsRuns[m].media = hlsRuns[hlsRuns[m].id].media
      BY <1>7, <2>2 DEF Identity
    <3>2. hlsRuns[m].id # n
      BY <1>1, <3>1 DEF Used
    <3> QED
      BY <1>6, <1>7, <2>2, <3>1, <3>2
  <2> QED
    BY <2>1, <2>2
<1>12. PlanKnown'
  <2>1. CASE p.id = n
    BY <1>1, <1>2, <1>5, <1>6, <1>7, <2>1 DEF PlanKnown
  <2>2. CASE p.id # n
    BY <1>2, <1>4, <1>6, <1>7, <2>2 DEF PlanKnown
  <2> QED
    BY <2>1, <2>2
<1>13. OwnSegments'
  <2> SUFFICES ASSUME NEW d \in RunIds, NEW s \in Segments, staging[d].seg[s] # Nothing
               PROVE  Used(d)' /\ staging[d].seg[s] = hlsRuns'[d].media
    BY <1>3 DEF OwnSegments
  <2>1. Used(d) /\ staging[d].seg[s] = hlsRuns[d].media
    BY DEF OwnSegments
  <2> QED
    BY <1>1, <1>6, <1>7, <2>1 DEF Used
<1> QED
  BY <1>6, <1>8, <1>10, <1>11, <1>12, <1>13

\* A folder that goes changes no other, and leaves no segment of its own.
LEMMA FolderGoes ==
  ASSUME DiskTyped, OwnSegments, NEW d \in RunIds, staging' = [staging EXCEPT ![d] = NoFolder],
         UNCHANGED target, \A m \in RunIds : hlsRuns'[m].media = hlsRuns[m].media /\ (Used(m)' <=> Used(m))
  PROVE  DiskTyped' /\ OwnSegments'
<1>1. NoFolder \in Folders /\ \A s \in Segments : NoFolder.seg[s] = Nothing
  BY DEF NoFolder, Folders, NoJournal, Journals
<1>2. DiskTyped'
  BY <1>1 DEF DiskTyped
<1>3. OwnSegments'
  BY <1>1 DEF DiskTyped, OwnSegments
<1> QED
  BY <1>2, <1>3

\* Pause, Close, their end, and Patch.
LEMMA CallSteps ==
  ASSUME HlsInv, HlsPause \/ HlsClose \/ CallEnds \/ HlsPatch
  PROVE  HlsInv'
<1> USE DEF HlsInv
<1>0. activeRun \in 0..MaxHlsRuns /\ 0 \in 0..MaxHlsRuns /\ (activeRun # 0 => activeRun \in RunIds)
  BY HlsAssumption DEF CallTyped, RunIds
<1>1. ASSUME NEW n \in RunIds, n = activeRun, hlsRuns' = [hlsRuns EXCEPT ![n].cancelled = TRUE],
             NEW kind \in {"pause", "close"}, call' = [kind |-> kind, run |-> n],
             hlsClosed' \in BOOLEAN,
             UNCHANGED <<plan, hasRes, activeRun, staging, target, crashes>>
      PROVE  HlsInv'
  <2>1. ChangesOnly(n) /\ hlsRuns'[n].at = hlsRuns[n].at /\ (Stopped(n)' <=> Stopped(n))
    BY <1>1, CancelFacts
  <2>2. \A m \in RunIds : hlsRuns'[m].at = hlsRuns[m].at /\ (Stopped(m)' <=> Stopped(m))
    BY <2>1 DEF ChangesOnly, Stopped
  <2>3. call' \in [kind : {"none", "pause", "close"}, run : 0..MaxHlsRuns] /\ call'.run = n
    BY <1>0, <1>1
  <2>4. CallTyped' /\ CallKnown' /\ DiskTyped' /\ TargetWhole'
    BY <1>1, <2>3 DEF CallTyped, CallKnown, DiskTyped, TargetWhole
  <2>5. ActiveAlone' /\ AtRest'
    BY <1>1, <2>2 DEF ActiveAlone, AtRest
  <2>6. Identity' /\ PlanKnown' /\ OwnSegments'
    BY <1>1, <2>1 DEF Identity, PlanKnown, OwnSegments, ChangesOnly, Used
  <2>7. MergeComplete'
    BY <1>1, <2>1, <2>2 DEF MergeComplete, ChangesOnly
  <2> QED
    BY <2>1, <2>4, <2>5, <2>6, <2>7 DEF ChangesOnly
<1>2. CASE HlsPause
  BY <1>0, <1>1, <1>2 DEF HlsPause, diskVars, CallTyped
<1>3. CASE HlsClose /\ activeRun # 0
  BY <1>0, <1>1, <1>3 DEF HlsClose, diskVars
<1>4. CASE HlsClose /\ activeRun = 0
  <2>1. UNCHANGED <<plan, hasRes, activeRun, hlsRuns, staging, target, crashes>> /\ hlsClosed' = TRUE
    BY <1>4 DEF HlsClose, diskVars
  <2>2. call' \in [kind : {"none", "pause", "close"}, run : 0..MaxHlsRuns]
    BY <1>0, <1>4 DEF HlsClose
  <2>3. CallTyped' /\ CallKnown'
    BY <1>4, <2>1, <2>2 DEF CallTyped, CallKnown
  <2> QED
    BY <2>1, <2>3 DEF RunsTyped, DiskTyped, ActiveAlone, AtRest, Stopped, Identity, Used, PlanKnown,
                      OwnSegments, MergeComplete, TargetWhole
<1>5. CASE CallEnds
  <2>1. /\ activeRun' = 0 /\ UNCHANGED <<plan, hasRes, hlsRuns, hlsClosed, target, crashes>>
        /\ call' = [kind |-> "none", run |-> 0]
    BY <1>5 DEF CallEnds, CallKnown
  <2>2. \A n \in RunIds : hlsRuns[n].at \in {"unused", "report", "ended"}
    <3> SUFFICES ASSUME NEW n \in RunIds, n = activeRun
                 PROVE  hlsRuns[n].at = "ended"
      BY OnlyActiveMerges
    <3>1. n # 0
      BY DEF RunIds
    <3> QED
      BY <1>5, <3>1 DEF CallEnds, CallKnown
  <2>3. CallTyped' /\ CallKnown' /\ TargetWhole'
    <3>1. call' \in [kind : {"none", "pause", "close"}, run : 0..MaxHlsRuns] /\ call'.kind = "none"
      BY <1>0, <2>1
    <3> QED
      BY <1>0, <2>1, <3>1 DEF CallTyped, CallKnown, TargetWhole
  <2>4. /\ RunsTyped' /\ ActiveAlone' /\ AtRest' /\ Identity' /\ PlanKnown' /\ MergeComplete'
    BY <2>1, <2>2 DEF RunsTyped, ActiveAlone, AtRest, Stopped, Identity, PlanKnown, Used, MergeComplete
  <2>5. CASE UNCHANGED staging
    BY <2>1, <2>3, <2>4, <2>5 DEF DiskTyped, OwnSegments, Used
  <2>6. CASE plan # NoPlan /\ staging' = [staging EXCEPT ![plan.id] = NoFolder]
    <3>1. plan.id \in RunIds
      BY <2>6 DEF PlanKnown
    <3>2. DiskTyped' /\ OwnSegments'
      BY <2>1, <2>6, <3>1, FolderGoes DEF Used
    <3> QED
      BY <2>3, <2>4, <3>2
  <2> QED
    BY <1>5, <2>5, <2>6 DEF CallEnds
<1>6. CASE HlsPatch
  <2>1. /\ activeRun = 0 /\ UNCHANGED <<activeRun, hlsRuns, hlsClosed, call, target, crashes>>
        /\ plan' = NoPlan /\ hasRes' = FALSE /\ plan # NoPlan
        /\ staging' = [staging EXCEPT ![plan.id] = NoFolder]
    BY <1>6 DEF HlsPatch
  <2>2. DiskTyped' /\ OwnSegments'
    BY <2>1, FolderGoes DEF PlanKnown, Used
  <2>3. MergeComplete'
    <3>1. \A n \in RunIds : hlsRuns[n].at \in {"unused", "report", "ended"}
      BY <2>1, OnlyActiveMerges DEF RunIds
    <3> QED
      BY <2>1, <3>1 DEF MergeComplete
  <2>4. CallTyped'
    <3>1. plan' \in Plans /\ hasRes' \in BOOLEAN
      BY <2>1 DEF Plans
    <3> QED
      BY <2>1, <3>1 DEF CallTyped
  <2>5. RunsTyped' /\ ActiveAlone' /\ AtRest' /\ CallKnown' /\ Identity' /\ PlanKnown' /\ TargetWhole'
    BY <2>1 DEF RunsTyped, ActiveAlone, AtRest, Stopped, CallKnown, Identity, Used, PlanKnown, TargetWhole
  <2> QED
    BY <2>2, <2>3, <2>4, <2>5
<1> QED
  BY <1>2, <1>3, <1>4, <1>5, <1>6

\* A crash, whatever it leaves of a folder whose removal was under way, and
\* whichever plan the storage has.
LEMMA CrashStep ==
  ASSUME HlsInv, HlsCrash
  PROVE  HlsInv'
<1> USE DEF HlsInv
<1>1. /\ activeRun' = 0 /\ call' = [kind |-> "none", run |-> 0] /\ UNCHANGED <<hlsClosed, target>>
      /\ crashes' = crashes + 1 /\ crashes < MaxHlsCrashes
      /\ plan' \in EverStored /\ hasRes' \in BOOLEAN
  BY DEF HlsCrash
<1> DEFINE Ended(n) == [[NoRunYet EXCEPT !.media = hlsRuns[n].media] EXCEPT !.id = hlsRuns[n].id]
<1>2. \A n \in RunIds : hlsRuns'[n] = IF Used(n) THEN Ended(n) ELSE hlsRuns[n]
  BY DEF HlsCrash, Unused, Used
<1>3. ASSUME NEW n \in RunIds
      PROVE  /\ Ended(n) \in RunRecs /\ Ended(n).at = "ended" /\ ~Ended(n).producer
             /\ Ended(n).workers = [w \in HlsWorkers |-> Gone]
             /\ Ended(n).media = hlsRuns[n].media /\ Ended(n).id = hlsRuns[n].id
  <2> DEFINE a == [NoRunYet EXCEPT !.media = hlsRuns[n].media]
  <2>1. hlsRuns[n].media \in Medias \cup {Nothing} /\ hlsRuns[n].id \in 0..MaxHlsRuns
    BY DEF RunsTyped, RunRecs
  <2>2. [w \in HlsWorkers |-> Gone] \in [HlsWorkers -> WorkerStates]
    BY DEF WorkerStates
  <2>3. /\ NoRunYet \in RunRecs /\ NoRunYet.at = "ended" /\ ~NoRunYet.producer
        /\ NoRunYet.workers = [w \in HlsWorkers |-> Gone]
    BY <2>2, HlsAssumption DEF NoRunYet, RunRecs, Places
  <2>4. /\ a \in RunRecs /\ a.at = "ended" /\ ~a.producer /\ a.media = hlsRuns[n].media
        /\ a.workers = [w \in HlsWorkers |-> Gone]
    BY ONLY <2>1, <2>3 DEF RunRecs
  <2>5. Ended(n) = [a EXCEPT !.id = hlsRuns[n].id]
    OBVIOUS
  <2> HIDE DEF a, Ended
  <2>6. [a EXCEPT !.id = hlsRuns[n].id] \in RunRecs
    BY ONLY <2>1, <2>4 DEF RunRecs
  <2> QED
    BY ONLY <2>1, <2>4, <2>5, <2>6 DEF RunRecs
<1> HIDE DEF Ended
<1>4. RunsTyped'
  <2>1. \A n \in RunIds : hlsRuns'[n] \in RunRecs
    BY <1>2, <1>3 DEF RunsTyped
  <2>2. hlsRuns' = [n \in RunIds |-> hlsRuns'[n]]
    BY DEF HlsCrash
  <2> QED
    BY <2>1, <2>2 DEF RunsTyped
<1>5. \A n \in RunIds : /\ hlsRuns'[n].media = hlsRuns[n].media /\ hlsRuns'[n].id = hlsRuns[n].id
                        /\ Used(n)' <=> Used(n)
                        /\ hlsRuns'[n].at \in {"unused", "ended"}
                        /\ Stopped(n)'
  <2> SUFFICES ASSUME NEW n \in RunIds
               PROVE  /\ hlsRuns'[n].media = hlsRuns[n].media /\ hlsRuns'[n].id = hlsRuns[n].id
                      /\ Used(n)' <=> Used(n)
                      /\ hlsRuns'[n].at \in {"unused", "ended"}
                      /\ Stopped(n)'
    OBVIOUS
  <2>1. CASE Used(n)
    BY <1>2, <1>3, <2>1 DEF Used, Stopped
  <2>2. CASE ~Used(n)
    BY <1>2, <2>2 DEF Used, Stopped, AtRest
  <2> QED
    BY <2>1, <2>2
<1>6. ActiveAlone' /\ AtRest' /\ MergeComplete'
  BY <1>5 DEF ActiveAlone, AtRest, MergeComplete
<1>7. Identity'
  BY <1>5 DEF Identity, Used
<1>8. plan' \in Plans /\ PlanKnown'
  <2>1. CASE plan' = NoPlan
    BY <2>1 DEF Plans, PlanKnown
  <2>2. CASE plan' # NoPlan
    <3>1. PICK n \in RunIds : Used(n) /\ plan' = [media |-> hlsRuns[n].media, id |-> hlsRuns[n].id]
      BY <1>1, <2>2 DEF EverStored, Unused, Used
    <3>2. /\ hlsRuns[n].id \in RunIds /\ Used(hlsRuns[n].id)
          /\ hlsRuns[n].media \in Medias /\ hlsRuns[n].media = hlsRuns[hlsRuns[n].id].media
      BY <3>1 DEF Identity
    <3>3. plan' \in Plans
      BY <3>1, <3>2 DEF Plans
    <3> QED
      BY <1>5, <3>1, <3>2, <3>3 DEF PlanKnown, Used
  <2> QED
    BY <2>1, <2>2
<1>9. CallTyped' /\ CallKnown' /\ TargetWhole'
  <2>1. call' \in [kind : {"none", "pause", "close"}, run : 0..MaxHlsRuns] /\ call'.kind = "none"
    BY <1>1, HlsAssumption
  <2>2. crashes' \in 0..MaxHlsCrashes /\ activeRun' \in 0..MaxHlsRuns
    BY <1>1, HlsAssumption DEF CallTyped
  <2> QED
    BY <1>1, <1>8, <2>1, <2>2 DEF CallTyped, CallKnown, TargetWhole
<1>10. DiskTyped' /\ OwnSegments'
  <2>1. CASE UNCHANGED staging
    BY <1>1, <1>5, <2>1 DEF DiskTyped, OwnSegments
  <2>2. ASSUME NEW d \in RunIds, NEW left \in Leftovers(staging[d]),
               staging' = [staging EXCEPT ![d] = left]
        PROVE  DiskTyped' /\ OwnSegments'
    <3>1. staging[d] \in Folders
      BY DEF DiskTyped
    <3>2. PICK K \in SUBSET Segments, j \in {staging[d].journal, NoJournal} :
            left = [seg |-> [s \in Segments |-> IF s \in K THEN staging[d].seg[s] ELSE Nothing],
                    journal |-> j]
      BY <2>2 DEF Leftovers
    <3>3. j \in Journals
      BY <3>1 DEF Folders, Journals, NoJournal
    <3>4. [s \in Segments |-> IF s \in K THEN staging[d].seg[s] ELSE Nothing]
            \in [Segments -> Medias \cup {Nothing}]
      BY <3>1 DEF Folders
    <3>5. /\ left \in Folders
          /\ \A s \in Segments : left.seg[s] = Nothing \/ left.seg[s] = staging[d].seg[s]
      BY <3>2, <3>3, <3>4 DEF Folders
    <3>6. DiskTyped'
      BY <1>1, <2>2, <3>5 DEF DiskTyped
    <3>7. OwnSegments'
      BY <1>5, <2>2, <3>5 DEF DiskTyped, OwnSegments
    <3> QED
      BY <3>6, <3>7
  <2>3. CASE activeRun # 0 /\ hlsRuns[activeRun].at = "remove"
    <3>1. activeRun \in RunIds
      BY <2>3, HlsAssumption DEF CallTyped, RunIds
    <3>2. hlsRuns[activeRun].id \in RunIds
      BY <2>3, <3>1 DEF Identity, Used
    <3> QED
      BY <2>2, <2>3, <3>2 DEF HlsCrash
  <2> QED
    BY <2>1, <2>3 DEF HlsCrash
<1> QED
  BY <1>4, <1>6, <1>7, <1>8, <1>9, <1>10

\* Every step keeps the invariant.
LEMMA HlsSteps == HlsInv /\ [HlsNext]_hlsVars => HlsInv'
<1> SUFFICES ASSUME HlsInv, [HlsNext]_hlsVars PROVE HlsInv'
  OBVIOUS
<1>1. CASE HlsStart
  BY <1>1, StartStep
<1>2. CASE HlsPause \/ HlsClose \/ CallEnds \/ HlsPatch
  BY <1>2, CallSteps
<1>3. CASE HlsCrash
  BY <1>3, CrashStep
<1>4. ASSUME NEW n \in RunIds, RunStepOf(n) PROVE HlsInv'
  BY <1>4, WorkSteps, SupervisorSteps DEF RunStepOf
<1>5. CASE UNCHANGED hlsVars
  BY <1>5 DEF hlsVars, diskVars, HlsInv, RunsTyped, CallTyped, DiskTyped, ActiveAlone, AtRest, Stopped,
              CallKnown, Identity, Used, PlanKnown, OwnSegments, MergeComplete, TargetWhole
<1> QED
  BY <1>1, <1>2, <1>3, <1>4, <1>5 DEF HlsNext

-----------------------------------------------------------------------------
\* HLS: the theorems

\* The inductive invariant holds in every behaviour of the HLS fetcher.
THEOREM HlsInvariant == HlsSpec => []HlsInv
BY HlsStarts, HlsSteps, PTL DEF HlsSpec

\* The variables of fetcher.go's run objects, journals and folders have their types.
THEOREM HlsTypeCorrect == HlsSpec => []HlsTypeOK
<1>1. HlsInv => HlsTypeOK
  BY HlsTypes DEF HlsInv
<1> QED
  BY <1>1, HlsInvariant, PTL

\* What stands at the target's place is one media from end to end: for any number
\* of segments, workers, runs and crashes, whatever the playlist turns into.
THEOREM TargetIsWhole == HlsSpec => []TargetWhole
<1>1. HlsInv => TargetWhole
  BY DEF HlsInv
<1> QED
  BY <1>1, HlsInvariant, PTL

\* Only the active run has a producer, workers or a merge: no run that was
\* paused, failed or abandoned by a crash touches a folder of the next one.
THEOREM FoldersAreOwned == HlsSpec => []StagingOwned
<1>1. HlsInv => StagingOwned
  BY DEF HlsInv, ActiveAlone, AtRest, StagingOwned
<1> QED
  BY <1>1, HlsInvariant, PTL

-----------------------------------------------------------------------------
\* BitTorrent: the inductive invariant

Clients == [owner : BtTasks \cup {Nobody}, info : BOOLEAN, bound : BOOLEAN, allowed : BOOLEAN,
            wanted : SUBSET BtFiles, claim : [BtFiles -> {"no", "hashing", "yes"}]]
TaskRecs == [ready : BOOLEAN, handle : BOOLEAN, dropped : BOOLEAN,
             closing : {"open", "closing", "closed"},
             call : {"none", "resolving", "adding", "verifying"}, unverified : SUBSET BtFiles,
             upload : {"off", "on", "ended"}, wait : {"off", "on", "finished", "ended"},
             selected : SUBSET BtFiles, resolved : BOOLEAN]

\* The types of all that changes but the counters.
TasksTyped ==
    /\ btTask \in [BtTasks -> TaskRecs]
    /\ btDisk \in [BtTasks -> [BtFiles -> {"none", "part", "good", "bad"}]]
    /\ finishedOf \in [BtTasks -> SUBSET BtFiles] /\ removedOf \in [BtTasks -> SUBSET BtFiles]
    /\ metadata \in BOOLEAN

\* Only a torrent that somebody added is bound to a directory, and before that
\* the client claims nothing.
ClientTyped ==
    /\ client \in Clients
    /\ client.bound => client.owner \in BtTasks
    /\ ~client.bound => \A f \in BtFiles : client.claim[f] = "no"

\* Which calls may be under way with which torrent.
CallOK(t) ==
    /\ btTask[t].ready => client.owner = t /\ client.info /\ btTask[t].resolved
    /\ btTask[t].call \in {"resolving", "adding"} =>
         client.owner = t /\ ~client.bound /\ ~btTask[t].ready
    /\ btTask[t].call = "adding" => btTask[t].resolved
    /\ btTask[t].call = "verifying" => btTask[t].ready /\ client.bound
    /\ btTask[t].call # "verifying" => btTask[t].unverified = {}
    /\ btTask[t].closing # "open" <=> btTask[t].dropped

\* After Close a Resolve may still be under way, and nothing else.
ClosedOK(t) ==
    btTask[t].closing = "closed" =>
        /\ btTask[t].call \in {"none", "resolving"}
        /\ client.owner = t => ~client.allowed

\* What a fetcher that goes on has bound holds no damage but what it still
\* verifies.
DamageSeen(t) ==
    client.owner = t /\ client.bound => \A f \in BtFiles : btDisk[t][f] = "bad" =>
        IF btTask[t].call = "verifying" THEN f \in btTask[t].unverified ELSE btTask[t].dropped

\* What the client claims to have is there, unless a cleanup took it.
ClaimTrue(t) ==
    client.owner = t => \A f \in BtFiles :
        client.claim[f] = "yes" => btDisk[t][f] = "good" \/ f \in removedOf[t]

\* Once a task is finished its files are not verified, hashed or added again.
FinishedKeeps(t) ==
    btTask[t].wait = "finished" =>
        /\ btTask[t].resolved /\ btTask[t].call \in {"none", "verifying"}
        /\ \/ btTask[t].dropped
           \/ btTask[t].ready /\ client.bound /\ btTask[t].unverified = {}
        /\ client.owner = t =>
             client.bound /\ \A f \in finishedOf[t] \ removedOf[t] : client.claim[f] = "yes"

FinishedGood(t) ==
    btTask[t].wait = "finished" => \A f \in finishedOf[t] \ removedOf[t] : btDisk[t][f] = "good"

TaskInv(t) ==
    CallOK(t) /\ ClosedOK(t) /\ DamageSeen(t) /\ ClaimTrue(t) /\ FinishedKeeps(t) /\ FinishedGood(t)

BtInv == TasksTyped /\ ClientTyped /\ \A t \in BtTasks : TaskInv(t)

-----------------------------------------------------------------------------
\* BitTorrent: the invariant, step by step

\* A task that a step does not name: its own state is as it was, and the torrent
\* either is as it was or is and was not of this task.
LEMMA OtherTask ==
  ASSUME BtInv, NEW u \in BtTasks,
         btTask'[u] = btTask[u], btDisk'[u] = btDisk[u],
         finishedOf'[u] = finishedOf[u], removedOf'[u] = removedOf[u],
         client' = client \/ (client.owner # u /\ client'.owner # u)
  PROVE  TaskInv(u)'
<1>1. TaskInv(u)
  BY DEF BtInv
<1>2. CASE client' = client
  BY <1>1, <1>2 DEF TaskInv, CallOK, ClosedOK, DamageSeen, ClaimTrue, FinishedKeeps, FinishedGood
<1>3. CASE client.owner # u /\ client'.owner # u
  BY <1>1, <1>3 DEF TaskInv, CallOK, ClosedOK, DamageSeen, ClaimTrue, FinishedKeeps, FinishedGood
<1> QED
  BY <1>2, <1>3

\* A step of one task.
LEMMA OneTask ==
  ASSUME BtInv, NEW t \in BtTasks,
         btTask' = [btTask EXCEPT ![t] = btTask'[t]], btTask'[t] \in TaskRecs,
         btDisk' = [btDisk EXCEPT ![t] = btDisk'[t]],
         btDisk'[t] \in [BtFiles -> {"none", "part", "good", "bad"}],
         finishedOf' = [finishedOf EXCEPT ![t] = finishedOf'[t]], finishedOf'[t] \in SUBSET BtFiles,
         removedOf' = [removedOf EXCEPT ![t] = removedOf'[t]], removedOf'[t] \in SUBSET BtFiles,
         UNCHANGED metadata, ClientTyped',
         client' = client \/ (client.owner \in {t, Nobody} /\ client'.owner \in {t, Nobody}),
         TaskInv(t)'
  PROVE  BtInv'
<1>1. TasksTyped'
  BY DEF BtInv, TasksTyped
<1>2. ASSUME NEW u \in BtTasks, u # t PROVE TaskInv(u)'
  <2>1. /\ btTask'[u] = btTask[u] /\ btDisk'[u] = btDisk[u]
        /\ finishedOf'[u] = finishedOf[u] /\ removedOf'[u] = removedOf[u]
    BY <1>2 DEF BtInv, TasksTyped
  <2>2. client' = client \/ (client.owner # u /\ client'.owner # u)
    BY <1>2, BtAssumption
  <2> QED
    BY <2>1, <2>2, OtherTask
<1> QED
  BY <1>1, <1>2 DEF BtInv

\* A step of one task that touches neither its files nor what is known of them.
LEMMA OneTaskQuiet ==
  ASSUME BtInv, NEW t \in BtTasks,
         btTask' = [btTask EXCEPT ![t] = btTask'[t]], btTask'[t] \in TaskRecs,
         UNCHANGED <<metadata, btDisk, finishedOf, removedOf>>, ClientTyped',
         client' = client \/ (client.owner \in {t, Nobody} /\ client'.owner \in {t, Nobody}),
         TaskInv(t)'
  PROVE  BtInv'
<1>1. /\ btDisk' = [btDisk EXCEPT ![t] = btDisk'[t]]
      /\ btDisk'[t] \in [BtFiles -> {"none", "part", "good", "bad"}]
      /\ finishedOf' = [finishedOf EXCEPT ![t] = finishedOf'[t]] /\ finishedOf'[t] \in SUBSET BtFiles
      /\ removedOf' = [removedOf EXCEPT ![t] = removedOf'[t]] /\ removedOf'[t] \in SUBSET BtFiles
  BY DEF BtInv, TasksTyped
<1> QED
  BY <1>1, OneTask

\* A new torrent, as the client has it before anything is known.
LEMMA NewTorrent ==
  /\ NoTorrent \in Clients /\ NoTorrent.owner = Nobody /\ ~NoTorrent.bound /\ ~NoTorrent.allowed
  /\ \A f \in BtFiles : NoTorrent.claim[f] = "no"
<1>1. [f \in BtFiles |-> "no"] \in [BtFiles -> {"no", "hashing", "yes"}]
  OBVIOUS
<1> QED
  BY <1>1 DEF NoTorrent, Clients

\* Initially no torrent is there.
LEMMA BtStarts == BtInit => BtInv
<1> SUFFICES ASSUME BtInit PROVE BtInv
  OBVIOUS
<1>1. ClientTyped
  BY NewTorrent DEF BtInit, ClientTyped
<1>2. BtFresh({}, FALSE) \in TaskRecs
  BY DEF BtFresh, TaskRecs
<1>3. TasksTyped
  BY <1>2 DEF BtInit, TasksTyped
<1>4. ASSUME NEW t \in BtTasks PROVE TaskInv(t)
  <2>1. client.owner # t
    BY NewTorrent, BtAssumption DEF BtInit
  <2>2. /\ ~btTask[t].ready /\ btTask[t].call = "none" /\ btTask[t].unverified = {}
        /\ btTask[t].closing = "open" /\ ~btTask[t].dropped /\ btTask[t].wait = "off"
    BY DEF BtInit, BtFresh
  <2> QED
    BY <2>1, <2>2 DEF TaskInv, CallOK, ClosedOK, DamageSeen, ClaimTrue, FinishedKeeps, FinishedGood
<1> QED
  BY <1>1, <1>3, <1>4 DEF BtInv

\* addTorrent up to its wait: a fetcher that has verified nothing yet.
LEMMA AddSteps ==
  ASSUME BtInv, NEW t \in BtTasks, NEW present, NEW call_ \in {"resolving", "adding"},
         present = client \/ (present = AfterDrop(t) /\ ~btTask[t].resolved),
         call_ = "resolving" => ~btTask[t].resolved,
         call_ = "adding" => btTask[t].resolved /\ ~btTask[t].dropped /\ ~btTask[t].ready,
         MuFree(t), AddTorrent(t, present, call_), UNCHANGED <<metadata, btDisk, finishedOf, removedOf>>
  PROVE  BtInv'
<1> USE DEF BtInv, TasksTyped
<1>1. /\ btTask[t] \in TaskRecs /\ TaskInv(t) /\ btTask[t].call = "none"
      /\ client \in Clients /\ (client.bound => client.owner \in BtTasks)
  BY DEF MuFree, ClientTyped
<1>2. \/ present = client
      \/ present = NoTorrent /\ client.owner = t /\ ~btTask[t].resolved
  BY DEF AfterDrop
<1>a. btTask[t].wait # "finished"
  \* A finished task is resolved, so that only a Start could add its torrent; it is
  \* then ready or dropped.
  BY <1>1 DEF TaskInv, FinishedKeeps
<1>3. CASE present.owner = Nobody
  <2> DEFINE c == [NoTorrent EXCEPT !.owner = t, !.info = metadata]
             r == [btTask[t] EXCEPT !.call = call_, !.handle = TRUE, !.ready = FALSE]
  <2>1. client' = c /\ btTask' = [btTask EXCEPT ![t] = btTask'[t]] /\ btTask'[t] = r
    BY <1>3 DEF AddTorrent
  <2>2. /\ c \in Clients /\ c.owner = t /\ ~c.bound /\ ~c.allowed
        /\ \A f \in BtFiles : c.claim[f] = "no"
    BY NewTorrent DEF Clients
  <2>3. r \in TaskRecs
    BY <1>1 DEF TaskRecs
  <2>4. /\ r.call = call_ /\ ~r.ready /\ r.unverified = btTask[t].unverified
        /\ r.resolved = btTask[t].resolved /\ r.closing = btTask[t].closing
        /\ r.dropped = btTask[t].dropped /\ r.wait = btTask[t].wait
    BY <1>1 DEF TaskRecs
  <2>5. client.owner \in {t, Nobody}
    BY <1>2, <1>3
  <2> HIDE DEF c, r
  <2>6. ClientTyped'
    BY <2>1, <2>2 DEF ClientTyped
  <2>7. TaskInv(t)'
    BY <1>1, <1>a, <2>1, <2>2, <2>4
       DEF TaskInv, CallOK, ClosedOK, DamageSeen, ClaimTrue, FinishedKeeps, FinishedGood
  <2> QED
    BY <2>1, <2>2, <2>3, <2>5, <2>6, <2>7, OneTaskQuiet
<1>4. CASE present.owner # Nobody
  <2> DEFINE r == [btTask[t] EXCEPT !.handle = FALSE, !.ready = FALSE]
  <2>1. client' = client /\ btTask' = [btTask EXCEPT ![t] = btTask'[t]] /\ btTask'[t] = r
    BY <1>2, <1>4, NewTorrent DEF AddTorrent
  <2>2. r \in TaskRecs
    BY <1>1 DEF TaskRecs
  <2>3. /\ r.call = "none" /\ ~r.ready /\ r.unverified = btTask[t].unverified
        /\ r.resolved = btTask[t].resolved /\ r.closing = btTask[t].closing
        /\ r.dropped = btTask[t].dropped /\ r.wait = btTask[t].wait
    BY <1>1 DEF TaskRecs
  <2> HIDE DEF r
  <2>4. ClientTyped'
    BY <2>1 DEF ClientTyped
  <2>5. TaskInv(t)'
    BY <1>1, <1>a, <2>1, <2>3
       DEF TaskInv, CallOK, ClosedOK, DamageSeen, ClaimTrue, FinishedKeeps, FinishedGood
  <2> QED
    BY <2>1, <2>2, <2>4, <2>5, OneTaskQuiet
<1> QED
  BY <1>3, <1>4

\* Bind, for a fetcher that is ready or becomes so: everything is still to be
\* verified where the torrent was not bound before.
LEMMA BindSteps ==
  ASSUME BtInv, NEW t \in BtTasks, client.owner = t, client.info, btTask[t].resolved,
         \/ btTask[t].call = "adding"
         \/ btTask[t].call = "none" /\ btTask[t].ready /\ ~btTask[t].dropped,
         Bind(t, client), UNCHANGED <<metadata, btDisk, finishedOf, removedOf>>
  PROVE  BtInv'
<1> USE DEF BtInv, TasksTyped
<1>1. btTask[t] \in TaskRecs /\ TaskInv(t) /\ client \in Clients /\ client.bound \in BOOLEAN
  BY DEF ClientTyped, Clients
<1> DEFINE c == [client EXCEPT !.bound = TRUE]
           todo == IF client.bound THEN {} ELSE BtFiles
           r == [btTask[t] EXCEPT !.call = "verifying", !.ready = TRUE, !.unverified = todo]
<1>2. client' = c /\ btTask' = [btTask EXCEPT ![t] = btTask'[t]] /\ btTask'[t] = r
  BY DEF Bind
<1>3. /\ c \in Clients /\ c.owner = t /\ c.bound /\ c.info = client.info
      /\ c.allowed = client.allowed /\ c.claim = client.claim
  BY <1>1 DEF Clients
<1> HIDE DEF c
<1>4. todo \in SUBSET BtFiles
  OBVIOUS
<1>a. (client.bound => todo = {}) /\ (~client.bound => todo = BtFiles)
  OBVIOUS
<1> HIDE DEF todo
<1>5. r \in TaskRecs
  BY <1>1, <1>4 DEF TaskRecs
<1>6. /\ r.call = "verifying" /\ r.ready /\ r.unverified = todo
      /\ r.resolved = btTask[t].resolved /\ r.closing = btTask[t].closing
      /\ r.dropped = btTask[t].dropped /\ r.wait = btTask[t].wait
  BY <1>1 DEF TaskRecs
<1> HIDE DEF r
<1>7. ClientTyped'
  BY <1>2, <1>3 DEF ClientTyped
<1>8. CallOK(t)' /\ ClosedOK(t)'
  BY <1>1, <1>2, <1>3, <1>6 DEF TaskInv, CallOK, ClosedOK
<1>9. DamageSeen(t)'
  BY <1>1, <1>2, <1>3, <1>6, <1>a DEF TaskInv, CallOK, DamageSeen
<1>10. ClaimTrue(t)' /\ FinishedGood(t)'
  BY <1>1, <1>2, <1>3, <1>6 DEF TaskInv, ClaimTrue, FinishedGood
<1>11. FinishedKeeps(t)'
  BY <1>1, <1>2, <1>3, <1>6, <1>a DEF TaskInv, CallOK, FinishedKeeps
<1> QED
  BY <1>2, <1>3, <1>5, <1>7, <1>8, <1>9, <1>10, <1>11, OneTaskQuiet DEF TaskInv

\* Resolve and Start, and what they wait for.
LEMMA CallBegins ==
  ASSUME BtInv, NEW t \in BtTasks, BtResolve(t) \/ BtStart(t)
  PROVE  BtInv'
<1>1. TaskInv(t)
  BY DEF BtInv
<1>2. CASE BtResolve(t)
  <2> DEFINE present == IF btTask[t].handle THEN AfterDrop(t) ELSE client
  <2>1. /\ AddTorrent(t, present, "resolving") /\ MuFree(t) /\ ~btTask[t].resolved
        /\ UNCHANGED <<metadata, btDisk, finishedOf, removedOf>>
    BY <1>2 DEF BtResolve
  <2>2. present = client \/ present = AfterDrop(t)
    OBVIOUS
  <2> HIDE DEF present
  <2> QED
    BY <2>1, <2>2, AddSteps
<1>3. CASE BtStart(t) /\ btTask[t].ready
  <2>1. /\ Bind(t, client) /\ btTask[t].call = "none" /\ btTask[t].resolved /\ ~btTask[t].dropped
        /\ UNCHANGED <<metadata, btDisk, finishedOf, removedOf>>
    BY <1>3 DEF BtStart, MuFree
  <2>2. client.owner = t /\ client.info
    BY <1>1, <1>3 DEF TaskInv, CallOK
  <2> QED
    BY <1>3, <2>1, <2>2, BindSteps
<1>4. CASE BtStart(t) /\ ~btTask[t].ready
  <2>1. /\ AddTorrent(t, client, "adding") /\ MuFree(t) /\ btTask[t].resolved /\ ~btTask[t].dropped
        /\ UNCHANGED <<metadata, btDisk, finishedOf, removedOf>>
    BY <1>4 DEF BtStart
  <2> QED
    BY <1>4, <2>1, AddSteps
<1> QED
  BY <1>2, <1>3, <1>4

\* GotInfo: Resolve ends, or Start goes on with Bind.
LEMMA GotInfoSteps ==
  ASSUME BtInv, NEW t \in BtTasks, GotInfo(t)
  PROVE  BtInv'
<1> USE DEF BtInv, TasksTyped
<1>1. btTask[t] \in TaskRecs /\ TaskInv(t)
  OBVIOUS
<1>2. CASE btTask[t].call = "adding"
  BY <1>1, <1>2, BindSteps DEF GotInfo, TaskInv, CallOK
<1>3. CASE btTask[t].call = "resolving"
  <2> DEFINE chosen == IF btTask[t].selected = {} THEN BtFiles ELSE btTask[t].selected
             r == [btTask[t] EXCEPT !.call = "none", !.ready = TRUE, !.resolved = TRUE,
                                    !.selected = chosen]
  <2>1. /\ client' = client /\ btTask' = [btTask EXCEPT ![t] = btTask'[t]] /\ btTask'[t] = r
        /\ client.owner = t /\ client.info /\ UNCHANGED <<metadata, btDisk, finishedOf, removedOf>>
    BY <1>3 DEF GotInfo
  <2>2. chosen \in SUBSET BtFiles
    BY <1>1 DEF TaskRecs
  <2> HIDE DEF chosen
  <2>3. r \in TaskRecs
    BY <1>1, <2>2 DEF TaskRecs
  <2>4. /\ r.call = "none" /\ r.ready /\ r.unverified = btTask[t].unverified
        /\ r.resolved /\ r.closing = btTask[t].closing
        /\ r.dropped = btTask[t].dropped /\ r.wait = btTask[t].wait
    BY <1>1 DEF TaskRecs
  <2> HIDE DEF r
  <2>5. ClientTyped'
    BY <2>1 DEF ClientTyped
  <2>6. TaskInv(t)'
    BY <1>1, <1>3, <2>1, <2>4
       DEF TaskInv, CallOK, ClosedOK, DamageSeen, ClaimTrue, FinishedKeeps, FinishedGood
  <2> QED
    BY <2>1, <2>3, <2>5, <2>6, OneTaskQuiet
<1> QED
  BY <1>2, <1>3 DEF GotInfo

\* The torrent goes: the context ends the wait for the metadata, or Close has the
\* mutex.
LEMMA TorrentGoes ==
  ASSUME BtInv, NEW t \in BtTasks, WaitCut(t) \/ BtCloseDrops(t)
  PROVE  BtInv'
<1> USE DEF BtInv, TasksTyped
<1>1. btTask[t] \in TaskRecs /\ TaskInv(t)
  OBVIOUS
<1>2. /\ client' = AfterDrop(t) /\ UNCHANGED <<metadata, btDisk, finishedOf, removedOf>>
      /\ btTask[t].dropped
  BY <1>1 DEF WaitCut, BtCloseDrops, TaskInv, CallOK
<1>3. /\ client' = client \/ (client.owner = t /\ client' = NoTorrent)
      /\ client'.owner # t
  BY <1>2, NewTorrent, BtAssumption DEF AfterDrop
<1>4. ClientTyped'
  BY <1>3, NewTorrent DEF ClientTyped
<1>5. CASE WaitCut(t)
  <2>1. btTask' = [btTask EXCEPT ![t] = btTask'[t]] /\ btTask'[t] = [btTask[t] EXCEPT !.call = "none"]
    BY <1>5 DEF WaitCut
  <2>2. [btTask[t] EXCEPT !.call = "none"] \in TaskRecs
    BY <1>1 DEF TaskRecs
  <2>3. /\ btTask'[t].call = "none" /\ ~btTask'[t].ready
        /\ btTask'[t].unverified = {} /\ btTask'[t].resolved = btTask[t].resolved
        /\ btTask'[t].closing = btTask[t].closing /\ btTask'[t].dropped
        /\ btTask'[t].wait = btTask[t].wait
    BY <1>1, <1>2, <1>5, <2>1 DEF TaskRecs, WaitCut, TaskInv, CallOK
  <2>4. TaskInv(t)'
    BY <1>1, <1>2, <1>3, <2>3
       DEF TaskInv, CallOK, ClosedOK, DamageSeen, ClaimTrue, FinishedKeeps, FinishedGood
  <2> QED
    BY <1>2, <1>3, <1>4, <2>1, <2>2, <2>4, NewTorrent, OneTaskQuiet
<1>6. CASE BtCloseDrops(t)
  <2>1. /\ btTask' = [btTask EXCEPT ![t] = btTask'[t]]
        /\ btTask'[t] = [btTask[t] EXCEPT !.closing = "closed", !.ready = FALSE]
    BY <1>6 DEF BtCloseDrops
  <2>2. [btTask[t] EXCEPT !.closing = "closed", !.ready = FALSE] \in TaskRecs
    BY <1>1 DEF TaskRecs
  <2>3. /\ btTask'[t].call = "none" /\ ~btTask'[t].ready
        /\ btTask'[t].unverified = {} /\ btTask'[t].resolved = btTask[t].resolved
        /\ btTask'[t].closing = "closed" /\ btTask'[t].dropped
        /\ btTask'[t].wait = btTask[t].wait
    BY <1>1, <1>2, <1>6, <2>1 DEF TaskRecs, BtCloseDrops, MuFree, TaskInv, CallOK
  <2>4. TaskInv(t)'
    BY <1>1, <1>2, <1>3, <2>3
       DEF TaskInv, CallOK, ClosedOK, DamageSeen, ClaimTrue, FinishedKeeps, FinishedGood
  <2> QED
    BY <1>2, <1>3, <1>4, <2>1, <2>2, <2>4, NewTorrent, OneTaskQuiet
<1> QED
  BY <1>5, <1>6

\* Steps that change what a fetcher knows of itself and nothing of the torrent.
LEMMA OwnSteps ==
  ASSUME BtInv, NEW t \in BtTasks,
         VerifyCut(t) \/ BtClose(t) \/ UploadEnds(t) \/ BtWait(t) \/ WaitDropped(t)
  PROVE  BtInv'
<1> USE DEF BtInv, TasksTyped
<1>1. btTask[t] \in TaskRecs /\ TaskInv(t)
  OBVIOUS
<1>2. UNCHANGED <<client, metadata, btDisk, finishedOf, removedOf>> /\ ClientTyped'
  BY DEF VerifyCut, BtClose, UploadEnds, BtWait, WaitDropped, ClientTyped
<1>3. btTask' = [btTask EXCEPT ![t] = btTask'[t]] /\ btTask'[t] \in TaskRecs
  <2>1. CASE VerifyCut(t)
    <3>1. /\ btTask' = [btTask EXCEPT ![t] = btTask'[t]]
          /\ btTask'[t] = [btTask[t] EXCEPT !.call = "none", !.unverified = {}]
      BY <2>1 DEF VerifyCut
    <3>2. [btTask[t] EXCEPT !.call = "none", !.unverified = {}] \in TaskRecs
      BY <1>1 DEF TaskRecs
    <3> QED
      BY <3>1, <3>2
  <2>2. CASE BtClose(t)
    <3>1. /\ btTask' = [btTask EXCEPT ![t] = btTask'[t]]
          /\ \/ btTask'[t] = [btTask[t] EXCEPT !.closing = "closing", !.dropped = TRUE]
             \/ btTask'[t] = [btTask[t] EXCEPT !.closing = "closing", !.dropped = TRUE,
                                               !.upload = "ended"]
      BY <2>2 DEF BtClose
    <3>2. /\ [btTask[t] EXCEPT !.closing = "closing", !.dropped = TRUE] \in TaskRecs
          /\ [btTask[t] EXCEPT !.closing = "closing", !.dropped = TRUE, !.upload = "ended"] \in TaskRecs
      BY <1>1 DEF TaskRecs
    <3> QED
      BY <3>1, <3>2
  <2>3. CASE UploadEnds(t)
    BY <1>1, <2>3 DEF UploadEnds, TaskRecs
  <2>4. CASE BtWait(t)
    BY <1>1, <2>4 DEF BtWait, TaskRecs
  <2>5. CASE WaitDropped(t)
    BY <1>1, <2>5 DEF WaitDropped, TaskRecs
  <2> QED
    BY <2>1, <2>2, <2>3, <2>4, <2>5
<1>4. /\ btTask'[t].ready = btTask[t].ready /\ btTask'[t].resolved = btTask[t].resolved
      /\ \/ btTask'[t].call = btTask[t].call /\ btTask'[t].unverified = btTask[t].unverified
         \/ /\ btTask[t].call = "verifying" /\ btTask[t].dropped
            /\ btTask'[t].call = "none" /\ btTask'[t].unverified = {}
      /\ \/ btTask'[t].closing = btTask[t].closing /\ btTask'[t].dropped = btTask[t].dropped
         \/ btTask'[t].closing = "closing" /\ btTask'[t].dropped
      /\ btTask'[t].wait = btTask[t].wait \/ btTask'[t].wait # "finished"
  BY <1>1 DEF VerifyCut, BtClose, UploadEnds, BtWait, WaitDropped, TaskRecs
<1>5. btTask[t].dropped => btTask'[t].dropped
  BY <1>4
<1>6. CallOK(t)' /\ ClosedOK(t)'
  BY <1>1, <1>2, <1>4 DEF TaskInv, CallOK, ClosedOK
<1>7. DamageSeen(t)' /\ ClaimTrue(t)' /\ FinishedGood(t)'
  BY <1>1, <1>2, <1>4, <1>5 DEF TaskInv, DamageSeen, ClaimTrue, FinishedGood
<1>8. FinishedKeeps(t)'
  BY <1>1, <1>2, <1>4, <1>5 DEF TaskInv, FinishedKeeps
<1> QED
  BY <1>2, <1>3, <1>6, <1>7, <1>8, OneTaskQuiet DEF TaskInv

\* The next piece is verified.
LEMMA VerifySteps ==
  ASSUME BtInv, NEW t \in BtTasks, Verify(t)
  PROVE  BtInv'
<1> USE DEF BtInv, TasksTyped
<1>1. btTask[t] \in TaskRecs /\ TaskInv(t) /\ client \in Clients
  BY DEF ClientTyped
<1>2. PICK f \in btTask[t].unverified :
        /\ client' = [client EXCEPT !.claim[f] = IF btDisk[t][f] = "good" THEN "yes" ELSE "no"]
        /\ btDisk' = [btDisk EXCEPT ![t][f] = IF @ = "bad" THEN "part" ELSE @]
        /\ removedOf' = [removedOf EXCEPT ![t] = @ \ {f}]
        /\ btTask' = [btTask EXCEPT ![t].unverified = @ \ {f}]
  BY DEF Verify
<1>3. /\ f \in BtFiles /\ btTask[t].call = "verifying" /\ ~btTask[t].dropped
      /\ btTask[t].ready /\ client.owner = t /\ client.bound
      /\ btTask[t].wait # "finished" /\ UNCHANGED <<metadata, finishedOf>>
  BY <1>1, <1>2 DEF Verify, TaskRecs, TaskInv, CallOK, FinishedKeeps
<1>4. /\ btTask' = [btTask EXCEPT ![t] = btTask'[t]] /\ btTask'[t] \in TaskRecs
      /\ btTask'[t].unverified = btTask[t].unverified \ {f}
      /\ btTask'[t].call = "verifying" /\ ~btTask'[t].dropped /\ btTask'[t].ready
      /\ btTask'[t].resolved = btTask[t].resolved /\ btTask'[t].closing = btTask[t].closing
      /\ btTask'[t].wait = btTask[t].wait
  BY <1>1, <1>2, <1>3 DEF TaskRecs
<1>5. /\ btDisk' = [btDisk EXCEPT ![t] = btDisk'[t]]
      /\ btDisk'[t] \in [BtFiles -> {"none", "part", "good", "bad"}]
      /\ \A g \in BtFiles : btDisk'[t][g] = IF g = f /\ btDisk[t][g] = "bad" THEN "part" ELSE btDisk[t][g]
  BY <1>2, <1>3
<1>6. /\ removedOf' = [removedOf EXCEPT ![t] = removedOf'[t]] /\ removedOf'[t] = removedOf[t] \ {f}
      /\ removedOf'[t] \in SUBSET BtFiles
  BY <1>2
<1>7. /\ client' \in Clients /\ client'.owner = t /\ client'.bound /\ client'.info = client.info
      /\ client'.allowed = client.allowed
      /\ \A g \in BtFiles : client'.claim[g] = IF g = f THEN IF btDisk[t][f] = "good" THEN "yes" ELSE "no"
                                               ELSE client.claim[g]
  BY <1>1, <1>2, <1>3 DEF Clients
<1>8. ClientTyped'
  BY <1>7 DEF ClientTyped
<1>9. CallOK(t)' /\ ClosedOK(t)'
  BY <1>1, <1>3, <1>4, <1>7 DEF TaskInv, CallOK, ClosedOK
<1>10. DamageSeen(t)' /\ ClaimTrue(t)'
  BY <1>1, <1>3, <1>4, <1>5, <1>6, <1>7 DEF TaskInv, DamageSeen, ClaimTrue
<1>11. FinishedKeeps(t)' /\ FinishedGood(t)'
  BY <1>3, <1>4 DEF FinishedKeeps, FinishedGood
<1>12. /\ finishedOf' = [finishedOf EXCEPT ![t] = finishedOf'[t]] /\ finishedOf'[t] \in SUBSET BtFiles
  BY <1>3
<1> QED
  BY <1>3, <1>4, <1>5, <1>6, <1>7, <1>8, <1>9, <1>10, <1>11, <1>12, OneTask DEF TaskInv

\* The rest of Start: every piece is verified, so that what stands under its
\* final name is good.
LEMMA StartEndsSteps ==
  ASSUME BtInv, NEW t \in BtTasks, StartEnds(t)
  PROVE  BtInv'
<1> USE DEF BtInv, TasksTyped
<1>1. btTask[t] \in TaskRecs /\ TaskInv(t) /\ client \in Clients
  BY DEF ClientTyped
<1> DEFINE claims == [f \in BtFiles |-> IF btDisk[t][f] \in {"good", "bad"} THEN "yes" ELSE client.claim[f]]
           wanted == client.wanted \cup btTask[t].selected
           upload == IF btTask[t].upload = "off" THEN "on" ELSE btTask[t].upload
           c == [client EXCEPT !.allowed = TRUE, !.wanted = wanted, !.claim = claims]
           r == [btTask[t] EXCEPT !.call = "none", !.upload = upload]
<1>2. /\ client' = c /\ btTask' = [btTask EXCEPT ![t] = btTask'[t]] /\ btTask'[t] = r
      /\ btTask[t].call = "verifying" /\ btTask[t].unverified = {}
      /\ UNCHANGED <<metadata, btDisk, finishedOf, removedOf>>
  BY DEF StartEnds
<1>3. client.owner = t /\ client.bound /\ btTask[t].closing # "closed"
  BY <1>1, <1>2 DEF TaskInv, CallOK, ClosedOK
<1>4. /\ claims \in [BtFiles -> {"no", "hashing", "yes"}]
      /\ wanted \in SUBSET BtFiles /\ upload \in {"off", "on", "ended"}
  BY <1>1 DEF Clients, TaskRecs
<1>5. \A f \in BtFiles : /\ claims[f] = "yes" => btDisk[t][f] = "good" \/ f \in removedOf[t]
                         /\ client.claim[f] = "yes" => claims[f] = "yes"
  BY <1>1, <1>2, <1>3 DEF TaskInv, DamageSeen, ClaimTrue
<1> HIDE DEF claims, wanted, upload
<1>6. /\ c \in Clients /\ c.owner = t /\ c.bound /\ c.info = client.info /\ c.claim = claims
  BY <1>1, <1>3, <1>4 DEF Clients
<1>7. r \in TaskRecs
  BY <1>1, <1>4 DEF TaskRecs
<1>8. /\ r.call = "none" /\ r.ready = btTask[t].ready /\ r.unverified = {}
      /\ r.resolved = btTask[t].resolved /\ r.closing = btTask[t].closing
      /\ r.dropped = btTask[t].dropped /\ r.wait = btTask[t].wait
  BY <1>1, <1>2 DEF TaskRecs
<1> HIDE DEF c, r
<1>9. ClientTyped'
  BY <1>2, <1>6 DEF ClientTyped
<1>10. CallOK(t)' /\ ClosedOK(t)'
  BY <1>1, <1>2, <1>3, <1>6, <1>8 DEF TaskInv, CallOK, ClosedOK
<1>11. DamageSeen(t)'
  BY <1>1, <1>2, <1>3, <1>6, <1>8 DEF TaskInv, DamageSeen
<1>12. ClaimTrue(t)' /\ FinishedGood(t)'
  BY <1>1, <1>2, <1>5, <1>6, <1>8 DEF TaskInv, ClaimTrue, FinishedGood
<1>13. FinishedKeeps(t)'
  BY <1>1, <1>2, <1>3, <1>5, <1>6, <1>8 DEF TaskInv, FinishedKeeps
<1> QED
  BY <1>2, <1>3, <1>6, <1>7, <1>9, <1>10, <1>11, <1>12, <1>13, OneTaskQuiet DEF TaskInv

\* Pause, Patch and the metadata of a peer change the torrent, and its claims not.
LEMMA TorrentChanges ==
  ASSUME BtInv, NEW t \in BtTasks,
         \/ BtPause(t)
         \/ \E files \in SUBSET BtFiles : BtPatch(t, files)
         \/ client.owner = t /\ MetadataArrives
  PROVE  BtInv'
<1> USE DEF BtInv, TasksTyped
<1>1. btTask[t] \in TaskRecs /\ TaskInv(t) /\ client \in Clients
  BY DEF ClientTyped
<1>2. UNCHANGED <<metadata, btDisk, finishedOf, removedOf>>
  BY DEF BtPause, BtPatch, MetadataArrives
<1>3. /\ btTask' = [btTask EXCEPT ![t] = btTask'[t]] /\ btTask'[t] \in TaskRecs
      /\ btTask'[t].ready = btTask[t].ready /\ btTask'[t].resolved = btTask[t].resolved
      /\ btTask'[t].call = btTask[t].call /\ btTask'[t].unverified = btTask[t].unverified
      /\ btTask'[t].closing = btTask[t].closing /\ btTask'[t].dropped = btTask[t].dropped
      /\ btTask'[t].wait = btTask[t].wait
  <2>1. CASE UNCHANGED btTask
    BY <1>1, <2>1
  <2>2. ASSUME NEW files \in SUBSET BtFiles, btTask' = [btTask EXCEPT ![t].selected = files]
        PROVE  /\ btTask' = [btTask EXCEPT ![t] = btTask'[t]] /\ btTask'[t] \in TaskRecs
               /\ btTask'[t].ready = btTask[t].ready /\ btTask'[t].resolved = btTask[t].resolved
               /\ btTask'[t].call = btTask[t].call /\ btTask'[t].unverified = btTask[t].unverified
               /\ btTask'[t].closing = btTask[t].closing /\ btTask'[t].dropped = btTask[t].dropped
               /\ btTask'[t].wait = btTask[t].wait
    BY <1>1, <2>2 DEF TaskRecs
  <2> QED
    BY <2>1, <2>2 DEF BtPause, BtPatch, MetadataArrives
<1>4. /\ client' \in Clients /\ client'.owner = client.owner /\ client'.bound = client.bound
      /\ client'.claim = client.claim
      /\ client.info => client'.info
      /\ client'.allowed => client.allowed
      /\ client.owner # t => client' = client
  <2>1. CASE client' = client
    BY <1>1, <2>1
  <2>2. CASE client.owner = t /\ client' = [client EXCEPT !.allowed = FALSE]
    BY <1>1, <2>2 DEF Clients
  <2>3. CASE client.owner = t /\ client' = [client EXCEPT !.info = TRUE]
    BY <1>1, <2>3 DEF Clients
  <2>4. ASSUME NEW files \in SUBSET BtFiles,
               client.owner = t, client' = [client EXCEPT !.wanted = files]
        PROVE  /\ client' \in Clients /\ client'.owner = client.owner /\ client'.bound = client.bound
               /\ client'.claim = client.claim /\ client'.info = client.info
               /\ client'.allowed = client.allowed
    BY <1>1, <2>4 DEF Clients
  <2> QED
    BY <2>1, <2>2, <2>3, <2>4 DEF BtPause, BtPatch, MetadataArrives
<1>5. ClientTyped'
  BY <1>4 DEF ClientTyped
<1>6. TaskInv(t)'
  BY <1>1, <1>2, <1>3, <1>4
     DEF TaskInv, CallOK, ClosedOK, DamageSeen, ClaimTrue, FinishedKeeps, FinishedGood
<1> QED
  BY <1>2, <1>3, <1>4, <1>5, <1>6, OneTaskQuiet

\* finishDownload: what is selected is claimed, hence there; what it removes is
\* not selected.
LEMMA FinishSteps ==
  ASSUME BtInv, NEW t \in BtTasks, FinishDownload(t)
  PROVE  BtInv'
<1> USE DEF BtInv, TasksTyped
<1>1. btTask[t] \in TaskRecs /\ TaskInv(t) /\ client \in Clients
  BY DEF ClientTyped
<1> DEFINE selected == btTask[t].selected
<1>2. PICK gone \in SUBSET (BtFiles \ selected) :
        /\ btDisk' = [btDisk EXCEPT ![t] = [f \in BtFiles |-> IF f \in gone THEN "none" ELSE @[f]]]
        /\ removedOf' = [removedOf EXCEPT ![t] = @ \cup gone]
        /\ \/ /\ finishedOf' = [finishedOf EXCEPT ![t] = selected]
              /\ btTask' = [btTask EXCEPT ![t].wait = "finished"]
           \/ /\ btTask' = [btTask EXCEPT ![t].wait = "ended"]
              /\ UNCHANGED finishedOf
  BY DEF FinishDownload
<1>3. /\ UNCHANGED <<client, metadata>> /\ btTask[t].call = "none" /\ btTask[t].ready
      /\ selected # {} /\ selected \subseteq BtFiles
      /\ \A f \in selected : client.claim[f] = "yes"
  BY <1>1 DEF FinishDownload, MuFree, IsDone, TaskRecs
<1>4. /\ client.owner = t /\ btTask[t].resolved /\ client.bound /\ btTask[t].unverified = {}
  <2>1. client.owner = t /\ btTask[t].resolved /\ btTask[t].unverified = {}
    BY <1>1, <1>3 DEF TaskInv, CallOK
  <2>2. client.bound
    BY <1>3 DEF ClientTyped
  <2> QED
    BY <2>1, <2>2
<1>5. \A f \in selected : btDisk[t][f] = "good" \/ f \in removedOf[t]
  BY <1>1, <1>3, <1>4 DEF TaskInv, ClaimTrue
<1>6. /\ btDisk' = [btDisk EXCEPT ![t] = btDisk'[t]]
      /\ \A f \in BtFiles : btDisk'[t][f] = IF f \in gone THEN "none" ELSE btDisk[t][f]
      /\ btDisk'[t] \in [BtFiles -> {"none", "part", "good", "bad"}]
  BY <1>2
<1>7. /\ removedOf' = [removedOf EXCEPT ![t] = removedOf'[t]]
      /\ removedOf'[t] = removedOf[t] \cup gone /\ removedOf'[t] \in SUBSET BtFiles
  BY <1>2
<1>8. /\ btTask' = [btTask EXCEPT ![t] = btTask'[t]] /\ btTask'[t] \in TaskRecs
      /\ btTask'[t].ready /\ btTask'[t].resolved = btTask[t].resolved
      /\ btTask'[t].call = "none" /\ btTask'[t].unverified = {}
      /\ btTask'[t].closing = btTask[t].closing /\ btTask'[t].dropped = btTask[t].dropped
  <2>1. PICK wait \in {"finished", "ended"} : btTask' = [btTask EXCEPT ![t].wait = wait]
    BY <1>2
  <2> QED
    BY <1>1, <1>3, <1>4, <2>1 DEF TaskRecs
<1>9. /\ finishedOf' = [finishedOf EXCEPT ![t] = finishedOf'[t]] /\ finishedOf'[t] \in SUBSET BtFiles
      /\ \/ btTask'[t].wait = "finished" /\ finishedOf'[t] = selected
         \/ btTask'[t].wait = "ended" /\ finishedOf'[t] = finishedOf[t]
  BY <1>1, <1>2, <1>3 DEF TaskRecs
<1>10. ClientTyped'
  BY <1>3 DEF ClientTyped
<1>11. CallOK(t)' /\ ClosedOK(t)'
  BY <1>1, <1>3, <1>4, <1>8 DEF TaskInv, CallOK, ClosedOK
<1>12. DamageSeen(t)' /\ ClaimTrue(t)'
  BY <1>1, <1>3, <1>4, <1>6, <1>7, <1>8 DEF TaskInv, DamageSeen, ClaimTrue
<1>13. FinishedKeeps(t)'
  BY <1>3, <1>4, <1>8, <1>9 DEF FinishedKeeps
<1>14. FinishedGood(t)'
  BY <1>3, <1>5, <1>6, <1>7, <1>9 DEF FinishedGood
<1> QED
  BY <1>3, <1>6, <1>7, <1>8, <1>9, <1>10, <1>11, <1>12, <1>13, <1>14, OneTask DEF TaskInv

\* A piece comes from a peer, and is hashed.
LEMMA PieceSteps ==
  ASSUME BtInv, NEW f \in BtFiles, PieceArrives(f) \/ PieceHashed(f),
         NEW t \in BtTasks, client.owner = t
  PROVE  BtInv'
<1> USE DEF BtInv, TasksTyped
<1>1. client \in Clients /\ client.bound
  BY DEF ClientTyped, PieceArrives, PieceHashed
<1>2. btTask[t] \in TaskRecs /\ TaskInv(t)
  BY <1>1
<1>3. UNCHANGED <<metadata, btTask, finishedOf>> /\ client.claim[f] # "yes"
  BY DEF PieceArrives, PieceHashed
<1>4. /\ client' \in Clients /\ client'.owner = t /\ client'.bound /\ client'.info = client.info
      /\ client'.allowed = client.allowed
      /\ \A g \in BtFiles \ {f} : client'.claim[g] = client.claim[g]
  <2>1. PICK v \in {"hashing", "yes", "no"} : client' = [client EXCEPT !.claim[f] = v]
    BY DEF PieceArrives, PieceHashed
  <2> QED
    BY <1>1, <2>1 DEF Clients
<1>5. \/ /\ client'.claim[f] # "yes" /\ UNCHANGED removedOf
         /\ UNCHANGED btDisk \/ btDisk' = [btDisk EXCEPT ![t][f] = "part"]
      \/ /\ client'.claim[f] = "yes"
         /\ btDisk' = [btDisk EXCEPT ![t][f] = "good"]
         /\ removedOf' = [removedOf EXCEPT ![t] = @ \ {f}]
  BY <1>1 DEF PieceArrives, PieceHashed, Clients
<1>6. /\ btDisk' = [btDisk EXCEPT ![t] = btDisk'[t]]
      /\ btDisk'[t] \in [BtFiles -> {"none", "part", "good", "bad"}]
      /\ \A g \in BtFiles \ {f} : btDisk'[t][g] = btDisk[t][g]
      /\ btDisk'[t][f] \in {"part", "good", btDisk[t][f]}
      /\ removedOf' = [removedOf EXCEPT ![t] = removedOf'[t]] /\ removedOf'[t] \in SUBSET BtFiles
      /\ \A g \in BtFiles \ {f} : g \in removedOf'[t] <=> g \in removedOf[t]
      /\ \/ client'.claim[f] # "yes" /\ removedOf'[t] = removedOf[t]
         \/ client'.claim[f] = "yes" /\ btDisk'[t][f] = "good"
  <2>1. CASE client'.claim[f] # "yes" /\ UNCHANGED removedOf /\ UNCHANGED btDisk
    BY <2>1
  <2>2. CASE /\ client'.claim[f] # "yes" /\ UNCHANGED removedOf
             /\ btDisk' = [btDisk EXCEPT ![t][f] = "part"]
    BY <2>2
  <2>3. CASE /\ client'.claim[f] = "yes"
             /\ btDisk' = [btDisk EXCEPT ![t][f] = "good"]
             /\ removedOf' = [removedOf EXCEPT ![t] = @ \ {f}]
    BY <2>3
  <2> QED
    BY <1>5, <2>1, <2>2, <2>3
<1>7. ClientTyped'
  BY <1>1, <1>4 DEF ClientTyped
<1>8. CallOK(t)' /\ ClosedOK(t)'
  BY <1>1, <1>2, <1>3, <1>4 DEF TaskInv, CallOK, ClosedOK
<1>9. DamageSeen(t)' /\ ClaimTrue(t)'
  BY <1>1, <1>2, <1>3, <1>4, <1>6 DEF TaskInv, DamageSeen, ClaimTrue
\* What is finished is claimed, and this piece was not.
<1>10. btTask[t].wait = "finished" => f \notin finishedOf[t] \ removedOf[t]
  BY <1>2, <1>3 DEF TaskInv, FinishedKeeps
<1>11. FinishedKeeps(t)' /\ FinishedGood(t)'
  <2>1. btTask'[t] = btTask[t] /\ finishedOf'[t] = finishedOf[t]
    BY <1>3
  <2>2. \A g \in finishedOf'[t] \ removedOf'[t] :
            btTask[t].wait = "finished" => client'.claim[g] = "yes" /\ btDisk'[t][g] = "good"
    <3> SUFFICES ASSUME NEW g \in finishedOf'[t] \ removedOf'[t], btTask[t].wait = "finished"
                 PROVE  client'.claim[g] = "yes" /\ btDisk'[t][g] = "good"
      OBVIOUS
    <3>1. g \in BtFiles /\ g \in finishedOf[t]
      BY <1>1, <2>1
    <3>2. CASE g = f
      BY <1>6, <1>10, <2>1, <3>1, <3>2
    <3>3. CASE g # f
      BY <1>1, <1>2, <1>4, <1>6, <2>1, <3>1, <3>3 DEF TaskInv, FinishedKeeps, FinishedGood
    <3> QED
      BY <3>2, <3>3
  <2>3. FinishedKeeps(t)'
    BY <1>1, <1>2, <1>4, <2>1, <2>2 DEF TaskInv, FinishedKeeps
  <2>4. FinishedGood(t)'
    BY <2>1, <2>2 DEF FinishedGood
  <2> QED
    BY <2>3, <2>4
<1>12. /\ btTask' = [btTask EXCEPT ![t] = btTask'[t]] /\ btTask'[t] \in TaskRecs
       /\ finishedOf' = [finishedOf EXCEPT ![t] = finishedOf'[t]] /\ finishedOf'[t] \in SUBSET BtFiles
  BY <1>1, <1>2, <1>3
<1>13. TaskInv(t)' /\ client'.owner = t /\ UNCHANGED metadata
  BY <1>3, <1>4, <1>8, <1>9, <1>11 DEF TaskInv
<1> QED
  BY <1>1, <1>6, <1>7, <1>12, <1>13, OneTask

\* A file is damaged while no fetcher of its task has the torrent.
LEMMA DamageSteps ==
  ASSUME BtInv, NEW t \in BtTasks, NEW f \in BtFiles, Damage(t, f)
  PROVE  BtInv'
<1> USE DEF BtInv, TasksTyped
<1>1. TaskInv(t) /\ btTask[t] \in TaskRecs
  OBVIOUS
<1>2. /\ UNCHANGED <<client, metadata, btTask, finishedOf, removedOf>>
      /\ client.owner # t /\ btTask[t].wait # "finished"
      /\ btDisk' = [btDisk EXCEPT ![t][f] = "bad"]
  BY DEF Damage
<1>3. /\ btDisk' = [btDisk EXCEPT ![t] = btDisk'[t]]
      /\ btDisk'[t] \in [BtFiles -> {"none", "part", "good", "bad"}]
  BY <1>2
<1>4. TaskInv(t)'
  BY <1>1, <1>2 DEF TaskInv, CallOK, ClosedOK, DamageSeen, ClaimTrue, FinishedKeeps, FinishedGood
<1>5. ClientTyped'
  BY <1>2 DEF ClientTyped
<1>6. /\ btTask' = [btTask EXCEPT ![t] = btTask'[t]] /\ btTask'[t] \in TaskRecs
      /\ finishedOf' = [finishedOf EXCEPT ![t] = finishedOf'[t]] /\ finishedOf'[t] \in SUBSET BtFiles
      /\ removedOf' = [removedOf EXCEPT ![t] = removedOf'[t]] /\ removedOf'[t] \in SUBSET BtFiles
  BY <1>1, <1>2
<1> QED
  BY <1>2, <1>3, <1>4, <1>5, <1>6, OneTask

\* After a crash nothing is known but what the records have.
LEMMA BtCrashStep ==
  ASSUME BtInv, BtCrash
  PROVE  BtInv'
<1> USE DEF BtInv, TasksTyped
<1>1. /\ client' = NoTorrent /\ UNCHANGED <<metadata, btDisk, removedOf>>
      /\ btTask' = [t \in BtTasks |-> BtFresh(btTask[t].selected, btTask[t].resolved)]
      /\ finishedOf' = [t \in BtTasks |-> {}]
  BY DEF BtCrash
<1>2. ClientTyped'
  BY <1>1, NewTorrent DEF ClientTyped
<1>3. \A t \in BtTasks : btTask[t].selected \in SUBSET BtFiles /\ btTask[t].resolved \in BOOLEAN
  BY DEF TaskRecs
<1>4. \A t \in BtTasks : BtFresh(btTask[t].selected, btTask[t].resolved) \in TaskRecs
  BY <1>3 DEF BtFresh, TaskRecs
<1>5. TasksTyped'
  BY <1>1, <1>4
<1>6. ASSUME NEW t \in BtTasks PROVE TaskInv(t)'
  <2>1. client'.owner # t
    BY <1>1, NewTorrent, BtAssumption
  <2>2. /\ ~btTask'[t].ready /\ btTask'[t].call = "none" /\ btTask'[t].unverified = {}
        /\ btTask'[t].closing = "open" /\ ~btTask'[t].dropped /\ btTask'[t].wait = "off"
    BY <1>1 DEF BtFresh
  <2> QED
    BY <2>1, <2>2 DEF TaskInv, CallOK, ClosedOK, DamageSeen, ClaimTrue, FinishedKeeps, FinishedGood
<1> QED
  BY <1>2, <1>5, <1>6

\* Every step keeps the invariant.
LEMMA BtSteps == BtInv /\ [BtNext]_btVars => BtInv'
<1> SUFFICES ASSUME BtInv, [BtNext]_btVars PROVE BtInv'
  OBVIOUS
<1>1. ASSUME NEW t \in BtTasks, BtResolve(t) \/ BtStart(t) PROVE BtInv'
  BY <1>1, CallBegins
<1>2. ASSUME NEW t \in BtTasks,
             BtPause(t) \/ \E files \in SUBSET BtFiles : BtPatch(t, files)
      PROVE  BtInv'
  BY <1>2, TorrentChanges
<1>3. ASSUME NEW t \in BtTasks, BtCallMoves(t) PROVE BtInv'
  BY <1>3, GotInfoSteps, TorrentGoes, VerifySteps, OwnSteps, StartEndsSteps DEF BtCallMoves
<1>4. ASSUME NEW t \in BtTasks, BtClose(t) \/ UploadEnds(t) \/ BtWait(t) \/ WaitDropped(t)
      PROVE  BtInv'
  BY <1>4, OwnSteps
<1>5. ASSUME NEW t \in BtTasks, BtCloseDrops(t) PROVE BtInv'
  BY <1>5, TorrentGoes
<1>6. ASSUME NEW t \in BtTasks, FinishDownload(t) PROVE BtInv'
  BY <1>6, FinishSteps
<1>7. ASSUME NEW t \in BtTasks, NEW f \in BtFiles, Damage(t, f) PROVE BtInv'
  BY <1>7, DamageSteps
<1>8. CASE MetadataArrives
  <2>1. client.owner \in BtTasks
    BY <1>8 DEF MetadataArrives, BtInv, ClientTyped, Clients
  <2> QED
    BY <1>8, <2>1, TorrentChanges
<1>9. CASE BtCrash
  BY <1>9, BtCrashStep
<1>10. ASSUME NEW f \in BtFiles, PieceArrives(f) \/ PieceHashed(f) PROVE BtInv'
  <2>1. client.owner \in BtTasks
    BY <1>10 DEF PieceArrives, PieceHashed, BtInv, ClientTyped
  <2> QED
    BY <1>10, <2>1, PieceSteps
<1>11. CASE UNCHANGED btVars
  BY <1>11 DEF btVars, BtInv, TasksTyped, ClientTyped, TaskInv, CallOK, ClosedOK, DamageSeen, ClaimTrue,
               FinishedKeeps, FinishedGood
<1> QED
  BY <1>1, <1>2, <1>3, <1>4, <1>5, <1>6, <1>7, <1>8, <1>9, <1>10, <1>11 DEF BtNext

-----------------------------------------------------------------------------
\* BitTorrent: the theorems

\* The inductive invariant holds in every behaviour of the BitTorrent fetchers.
THEOREM BtInvariant == BtSpec => []BtInv
BY BtStarts, BtSteps, PTL DEF BtSpec

\* The torrent, the fetchers and the files have their types, and a fetcher that
\* is ready has the torrent with its metadata.
THEOREM BtTypeCorrect == BtSpec => []BtTypeOK
<1>1. BtInv => BtTypeOK
  <2> SUFFICES ASSUME BtInv PROVE BtTypeOK
    OBVIOUS
  <2>1. \A t \in BtTasks : btTask[t] \in TaskRecs /\ CallOK(t)
    BY DEF BtInv, TasksTyped, TaskInv
  <2>2. client \in Clients
    BY DEF BtInv, ClientTyped
  <2>3. \A t \in BtTasks : \A f \in BtFiles : btDisk[t][f] \in {"none", "part", "good", "bad"}
    BY DEF BtInv, TasksTyped
  <2> QED
    BY <2>1, <2>2, <2>3 DEF BtTypeOK, TaskRecs, Clients, CallOK
<1> QED
  BY <1>1, BtInvariant, PTL

\* Once Close has returned no data flows for the task, although a Resolve that
\* was on its way may have added the torrent again.
THEOREM NothingAfterClose == BtSpec => []BtClosedNeverDownloads
<1>1. BtInv => BtClosedNeverDownloads
  BY DEF BtInv, TaskInv, ClosedOK, BtClosedNeverDownloads
<1> QED
  BY <1>1, BtInvariant, PTL

\* A task that finishDownload called done has its selected files as the torrent
\* describes them: through damage, crashes, new selections and failed hashes.
THEOREM FinishedIsVerified == BtSpec => []BtDoneVerified
<1>1. BtInv => BtDoneVerified
  BY DEF BtInv, TaskInv, FinishedGood, BtDoneVerified
<1> QED
  BY <1>1, BtInvariant, PTL

-----------------------------------------------------------------------------
(* HttpTakeover: the types of its records *)

\* States of the fetcher and of a connection, and what a validator names, 0 for none
HtStates   == {"idle", "resolved", "running", "paused", "error", "done"}
ConnStates == {"new", "failed", "broken", "refused", "forbidden", "completed"}
Tags       == 0..Len(VersionSizes)

\* The kinds of errors that runConnection tells apart
Kinds == {"terminal", "http", "network"}

\* The server, the resource, a connection, the prefetch and a request
ServerRec == [version : Versions, validator : BOOLEAN, lengths : BOOLEAN, ranges : BOOLEAN,
              checksum : {0, 1}]
ResRec    == [range : BOOLEAN, size : Nat, known : BOOLEAN, unknown : BOOLEAN, tag : Tags,
              eligible : BOOLEAN, pinned : BOOLEAN]
ConnRec   == [there : BOOLEAN, begin : Nat, end : Int, got : Nat, total : Nat, state : ConnStates]
PreRec    == [at : {"off", "reading", "done"}, version : Tags, got : Nat, failed : BOOLEAN,
              file : BOOLEAN, fallback : BOOLEAN]
ReqRec    == [at : {"off", "ask", "asked", "body", "await", "held"}, plain : BOOLEAN,
              range : BOOLEAN, start : Nat, end : Int, ifRange : Tags, probe : BOOLEAN,
              restart : BOOLEAN, version : Tags, from : Nat, read : Nat, expected : Int,
              discard : Nat, why : Kinds \cup {"none"}]

\* The record on disk, which knows of a connection only whether it completed
StoredRec == {r \in [there : BOOLEAN, res : ResRec, conn : ConnRec] :
                r.conn.state \in {"new", "completed"}}

\* Everything but the connection and its request
OthersTyped ==
    /\ htServer \in ServerRec /\ htState \in HtStates /\ htRes \in ResRec /\ htPre \in PreRec
    /\ htHeld \in Tags /\ htDataPos \in Nat
    /\ htFile \in [Positions -> Tags]
    /\ htStored \in StoredRec
    /\ htMismatch \in BOOLEAN /\ htFaults \in Nat /\ htStops \in Nat /\ htSpoilt \in BOOLEAN

\* All of the state
HtTyped == OthersTyped /\ htConn \in ConnRec /\ htReq \in ReqRec

\* The position at which the chunk goes on
PosOf(conn) == conn.begin + conn.got

\* What holds of the resource and the connection together, live or on disk
RecordOK(res, conn) ==
    /\ res.known => \E v \in Versions : res.size = SizeOf(v)
    /\ ~res.known => res.size = 0
    /\ res.pinned => res.range /\ res.tag # 0 /\ res.known /\ res.size = SizeOf(res.tag) /\ conn.there
    /\ res.unknown => ~res.range
    /\ ~res.range => conn.begin = 0
    /\ res.range /\ conn.there => conn.end = IF res.known THEN res.size - 1 ELSE OpenEnd
    /\ conn.total = PosOf(conn)
    /\ conn.state = "completed" => PosOf(conn) >= res.size
    /\ conn.state \in {"refused", "forbidden"} /\ ~res.range => conn.total < res.size \/ res.size = 0
    /\ ~conn.there => conn = NoConn

\* The prefetch, as long as its temporary file is there: it has bytes of one
\* version, and the connection starts among them.
PreOK(conn) ==
    /\ htPre.file =>
         /\ htRes.range /\ ~htRes.pinned /\ htPre.at # "off"
         /\ htPre.version \in Versions /\ htPre.version <= htServer.version
         /\ htPre.got <= SizeOf(htPre.version)
         /\ htRes.tag \in {0, htPre.version}
         /\ htStored.there => htStored.res.tag <= htPre.version
         /\ htPre.at = "done" /\ ~htPre.failed => htPre.got = SizeOf(htPre.version)
         /\ conn.there =>
              /\ conn.begin <= htPre.got /\ conn.got = 0 /\ conn.state \notin {"completed", "forbidden"}
              /\ htRes.known => conn.begin < htRes.size
              /\ htState # "resolved"
    /\ htPre.at = "reading" => htPre.file
    /\ htPre.fallback => htPre.file

\* ... and it is the fall back until a request that failed waits for its end.
FallBackOK ==
    /\ htPre.file => (~htPre.fallback <=> htReq.at = "await")
    /\ htReq.at = "await" => htPre.file /\ htReq.why \in Kinds
    /\ htReq.plain => ~htPre.file
    /\ htReq.at \in {"body", "held"} => ~htPre.file

\* The state of the fetcher goes with its connection, its request and what Start
\* will read itself.
StateOK ==
    /\ htReq.at # "off" => htState = "running" /\ htConn.state = "new"
    /\ htState = "running" => htConn.there
    /\ htState = "running" /\ htReq.at = "off" => htConn.state # "new"
    /\ htState = "idle" => /\ htRes = NoRes /\ htPre = NoPre /\ htHeld = 0 /\ ~htConn.there
                           /\ ~htStored.there /\ htReq = NoReq
    /\ htMismatch => htServer.checksum # 0 /\ (htConn.there \/ htRes.range)
    /\ htHeld # 0 => /\ htState = "resolved" /\ ~htRes.range /\ ~htRes.eligible /\ ~htConn.there
                     /\ htHeld <= htServer.version /\ htRes.tag <= htHeld
                     /\ htStored.there => htStored.res.tag <= htHeld
                     /\ htRes.known => htRes.size = SizeOf(htHeld)

\* The prefix of a sequential download that may be resumed
Prefix == htRes.eligible /\ 0 < htConn.got /\ htConn.got < htRes.size

\* Without ranges a connection asks from the start, or with a prefix.
AskOK == htReq.at = "ask" /\ ~htRes.range => htConn.got = 0 \/ Prefix

\* What was asked for is what the chunk needs, under the validator that binds it.
AskedOK ==
    htReq.at = "asked" =>
        /\ htReq.start = PosOf(htConn)
        /\ htRes.range =>
             /\ htReq.range /\ ~htReq.probe /\ ~htReq.restart /\ htReq.end = htConn.end
             /\ htRes.pinned \/ htPre.fallback => htReq.ifRange = htRes.tag
             /\ htRes.known => PosOf(htConn) < htRes.size
        /\ ~htRes.range /\ htReq.range =>
             /\ htReq.probe /\ ~htReq.restart /\ Prefix /\ ~htRes.unknown /\ htRes.tag # 0 /\ htRes.known
             /\ htReq.ifRange = htRes.tag /\ htReq.end = htRes.size - 1
        /\ ~htReq.range => ~htRes.range /\ htConn.got = 0 /\ ~htReq.probe

\* The version that is read is the one on disk, or the range that it is of
VersionRead ==
    /\ htReq.version \in Versions /\ htReq.version <= htServer.version
    /\ htRes.tag <= htReq.version
    /\ htStored.there => htStored.res.tag <= htReq.version
    /\ PosOf(htConn) <= SizeOf(htReq.version)
    /\ ~htRes.range => \A p \in Positions : p < htConn.got => htFile[p] = htReq.version

\* The body that is read goes on at the position of the chunk, and ends where the
\* resource does.
BodyOK ==
    htReq.at = "body" =>
        /\ VersionRead
        /\ PosOf(htConn) = htReq.from + htReq.read + htReq.discard
        /\ htRes.range =>
             /\ ~htReq.restart /\ htRes.known /\ htRes.size = SizeOf(htReq.version)
             /\ htReq.expected = SizeOf(htReq.version) - htReq.from
             /\ htRes.pinned => htReq.version = htRes.tag
        /\ ~htRes.range =>
             /\ htReq.from = 0 /\ htReq.discard = 0
             /\ IF htReq.expected = -1 THEN ~htRes.known /\ (htReq.restart => ~htServer.lengths)
                ELSE htRes.known /\ htReq.expected = htRes.size /\ (htReq.restart => htServer.lengths)
             /\ htRes.eligible => htRes.tag \in {0, htReq.version}

\* The body of Resolve's own response
HeldOK ==
    htReq.at = "held" =>
        /\ VersionRead
        /\ ~htRes.range /\ ~htRes.eligible
        /\ htRes.known => htRes.size = SizeOf(htReq.version)

\* The request, wherever it is
RequestOK == AskOK /\ AskedOK /\ BodyOK /\ HeldOK

\* No version is from the future.
VersionsOK ==
    /\ \A p \in Positions : htFile[p] <= htServer.version
    /\ htRes.tag <= htServer.version
    /\ htStored.there => htStored.res.tag <= htServer.version

\* The bytes before the position are there: in the target or, before the
\* chunk, in the file of the prefetch.
Covers(conn) ==
    ~htSpoilt /\ conn.there =>
        \A p \in Positions : p < PosOf(conn) /\ ~(htPre.file /\ p < conn.begin) => htFile[p] # 0

\* The bytes before the position are of the version that the validator names,
\* or the resource has changed, and the next request will find that out.
Genuine(res, conn) ==
    res.tag # 0 /\ (res.pinned \/ (~res.range /\ res.eligible)) =>
        \/ \A p \in Positions : p < PosOf(conn) => htFile[p] \in {0, res.tag}
        \/ htServer.version > res.tag /\ (res.pinned => PosOf(conn) < res.size)

\* Once all is there the record stays, on disk and live.
Settled(conn) ==
    /\ htStored.conn.state = "completed" => htRes = htStored.res /\ conn = htStored.conn
    /\ htStored.res.pinned /\ PosOf(htStored.conn) >= htStored.res.size =>
         htRes.pinned /\ htRes.tag = htStored.res.tag /\ PosOf(conn) >= htRes.size

\* Resolve's own response broke off behind its last byte.
AllRead(conn) == conn.state = "broken" /\ htRes.known /\ conn.total >= htRes.size

\* Where no checksum is known, the bytes of one version are told by the records.
GenuineOK(conn) ==
    htServer.checksum = 0 =>
        /\ Genuine(htRes, conn)
        /\ htStored.there => Genuine(htStored.res, htStored.conn) /\ Settled(conn)
        /\ ~htRes.range /\ (conn.state = "completed" \/ AllRead(conn)) => OneVersion

\* While a validated body is read, the bytes before the position are of its version.
PinnedBody ==
    htServer.checksum = 0 /\ htReq.at = "body" /\ htRes.pinned =>
        \A p \in Positions : p < PosOf(htConn) => htFile[p] \in {0, htRes.tag}

\* What holds of the download with the connection conn, whatever it asks for
Standing(conn) ==
    /\ RecordOK(htRes, conn) /\ RecordOK(htStored.res, htStored.conn)
    /\ PreOK(conn) /\ VersionsOK /\ Covers(conn) /\ GenuineOK(conn)

\* ... and while a request is made or under way
Waiting(conn) ==
    /\ OthersTyped /\ Standing(conn)
    /\ conn \in ConnRec /\ conn.there /\ conn.state = "new"
    /\ htState = "running" /\ htHeld = 0 /\ (htMismatch => htServer.checksum # 0)

\* The inductive invariant
HtInv ==
    /\ HtTyped /\ Standing(htConn)
    /\ FallBackOK /\ StateOK /\ RequestOK /\ PinnedBody
    /\ DoneIsWhole

-----------------------------------------------------------------------------
(* Sizes and positions *)

\* Sizes are positive.
LEMMA SizeType ==
  ASSUME NEW v \in Versions
  PROVE  SizeOf(v) \in Nat /\ SizeOf(v) > 0
BY HtAssumption DEF Versions, SizeOf

\* A set of numbers that is not empty has a least one.
LEMMA LeastSize ==
  ASSUME NEW S, S \subseteq Nat, S # {}
  PROVE  \E n \in S : \A m \in S : n <= m
<1>1. PICK n \in S : \A m \in S : ~ (<<m, n>> \in OpToRel(<, Nat))
  BY WFMin, NatLessThanWellFounded
<1>2. \A m \in S : ~ (m < n)
  BY <1>1, Zenon DEF OpToRel
<1> QED
  BY <1>2

\* Among the first n versions there is a largest one.
LEMMA LargestVersion ==
  \E w \in Versions : \A v \in Versions : SizeOf(v) <= SizeOf(w)
<1> DEFINE L == Len(VersionSizes)
           Bounded(n) == \E w \in 1..n : \A v \in 1..n : SizeOf(v) <= SizeOf(w)
           Bad == {n \in 1..L : ~Bounded(n)}
<1>0. L \in Nat /\ L > 0 /\ Versions = 1..L BY HtAssumption DEF Versions
<1>1. \A v \in 1..L : SizeOf(v) \in Nat BY <1>0, SizeType
<1> HIDE DEF L
<1>2. Bad = {}
  <2> SUFFICES ASSUME Bad # {} PROVE FALSE OBVIOUS
  <2>1. Bad \subseteq Nat BY <1>0
  <2>2. PICK n \in Bad : \A m \in Bad : n <= m BY <2>1, LeastSize
  <2>3. n \in 1..L /\ ~Bounded(n) OBVIOUS
  <2>4. n # 1
    <3> SUFFICES ASSUME n = 1 PROVE FALSE OBVIOUS
    <3>1. 1 \in 1..n /\ \A v \in 1..n : v = 1 BY <2>3
    <3>2. SizeOf(1) <= SizeOf(1) BY <1>1, <2>3
    <3>3. \A v \in 1..n : SizeOf(v) <= SizeOf(1) BY <3>1, <3>2
    <3> QED BY <2>3, <3>1, <3>3
  <2>5. n - 1 \in 1..L /\ n - 1 < n BY <1>0, <2>3, <2>4
  <2>6. Bounded(n - 1) BY <2>2, <2>5
  <2>7. PICK w \in 1..(n - 1) : \A v \in 1..(n - 1) : SizeOf(v) <= SizeOf(w) BY <2>6
  <2>8. w \in 1..n /\ w \in 1..L /\ n \in 1..n BY <1>0, <2>3, <2>5
  <2>9. \A v \in 1..n : v = n \/ v \in 1..(n - 1) BY <1>0, <2>3
  <2>10. SizeOf(n) \in Nat /\ SizeOf(w) \in Nat BY <1>1, <2>3, <2>8
  <2>11. \A v \in 1..(n - 1) : SizeOf(v) \in Nat
    <3>1. \A v \in 1..(n - 1) : v \in 1..L BY <1>0, <2>3
    <3> QED BY <1>1, <3>1
  <2>12. CASE SizeOf(n) <= SizeOf(w)
    <3>1. \A v \in 1..n : SizeOf(v) <= SizeOf(w) BY <2>7, <2>9, <2>12
    <3> QED BY <2>3, <2>8, <3>1
  <2>13. CASE ~(SizeOf(n) <= SizeOf(w))
    <3>1. \A v \in 1..(n - 1) : SizeOf(v) <= SizeOf(n) BY <2>7, <2>10, <2>11, <2>13
    <3>2. SizeOf(n) <= SizeOf(n) BY <2>10
    <3>3. \A v \in 1..n : SizeOf(v) <= SizeOf(n) BY <2>9, <3>1, <3>2
    <3> QED BY <2>3, <2>8, <3>3
  <2> QED BY <2>12, <2>13
<1>3. Bounded(L)
  <2>1. L \in 1..L BY <1>0
  <2> QED BY <1>2, <2>1
<1> QED BY <1>0, <1>3

\* The positions of every version are positions of the file.
LEMMA PositionsUpTo ==
  /\ Positions \subseteq Nat
  /\ \A v \in Versions : \A p \in Nat : p < SizeOf(v) => p \in Positions
<1> DEFINE M == CHOOSE m \in {SizeOf(v) : v \in Versions} : \A v \in Versions : SizeOf(v) <= m
<1>0. PICK w \in Versions : \A v \in Versions : SizeOf(v) <= SizeOf(w) BY LargestVersion
<1>1. M \in {SizeOf(v) : v \in Versions} /\ \A v \in Versions : SizeOf(v) <= M
  <2>1. SizeOf(w) \in {SizeOf(v) : v \in Versions} OBVIOUS
  <2> QED BY <1>0, <2>1
<1>2. M \in Nat /\ \A v \in Versions : SizeOf(v) \in Nat BY <1>1, SizeType
<1>3. Positions = 0..(M - 1) BY DEF Positions
<1> HIDE DEF M
<1> QED BY <1>1, <1>2, <1>3

\* What a validator names is a version.
LEMMA TagVersions ==
  /\ Versions \subseteq Tags \ {0} /\ Tags \ {0} \subseteq Versions
  /\ Tags \subseteq Nat /\ Versions \subseteq Nat
  /\ 1 \in Versions /\ 0 \in Tags
<1>1. Len(VersionSizes) \in Nat /\ Len(VersionSizes) > 0 BY HtAssumption
<1> QED BY <1>1 DEF Tags, Versions

\* Nothing is asked for.
LEMMA NothingAsked == NoReq \in ReqRec
BY TagVersions DEF NoReq, ReqRec, OpenEnd

-----------------------------------------------------------------------------
(* The steps of HttpTakeover *)

\* Between two steps of a request, the invariant says what it says of the download.
LEMMA WaitingNow ==
  ASSUME HtInv, htReq.at # "off"
  PROVE  Waiting(htConn)
<1>1. HtTyped /\ StateOK /\ Standing(htConn) BY DEF HtInv
<1>2. htState = "running" /\ htConn.state = "new" BY <1>1 DEF StateOK
<1>3. htHeld = 0 /\ htConn.there /\ (htMismatch => htServer.checksum # 0) BY <1>1, <1>2 DEF StateOK
<1> QED BY <1>1, <1>2, <1>3 DEF Waiting, HtTyped

\* What holds of a connection by its name holds of the variable.
LEMMA StandingNext ==
  ASSUME NEW c, htConn' = c, Standing(c)'
  PROVE  Standing(htConn)'
BY DEF Standing, PreOK, VersionsOK, Covers, GenuineOK, Genuine, Settled, RecordOK

\* A request that says what it should.
LEMMA RequestStep ==
  ASSUME NEW c, Waiting(c)', htConn' = c, htReq' \in ReqRec, htReq'.at # "off",
         RequestOK', PinnedBody', FallBackOK'
  PROVE  HtInv'
<1>1. Standing(htConn)' BY StandingNext DEF Waiting
<1>2. HtTyped' BY DEF Waiting, HtTyped
<1>3. htConn'.there /\ htConn'.state = "new" /\ htState' = "running" /\ htHeld' = 0
      /\ (htMismatch' => htServer'.checksum # 0)
  BY DEF Waiting
<1>4. StateOK' BY <1>3 DEF StateOK
<1>5. DoneIsWhole' BY <1>3 DEF DoneIsWhole
<1> QED BY <1>1, <1>2, <1>4, <1>5 DEF HtInv

\* The connection is to ask (again).
LEMMA AskStep ==
  ASSUME NEW c, Waiting(c)', htConn' = c, NEW plain \in BOOLEAN, htReq' = AskFor(plain),
         htRes'.range \/ c.got = 0 \/ (htRes'.eligible /\ 0 < c.got /\ c.got < htRes'.size),
         htPre'.file => htPre'.fallback /\ ~plain
  PROVE  HtInv'
<1>1. htReq' \in ReqRec /\ htReq'.at = "ask" /\ htReq'.plain = plain
  <2>1. htReq' = [NoReq EXCEPT !.at = "ask", !.plain = plain] BY DEF AskFor
  <2> QED BY <2>1, NothingAsked DEF ReqRec
<1>2. AskOK' /\ AskedOK' /\ BodyOK' /\ HeldOK'
  BY <1>1 DEF AskOK, AskedOK, BodyOK, HeldOK, Prefix
<1>3. PinnedBody' BY <1>1 DEF PinnedBody
<1>4. FallBackOK' BY <1>1 DEF FallBackOK, Waiting, Standing, PreOK
<1> QED BY <1>1, <1>2, <1>3, <1>4, RequestStep DEF RequestOK

\* The connection ends: completely, refused, or for good.
LEMMA EndStep ==
  ASSUME NEW c, Waiting(c)', NEW s \in ConnStates \ {"new"},
         htConn' = [c EXCEPT !.state = s], htReq' = NoReq,
         htPre'.file => htPre'.fallback,
         s = "completed" => /\ PosOf(c) >= htRes'.size /\ ~htPre'.file
                            /\ htServer'.checksum = 0 /\ ~htRes'.range => OneVersion',
         s = "broken" /\ htRes'.known /\ c.total >= htRes'.size /\ ~htRes'.range => OneVersion',
         s \in {"refused", "forbidden"} /\ ~htRes'.range => c.total < htRes'.size \/ htRes'.size = 0,
         s = "forbidden" => ~htPre'.file
  PROVE  HtInv'
<1>1. c \in ConnRec /\ c.there /\ c.state = "new" /\ Standing(c)' /\ OthersTyped'
  BY DEF Waiting
<1>2. /\ htConn' \in ConnRec /\ htConn'.there /\ htConn'.state = s
      /\ htConn'.begin = c.begin /\ htConn'.end = c.end /\ htConn'.got = c.got
      /\ htConn'.total = c.total /\ PosOf(htConn') = PosOf(c)
  BY <1>1 DEF ConnRec, ConnStates, PosOf
<1>3. htReq' \in ReqRec /\ htReq'.at = "off" /\ ~htReq'.plain
  BY NothingAsked DEF NoReq
<1>4. Standing(htConn)'
  <2>1. RecordOK(htRes, htConn)' BY <1>1, <1>2 DEF Standing, RecordOK
  <2>2. RecordOK(htStored.res, htStored.conn)' /\ VersionsOK' BY <1>1 DEF Standing
  <2>3. PreOK(htConn)' BY <1>1, <1>2 DEF Standing, PreOK
  <2>4. Covers(htConn)' BY <1>1, <1>2 DEF Standing, Covers
  <2>5. GenuineOK(htConn)'
    <3>1. SUFFICES ASSUME htServer'.checksum = 0 PROVE GenuineOK(htConn)'
      BY DEF GenuineOK
    <3>2. Genuine(htRes, htConn)' BY <1>1, <1>2, <3>1 DEF Standing, GenuineOK, Genuine
    <3>3. htStored'.there => Genuine(htStored.res, htStored.conn)' BY <1>1, <3>1 DEF Standing, GenuineOK
    <3>4. htStored'.there => Settled(htConn)'
      BY <1>1, <1>2, <3>1 DEF Standing, GenuineOK, Settled
    <3> QED BY <1>2, <3>1, <3>2, <3>3, <3>4 DEF GenuineOK, AllRead
  <2> QED BY <2>1, <2>2, <2>3, <2>4, <2>5 DEF Standing
<1>5. StateOK' BY <1>2, <1>3 DEF StateOK, Waiting
<1>6. RequestOK' /\ PinnedBody' BY <1>3 DEF RequestOK, AskOK, AskedOK, BodyOK, HeldOK, PinnedBody
<1>7. FallBackOK' BY <1>3, <1>1 DEF FallBackOK, Standing, PreOK
<1>8. DoneIsWhole' BY DEF DoneIsWhole, Waiting
<1> QED BY <1>1, <1>2, <1>3, <1>4, <1>5, <1>6, <1>7, <1>8 DEF HtInv, HtTyped

\* A connection that is reset has nothing that must be there, and one of a
\* resource with ranges stays as it is.
LEMMA ResetStep ==
  ASSUME NEW c, Waiting(c)', NEW d, d = ResetIn(htRes', c)
  PROVE  /\ Waiting(d)'
         /\ htRes'.range => d = c
         /\ ~htRes'.range => d.got = 0
<1>1. c \in ConnRec /\ c.there /\ c.state = "new" /\ Standing(c)' /\ OthersTyped'
  BY DEF Waiting
<1>2. CASE htRes'.range
  <2>1. d = c BY <1>2 DEF ResetIn
  <2> QED BY <1>2, <2>1
<1>3. CASE ~htRes'.range
  <2>1. d = [c EXCEPT !.begin = 0, !.end = 0, !.got = 0, !.total = 0,
                      !.state = IF @ = "completed" THEN "new" ELSE @]
    BY <1>3 DEF ResetIn
  <2>2. /\ d \in ConnRec /\ d.there /\ d.state = "new"
        /\ d.begin = 0 /\ d.got = 0 /\ d.total = 0 /\ PosOf(d) = 0
    <3> DEFINE s == IF c.state = "completed" THEN "new" ELSE c.state
    <3>1. d = [c EXCEPT !.begin = 0, !.end = 0, !.got = 0, !.total = 0, !.state = s]
      BY <1>1, <2>1 DEF ConnRec
    <3>2. s = "new" BY <1>1
    <3> HIDE DEF s
    <3>3. /\ d \in ConnRec /\ d.there /\ d.state = "new"
          /\ d.begin = 0 /\ d.got = 0 /\ d.total = 0
      <4>1. c \in [there : BOOLEAN, begin : Nat, end : Int, got : Nat, total : Nat, state : ConnStates]
        BY <1>1 DEF ConnRec
      <4>2. /\ d.there = c.there /\ d.state = s
            /\ d.begin = 0 /\ d.got = 0 /\ d.total = 0 /\ d.end = 0
        BY <3>1, <4>1
      <4>3. d \in ConnRec
        <5> DEFINE z == 0
        <5>1. z \in Nat /\ z \in Int /\ s \in ConnStates BY <3>2 DEF ConnStates
        <5>2. d = [c EXCEPT !.begin = z, !.end = z, !.got = z, !.total = z, !.state = s] BY <3>1
        <5> HIDE DEF z
        <5> QED BY <4>1, <5>1, <5>2 DEF ConnRec
      <4> QED BY <1>1, <3>2, <4>2, <4>3
    <3> QED BY <3>3 DEF PosOf
  <2>3. RecordOK(htRes, d)' BY <1>1, <1>3, <2>2 DEF Standing, RecordOK
  <2>4. PreOK(d)' BY <1>1, <1>3 DEF Standing, PreOK
  <2>5. Covers(d)' BY <2>2, PositionsUpTo DEF Covers
  <2>6. GenuineOK(d)'
    <3> SUFFICES ASSUME htServer'.checksum = 0 PROVE GenuineOK(d)'
      BY DEF GenuineOK
    <3>1. Genuine(htRes, d)' BY <2>2, PositionsUpTo DEF Genuine
    <3>2. htStored'.there => Genuine(htStored.res, htStored.conn)' BY <1>1 DEF Standing, GenuineOK
    <3>3. htStored'.there => Settled(d)'
      BY <1>1, <1>3, <2>2 DEF Standing, GenuineOK, Settled, RecordOK
    <3> QED BY <2>2, <3>1, <3>2, <3>3 DEF GenuineOK, AllRead
  <2> QED BY <1>1, <1>3, <2>2, <2>3, <2>4, <2>5, <2>6 DEF Standing, Waiting
<1> QED BY <1>2, <1>3

\* What runConnection does with an error keeps the invariant.
LEMMA ErrorStep ==
  ASSUME NEW c, Waiting(c)', NEW kind \in Kinds, htReq \in ReqRec, AfterError(kind, htRes', c),
         htPre'.file => htPre'.fallback /\ ~htReq.plain /\ kind # "http",
         kind = "http" /\ ~htRes'.range => c.total < htRes'.size \/ htRes'.size = 0
  PROVE  HtInv'
<1> DEFINE prefix == /\ ~htRes'.range /\ htRes'.eligible /\ 0 < c.got
                     /\ c.got < KnownSize(htRes')
<1>1. htReq.plain \in BOOLEAN BY DEF ReqRec
<1>2. c \in ConnRec /\ htRes' \in ResRec /\ RecordOK(htRes, c)' BY DEF Waiting, OthersTyped, Standing
<1>3. prefix => htRes'.eligible /\ 0 < c.got /\ c.got < htRes'.size
  BY <1>2 DEF KnownSize, ConnRec, ResRec
<1>4. \/ htConn' = [c EXCEPT !.state = "failed"] /\ htReq' = NoReq
      \/ /\ kind = "http" /\ htReq' = NoReq
         /\ \E s \in {"refused", "forbidden"} : htConn' = [c EXCEPT !.state = s]
      \/ /\ (htConn' = c /\ prefix) \/ htConn' = ResetIn(htRes', c)
         /\ htReq' = AskFor(htReq.plain)
  BY DEF AfterError
<1>5. CASE htConn' = [c EXCEPT !.state = "failed"] /\ htReq' = NoReq
  BY <1>5, EndStep DEF ConnStates
<1>6. CASE kind = "http" /\ htReq' = NoReq
           /\ \E s \in {"refused", "forbidden"} : htConn' = [c EXCEPT !.state = s]
  <2>1. PICK s \in {"refused", "forbidden"} : htConn' = [c EXCEPT !.state = s] BY <1>6
  <2>2. s \in ConnStates \ {"new"} BY DEF ConnStates
  <2> QED BY <1>6, <2>1, <2>2, EndStep
<1>7. CASE htConn' = c /\ prefix /\ htReq' = AskFor(htReq.plain)
  BY <1>1, <1>3, <1>7, AskStep
<1>8. CASE htConn' = ResetIn(htRes', c) /\ htReq' = AskFor(htReq.plain)
  <2>1. PICK d : d = htConn' OBVIOUS
  <2>2. Waiting(d)' /\ (htRes'.range \/ d.got = 0) BY <1>8, <2>1, ResetStep
  <2> HIDE DEF prefix
  <2> QED BY <1>1, <1>8, <2>1, <2>2, AskStep
<1> QED BY <1>4, <1>5, <1>6, <1>7, <1>8

\* A request that fails leaves the prefetch as it is, or claims it.
LEMMA FailsPre ==
  ASSUME HtInv, NEW c, NEW res, NEW kind, FailsWith(kind, res, c)
  PROVE  htPre' \in PreRec /\ htPre' \in {htPre, [htPre EXCEPT !.fallback = FALSE]}
<1>1. htPre \in PreRec BY DEF HtInv, HtTyped, OthersTyped
<1>2. [htPre EXCEPT !.fallback = FALSE] \in PreRec BY <1>1 DEF PreRec
<1> QED BY <1>1, <1>2 DEF FailsWith

\* ... and so does the claim of the fall back, where there is one.
LEMMA FailsStep ==
  ASSUME HtInv, htReq.at \in {"asked", "body"},
         NEW c, Waiting(c)', NEW kind \in Kinds, FailsWith(kind, htRes', c),
         kind = "http" /\ ~htRes'.range => c.total < htRes'.size \/ htRes'.size = 0
  PROVE  HtInv'
<1>1. htReq \in ReqRec /\ htPre \in PreRec BY DEF HtInv, HtTyped, OthersTyped
<1>2. htPre.file => htPre.fallback /\ ~htReq.plain BY DEF HtInv, FallBackOK
<1>3. CASE htPre.fallback /\ ~htReq.plain
  <2>1. /\ htPre' = [htPre EXCEPT !.fallback = FALSE]
        /\ htReq' = [NoReq EXCEPT !.at = "await", !.why = kind]
        /\ htConn' = c
    BY <1>3 DEF FailsWith
  <2>2. htPre'.file /\ ~htPre'.fallback
    BY <1>1, <1>3, <2>1 DEF PreRec, HtInv, Standing, PreOK
  <2>3. htReq' \in ReqRec /\ htReq'.at = "await" /\ htReq'.why \in Kinds /\ ~htReq'.plain
    <3>1. kind \in Kinds \cup {"none"} OBVIOUS
    <3>2. NoReq \in ReqRec /\ ~NoReq.plain BY NothingAsked DEF NoReq
    <3> QED BY <2>1, <3>1, <3>2 DEF ReqRec
  <2>4. RequestOK' /\ PinnedBody' /\ FallBackOK'
    BY <2>2, <2>3 DEF RequestOK, AskOK, AskedOK, BodyOK, HeldOK, PinnedBody, FallBackOK
  <2> QED BY <2>1, <2>3, <2>4, RequestStep
<1>4. CASE ~(htPre.fallback /\ ~htReq.plain)
  <2>1. AfterError(kind, htRes', c) /\ htPre' = htPre BY <1>4 DEF FailsWith
  <2>2. ~htPre'.file BY <1>2, <1>4, <2>1
  <2> QED BY <1>1, <2>1, <2>2, ErrorStep
<1> QED BY <1>3, <1>4

\* Where only the request moves on, the download is what it was.
LEMMA UnmovedStep ==
  ASSUME HtInv, htReq.at # "off", NEW c, c = htConn,
         UNCHANGED <<htServer, htState, htRes, htHeld, htFile, htStored, htStops, htSpoilt, htMismatch>>,
         htDataPos' \in {htDataPos, 0}, htFaults' \in Nat, htPre' \in {htPre, [htPre EXCEPT !.fallback = FALSE]}
  PROVE  Waiting(c)'
<1>1. Waiting(htConn) /\ htPre \in PreRec BY WaitingNow DEF HtInv, HtTyped, OthersTyped
<1>2. /\ htPre' \in PreRec
      /\ htPre'.file = htPre.file /\ htPre'.at = htPre.at /\ htPre'.got = htPre.got
      /\ htPre'.version = htPre.version /\ htPre'.failed = htPre.failed
      /\ htPre'.fallback => htPre.fallback
  BY <1>1 DEF PreRec
<1>3. PreOK(c)' BY <1>1, <1>2 DEF Waiting, Standing, PreOK
<1>4. Covers(c)' BY <1>1, <1>2 DEF Waiting, Standing, Covers
<1>5. VersionsOK' BY <1>1 DEF Waiting, Standing, VersionsOK
<1>6. GenuineOK(c)'
  BY <1>1 DEF Waiting, Standing, GenuineOK, AllRead, Genuine, Settled, OneVersion
<1>7. RecordOK(htRes, c)' /\ RecordOK(htStored.res, htStored.conn)' BY <1>1 DEF Waiting, Standing
<1>8. OthersTyped' BY <1>1, <1>2 DEF Waiting, OthersTyped
<1> QED BY <1>1, <1>3, <1>4, <1>5, <1>6, <1>7, <1>8 DEF Waiting, Standing

\* A request is refused, or its connection breaks.
LEMMA RequestFailsStep ==
  ASSUME HtInv, RequestFails
  PROVE  HtInv'
<1>1. /\ htReq.at = "asked" /\ htFaults' = htFaults + 1
      /\ UNCHANGED <<htServer, htState, htRes, htHeld, htDataPos, htFile, htStored, htStops,
                     htSpoilt, htMismatch>>
      /\ \/ FailsWith("http", htRes, htConn) \/ FailsWith("network", htRes, htConn)
         \/ AfterError("network", htRes, htConn) /\ UNCHANGED htPre
  BY DEF RequestFails
<1>2. HtTyped /\ AskedOK /\ Standing(htConn) BY DEF HtInv, RequestOK
<1>3. htFaults' \in Nat BY <1>1, <1>2 DEF HtTyped, OthersTyped
<1>4. htPre' \in {htPre, [htPre EXCEPT !.fallback = FALSE]} BY <1>1, FailsPre
<1>5. PICK c : c = htConn OBVIOUS
<1>6. Waiting(c)' BY <1>1, <1>3, <1>4, <1>5, UnmovedStep
<1>7. ~htRes'.range => c.total < htRes'.size \/ htRes'.size = 0
  BY <1>1, <1>2, <1>5 DEF AskedOK, Prefix, Standing, RecordOK, HtTyped, OthersTyped, ConnRec, ResRec, PosOf
<1>8. htRes' = htRes /\ htReq \in ReqRec BY <1>1, <1>2 DEF HtTyped
<1>9. "http" \in Kinds /\ "network" \in Kinds BY DEF Kinds
<1>10. CASE FailsWith("http", htRes, htConn)
  <2>1. FailsWith("http", htRes', c) BY <1>5, <1>8, <1>10
  <2> QED BY <1>1, <1>6, <1>7, <1>9, <2>1, FailsStep
<1>11. CASE FailsWith("network", htRes, htConn)
  <2>1. FailsWith("network", htRes', c) BY <1>5, <1>8, <1>11
  <2> QED BY <1>1, <1>6, <1>7, <1>9, <2>1, FailsStep
<1>12. CASE AfterError("network", htRes, htConn) /\ UNCHANGED htPre
  <2>1. AfterError("network", htRes', c) BY <1>5, <1>8, <1>12
  <2>2. htPre'.file => htPre'.fallback /\ ~htReq.plain BY <1>1, <1>12 DEF HtInv, FallBackOK
  <2> QED BY <1>6, <1>8, <1>9, <2>1, <2>2, ErrorStep
<1> QED BY <1>1, <1>10, <1>11, <1>12

\* The body of a request breaks off.
LEMMA BodyBreaksStep ==
  ASSUME HtInv, BodyBreaks
  PROVE  HtInv'
<1>1. /\ htReq.at = "body" /\ htFaults' = htFaults + 1
      /\ UNCHANGED <<htServer, htState, htRes, htHeld, htDataPos, htFile, htStored, htStops,
                     htSpoilt, htMismatch>>
      /\ FailsWith("network", htRes, htConn)
  BY DEF BodyBreaks
<1>2. htFaults' \in Nat BY <1>1 DEF HtInv, HtTyped, OthersTyped
<1>3. PICK c : c = htConn OBVIOUS
<1>4. htPre' \in {htPre, [htPre EXCEPT !.fallback = FALSE]} BY <1>1, FailsPre
<1>5. Waiting(c)' BY <1>1, <1>2, <1>3, <1>4, UnmovedStep
<1>6. "network" \in Kinds BY DEF Kinds
<1>7. FailsWith("network", htRes', c) BY <1>1, <1>3
<1> QED BY <1>1, <1>5, <1>6, <1>7, FailsStep

\* What is stored stays genuine when nothing but a newer version is written, and
\* bytes are cut off.
LEMMA StoredGenuine ==
  ASSUME HtInv, htServer.checksum = 0, htStored.there, UNCHANGED <<htServer, htStored>>,
         NEW w \in Tags, w <= htServer.version,
         w # 0 => /\ htStored.res.tag <= w
                  /\ htStored.res.pinned => PosOf(htStored.conn) < htStored.res.size,
         \A p \in Positions : htFile'[p] \in {0, htFile[p], w}
  PROVE  Genuine(htStored.res, htStored.conn)'
<1> DEFINE t == htStored.res.tag
           a == PosOf(htStored.conn)
           v == htServer.version
<1>1. t \in Nat /\ w \in Nat /\ v \in Nat
  BY TagVersions DEF HtInv, HtTyped, OthersTyped, ServerRec, StoredRec, ResRec
<1>2. Genuine(htStored.res, htStored.conn) BY DEF HtInv, Standing, GenuineOK
<1>3. htStored' = htStored /\ htServer' = htServer OBVIOUS
<1>4. t # 0 /\ (htStored.res.pinned \/ (~htStored.res.range /\ htStored.res.eligible)) =>
        \/ \A p \in Positions : p < a => htFile[p] \in {0, t}
        \/ v > t /\ (htStored.res.pinned => a < htStored.res.size)
  BY <1>2 DEF Genuine
<1>5. w # 0 => t <= w /\ (htStored.res.pinned => a < htStored.res.size) OBVIOUS
<1> HIDE DEF t, a, v
<1>6. t # 0 /\ (htStored.res.pinned \/ (~htStored.res.range /\ htStored.res.eligible)) =>
        \/ \A p \in Positions : p < a => htFile'[p] \in {0, t}
        \/ v > t /\ (htStored.res.pinned => a < htStored.res.size)
  <2>1. CASE w = 0 BY <1>4, <2>1
  <2>2. CASE w # 0 /\ w = t BY <1>4, <2>2
  <2>3. CASE w # 0 /\ w # t
    <3>1. w <= v BY DEF v
    <3> QED BY <1>1, <1>5, <2>3, <3>1
  <2> QED BY <2>1, <2>2, <2>3
<1> QED BY <1>3, <1>6 DEF Genuine, t, a, v

\* A byte more in the chunk.
LEMMA OneMoreByte ==
  ASSUME NEW c \in ConnRec, NEW d, d = [c EXCEPT !.got = @ + 1, !.total = @ + 1]
  PROVE  /\ d \in ConnRec
         /\ d.there = c.there /\ d.begin = c.begin /\ d.end = c.end /\ d.state = c.state
         /\ d.got = c.got + 1 /\ d.total = c.total + 1 /\ PosOf(d) = PosOf(c) + 1
<1> DEFINE g == c.got + 1
           t == c.total + 1
<1>1. g \in Nat /\ t \in Nat /\ c.begin \in Nat /\ c.got \in Nat BY DEF ConnRec
<1>2. d = [c EXCEPT !.got = g, !.total = t] BY DEF ConnRec
<1> HIDE DEF g, t
<1>3. /\ d \in ConnRec
      /\ d.there = c.there /\ d.begin = c.begin /\ d.end = c.end /\ d.state = c.state
      /\ d.got = g /\ d.total = t
  BY <1>1, <1>2 DEF ConnRec
<1>4. PosOf(d) = PosOf(c) + 1 BY <1>1, <1>3 DEF PosOf, g
<1> QED BY <1>3, <1>4 DEF g, t

\* A byte of the version that is read is written at the position of a chunk that
\* is not at its end.
LEMMA WrittenStep ==
  ASSUME HtInv, htReq.at \in {"body", "held"}, VersionRead,
         PosOf(htConn) < SizeOf(htReq.version),
         htRes.range => PosOf(htConn) < htRes.size,
         ~htRes.range /\ htRes.eligible => htRes.tag \in {0, htReq.version},
         htRes.pinned => htReq.at = "body" /\ htReq.version = htRes.tag,
         htFile' = [htFile EXCEPT ![PosOf(htConn)] = htReq.version],
         NEW c, c = [htConn EXCEPT !.got = @ + 1, !.total = @ + 1],
         UNCHANGED <<htServer, htState, htRes, htPre, htHeld, htDataPos, htStored, htFaults, htStops,
                     htSpoilt, htMismatch>>
  PROVE  /\ Waiting(c)'
         /\ c.begin = htConn.begin /\ PosOf(c) = PosOf(htConn) + 1
         /\ ~htRes.range => (\A p \in Positions : p < c.got => htFile'[p] = htReq.version)
         /\ htServer.checksum = 0 /\ htRes.pinned =>
              \A p \in Positions : p < PosOf(c) => htFile'[p] \in {0, htRes.tag}
<1> DEFINE at == PosOf(htConn)
<1>1. /\ Waiting(htConn) /\ OthersTyped /\ htConn \in ConnRec /\ htConn.there /\ htConn.state = "new"
      /\ htState = "running"
      /\ Standing(htConn) /\ ~htPre.file /\ RecordOK(htRes, htConn)
  BY WaitingNow DEF Waiting, Standing, HtInv, FallBackOK
<1>2. /\ at \in Nat /\ htReq.version \in Tags /\ htReq.version # 0 /\ htReq.version <= htServer.version
      /\ SizeOf(htReq.version) \in Nat /\ at \in Positions
      /\ htConn.begin \in Nat /\ htConn.got \in Nat /\ at = htConn.begin + htConn.got
      /\ ~htRes.range => htConn.begin = 0 /\ at = htConn.got
  BY <1>1, SizeType, PositionsUpTo, TagVersions DEF VersionRead, ConnRec, PosOf, RecordOK
<1>3. /\ c \in ConnRec
      /\ c.there /\ c.begin = htConn.begin /\ c.end = htConn.end /\ c.state = "new"
      /\ c.got = htConn.got + 1 /\ c.total = htConn.total + 1 /\ PosOf(c) = at + 1
  BY <1>1, OneMoreByte
<1>4. /\ htFile' \in [Positions -> Tags] /\ htFile'[at] = htReq.version
      /\ \A p \in Positions \ {at} : htFile'[p] = htFile[p]
  BY <1>1, <1>2 DEF OthersTyped
<1> HIDE DEF at
<1>5. \A p \in Positions : p \in Nat /\ (p < at + 1 <=> p < at \/ p = at) BY <1>2, PositionsUpTo
<1>6. ~htRes.range => \A p \in Positions : p < c.got => htFile'[p] = htReq.version
  BY <1>2, <1>3, <1>4, <1>5 DEF VersionRead
<1>7. ASSUME htServer.checksum = 0, htRes.pinned, NEW p \in Positions, p < PosOf(c)
      PROVE  htFile'[p] \in {0, htRes.tag}
  <2>1. htReq.at = "body" /\ htReq.version = htRes.tag BY <1>7
  <2>2. \A q \in Positions : q < at => htFile[q] \in {0, htRes.tag}
    BY <1>7, <2>1 DEF HtInv, PinnedBody, at
  <2> QED BY <1>3, <1>4, <1>5, <1>7, <2>1, <2>2
<1>8. RecordOK(htRes, c)'
  BY <1>1, <1>2, <1>3 DEF RecordOK, ConnRec, OthersTyped, ResRec, PosOf, at
<1>9. RecordOK(htStored.res, htStored.conn)' BY <1>1 DEF Standing
<1>10. PreOK(c)' BY <1>1 DEF PreOK, Standing
<1>11. VersionsOK' BY <1>1, <1>2, <1>4 DEF VersionsOK, Standing
<1>12. Covers(c)'
  <2>1. \A p \in Positions : p < at => (~htSpoilt => htFile[p] # 0)
    BY <1>1 DEF Covers, Standing, at
  <2> QED BY <1>1, <1>2, <1>3, <1>4, <1>5, <2>1 DEF Covers
<1>13. GenuineOK(c)'
  <2> SUFFICES ASSUME htServer.checksum = 0 PROVE GenuineOK(c)'
    BY DEF GenuineOK
  <2>1. GenuineOK(htConn) /\ at \in Nat BY <1>1, <1>2 DEF Standing
  <2>2. /\ htStored.there => htStored.conn.state # "completed"
        /\ htStored.there /\ htStored.res.pinned => PosOf(htStored.conn) < htStored.res.size
    <3>1. htStored.there => htStored.conn.state # "completed"
      BY <1>1, <2>1 DEF GenuineOK, Settled
    <3>2. htStored.there /\ htStored.res.pinned /\ PosOf(htStored.conn) >= htStored.res.size =>
            htRes.range /\ at >= htRes.size
      BY <1>1, <2>1 DEF GenuineOK, Settled, RecordOK, at
    <3>3. PosOf(htStored.conn) \in Nat /\ htStored.res.size \in Nat /\ htRes.size \in Nat
      BY <1>1 DEF OthersTyped, StoredRec, ConnRec, ResRec, PosOf
    <3> QED BY <1>2, <3>1, <3>2, <3>3 DEF at
  <2>3. Genuine(htRes, c)'
    <3>1. CASE htRes.pinned BY <1>7, <3>1 DEF Genuine
    <3>2. CASE ~htRes.pinned /\ ~htRes.range /\ htRes.eligible /\ htRes.tag # 0
      <4>1. htReq.version = htRes.tag BY <3>2
      <4>2. PosOf(c) = c.got
        BY <1>2, <1>3, <3>2 DEF ConnRec, PosOf
      <4> QED BY <1>6, <3>2, <4>1, <4>2 DEF Genuine
    <3> QED BY <3>1, <3>2 DEF Genuine
  <2>4. htStored.there => Genuine(htStored.res, htStored.conn)'
    BY <1>2, <1>4, <2>2, StoredGenuine DEF VersionRead
  <2>5. htStored.there => Settled(c)'
    <3>1. PosOf(htStored.conn) \in Nat /\ htStored.res.size \in Nat
      BY <1>1 DEF OthersTyped, StoredRec, ConnRec, ResRec, PosOf
    <3> QED BY <2>2, <3>1 DEF Settled
  <2> QED BY <1>3, <2>3, <2>4, <2>5 DEF GenuineOK, AllRead
<1>14. OthersTyped' BY <1>1, <1>4 DEF OthersTyped
<1>15. Waiting(c)'
  BY <1>1, <1>3, <1>8, <1>9, <1>10, <1>11, <1>12, <1>13, <1>14 DEF Waiting, Standing
<1> QED BY <1>3, <1>6, <1>7, <1>15 DEF at

\* One read of the body: too much, an overlap, the end of the chunk, or a byte.
LEMMA ReadBodyStep ==
  ASSUME HtInv, ReadBody
  PROVE  HtInv'
<1>1. /\ htReq.at = "body" /\ BodyLeft
      /\ UNCHANGED <<htServer, htState, htRes, htHeld, htDataPos, htStored, htFaults, htStops,
                     htSpoilt, htMismatch>>
  BY DEF ReadBody
<1>2. /\ HtTyped /\ BodyOK /\ VersionRead /\ Waiting(htConn) /\ ~htPre.file
      /\ RecordOK(htRes, htConn) /\ htConn.there
  BY <1>1, WaitingNow DEF HtInv, RequestOK, BodyOK, FallBackOK, Waiting, Standing
<1>3. /\ PosOf(htConn) = htReq.from + htReq.read + htReq.discard
      /\ htReq.from \in Nat /\ htReq.read \in Nat /\ htReq.discard \in Nat
      /\ htReq.expected \in Int /\ htConn \in ConnRec /\ htReq \in ReqRec
      /\ SizeOf(htReq.version) \in Nat /\ htFaults \in Nat
      /\ htRes.size \in Nat
  BY <1>1, <1>2, SizeType DEF BodyOK, VersionRead, HtTyped, OthersTyped, ReqRec, ResRec
<1>4. htRes.range => htConn.end = htRes.size - 1 /\ htRes.size = SizeOf(htReq.version)
  BY <1>1, <1>2 DEF BodyOK, RecordOK
<1>5. PICK c : c = htConn OBVIOUS
<1>6. CASE htReq.expected >= 0 /\ htReq.read + 1 > htReq.expected
  <2>1. FailsWith("terminal", htRes, htConn) /\ UNCHANGED htFile BY <1>6 DEF ReadBody
  <2>2. Waiting(c)' BY <1>1, <1>3, <1>5, <2>1, FailsPre, UnmovedStep
  <2>3. FailsWith("terminal", htRes', c) BY <1>1, <1>5, <2>1
  <2> QED BY <1>1, <2>2, <2>3, FailsStep DEF Kinds
<1>7. CASE ~(htReq.expected >= 0 /\ htReq.read + 1 > htReq.expected) /\ htReq.discard > 0
  <2>1. /\ htReq' = [htReq EXCEPT !.read = @ + 1, !.discard = @ - 1]
        /\ UNCHANGED <<htFile, htConn, htPre>>
    BY <1>7 DEF ReadBody
  <2>2. Waiting(c)' BY <1>1, <1>3, <1>5, <2>1, UnmovedStep
  <2>3. /\ htReq' \in ReqRec /\ htReq'.at = "body" /\ htReq'.read = htReq.read + 1
        /\ htReq'.discard = htReq.discard - 1 /\ htReq'.from = htReq.from
        /\ htReq'.version = htReq.version /\ htReq'.expected = htReq.expected
        /\ htReq'.restart = htReq.restart
    <3> DEFINE r == htReq.read + 1
               d == htReq.discard - 1
    <3>1. r \in Nat /\ d \in Nat BY <1>3, <1>7
    <3>2. htReq' = [htReq EXCEPT !.read = r, !.discard = d] BY <1>3, <2>1 DEF ReqRec
    <3> HIDE DEF r, d
    <3>3. /\ htReq' \in ReqRec /\ htReq'.at = "body" /\ htReq'.read = r
          /\ htReq'.discard = d /\ htReq'.from = htReq.from
          /\ htReq'.version = htReq.version /\ htReq'.expected = htReq.expected
          /\ htReq'.restart = htReq.restart
      BY <1>1, <1>3, <3>1, <3>2 DEF ReqRec
    <3> QED BY <3>3 DEF r, d
  <2>4. PosOf(htConn)' = htReq'.from + htReq'.read + htReq'.discard
    BY <1>3, <1>7, <2>1, <2>3
  <2>5. BodyOK'
    BY <1>1, <1>2, <1>7, <2>1, <2>3, <2>4 DEF BodyOK, VersionRead
  <2>6. AskOK' /\ AskedOK' /\ HeldOK' BY <2>3 DEF AskOK, AskedOK, HeldOK
  <2>7. PinnedBody' BY <1>1, <2>1 DEF HtInv, PinnedBody
  <2>8. FallBackOK' BY <1>2, <2>1, <2>3 DEF FallBackOK
  <2> QED BY <1>5, <2>1, <2>2, <2>3, <2>5, <2>6, <2>7, <2>8, RequestStep DEF RequestOK
<1>8. CASE /\ ~(htReq.expected >= 0 /\ htReq.read + 1 > htReq.expected) /\ ~(htReq.discard > 0)
           /\ htRes.range /\ htConn.end + 1 - htConn.begin - htConn.got <= 0
  <2>1. /\ htConn' = [htConn EXCEPT !.state = "completed"] /\ htReq' = NoReq
        /\ UNCHANGED <<htFile, htPre>>
    BY <1>8 DEF ReadBody
  <2>2. Waiting(c)' BY <1>1, <1>3, <1>5, <2>1, UnmovedStep
  <2>3. PosOf(c) >= htRes'.size
    BY <1>1, <1>3, <1>4, <1>5, <1>8 DEF PosOf, ConnRec
  <2> QED BY <1>1, <1>2, <1>5, <1>8, <2>1, <2>2, <2>3, EndStep DEF ConnStates
<1>9. CASE /\ ~(htReq.expected >= 0 /\ htReq.read + 1 > htReq.expected) /\ ~(htReq.discard > 0)
           /\ ~(htRes.range /\ htConn.end + 1 - htConn.begin - htConn.got <= 0)
  <2>1. /\ htReq' = [htReq EXCEPT !.read = @ + 1]
        /\ htFile' = [htFile EXCEPT ![PosOf(htConn)] = htReq.version]
        /\ htConn' = [htConn EXCEPT !.got = @ + 1, !.total = @ + 1]
        /\ UNCHANGED htPre
    BY <1>9 DEF ReadBody, PosOf
  <2>2. htReq.discard = 0 /\ PosOf(htConn) < SizeOf(htReq.version)
    BY <1>1, <1>3, <1>9 DEF BodyLeft
  <2>3. htRes.range => PosOf(htConn) < htRes.size
    BY <1>3, <1>4, <2>2
  <2>4. PICK d : d = htConn' OBVIOUS
  <2>5. /\ Waiting(d)' /\ PosOf(d) = PosOf(htConn) + 1 /\ d.begin = htConn.begin
        /\ ~htRes.range => \A p \in Positions : p < d.got => htFile'[p] = htReq.version
        /\ htServer.checksum = 0 /\ htRes.pinned =>
             \A p \in Positions : p < PosOf(d) => htFile'[p] \in {0, htRes.tag}
    BY <1>1, <1>2, <2>1, <2>2, <2>3, <2>4, WrittenStep DEF BodyOK, RecordOK
  <2>6. /\ htReq' \in ReqRec /\ htReq'.at = "body" /\ htReq'.read = htReq.read + 1
        /\ htReq'.discard = htReq.discard /\ htReq'.from = htReq.from
        /\ htReq'.version = htReq.version /\ htReq'.expected = htReq.expected
        /\ htReq'.restart = htReq.restart
    BY <1>1, <1>3, <2>1 DEF ReqRec
  <2>7. PosOf(htConn') = htReq'.from + htReq'.read + htReq'.discard /\ PosOf(htConn') <= SizeOf(htReq.version)
    BY <1>3, <2>2, <2>4, <2>5, <2>6
  <2>8. BodyOK'
    BY <1>1, <1>2, <2>1, <2>4, <2>5, <2>6, <2>7 DEF BodyOK, VersionRead
  <2>9. AskOK' /\ AskedOK' /\ HeldOK' BY <2>6 DEF AskOK, AskedOK, HeldOK
  <2>10. PinnedBody' BY <1>1, <2>4, <2>5 DEF PinnedBody
  <2>11. FallBackOK' BY <1>2, <2>1, <2>6 DEF FallBackOK
  <2> QED BY <2>4, <2>5, <2>6, <2>8, <2>9, <2>10, <2>11, RequestStep DEF RequestOK
<1> QED BY <1>6, <1>7, <1>8, <1>9

\* The end of the body: of all that was expected, or too early.
LEMMA EndOfBodyStep ==
  ASSUME HtInv, EndOfBody
  PROVE  HtInv'
<1> DEFINE sizes == htReq.restart /\ ~htServer.lengths
<1>1. /\ htReq.at = "body" /\ ~BodyLeft
      /\ UNCHANGED <<htServer, htState, htHeld, htDataPos, htStored, htFaults, htStops,
                     htSpoilt, htMismatch>>
      /\ IF sizes
         THEN /\ htRes' = [htRes EXCEPT !.size = htReq.read, !.known = TRUE, !.unknown = FALSE]
              /\ htFile' = Truncated(htFile, htReq.read)
         ELSE UNCHANGED <<htRes, htFile>>
  BY DEF EndOfBody
<1>2. /\ HtTyped /\ BodyOK /\ VersionRead /\ Waiting(htConn) /\ ~htPre.file
      /\ RecordOK(htRes, htConn) /\ htConn.there /\ htConn.state = "new"
  BY <1>1, WaitingNow DEF HtInv, RequestOK, BodyOK, FallBackOK, Waiting, Standing
<1>3. /\ PosOf(htConn) = htReq.from + htReq.read + htReq.discard
      /\ htReq.from \in Nat /\ htReq.read \in Nat /\ htReq.discard \in Nat
      /\ htReq.expected \in Int /\ htConn \in ConnRec /\ htReq \in ReqRec
      /\ htReq.version \in Versions /\ SizeOf(htReq.version) \in Nat /\ htFaults \in Nat
      /\ SizeOf(htReq.version) > 0
      /\ htRes.size \in Nat /\ htRes \in ResRec
      /\ PosOf(htConn) = SizeOf(htReq.version)
  BY <1>1, <1>2, SizeType DEF BodyOK, VersionRead, HtTyped, OthersTyped, ReqRec, ResRec, BodyLeft
<1>4. \A p \in 0..SizeOf(htReq.version) - 1 : p \in Positions /\ p < PosOf(htConn)
  BY <1>3, PositionsUpTo
<1>5. ~htRes.range => htConn.got = PosOf(htConn) /\ htReq.read = PosOf(htConn)
  BY <1>1, <1>2, <1>3 DEF RecordOK, BodyOK, ConnRec, PosOf
<1>6. PICK c : c = htConn OBVIOUS
<1>7. CASE sizes
  <2>1. /\ ~htRes.range /\ htReq.expected = -1 /\ ~htRes.pinned
    BY <1>1, <1>2, <1>7 DEF BodyOK, RecordOK
  <2>2. htConn' = [htConn EXCEPT !.state = "completed"] /\ htReq' = NoReq /\ UNCHANGED htPre
    BY <2>1 DEF EndOfBody
  <2>3. /\ htRes' = [htRes EXCEPT !.size = htReq.read, !.known = TRUE, !.unknown = FALSE]
        /\ htFile' = Truncated(htFile, htReq.read)
    BY <1>1, <1>7
  <2>4. /\ htRes' \in ResRec /\ htRes'.size = htReq.read /\ htRes'.known /\ ~htRes'.unknown
        /\ ~htRes'.range /\ ~htRes'.pinned /\ htRes'.tag = htRes.tag /\ htRes'.eligible = htRes.eligible
    BY <1>3, <2>1, <2>3 DEF ResRec
  <2>5. /\ htFile' \in [Positions -> Tags]
        /\ \A p \in Positions : htFile'[p] = IF p < htReq.read THEN htFile[p] ELSE 0
    BY <1>2, <2>3, TagVersions DEF HtTyped, OthersTyped, Truncated
  <2>6. /\ Standing(htConn) /\ OthersTyped /\ GenuineOK(htConn) /\ htReq.version <= htServer.version
        /\ \A p \in Positions : p < htConn.got => htFile[p] = htReq.version
    BY <1>2, <2>1 DEF Waiting, Standing, VersionRead
  <2>7. RecordOK(htRes, c)'
    BY <1>2, <1>3, <1>5, <1>6, <2>1, <2>4 DEF RecordOK
  <2>8. PreOK(c)' BY <1>2, <2>2, <2>6 DEF Standing, PreOK
  <2>9. VersionsOK'
    BY <1>1, <2>4, <2>5, <2>6, TagVersions DEF Standing, VersionsOK, OthersTyped, ServerRec
  <2>10. Covers(c)'
    BY <1>1, <1>2, <1>5, <1>6, <2>1, <2>2, <2>5, <2>6 DEF Standing, Covers
  <2>11. GenuineOK(c)'
    <3> SUFFICES ASSUME htServer.checksum = 0 PROVE GenuineOK(c)'
      BY <1>1 DEF GenuineOK
    <3>1. Genuine(htRes, c)'
      BY <1>1, <1>2, <1>5, <1>6, <2>1, <2>4, <2>5, <2>6 DEF Genuine, BodyOK
    <3>2. htStored.there => Genuine(htStored.res, htStored.conn)'
      <4>1. \A p \in Positions : htFile'[p] \in {0, htFile[p], 0} BY <2>5
      <4>2. 0 \in Tags /\ 0 <= htServer.version
        <5>1. htServer.version \in Versions BY <2>6 DEF OthersTyped, ServerRec
        <5>2. htServer.version \in Nat BY <5>1, TagVersions
        <5> QED BY <5>2, TagVersions
      <4> QED BY <1>1, <4>1, <4>2, StoredGenuine
    <3>3. htStored.there => Settled(c)'
      BY <1>1, <1>2, <1>6, <2>1, <2>6 DEF GenuineOK, Settled, RecordOK
    <3> QED BY <1>1, <1>2, <1>6, <3>1, <3>2, <3>3 DEF GenuineOK, AllRead
  <2>12. Waiting(c)'
    <3>1. OthersTyped' BY <1>1, <2>2, <2>4, <2>5, <2>6 DEF OthersTyped
    <3> QED BY <1>1, <1>2, <1>6, <2>6, <2>7, <2>8, <2>9, <2>10, <2>11, <3>1 DEF Waiting, Standing
  <2>13. OneVersion'
    BY <1>3, <1>4, <1>5, <2>1, <2>5, <2>6 DEF OneVersion
  <2>14. PosOf(c) >= htRes'.size BY <1>3, <1>5, <1>6, <2>1, <2>4
  <2> QED BY <1>2, <1>6, <2>2, <2>12, <2>13, <2>14, EndStep DEF ConnStates
<1>8. CASE ~sizes /\ htReq.expected >= 0 /\ htReq.read # htReq.expected
  <2>1. PICK kind \in {"network", "terminal"} : FailsWith(kind, htRes, htConn)
    BY <1>8 DEF EndOfBody
  <2>2. UNCHANGED <<htRes, htFile>> BY <1>1, <1>8
  <2>3. Waiting(c)' BY <1>1, <1>3, <1>6, <2>1, <2>2, FailsPre, UnmovedStep
  <2>4. FailsWith(kind, htRes', c) BY <1>6, <2>1, <2>2
  <2> QED BY <1>1, <2>1, <2>3, <2>4, FailsStep DEF Kinds
<1>9. CASE ~sizes /\ ~(htReq.expected >= 0 /\ htReq.read # htReq.expected)
  <2>1. htConn' = [htConn EXCEPT !.state = "completed"] /\ htReq' = NoReq /\ UNCHANGED htPre
    BY <1>9 DEF EndOfBody
  <2>2. UNCHANGED <<htRes, htFile>> BY <1>1, <1>9
  <2>3. Waiting(c)' BY <1>1, <1>3, <1>6, <2>1, <2>2, UnmovedStep
  <2>4. PosOf(c) >= htRes'.size
    BY <1>1, <1>2, <1>3, <1>5, <1>6, <1>9, <2>2 DEF BodyOK, RecordOK
  <2>5. ~htRes'.range => OneVersion'
    BY <1>2, <1>3, <1>4, <1>5, <2>2 DEF OneVersion, VersionRead
  <2> QED BY <1>2, <1>6, <2>1, <2>3, <2>4, <2>5, EndStep DEF ConnStates
<1> QED BY <1>7, <1>8, <1>9

\* The body of Resolve's own response.
LEMMA ReadHeldStep ==
  ASSUME HtInv, ReadHeld
  PROVE  HtInv'
<1>1. /\ htReq.at = "held"
      /\ UNCHANGED <<htServer, htState, htPre, htHeld, htDataPos, htStored, htStops, htSpoilt,
                     htMismatch>>
  BY DEF ReadHeld
<1>2. /\ HtTyped /\ HeldOK /\ VersionRead /\ Waiting(htConn) /\ ~htPre.file
      /\ RecordOK(htRes, htConn) /\ htConn.there /\ ~htRes.range /\ ~htRes.eligible
      /\ htRes.known => htRes.size = SizeOf(htReq.version)
  BY <1>1, WaitingNow DEF HtInv, RequestOK, HeldOK, FallBackOK, Waiting, Standing
<1>3. /\ htConn \in ConnRec /\ htReq \in ReqRec /\ htRes \in ResRec
      /\ htReq.version \in Versions /\ SizeOf(htReq.version) \in Nat /\ SizeOf(htReq.version) > 0
      /\ htFaults \in Nat /\ htConn.got \in Nat
      /\ htConn.begin = 0 /\ PosOf(htConn) = htConn.got /\ htConn.total = htConn.got
      /\ htConn.got <= SizeOf(htReq.version) /\ ~htRes.pinned
      /\ \A p \in Positions : p < htConn.got => htFile[p] = htReq.version
  BY <1>2, SizeType DEF VersionRead, HtTyped, OthersTyped, ConnRec, RecordOK, PosOf
<1>4. PICK c : c = htConn OBVIOUS
<1>5. CASE /\ htConn.got < SizeOf(htReq.version)
           /\ htFile' = [htFile EXCEPT ![htConn.got] = htReq.version]
           /\ htConn' = [htConn EXCEPT !.got = @ + 1, !.total = @ + 1]
           /\ UNCHANGED <<htRes, htReq, htFaults>>
  <2>1. PICK d : d = htConn' OBVIOUS
  <2>2. /\ Waiting(d)' /\ PosOf(d) = PosOf(htConn) + 1
        /\ \A p \in Positions : p < d.got => htFile'[p] = htReq.version
    BY <1>1, <1>2, <1>3, <1>5, <2>1, WrittenStep
  <2>3. HeldOK' BY <1>1, <1>2, <1>3, <1>5, <2>1, <2>2 DEF HeldOK, VersionRead
  <2>4. AskOK' /\ AskedOK' /\ BodyOK' /\ PinnedBody'
    BY <1>1, <1>5 DEF AskOK, AskedOK, BodyOK, PinnedBody
  <2>5. FallBackOK' BY <1>1, <1>2, <1>5 DEF FallBackOK
  <2> QED BY <1>1, <1>3, <1>5, <2>1, <2>2, <2>3, <2>4, <2>5, RequestStep DEF RequestOK
<1>6. CASE /\ htConn.got = SizeOf(htReq.version)
           /\ htConn' = [htConn EXCEPT !.state = "completed"] /\ htReq' = NoReq
           /\ htRes' = IF htRes.known THEN htRes
                       ELSE [htRes EXCEPT !.size = htConn.total, !.known = TRUE, !.unknown = FALSE]
           /\ UNCHANGED <<htFile, htFaults>>
  <2>1. /\ htRes' \in ResRec /\ htRes'.known /\ htRes'.size = SizeOf(htReq.version)
        /\ ~htRes'.range /\ ~htRes'.eligible /\ ~htRes'.pinned /\ htRes'.tag = htRes.tag
    BY <1>2, <1>3, <1>6 DEF ResRec
  <2>2. Standing(htConn) /\ OthersTyped /\ htConn.state = "new" BY <1>2 DEF Waiting
  <2>3. RecordOK(htRes, c)' BY <1>2, <1>3, <1>4, <1>6, <2>1, <2>2 DEF RecordOK
  <2>4. PreOK(c)' BY <1>1, <1>2, <2>2 DEF Standing, PreOK
  <2>5. VersionsOK' BY <1>1, <1>6, <2>1, <2>2 DEF Standing, VersionsOK
  <2>6. Covers(c)' BY <1>1, <1>4, <1>6, <2>2 DEF Standing, Covers
  <2>7. OneVersion'
    <3>1. \A p \in 0..SizeOf(htReq.version) - 1 : p \in Positions /\ p < htConn.got
      BY <1>3, <1>6, PositionsUpTo
    <3> QED BY <1>3, <1>6, <3>1 DEF OneVersion
  <2>8. GenuineOK(c)'
    <3> SUFFICES ASSUME htServer.checksum = 0 PROVE GenuineOK(c)'
      BY <1>1 DEF GenuineOK
    <3>1. Genuine(htRes, c)' BY <2>1 DEF Genuine
    <3>2. htStored.there => Genuine(htStored.res, htStored.conn)'
      BY <1>1, <1>6, <2>2 DEF Standing, GenuineOK, Genuine
    <3>3. htStored.there => Settled(c)'
      BY <1>1, <1>3, <1>4, <2>2 DEF Standing, GenuineOK, Settled
    <3> QED BY <1>1, <1>4, <2>2, <2>7, <3>1, <3>2, <3>3 DEF GenuineOK
  <2>9. OthersTyped' BY <1>1, <1>6, <2>1, <2>2 DEF OthersTyped
  <2>10. Waiting(c)'
    BY <1>1, <1>2, <1>4, <2>2, <2>3, <2>4, <2>5, <2>6, <2>8, <2>9 DEF Waiting, Standing
  <2>11. PosOf(c) >= htRes'.size BY <1>3, <1>4, <1>6, <2>1
  <2> QED BY <1>1, <1>2, <1>4, <1>6, <2>7, <2>10, <2>11, EndStep DEF ConnStates
<1>7. CASE /\ htFaults' = htFaults + 1
           /\ htConn' = [htConn EXCEPT !.state = "broken"] /\ htReq' = NoReq
           /\ UNCHANGED <<htRes, htFile>>
  <2>1. Waiting(c)' BY <1>1, <1>3, <1>4, <1>7, UnmovedStep
  <2>2. ASSUME htRes'.known, c.total >= htRes'.size PROVE OneVersion'
    <3>1. htConn.got >= SizeOf(htReq.version)
      <4>1. htRes' = htRes /\ c.total = htConn.got BY <1>3, <1>4, <1>7
      <4> QED BY <1>2, <2>2, <4>1
    <3>2. \A p \in 0..SizeOf(htReq.version) - 1 : p \in Positions /\ p < htConn.got
      BY <1>3, <3>1, PositionsUpTo
    <3> QED BY <1>3, <1>7, <3>2 DEF OneVersion
  <2> QED BY <1>1, <1>2, <1>4, <1>7, <2>1, <2>2, EndStep DEF ConnStates
<1> QED BY <1>5, <1>6, <1>7 DEF ReadHeld

\* The head of downloadChunkOnce: what is asked for is what the chunk still needs.
LEMMA AskActionStep ==
  ASSUME HtInv, Ask
  PROVE  HtInv'
<1> DEFINE restart == htRes.unknown \/ (HasPrefix /\ ~CanProbe)
           conn == IF restart THEN ResetIn(htRes, htConn) ELSE htConn
           open == htRes.range /\ conn.end = OpenEnd
           res == [htRes EXCEPT !.pinned = @ /\ ~restart]
           probe == CanProbe
           range == htRes.range \/ CanProbe
           start == conn.begin + conn.got
           end == IF CanProbe THEN htRes.size - 1 ELSE IF open THEN OpenEnd ELSE conn.end
           ifRange == IF CanProbe \/ (htRes.range /\ (res.pinned \/ htPre.fallback))
                      THEN htRes.tag ELSE 0
           plain == htReq.plain
<1>1. /\ htReq.at = "ask" /\ htRes' = res
      /\ htDataPos' = IF restart THEN 0 ELSE htDataPos
      /\ UNCHANGED <<htServer, htState, htPre, htHeld, htFile, htStored, htFaults, htStops,
                     htSpoilt, htMismatch>>
      /\ IF htRes.range /\ ~open /\ conn.end + 1 - conn.begin - conn.got <= 0
         THEN htConn' = [conn EXCEPT !.state = "completed"] /\ htReq' = NoReq
         ELSE /\ htConn' = conn
              /\ htReq' = [NoReq EXCEPT
                   !.at = "asked", !.plain = plain, !.probe = probe, !.restart = restart,
                   !.range = range, !.start = start, !.end = end, !.ifRange = ifRange]
  BY DEF Ask
<1>2. /\ Waiting(htConn) /\ Standing(htConn) /\ OthersTyped /\ AskOK /\ RecordOK(htRes, htConn)
      /\ PreOK(htConn) /\ htConn.there /\ htConn \in ConnRec
      /\ htPre.file => htPre.fallback
  BY <1>1, WaitingNow DEF HtInv, RequestOK, Waiting, Standing, FallBackOK
<1>3. /\ htRes \in ResRec /\ htReq \in ReqRec /\ htRes.size \in Nat /\ htRes.tag \in Tags
      /\ htRes.pinned \in BOOLEAN /\ htRes.range \in BOOLEAN /\ htReq.plain \in BOOLEAN
      /\ htConn.got \in Nat /\ htConn.begin \in Nat /\ htConn.end \in Int
      /\ htRes.known => htRes.size > 0
      /\ htFaults \in Nat
  <2>1. htRes \in ResRec /\ htReq \in ReqRec /\ htFaults \in Nat BY DEF HtInv, HtTyped, OthersTyped
  <2>2. htRes.known => htRes.size > 0 BY <1>2, SizeType DEF RecordOK
  <2> QED BY <1>2, <2>1, <2>2 DEF ResRec, ReqRec, ConnRec
<1>4. /\ CanProbe => HasPrefix /\ ~htRes.unknown /\ htRes.tag # 0
      /\ HasPrefix <=> ~htRes.range /\ Prefix
      /\ HasPrefix => htRes.known
  BY <1>2, <1>3 DEF HasPrefix, CanProbe, KnownSize, Prefix, RecordOK
<1>5. /\ restart => ~htRes.range /\ ~CanProbe
      /\ restart \in BOOLEAN /\ probe \in BOOLEAN /\ range \in BOOLEAN /\ plain \in BOOLEAN
  <2>1. HasPrefix \in BOOLEAN BY DEF HasPrefix
  <2>2. CanProbe \in BOOLEAN /\ htRes.unknown \in BOOLEAN BY <1>3 DEF CanProbe, ResRec
  <2> QED BY <1>2, <1>3, <1>4, <2>1, <2>2 DEF RecordOK
<1>6. res = htRes
  <2> DEFINE pin == htRes.pinned /\ ~restart
  <2>1. pin = htRes.pinned BY <1>2, <1>3, <1>5 DEF RecordOK
  <2>2. res = [htRes EXCEPT !.pinned = pin] OBVIOUS
  <2> HIDE DEF pin, restart
  <2> QED BY <1>3, <2>1, <2>2 DEF ResRec
<1>7. PICK c : c = htConn OBVIOUS
<1>8. Waiting(c)'
  <2>1. htRes' = htRes BY <1>1, <1>6
  <2>2. htDataPos' \in {htDataPos, 0} BY <1>1
  <2>3. htPre' \in {htPre, [htPre EXCEPT !.fallback = FALSE]} BY <1>1
  <2>4. htFaults' \in Nat BY <1>1, <1>3
  <2> QED BY <1>1, <1>7, <2>1, <2>2, <2>3, <2>4, UnmovedStep
<1>9. PICK d : d = conn OBVIOUS
<1>10. /\ Waiting(d)' /\ htRes' = htRes
       /\ ~restart => d = htConn
       /\ restart => d.got = 0
       /\ htRes.range => d = htConn
  <2>1. CASE restart
    <3>1. d = ResetIn(htRes', c) BY <1>1, <1>6, <1>7, <1>9, <2>1
    <3> QED BY <1>1, <1>5, <1>6, <1>8, <2>1, <3>1, ResetStep
  <2>2. CASE ~restart BY <1>1, <1>6, <1>7, <1>8, <1>9, <2>2
  <2> QED BY <2>1, <2>2
<1>11. d \in ConnRec /\ start = PosOf(d) /\ PosOf(d) \in Nat /\ d.end \in Int
  BY <1>9, <1>10 DEF Waiting, ConnRec, PosOf
<1>12. htRes.range => d.end = IF htRes.known THEN htRes.size - 1 ELSE OpenEnd
  BY <1>2, <1>10 DEF RecordOK
<1>13. CASE htRes.range /\ ~open /\ conn.end + 1 - conn.begin - conn.got <= 0
  <2>1. htConn' = [d EXCEPT !.state = "completed"] /\ htReq' = NoReq BY <1>1, <1>9, <1>13
  <2>2. PosOf(d) >= htRes'.size
    BY <1>3, <1>9, <1>10, <1>11, <1>12, <1>13 DEF PosOf, ConnRec, OpenEnd
  <2>3. ~htPre.file
    BY <1>2, <1>3, <1>9, <1>10, <1>12, <1>13, <2>2 DEF PreOK, PosOf, OpenEnd
  <2> QED BY <1>1, <1>10, <1>13, <2>1, <2>2, <2>3, EndStep DEF ConnStates
<1>14. CASE ~(htRes.range /\ ~open /\ conn.end + 1 - conn.begin - conn.got <= 0)
  <2>1. /\ htConn' = d
        /\ htReq' = [NoReq EXCEPT
             !.at = "asked", !.plain = plain, !.probe = probe, !.restart = restart,
             !.range = range, !.start = start, !.end = end, !.ifRange = ifRange]
    BY <1>1, <1>9, <1>14
  <2>2. start \in Nat /\ end \in Int /\ ifRange \in Tags
    <3>1. end \in Int BY <1>3, <1>9, <1>11 DEF OpenEnd
    <3>2. ifRange \in Tags BY <1>3, TagVersions
    <3> QED BY <1>11, <3>1, <3>2
  <2>3. /\ htRes.range => (htRes.known => PosOf(d) < htRes.size)
        /\ htRes.range => end = d.end
        /\ CanProbe => end = htRes.size - 1
    BY <1>3, <1>4, <1>9, <1>11, <1>12, <1>14 DEF PosOf, OpenEnd, ConnRec
  <2>4. /\ htRes.range /\ (htRes.pinned \/ htPre.fallback) => ifRange = htRes.tag
        /\ CanProbe => ifRange = htRes.tag
    BY <1>6
  <2>5. ~htRes.range /\ ~CanProbe => d.got = 0
    BY <1>1, <1>2, <1>4, <1>10 DEF AskOK
  <2>6. /\ htReq' \in ReqRec /\ htReq'.at = "asked" /\ htReq'.probe = probe
        /\ htReq'.restart = restart /\ htReq'.range = range /\ htReq'.start = start
        /\ htReq'.end = end /\ htReq'.ifRange = ifRange
    <3> HIDE DEF restart, probe, range, start, end, ifRange, plain
    <3>1. htReq' \in ReqRec
      <4> DEFINE r == [NoReq EXCEPT !.at = "asked", !.plain = plain, !.probe = probe]
                 s == [r EXCEPT !.restart = restart, !.range = range]
      <4>1. r \in ReqRec BY <1>5, NothingAsked DEF ReqRec
      <4>2. s \in ReqRec
        <5> HIDE DEF r
        <5> QED BY <1>5, <4>1 DEF ReqRec
      <4>3. [s EXCEPT !.start = start, !.end = end, !.ifRange = ifRange] \in ReqRec
        <5> HIDE DEF s
        <5> QED BY <2>2, <4>2 DEF ReqRec
      <4>4. htReq' = [s EXCEPT !.start = start, !.end = end, !.ifRange = ifRange]
        BY <2>1, NothingAsked DEF ReqRec
      <4> QED BY <4>3, <4>4
    <3>2. /\ htReq'.at = "asked" /\ htReq'.probe = probe
          /\ htReq'.restart = restart /\ htReq'.range = range /\ htReq'.start = start
          /\ htReq'.end = end /\ htReq'.ifRange = ifRange
      BY <2>1, NothingAsked DEF ReqRec
    <3> QED BY <3>1, <3>2
  <2>7. AskedOK'
    <3>1. htReq'.start = PosOf(htConn') BY <1>11, <2>1, <2>6
    <3>2. htRes.range =>
            /\ htReq'.range /\ ~htReq'.probe /\ ~htReq'.restart /\ htReq'.end = htConn'.end
            /\ htRes.pinned \/ htPre.fallback => htReq'.ifRange = htRes.tag
            /\ htRes.known => PosOf(htConn') < htRes.size
      BY <1>4, <1>5, <2>1, <2>3, <2>4, <2>6
    <3>3. ~htRes.range /\ htReq'.range =>
            /\ htReq'.probe /\ ~htReq'.restart /\ ~htRes.unknown /\ htRes.tag # 0 /\ htRes.known
            /\ htReq'.ifRange = htRes.tag /\ htReq'.end = htRes.size - 1
            /\ Prefix /\ htConn' = htConn
      BY <1>4, <1>5, <1>10, <2>1, <2>3, <2>4, <2>6
    <3>4. ~htReq'.range => ~htRes.range /\ htConn'.got = 0 /\ ~htReq'.probe
      BY <2>1, <2>5, <2>6
    <3> QED BY <1>1, <1>10, <3>1, <3>2, <3>3, <3>4 DEF AskedOK, Prefix
  <2>8. AskOK' /\ BodyOK' /\ HeldOK' /\ PinnedBody' BY <2>6 DEF AskOK, BodyOK, HeldOK, PinnedBody
  <2>9. FallBackOK'
    <3>1. htReq'.plain = htReq.plain BY <2>1, NothingAsked DEF ReqRec
    <3>2. FallBackOK BY DEF HtInv
    <3> QED BY <1>1, <1>2, <2>6, <3>1, <3>2 DEF FallBackOK
  <2> QED BY <1>10, <2>1, <2>6, <2>7, <2>8, <2>9, RequestStep DEF RequestOK
<1> QED BY <1>13, <1>14

\* A record that is still open binds the download to nothing.
LEMMA SettledStep ==
  ASSUME HtInv, htServer.checksum = 0, htStored.there, UNCHANGED htStored,
         htConn.state # "completed", ~(htRes.pinned /\ PosOf(htConn) >= htRes.size), NEW d
  PROVE  /\ Settled(d)'
         /\ htStored.conn.state # "completed"
         /\ htStored.res.pinned => PosOf(htStored.conn) < htStored.res.size
<1>1. GenuineOK(htConn) /\ OthersTyped BY DEF HtInv, Standing, HtTyped
<1>2. htStored.conn.state # "completed" BY <1>1 DEF GenuineOK, Settled
<1>3. ~(htStored.res.pinned /\ PosOf(htStored.conn) >= htStored.res.size)
  BY <1>1 DEF GenuineOK, Settled
<1>4. PosOf(htStored.conn) \in Nat /\ htStored.res.size \in Nat
  BY <1>1 DEF OthersTyped, StoredRec, ConnRec, ResRec, PosOf
<1>5. Settled(d)' BY <1>2, <1>3 DEF Settled
<1> QED BY <1>2, <1>3, <1>4, <1>5

\* The target with the bytes of the prefetch in front.
LEMMA PrefixCopied ==
  ASSUME HtInv
  PROVE  /\ Copied \in Nat /\ (htPre.file => Copied = htPre.got) /\ (~htPre.file => Copied = 0)
         /\ FileWithPrefix \in [Positions -> Tags]
         /\ \A p \in Positions :
              FileWithPrefix[p] = IF p < Copied THEN htPre.version ELSE htFile[p]
         /\ \A p \in Positions : FileWithPrefix[p] <= htServer.version
         /\ ~htPre.file => FileWithPrefix = htFile
<1>1. OthersTyped /\ Standing(htConn) BY DEF HtInv, HtTyped
<1>2. htPre.got \in Nat /\ htPre.version \in Tags /\ htFile \in [Positions -> Tags]
  BY <1>1 DEF OthersTyped, PreRec
<1>3. /\ Copied \in Nat /\ (htPre.file => Copied = htPre.got) /\ (~htPre.file => Copied = 0)
  BY <1>2 DEF Copied
<1>4. /\ FileWithPrefix \in [Positions -> Tags]
      /\ \A p \in Positions :
           FileWithPrefix[p] = IF p < Copied THEN htPre.version ELSE htFile[p]
  BY <1>2 DEF FileWithPrefix
<1>5. ~htPre.file => \A p \in Positions : FileWithPrefix[p] = htFile[p]
  BY <1>3, <1>4, PositionsUpTo
<1>6. htPre.file => htPre.version <= htServer.version BY <1>1 DEF Standing, PreOK
<1>7. \A p \in Positions : FileWithPrefix[p] <= htServer.version
  BY <1>1, <1>4, <1>5, <1>6 DEF Standing, VersionsOK
<1>8. ~htPre.file => FileWithPrefix = htFile
  <2> DEFINE F == FileWithPrefix
  <2>1. F \in [Positions -> Tags] /\ (~htPre.file => \A p \in Positions : F[p] = htFile[p])
    BY <1>4, <1>5
  <2> HIDE DEF F
  <2>2. ~htPre.file => F = htFile BY <1>2, <2>1
  <2> QED BY <2>2 DEF F
<1> QED BY <1>3, <1>4, <1>7, <1>8

\* What is stored stays genuine with the prefetch in front, and with bytes cut off.
LEMMA StoredCopied ==
  ASSUME HtInv, htServer.checksum = 0, htStored.there, UNCHANGED <<htServer, htStored>>,
         htPre.file => htConn.state # "completed",
         \A p \in Positions : htFile'[p] \in {0, FileWithPrefix[p]}
  PROVE  Genuine(htStored.res, htStored.conn)'
<1>1. OthersTyped /\ Standing(htConn) BY DEF HtInv, HtTyped
<1>2. CASE ~htPre.file
  <2>1. \A p \in Positions : htFile'[p] \in {0, htFile[p], 0} BY <1>2, PrefixCopied
  <2>2. htServer.version \in Nat BY <1>1, TagVersions DEF OthersTyped, ServerRec
  <2>3. 0 \in Tags /\ 0 <= htServer.version BY <2>2, TagVersions
  <2> QED BY <2>1, <2>3, StoredGenuine
<1>3. CASE htPre.file
  <2>1. /\ ~htRes.pinned /\ htPre.version \in Tags /\ htPre.version <= htServer.version
        /\ htStored.res.tag <= htPre.version
    BY <1>1, <1>3 DEF OthersTyped, PreRec, Standing, PreOK
  <2>2. htStored.res.pinned => PosOf(htStored.conn) < htStored.res.size
    BY <1>3, <2>1, SettledStep
  <2>3. \A p \in Positions : htFile'[p] \in {0, htFile[p], htPre.version} BY PrefixCopied
  <2> QED BY <2>1, <2>2, <2>3, StoredGenuine
<1> QED BY <1>2, <1>3

\* Once the prefetch is stopped there is nothing of it to be told.
LEMMA StoppedStep ==
  ASSUME HtInv, htPre' = PreStopped
  PROVE  /\ htPre' \in PreRec /\ ~htPre'.file /\ ~htPre'.fallback /\ htPre'.at # "reading"
         /\ \A c : PreOK(c)'
<1> DEFINE at == IF htPre.at = "off" THEN "off" ELSE "done"
           failed == htPre.failed
<1>1. htPre \in PreRec BY DEF HtInv, HtTyped, OthersTyped
<1>2. failed \in BOOLEAN /\ at \in {"off", "done"} BY <1>1 DEF PreRec
<1>3. NoPre \in PreRec /\ ~NoPre.file /\ ~NoPre.fallback BY TagVersions DEF NoPre, PreRec
<1>4. htPre' = [NoPre EXCEPT !.at = at, !.failed = failed] BY DEF PreStopped
<1> HIDE DEF at, failed
<1>5. htPre' \in PreRec /\ ~htPre'.file /\ ~htPre'.fallback /\ htPre'.at # "reading"
  BY <1>2, <1>3, <1>4 DEF PreRec
<1> QED BY <1>5 DEF PreOK

\* The fall back has all of the resource: it takes the place of the connection.
LEMMA FallBackCompletesStep ==
  ASSUME HtInv, FallBackCompletes
  PROVE  HtInv'
<1> DEFINE got == htPre.got
<1>1. /\ htReq.at = "await" /\ htPre.at = "done" /\ ~htPre.failed
      /\ htRes.known => htPre.got = htRes.size
      /\ htFile' = FileWithPrefix /\ htPre' = PreStopped /\ htDataPos' = Copied
      /\ htRes' = [htRes EXCEPT !.range = FALSE, !.eligible = FALSE, !.pinned = FALSE, !.known = TRUE,
                                !.size = IF htRes.known THEN @ ELSE Copied]
      /\ htConn' = [htConn EXCEPT !.begin = 0, !.end = Copied - 1, !.got = Copied, !.total = Copied,
                                  !.state = "completed"]
      /\ htReq' = NoReq
      /\ UNCHANGED <<htServer, htState, htHeld, htStored, htFaults, htStops, htSpoilt, htMismatch>>
  BY DEF FallBackCompletes
<1>2. /\ Waiting(htConn) /\ Standing(htConn) /\ OthersTyped /\ htPre.file /\ PreOK(htConn)
      /\ htConn \in ConnRec /\ htConn.there /\ htConn.state = "new"
  BY <1>1, WaitingNow DEF HtInv, FallBackOK, Waiting, Standing
<1>3. /\ Copied = got /\ got = SizeOf(htPre.version) /\ htPre.version \in Versions
      /\ got \in Nat /\ got > 0 /\ htPre.version # 0 /\ ~htRes.pinned
      /\ htPre.version <= htServer.version /\ htRes \in ResRec
  BY <1>1, <1>2, PrefixCopied, SizeType, TagVersions DEF PreOK, OthersTyped
<1>4. /\ htRes' \in ResRec /\ ~htRes'.range /\ ~htRes'.eligible /\ ~htRes'.pinned /\ htRes'.known
      /\ htRes'.size = got /\ htRes'.tag = htRes.tag
  <2> DEFINE size == IF htRes.known THEN htRes.size ELSE Copied
  <2>1. size = got /\ size \in Nat BY <1>1, <1>3
  <2>2. htRes' = [htRes EXCEPT !.range = FALSE, !.eligible = FALSE, !.pinned = FALSE, !.known = TRUE,
                               !.size = size]
    BY <1>1, <1>3 DEF ResRec
  <2> HIDE DEF size
  <2> QED BY <1>3, <2>1, <2>2 DEF ResRec
<1>5. PICK d : d = [htConn EXCEPT !.begin = 0, !.end = Copied - 1, !.got = Copied, !.total = Copied]
  OBVIOUS
<1>6. /\ d \in ConnRec /\ d.there /\ d.begin = 0 /\ d.got = got /\ d.total = got /\ d.state = "new"
      /\ PosOf(d) = got /\ htConn' = [d EXCEPT !.state = "completed"]
  <2> DEFINE z == 0
             e == Copied - 1
             g == Copied
  <2>1. z \in Nat /\ e \in Int /\ g \in Nat /\ g = got BY <1>3
  <2>2. /\ d = [htConn EXCEPT !.begin = z, !.end = e, !.got = g, !.total = g]
        /\ htConn' = [htConn EXCEPT !.begin = z, !.end = e, !.got = g, !.total = g,
                                    !.state = "completed"]
    BY <1>1, <1>5
  <2> HIDE DEF z, e, g
  <2>3. d \in ConnRec /\ d.there /\ d.begin = z /\ d.got = g /\ d.total = g /\ d.state = "new"
    BY <1>2, <2>1, <2>2 DEF ConnRec
  <2>4. htConn' = [d EXCEPT !.state = "completed"] BY <1>2, <2>1, <2>2 DEF ConnRec
  <2> QED BY <1>3, <2>1, <2>3, <2>4 DEF PosOf, z
<1>7. /\ htFile' \in [Positions -> Tags] /\ \A p \in Positions : htFile'[p] <= htServer.version
      /\ \A p \in Positions : p < got => htFile'[p] = htPre.version
  BY <1>1, <1>3, PrefixCopied
<1>8. OneVersion'
  <2>1. \A p \in 0..SizeOf(htPre.version) - 1 : p \in Positions /\ p < got
    BY <1>3, PositionsUpTo
  <2> QED BY <1>3, <1>7, <2>1 DEF OneVersion
<1> HIDE DEF got
<1>9. Waiting(d)'
  <2>1. RecordOK(htRes, d)' BY <1>3, <1>4, <1>6 DEF RecordOK
  <2>2. PreOK(d)' BY <1>1, StoppedStep
  <2>3. VersionsOK' BY <1>1, <1>2, <1>4, <1>7 DEF VersionsOK, Standing
  <2>4. Covers(d)' BY <1>3, <1>6, <1>7 DEF Covers
  <2>5. GenuineOK(d)'
    <3> SUFFICES ASSUME htServer.checksum = 0 PROVE GenuineOK(d)'
      BY <1>1 DEF GenuineOK
    <3>1. Genuine(htRes, d)' BY <1>4 DEF Genuine
    <3>2. htStored.there => Genuine(htStored.res, htStored.conn)'
      <4>1. \A p \in Positions : htFile'[p] \in {0, FileWithPrefix[p]} BY <1>1
      <4> QED BY <1>1, <1>2, <4>1, StoredCopied
    <3>3. htStored.there => Settled(d)' BY <1>1, <1>2, <1>3, SettledStep
    <3> QED BY <1>1, <1>6, <3>1, <3>2, <3>3 DEF GenuineOK, AllRead
  <2>6. OthersTyped'
    <3>1. htPre' \in PreRec /\ htDataPos' \in Nat BY <1>1, <1>3, StoppedStep DEF got
    <3> QED BY <1>1, <1>2, <1>4, <1>7, <3>1 DEF OthersTyped
  <2>7. RecordOK(htStored.res, htStored.conn)' BY <1>1, <1>2 DEF Standing
  <2> QED BY <1>1, <1>2, <1>6, <2>1, <2>2, <2>3, <2>4, <2>5, <2>6, <2>7 DEF Waiting, Standing
<1>10. PosOf(d) >= htRes'.size BY <1>3, <1>4, <1>6 DEF got
<1>11. ~htPre'.file BY <1>1, StoppedStep
<1> QED BY <1>1, <1>6, <1>8, <1>9, <1>10, <1>11, EndStep DEF ConnStates

\* The fall back has failed or is too short: what it had before the chunk is lost.
LEMMA FallBackFailsStep ==
  ASSUME HtInv, FallBackFails
  PROVE  HtInv'
<1>1. /\ htReq.at = "await" /\ htPre' = PreStopped
      /\ htSpoilt' = (htSpoilt \/ (htRes.range /\ htConn.begin > 0))
      /\ UNCHANGED <<htServer, htState, htRes, htHeld, htDataPos, htFile, htStored, htFaults,
                     htStops, htMismatch>>
  BY DEF FallBackFails
<1>2. PICK kind \in Kinds : kind = htReq.why /\ AfterError(kind, htRes, htConn)
  BY <1>1 DEF FallBackFails, HtInv, FallBackOK
<1>3. /\ Waiting(htConn) /\ Standing(htConn) /\ OthersTyped /\ htPre.file /\ PreOK(htConn)
      /\ htConn \in ConnRec /\ htConn.there /\ htReq \in ReqRec
  BY <1>1, WaitingNow DEF HtInv, HtTyped, FallBackOK, Waiting, Standing
<1>4. PICK c : c = htConn OBVIOUS
<1>5. Waiting(c)'
  <2>1. RecordOK(htRes, c)' /\ RecordOK(htStored.res, htStored.conn)'
    BY <1>1, <1>3, <1>4 DEF Standing
  <2>2. PreOK(c)' BY <1>1, StoppedStep
  <2>3. VersionsOK' BY <1>1, <1>3 DEF Standing, VersionsOK
  <2>4. Covers(c)'
    <3>1. ~htSpoilt' => PosOf(c) = 0 BY <1>1, <1>3, <1>4 DEF PreOK, PosOf, ConnRec
    <3> QED BY <3>1, PositionsUpTo DEF Covers
  <2>5. GenuineOK(c)' BY <1>1, <1>3, <1>4 DEF Standing, GenuineOK, AllRead, Genuine, Settled, OneVersion
  <2>6. OthersTyped'
    <3>1. htPre' \in PreRec /\ htSpoilt' \in BOOLEAN
      BY <1>1, <1>3, StoppedStep DEF OthersTyped
    <3> QED BY <1>1, <1>3, <3>1 DEF OthersTyped
  <2> QED BY <1>1, <1>3, <1>4, <2>1, <2>2, <2>3, <2>4, <2>5, <2>6 DEF Waiting, Standing
<1>6. AfterError(kind, htRes', c) BY <1>1, <1>2, <1>4
<1>7. ~htPre'.file BY <1>1, StoppedStep
<1>8. ~htRes'.range => c.total < htRes'.size \/ htRes'.size = 0
  BY <1>1, <1>3 DEF PreOK
<1> QED BY <1>2, <1>3, <1>5, <1>6, <1>7, <1>8, ErrorStep

\* The prefetch reads on, ends or breaks off.
LEMMA PrefetchStep ==
  ASSUME HtInv, Prefetch
  PROVE  HtInv'
<1>1. /\ htPre.at = "reading"
      /\ UNCHANGED <<htServer, htState, htRes, htHeld, htDataPos, htConn, htReq, htFile, htStored,
                     htStops, htSpoilt, htMismatch>>
  BY DEF Prefetch
<1>2. HtTyped /\ OthersTyped /\ Standing(htConn) /\ PreOK(htConn) /\ StateOK /\ FallBackOK
      /\ htPre.file /\ htPre \in PreRec /\ htFaults \in Nat /\ htPre.got \in Nat
      /\ htPre.got <= SizeOf(htPre.version) /\ SizeOf(htPre.version) \in Nat
  BY <1>1, SizeType DEF HtInv, HtTyped, OthersTyped, Standing, PreOK, PreRec
<1>3. /\ htPre' \in PreRec /\ htPre'.at \in {"reading", "done"}
      /\ htPre'.file = htPre.file /\ htPre'.fallback = htPre.fallback /\ htPre'.version = htPre.version
      /\ htPre'.got \in {htPre.got, htPre.got + 1} /\ htPre'.got <= SizeOf(htPre.version)
      /\ htPre'.at = "done" /\ ~htPre'.failed => htPre'.got = SizeOf(htPre.version)
      /\ htFaults' \in Nat
  <2>1. CASE htPre.got < SizeOf(htPre.version) /\ htPre' = [htPre EXCEPT !.got = @ + 1] /\ UNCHANGED htFaults
    <3> DEFINE g == htPre.got + 1
    <3>1. g \in Nat /\ g <= SizeOf(htPre.version) BY <1>2, <2>1
    <3>2. htPre' = [htPre EXCEPT !.got = g] BY <1>2, <2>1 DEF PreRec
    <3> HIDE DEF g
    <3>3. /\ htPre' \in PreRec /\ htPre'.at = htPre.at
          /\ htPre'.file = htPre.file /\ htPre'.fallback = htPre.fallback
          /\ htPre'.version = htPre.version /\ htPre'.got = g
      BY <1>2, <3>1, <3>2 DEF PreRec
    <3> QED BY <1>1, <1>2, <2>1, <3>1, <3>3 DEF g
  <2>2. CASE htPre.got = SizeOf(htPre.version) /\ htPre' = [htPre EXCEPT !.at = "done"] /\ UNCHANGED htFaults
    BY <1>2, <2>2 DEF PreRec
  <2>3. CASE htFaults' = htFaults + 1 /\ htPre' = [htPre EXCEPT !.at = "done", !.failed = TRUE]
    <3>1. /\ htPre' \in PreRec /\ htPre'.at = "done" /\ htPre'.failed /\ htPre'.got = htPre.got
          /\ htPre'.file = htPre.file /\ htPre'.fallback = htPre.fallback
          /\ htPre'.version = htPre.version
      BY <1>2, <2>3 DEF PreRec
    <3>2. htFaults' \in Nat BY <1>2, <2>3
    <3> QED BY <1>2, <3>1, <3>2
  <2> QED BY <2>1, <2>2, <2>3 DEF Prefetch
<1>4. PreOK(htConn)'
  <2>1. htConn.there => htConn.begin \in Nat /\ htConn.begin <= htPre'.got
    BY <1>2, <1>3 DEF HtTyped, ConnRec, PreOK
  <2> QED BY <1>1, <1>2, <1>3, <2>1 DEF PreOK
<1>5. Standing(htConn)'
  <2>1. Covers(htConn)' BY <1>1, <1>2, <1>3 DEF Standing, Covers
  <2>2. GenuineOK(htConn)' BY <1>1, <1>2 DEF Standing, GenuineOK, AllRead, Genuine, Settled, OneVersion
  <2>3. VersionsOK' BY <1>1, <1>2 DEF Standing, VersionsOK
  <2> QED BY <1>1, <1>2, <1>4, <2>1, <2>2, <2>3 DEF Standing
<1>6. HtTyped' BY <1>1, <1>2, <1>3 DEF HtTyped, OthersTyped
<1>7. FallBackOK' BY <1>1, <1>2, <1>3 DEF FallBackOK
<1>8. StateOK' BY <1>1, <1>2 DEF StateOK, NoPre
<1>9. RequestOK' /\ PinnedBody'
  BY <1>1, <1>3 DEF HtInv, RequestOK, AskOK, AskedOK, BodyOK, HeldOK, VersionRead, Prefix, PinnedBody
<1>10. DoneIsWhole' BY <1>1 DEF HtInv, DoneIsWhole, OneVersion, LeftBehind
<1> QED BY <1>5, <1>6, <1>7, <1>8, <1>9, <1>10 DEF HtInv

\* A newer version of the resource changes nothing of what is here.
LEMMA ResourceChangesStep ==
  ASSUME HtInv, ResourceChanges
  PROVE  HtInv'
<1>1. /\ htServer.version < Len(VersionSizes) /\ htState # "idle"
      /\ htServer' = [htServer EXCEPT !.version = @ + 1]
      /\ UNCHANGED <<htState, htRes, htPre, htHeld, htDataPos, htConn, htReq, htFile, htStored,
                     htFaults, htStops, htSpoilt, htMismatch>>
  BY DEF ResourceChanges
<1>2. HtTyped /\ OthersTyped /\ Standing(htConn) /\ StateOK
  BY DEF HtInv, HtTyped
<1>3. htServer.version \in Versions /\ htServer.version \in Nat /\ htServer \in ServerRec
      /\ Len(VersionSizes) \in Nat
  <2>1. htServer.version \in Versions /\ htServer \in ServerRec BY <1>2 DEF OthersTyped, ServerRec
  <2>2. Len(VersionSizes) \in Nat BY HtAssumption
  <2> QED BY <2>1, <2>2, TagVersions
<1>4. /\ htServer' \in ServerRec /\ htServer'.version = htServer.version + 1
      /\ htServer'.checksum = htServer.checksum /\ htServer'.lengths = htServer.lengths
  <2> DEFINE v == htServer.version + 1
  <2>1. v \in Versions BY <1>1, <1>3 DEF Versions
  <2>2. htServer' = [htServer EXCEPT !.version = v] BY <1>1, <1>3 DEF ServerRec
  <2> HIDE DEF v
  <2>3. /\ htServer' \in ServerRec /\ htServer'.version = v
        /\ htServer'.checksum = htServer.checksum /\ htServer'.lengths = htServer.lengths
    BY <1>3, <2>1, <2>2 DEF ServerRec
  <2> QED BY <2>3 DEF v
<1>5. \A n \in Nat : n <= htServer.version => n <= htServer'.version
  BY <1>3, <1>4
<1>6. \A n \in Nat : n < htServer.version => n < htServer'.version
  BY <1>3, <1>4
<1>7. /\ htRes.tag \in Nat /\ htPre.version \in Nat /\ htHeld \in Nat /\ htStored.res.tag \in Nat
      /\ htReq.version \in Nat /\ \A p \in Positions : htFile[p] \in Nat
  BY <1>2, TagVersions DEF HtTyped, OthersTyped, ResRec, PreRec, StoredRec, ReqRec
<1>8. Standing(htConn)'
  <2>1. PreOK(htConn)' BY <1>1, <1>2, <1>5, <1>7 DEF Standing, PreOK
  <2>2. VersionsOK' BY <1>1, <1>2, <1>5, <1>7 DEF Standing, VersionsOK
  <2>3. Covers(htConn)' BY <1>1, <1>2 DEF Standing, Covers
  <2>4. GenuineOK(htConn)'
    <3>1. Genuine(htRes, htConn) => Genuine(htRes, htConn)'
      BY <1>1, <1>3, <1>4, <1>7 DEF Genuine
    <3>2. Genuine(htStored.res, htStored.conn) => Genuine(htStored.res, htStored.conn)'
      BY <1>1, <1>3, <1>4, <1>7 DEF Genuine
    <3> QED BY <1>1, <1>2, <1>4, <3>1, <3>2 DEF Standing, GenuineOK, AllRead, Settled, OneVersion
  <2> QED BY <1>1, <1>2, <2>1, <2>2, <2>3, <2>4 DEF Standing
<1>9. HtTyped' BY <1>1, <1>2, <1>4 DEF HtTyped, OthersTyped
<1>10. FallBackOK' BY <1>1 DEF HtInv, FallBackOK
<1>11. StateOK' BY <1>1, <1>2, <1>4, <1>5, <1>7 DEF StateOK
<1>12. RequestOK'
  <2>1. RequestOK BY DEF HtInv
  <2>2. AskOK' /\ AskedOK' BY <1>1, <2>1 DEF RequestOK, AskOK, AskedOK, Prefix
  <2>3. VersionRead => VersionRead' BY <1>1, <1>5, <1>7 DEF VersionRead
  <2>4. BodyOK' BY <1>1, <1>4, <2>1, <2>3 DEF RequestOK, BodyOK
  <2>5. HeldOK' BY <1>1, <2>1, <2>3 DEF RequestOK, HeldOK
  <2> QED BY <2>2, <2>4, <2>5 DEF RequestOK
<1>13. PinnedBody' /\ DoneIsWhole' BY <1>1, <1>4 DEF HtInv, PinnedBody, DoneIsWhole, OneVersion, LeftBehind
<1> QED BY <1>8, <1>9, <1>10, <1>11, <1>12, <1>13 DEF HtInv

\* The record of the download is stored.
LEMMA CheckpointStep ==
  ASSUME HtInv, HtCheckpoint
  PROVE  HtInv'
<1> DEFINE s == IF htConn.state = "completed" THEN htConn.state ELSE "new"
           conn == [htConn EXCEPT !.state = s]
<1>1. /\ htState # "idle" /\ htStops' = htStops + 1
      /\ htStored' = [there |-> TRUE, res |-> htRes, conn |->
                        [htConn EXCEPT !.state = IF @ = "completed" THEN @ ELSE "new"]]
      /\ UNCHANGED <<htServer, htState, htRes, htPre, htHeld, htDataPos, htConn, htReq, htFile,
                     htFaults, htSpoilt, htMismatch>>
  BY DEF HtCheckpoint
<1>2. HtTyped /\ OthersTyped /\ Standing(htConn) /\ StateOK /\ htConn \in ConnRec
      /\ htRes \in ResRec /\ htStops \in Nat /\ PreOK(htConn) /\ RecordOK(htRes, htConn)
      /\ VersionsOK
  BY DEF HtInv, HtTyped, OthersTyped, Standing
<1>3. PICK k : k = conn OBVIOUS
<1>4. /\ k \in ConnRec /\ k.state = s /\ k.begin = htConn.begin /\ k.got = htConn.got
      /\ k.there = htConn.there /\ k.end = htConn.end /\ k.total = htConn.total
      /\ PosOf(k) = PosOf(htConn)
      /\ htConn.state \in {"completed", "new"} => k = htConn
  <2>1. s \in ConnStates /\ k = [htConn EXCEPT !.state = s] BY <1>3 DEF ConnStates
  <2>2. htConn.state \in {"completed", "new"} => s = htConn.state OBVIOUS
  <2> HIDE DEF s
  <2> QED BY <1>2, <2>1, <2>2 DEF ConnRec, PosOf
<1>5. /\ htStored' = [there |-> TRUE, res |-> htRes, conn |-> k]
      /\ htStored'.there /\ htStored'.res = htRes /\ htStored'.conn = k
      /\ htStored' \in StoredRec
  <2>1. htStored' = [there |-> TRUE, res |-> htRes, conn |-> k] BY <1>1, <1>2, <1>3 DEF ConnRec
  <2>2. k.state \in {"new", "completed"} BY <1>4
  <2> QED BY <1>2, <1>4, <2>1, <2>2 DEF StoredRec
<1>6. RecordOK(htRes, k)
  <2>1. ~htConn.there => k = NoConn BY <1>2, <1>4 DEF RecordOK, NoConn
  <2> QED BY <1>2, <1>4, <2>1 DEF RecordOK
<1>7. Standing(htConn)'
  <2>1. PreOK(htConn)'
    <3>1. htPre.file => htRes.tag <= htPre.version
      <4>1. htPre.file => htPre.version \in Nat BY <1>2, TagVersions DEF PreOK
      <4> QED BY <1>2, <4>1 DEF PreOK
    <3> QED BY <1>1, <1>2, <1>5, <3>1 DEF PreOK
  <2>2. VersionsOK' BY <1>1, <1>2, <1>5 DEF VersionsOK
  <2>3. Covers(htConn)' BY <1>1, <1>2 DEF Standing, Covers
  <2>4. GenuineOK(htConn)'
    <3> SUFFICES ASSUME htServer.checksum = 0 PROVE GenuineOK(htConn)'
      BY <1>1 DEF GenuineOK
    <3>1. Genuine(htRes, htConn)' BY <1>1, <1>2 DEF Standing, GenuineOK, Genuine
    <3>2. Genuine(htStored.res, htStored.conn)' BY <1>1, <1>4, <1>5, <3>1 DEF Genuine
    <3>3. Settled(htConn)' BY <1>1, <1>4, <1>5 DEF Settled
    <3> QED BY <1>1, <1>2, <3>1, <3>2, <3>3 DEF Standing, GenuineOK, AllRead, OneVersion
  <2>5. RecordOK(htRes, htConn)' /\ RecordOK(htStored.res, htStored.conn)'
    BY <1>1, <1>2, <1>5, <1>6
  <2> QED BY <2>1, <2>2, <2>3, <2>4, <2>5 DEF Standing
<1>8. HtTyped' BY <1>1, <1>2, <1>5 DEF HtTyped, OthersTyped
<1>9. FallBackOK' BY <1>1 DEF HtInv, FallBackOK
<1>10. StateOK' BY <1>1, <1>2, <1>5 DEF StateOK
<1>11. RequestOK'
  <2>1. RequestOK BY DEF HtInv
  <2>2. AskOK' /\ AskedOK' BY <1>1, <2>1 DEF RequestOK, AskOK, AskedOK, Prefix
  <2>3. VersionRead => VersionRead' BY <1>1, <1>5 DEF VersionRead
  <2> QED BY <1>1, <2>1, <2>2, <2>3 DEF RequestOK, BodyOK, HeldOK
<1>12. PinnedBody' /\ DoneIsWhole' BY <1>1 DEF HtInv, PinnedBody, DoneIsWhole, OneVersion, LeftBehind
<1> QED BY <1>7, <1>8, <1>9, <1>10, <1>11, <1>12 DEF HtInv

\* Nothing is asked for and nothing is prefetched: what is left of the invariant.
LEMMA QuietStep ==
  ASSUME HtTyped', Standing(htConn)', StateOK', htReq' = NoReq, ~htPre'.file,
         htState' # "done"
  PROVE  HtInv'
<1>1. htReq'.at = "off" BY DEF NoReq
<1>2. RequestOK' /\ PinnedBody' BY <1>1 DEF RequestOK, AskOK, AskedOK, BodyOK, HeldOK, PinnedBody
<1>3. FallBackOK' BY <1>1 DEF FallBackOK
<1>4. DoneIsWhole' BY DEF DoneIsWhole
<1> QED BY <1>2, <1>3, <1>4 DEF HtInv

\* A restart from the stored record.
LEMMA HtCrashStep ==
  ASSUME HtInv, HtCrash
  PROVE  HtInv'
<1>1. /\ htStored.there /\ htStops' = htStops + 1
      /\ htSpoilt' = (htSpoilt \/ \E p \in Positions : p < htStored.conn.begin + htStored.conn.got
                                                       /\ htFile[p] = 0)
      /\ htState' = "resolved" /\ htRes' = htStored.res /\ htConn' = htStored.conn
      /\ htPre' = NoPre /\ htHeld' = 0 /\ htDataPos' = 0 /\ htReq' = NoReq /\ htMismatch' = FALSE
      /\ UNCHANGED <<htServer, htFile, htStored, htFaults>>
  BY DEF HtCrash
<1>2. OthersTyped /\ Standing(htConn) /\ htStored \in StoredRec /\ htStops \in Nat
      /\ RecordOK(htStored.res, htStored.conn) /\ VersionsOK
  BY DEF HtInv, HtTyped, OthersTyped, Standing
<1>3. NoPre \in PreRec /\ ~NoPre.file /\ ~NoPre.fallback /\ NoPre.at = "off"
  BY TagVersions DEF NoPre, PreRec
<1>4. HtTyped'
  <2>1. htSpoilt' \in BOOLEAN BY <1>1, <1>2 DEF OthersTyped
  <2>2. htRes' \in ResRec /\ htConn' \in ConnRec BY <1>1, <1>2 DEF StoredRec
  <2>3. htReq' \in ReqRec BY <1>1, NothingAsked
  <2>4. htHeld' \in Tags /\ htDataPos' \in Nat /\ htStops' \in Nat /\ htState' \in HtStates
        /\ htMismatch' \in BOOLEAN
    <3>1. htHeld' \in Tags /\ htDataPos' \in Nat BY <1>1, TagVersions
    <3>2. htStops' \in Nat BY <1>1, <1>2
    <3>3. htState' \in HtStates /\ htMismatch' \in BOOLEAN BY <1>1 DEF HtStates
    <3> QED BY <3>1, <3>2, <3>3
  <2> QED BY <1>1, <1>2, <1>3, <2>1, <2>2, <2>3, <2>4 DEF HtTyped, OthersTyped
<1>5. Standing(htConn)'
  <2>1. RecordOK(htRes, htConn)' /\ RecordOK(htStored.res, htStored.conn)' BY <1>1, <1>2
  <2>2. PreOK(htConn)' BY <1>1, <1>3 DEF PreOK
  <2>3. VersionsOK' BY <1>1, <1>2 DEF VersionsOK
  <2>4. Covers(htConn)' BY <1>1 DEF Covers, PosOf
  <2>5. GenuineOK(htConn)'
    <3> SUFFICES ASSUME htServer.checksum = 0 PROVE GenuineOK(htConn)'
      BY <1>1 DEF GenuineOK
    <3>1. Genuine(htStored.res, htStored.conn)' BY <1>1, <1>2 DEF Standing, GenuineOK, Genuine
    <3>2. Genuine(htRes, htConn)' BY <1>1, <3>1 DEF Genuine
    <3>3. Settled(htConn)' BY <1>1 DEF Settled
    <3>4. htConn'.state = "completed" /\ ~htRes'.range => OneVersion'
      BY <1>1, <1>2 DEF Standing, GenuineOK, Settled, OneVersion
    <3>5. htConn'.state # "broken" BY <1>1, <1>2 DEF StoredRec
    <3> QED BY <3>1, <3>2, <3>3, <3>4, <3>5 DEF GenuineOK, AllRead
  <2> QED BY <2>1, <2>2, <2>3, <2>4, <2>5 DEF Standing
<1>6. StateOK' BY <1>1 DEF StateOK, NoReq
<1>7. ~htPre'.file /\ htState' # "done" BY <1>1, <1>3
<1> QED BY <1>1, <1>4, <1>5, <1>6, <1>7, QuietStep

\* The download ends: what its last connection says of the bytes is what there is.
LEMMA DownloadEndsStep ==
  ASSUME HtInv, DownloadEnds
  PROVE  HtInv'
<1> DEFINE missing == IF htRes.range
                      THEN htConn.end = OpenEnd \/ htConn.end + 1 - htConn.begin - htConn.got > 0
                      ELSE KnownSize(htRes) > 0 => htConn.total < htRes.size
           complete == KnownSize(htRes) > 0 /\ htConn.total >= htRes.size
           excused == htConn.state = "forbidden" /\ htRes.known
           failed == \/ htConn.state = "failed"
                     \/ /\ htConn.state \in {"broken", "refused", "forbidden"} /\ ~excused
                        /\ missing /\ ~complete
<1>1. /\ htState = "running" /\ htReq.at = "off"
      /\ UNCHANGED <<htServer, htRes, htPre, htHeld, htDataPos, htConn, htReq, htFile, htStored,
                     htFaults, htStops, htSpoilt>>
      /\ IF failed THEN htState' = "error" /\ UNCHANGED htMismatch ELSE Verified
  BY DEF DownloadEnds
<1>2. HtTyped /\ OthersTyped /\ Standing(htConn) /\ StateOK /\ htConn \in ConnRec
      /\ htRes \in ResRec /\ PreOK(htConn) /\ RecordOK(htRes, htConn) /\ htConn.there
      /\ htConn.state # "new" /\ htHeld = 0 /\ htFile \in [Positions -> Tags]
  BY <1>1 DEF HtInv, HtTyped, OthersTyped, Standing, StateOK
<1>3. /\ htState' \in {"error", "done"}
      /\ htState' = "done" => ~failed /\ ~Mismatches(htFile)
      /\ htMismatch' \in BOOLEAN /\ (htMismatch' => htServer.checksum # 0)
  <2>1. htMismatch \in BOOLEAN /\ (htMismatch => htServer.checksum # 0)
    BY <1>2 DEF OthersTyped, StateOK
  <2>2. CASE failed BY <1>1, <2>1, <2>2
  <2>3. CASE ~failed
    <3>1. Mismatches(htFile) \in BOOLEAN /\ (Mismatches(htFile) => htServer.checksum # 0)
      BY DEF Mismatches
    <3>2. Mismatches(htFile') <=> Mismatches(htFile)  BY <1>1 DEF Mismatches
    <3>3. /\ htState' = IF Mismatches(htFile') THEN "error" ELSE "done"
          /\ htMismatch' = (htMismatch \/ Mismatches(htFile'))
      BY <1>1, <2>3 DEF Verified
    <3> HIDE DEF failed
    <3> QED BY <2>1, <2>3, <3>1, <3>2, <3>3
  <2> QED BY <2>2, <2>3
<1>4. HtTyped'
  <2>1. htState' \in HtStates BY <1>3 DEF HtStates
  <2> QED BY <1>1, <1>2, <1>3, <2>1 DEF HtTyped, OthersTyped
<1>5. Standing(htConn)'
  <2>1. htState' # "resolved" BY <1>3
  <2>2. PreOK(htConn)' BY <1>1, <1>2, <2>1 DEF PreOK
  <2>3. Covers(htConn)' /\ VersionsOK' BY <1>1, <1>2 DEF Standing, Covers, VersionsOK
  <2>4. GenuineOK(htConn)' BY <1>1, <1>2 DEF Standing, GenuineOK, AllRead, Genuine, Settled, OneVersion
  <2> QED BY <1>1, <1>2, <2>2, <2>3, <2>4 DEF Standing
<1>6. FallBackOK' BY <1>1 DEF HtInv, FallBackOK
<1>7. StateOK' BY <1>1, <1>2, <1>3 DEF StateOK
<1>8. RequestOK' /\ PinnedBody'
  BY <1>1 DEF RequestOK, AskOK, AskedOK, BodyOK, HeldOK, PinnedBody
<1>9. ASSUME htState' = "done", ~htSpoilt
      PROVE  /\ \A p \in (0..htRes.size - 1) \ LeftBehind : htFile[p] # 0
             /\ LeftBehind = {} /\ (~htRes.range \/ htRes.pinned) => OneVersion
  <2>1. ~failed /\ ~Mismatches(htFile) BY <1>3, <1>9
  <2>2. PosOf(htConn) \in Nat /\ htRes.size \in Nat /\ htConn.total = PosOf(htConn)
        /\ htConn.begin \in Nat /\ htConn.got \in Nat
    BY <1>2 DEF RecordOK, ConnRec, ResRec, PosOf
  <2>3. htConn.state # "forbidden" => PosOf(htConn) >= htRes.size
    <3>1. htConn.state \in {"completed", "broken", "refused", "forbidden"}
      BY <1>2, <2>1 DEF ConnRec, ConnStates
    <3>2. htConn.state = "completed" => PosOf(htConn) >= htRes.size BY <1>2 DEF RecordOK
    <3>3. complete => PosOf(htConn) >= htRes.size BY <2>2
    <3>4. ASSUME ~missing PROVE PosOf(htConn) >= htRes.size
      <4>1. CASE htRes.range
        <5>1. htConn.end = IF htRes.known THEN htRes.size - 1 ELSE OpenEnd BY <1>2, <4>1 DEF RecordOK
        <5>2. htConn.end # OpenEnd /\ ~(htConn.end + 1 - htConn.begin - htConn.got > 0) BY <3>4, <4>1
        <5>3. htConn.end = htRes.size - 1 BY <5>1, <5>2
        <5> QED BY <2>2, <5>2, <5>3 DEF PosOf
      <4>2. CASE ~htRes.range BY <2>2, <3>4, <4>2
      <4> QED BY <4>1, <4>2
    <3> HIDE DEF missing, complete
    <3> QED BY <2>1, <3>1, <3>2, <3>3, <3>4
  <2>4. ~htPre.file
    <3> SUFFICES ASSUME htPre.file PROVE FALSE OBVIOUS
    <3>1. /\ htRes.range /\ htConn.got = 0 /\ htConn.state \notin {"completed", "forbidden"}
          /\ htRes.known => htConn.begin < htRes.size
      BY <1>2 DEF PreOK
    <3>2. htConn.end = IF htRes.known THEN htRes.size - 1 ELSE OpenEnd
      BY <1>2, <3>1 DEF RecordOK
    <3>3. missing BY <2>2, <3>1, <3>2
    <3>4. ~complete BY <2>2, <3>1 DEF KnownSize, PosOf
    <3>5. htConn.state \in {"broken", "refused"} BY <1>2, <2>1, <3>1 DEF ConnRec, ConnStates
    <3> HIDE DEF missing, complete
    <3> QED BY <2>1, <3>3, <3>4, <3>5
  <2>5. \A p \in Positions : p < PosOf(htConn) => htFile[p] # 0
    BY <1>2, <1>9, <2>4 DEF Standing, Covers
  <2>6. \A p \in 0..htRes.size - 1 : p \in Positions
    <3>1. CASE htRes.known
      <4>1. PICK v \in Versions : htRes.size = SizeOf(v) BY <1>2, <3>1 DEF RecordOK
      <4>2. \A p \in 0..htRes.size - 1 : p \in Nat /\ p < SizeOf(v)
        BY <2>2, <4>1
      <4> QED BY <4>2, PositionsUpTo
    <3>2. CASE ~htRes.known
      <4>1. htRes.size = 0 BY <1>2, <3>2 DEF RecordOK
      <4> QED BY <4>1
    <3> QED BY <3>1, <3>2
  <2>7. \A p \in (0..htRes.size - 1) \ LeftBehind : p \in Positions /\ p < PosOf(htConn)
    BY <2>2, <2>3, <2>6 DEF LeftBehind, PosOf
  <2>11. LeftBehind = {} => PosOf(htConn) >= htRes.size
    <3>1. ASSUME LeftBehind = {}, htConn.state = "forbidden", ~(PosOf(htConn) >= htRes.size)
          PROVE  FALSE
      <4>1. PosOf(htConn) \in 0..htRes.size - 1 BY <2>2, <3>1
      <4> QED BY <2>2, <3>1, <4>1 DEF LeftBehind, PosOf
    <3> QED BY <2>3, <3>1
  <2>8. ASSUME htServer.checksum # 0 PROVE OneVersion
    <3>1. htServer.checksum \in Versions
      <4>1. htServer.checksum \in {0, 1} BY <1>2 DEF OthersTyped, ServerRec
      <4> QED BY <2>8, <4>1, TagVersions
    <3>2. \A p \in Positions :
            htFile[p] = IF p < SizeOf(htServer.checksum) THEN htServer.checksum ELSE 0
      BY <2>1, <2>8 DEF Mismatches
    <3>3. \A p \in 0..SizeOf(htServer.checksum) - 1 : p \in Positions /\ p < SizeOf(htServer.checksum)
      BY <3>1, SizeType, PositionsUpTo
    <3>4. \A p \in 0..SizeOf(htServer.checksum) - 1 : htFile[p] = htServer.checksum
      BY <3>2, <3>3
    <3> QED BY <3>1, <3>4 DEF OneVersion
  <2>9. ASSUME htServer.checksum = 0, ~htRes.range, LeftBehind = {} PROVE OneVersion
    <3>1. htConn.state = "completed" \/ AllRead(htConn)
      <4>1. htConn.state \in {"refused", "forbidden"} =>
              htRes.size = 0 /\ KnownSize(htRes) = 0 /\ ~htRes.known
        <5>1. ASSUME htConn.state \in {"refused", "forbidden"} PROVE htRes.size = 0
          BY <1>2, <2>2, <2>9, <2>11, <5>1 DEF RecordOK
        <5>2. htRes.known => htRes.size > 0
          <6>1. \A v \in Versions : SizeOf(v) > 0 BY SizeType
          <6> QED BY <1>2, <6>1 DEF RecordOK
        <5> QED BY <2>2, <5>1, <5>2 DEF KnownSize
      <4>2. htConn.state \notin {"refused", "forbidden"} BY <2>1, <2>9, <4>1
      <4>3. htConn.state \in {"completed", "broken"} BY <1>2, <2>1, <4>2 DEF ConnRec, ConnStates
      <4>4. htConn.state = "broken" => KnownSize(htRes) > 0 BY <2>1, <2>9
      <4>5. htConn.state = "broken" => htRes.known BY <4>4 DEF KnownSize
      <4> HIDE DEF failed
      <4> QED BY <2>2, <2>9, <2>11, <4>3, <4>5 DEF AllRead
    <3> QED BY <1>2, <2>9, <3>1 DEF Standing, GenuineOK
  <2>10. ASSUME htServer.checksum = 0, htRes.pinned, LeftBehind = {} PROVE OneVersion
    <3>1. htRes.tag # 0 /\ htRes.size = SizeOf(htRes.tag) /\ htRes.tag \in Versions
      BY <1>2, <2>10, TagVersions DEF RecordOK, ResRec
    <3>2. \A p \in Positions : p < PosOf(htConn) => htFile[p] \in {0, htRes.tag}
      BY <1>2, <2>2, <2>10, <2>11, <3>1 DEF Standing, GenuineOK, Genuine
    <3>3. \A p \in 0..SizeOf(htRes.tag) - 1 : htFile[p] = htRes.tag
      BY <2>5, <2>7, <2>10, <3>1, <3>2
    <3> QED BY <3>1, <3>3 DEF OneVersion
  <2>12. \A p \in (0..htRes.size - 1) \ LeftBehind : htFile[p] # 0 BY <2>5, <2>7
  <2>13. ASSUME LeftBehind = {}, ~htRes.range \/ htRes.pinned PROVE OneVersion
    BY <1>2, <2>8, <2>9, <2>10, <2>13 DEF OthersTyped, ServerRec
  <2> QED BY <2>12, <2>13
<1>10. DoneIsWhole' BY <1>1, <1>9 DEF DoneIsWhole, OneVersion, LeftBehind
<1> QED BY <1>4, <1>5, <1>6, <1>7, <1>8, <1>10 DEF HtInv

\* Resolve's response: kept for Start, or the beginning of a prefetch.
LEMMA ResolveStep ==
  ASSUME HtInv, HtResolve
  PROVE  HtInv'
<1> DEFINE v == htServer.version
<1>1. /\ htState = "idle" /\ htState' = "resolved"
      /\ htHeld' = IF htServer.ranges THEN 0 ELSE v
      /\ UNCHANGED <<htServer, htDataPos, htConn, htReq, htFile, htStored, htFaults, htStops,
                     htSpoilt, htMismatch>>
  BY DEF HtResolve
<1>2. PICK segment \in {FALSE, htServer.ranges} :
        LET known == segment \/ htServer.lengths IN
        /\ htRes' = [NoRes EXCEPT !.range = htServer.ranges, !.size = IF known THEN SizeOf(v) ELSE 0,
                                  !.known = known, !.unknown = ~htServer.ranges /\ ~known,
                                  !.tag = TagOf(v)]
        /\ htPre' = IF htServer.ranges /\ ~segment
                    THEN [NoPre EXCEPT !.at = "reading", !.version = v, !.file = TRUE, !.fallback = TRUE]
                    ELSE NoPre
  BY DEF HtResolve
<1> DEFINE known == segment \/ htServer.lengths
           size == IF known THEN SizeOf(v) ELSE 0
           unknown == ~htServer.ranges /\ ~known
           tag == TagOf(v)
           range == htServer.ranges
<1>3. HtTyped /\ OthersTyped /\ StateOK /\ Standing(htConn) /\ htServer \in ServerRec
  BY DEF HtInv, HtTyped, OthersTyped
<1>4. /\ htRes = NoRes /\ htHeld = 0 /\ htConn = NoConn /\ ~htConn.there
      /\ ~htStored.there /\ htReq = NoReq /\ ~htMismatch
  BY <1>1, <1>3 DEF StateOK, Standing, RecordOK, NoRes
<1>5. v \in Versions /\ v \in Tags /\ v \in Nat /\ SizeOf(v) \in Nat
  <2>1. v \in Versions BY <1>3 DEF ServerRec
  <2> QED BY <2>1, TagVersions, SizeType
<1>6. /\ known \in BOOLEAN /\ unknown \in BOOLEAN /\ range \in BOOLEAN
      /\ size \in Nat /\ tag \in Tags /\ tag \in {0, v}
  <2>1. segment \in BOOLEAN /\ htServer.ranges \in BOOLEAN /\ htServer.lengths \in BOOLEAN
    BY <1>3 DEF ServerRec
  <2>2. size \in Nat BY <1>5
  <2>3. tag \in Tags /\ tag \in {0, v} BY <1>5, TagVersions DEF TagOf
  <2> QED BY <2>1, <2>2, <2>3
<1>7. NoRes \in ResRec /\ ~NoRes.eligible /\ ~NoRes.pinned
  BY TagVersions DEF NoRes, ResRec
<1>8. /\ htRes' \in ResRec /\ htRes'.range = range /\ htRes'.size = size /\ htRes'.known = known
      /\ htRes'.unknown = unknown /\ htRes'.tag = tag /\ ~htRes'.eligible /\ ~htRes'.pinned
  <2>1. htRes' = [NoRes EXCEPT !.range = range, !.size = size, !.known = known,
                               !.unknown = unknown, !.tag = tag]
    BY <1>2
  <2> HIDE DEF range, size, known, unknown, tag
  <2> QED BY <1>6, <1>7, <2>1 DEF ResRec
<1>9. /\ htPre' \in PreRec
      /\ htPre'.file = (range /\ ~segment) /\ htPre'.fallback = htPre'.file
      /\ htPre'.file => htPre'.version = v /\ htPre'.got = 0 /\ htPre'.at = "reading"
      /\ ~htPre'.file => htPre'.at = "off"
  <2>1. NoPre \in PreRec /\ ~NoPre.file /\ ~NoPre.fallback /\ NoPre.at = "off" /\ NoPre.got = 0
        /\ NoPre.file = FALSE /\ NoPre.fallback = FALSE
    BY TagVersions DEF NoPre, PreRec
  <2>2. CASE htServer.ranges /\ ~segment
    <3>1. htPre' = [NoPre EXCEPT !.at = "reading", !.version = v, !.file = TRUE, !.fallback = TRUE]
      BY <1>2, <2>2
    <3> HIDE DEF v
    <3>2. htPre' \in PreRec BY <1>5, <2>1, <3>1 DEF PreRec
    <3>3. /\ htPre'.file = TRUE /\ htPre'.fallback = TRUE /\ htPre'.version = v /\ htPre'.got = 0
          /\ htPre'.at = "reading"
      BY <1>5, <2>1, <3>1 DEF PreRec
    <3> QED BY <2>2, <3>2, <3>3
  <2>3. CASE ~(htServer.ranges /\ ~segment)
    <3>1. htPre' = NoPre BY <1>2, <2>3
    <3> QED BY <2>1, <2>3, <3>1
  <2> QED BY <2>2, <2>3
<1>10. HtTyped'
  <2>1. htHeld' \in Tags BY <1>1, <1>5, TagVersions
  <2>2. htState' \in HtStates BY <1>1 DEF HtStates
  <2> QED BY <1>1, <1>3, <1>8, <1>9, <2>1, <2>2 DEF HtTyped, OthersTyped
<1>11. Standing(htConn)'
  <2>1. RecordOK(htRes, htConn)'
    <3>1. /\ ~htConn'.there /\ htConn'.begin = 0 /\ htConn'.total = 0 /\ PosOf(htConn') = 0
          /\ htConn'.state = "new" /\ htConn' = NoConn
      BY <1>1, <1>4 DEF NoConn, PosOf
    <3>2. htRes'.known => \E w \in Versions : htRes'.size = SizeOf(w) BY <1>5, <1>8
    <3>3. /\ ~htRes'.known => htRes'.size = 0
          /\ htRes'.unknown => ~htRes'.range
          /\ ~htRes'.pinned
      BY <1>8
    <3> QED BY <3>1, <3>2, <3>3 DEF RecordOK
  <2>2. PreOK(htConn)' BY <1>1, <1>4, <1>5, <1>6, <1>8, <1>9 DEF PreOK
  <2>3. VersionsOK' BY <1>1, <1>3, <1>4, <1>5, <1>6, <1>8 DEF Standing, VersionsOK
  <2>4. Covers(htConn)' BY <1>1, <1>4 DEF Covers
  <2>5. GenuineOK(htConn)' BY <1>1, <1>4, <1>8 DEF GenuineOK, AllRead, Genuine, NoConn
  <2>6. RecordOK(htStored.res, htStored.conn)' BY <1>1, <1>3 DEF Standing
  <2> QED BY <2>1, <2>2, <2>3, <2>4, <2>5, <2>6 DEF Standing
<1>12. StateOK'
  <2>1. htHeld' # 0 => ~htServer.ranges /\ htHeld' = v BY <1>1
  <2>2. htHeld' # 0 => htRes'.tag <= htHeld' /\ (htRes'.known => htRes'.size = SizeOf(htHeld'))
    BY <1>5, <1>6, <1>8, <2>1
  <2>3. htReq'.at = "off" BY <1>1, <1>4 DEF NoReq
  <2> QED BY <1>1, <1>4, <1>5, <1>8, <2>1, <2>2, <2>3 DEF StateOK
<1>13. FallBackOK' BY <1>1, <1>4, <1>9 DEF FallBackOK, NoReq
<1>14. RequestOK' /\ PinnedBody'
  <2>1. htReq'.at = "off" BY <1>1, <1>4 DEF NoReq
  <2> QED BY <2>1 DEF RequestOK, AskOK, AskedOK, BodyOK, HeldOK, PinnedBody
<1>15. DoneIsWhole' BY <1>1 DEF DoneIsWhole
<1> QED BY <1>10, <1>11, <1>12, <1>13, <1>14, <1>15 DEF HtInv

\* A pause moves what the prefetch has to the target, and the connection behind it.
LEMMA HtPauseStep ==
  ASSUME HtInv, HtPause
  PROVE  HtInv'
<1> DEFINE moves == htRes.range /\ htPre.file /\ Copied > 0
           written == htState # "resolved"
           there == moves /\ htConn.there /\ htConn.state # "completed"
<1>1. /\ htState \in {"resolved", "running", "error"} /\ htStops' = htStops + 1
      /\ htState' = "paused" /\ htReq' = NoReq /\ htHeld' = 0 /\ htPre' = PreStopped
      /\ htFile' = IF moves /\ written THEN FileWithPrefix ELSE htFile
      /\ htDataPos' = IF moves THEN Copied ELSE htDataPos
      /\ htConn' = IF there THEN [FirstChunk(Copied) EXCEPT !.state = htConn.state] ELSE htConn
      /\ UNCHANGED <<htServer, htRes, htStored, htFaults, htSpoilt, htMismatch>>
  BY DEF HtPause
<1>2. HtTyped /\ OthersTyped /\ Standing(htConn) /\ StateOK /\ htConn \in ConnRec
      /\ htRes \in ResRec /\ PreOK(htConn) /\ RecordOK(htRes, htConn)
      /\ htFile \in [Positions -> Tags] /\ htStops \in Nat /\ htDataPos \in Nat
  BY DEF HtInv, HtTyped, OthersTyped, Standing
<1>3. /\ Copied \in Nat /\ htPre' \in PreRec /\ ~htPre'.file
      /\ htFile' \in [Positions -> Tags] /\ \A p \in Positions : htFile'[p] <= htServer.version
  BY <1>1, <1>2, PrefixCopied, StoppedStep DEF Standing, VersionsOK
<1>4. PICK d : d = htConn' OBVIOUS
<1>5. there => /\ d \in ConnRec /\ d.there /\ d.begin = Copied /\ d.got = 0 /\ d.total = Copied
               /\ d.end = IF htRes.known THEN htRes.size - 1 ELSE OpenEnd
               /\ d.state = htConn.state /\ PosOf(d) = Copied
  <2> DEFINE pos == Copied
             end == IF KnownSize(htRes) > 0 THEN htRes.size - 1 ELSE OpenEnd
             state == htConn.state
             z == 0
  <2> SUFFICES ASSUME there
               PROVE  /\ d \in ConnRec /\ d.there /\ d.begin = Copied /\ d.got = 0 /\ d.total = Copied
                      /\ d.end = IF htRes.known THEN htRes.size - 1 ELSE OpenEnd
                      /\ d.state = htConn.state /\ PosOf(d) = Copied
    OBVIOUS
  <2>1. end = IF htRes.known THEN htRes.size - 1 ELSE OpenEnd
    <3>1. htRes.known => htRes.size \in Nat /\ htRes.size > 0 BY <1>2, SizeType DEF RecordOK
    <3> QED BY <3>1 DEF KnownSize
  <2>2. end \in Int /\ pos \in Nat /\ state \in ConnStates /\ htRes.size \in Nat /\ z \in Nat
    <3>1. htRes.size \in Nat BY <1>2 DEF ResRec
    <3>2. end \in Int BY <3>1 DEF OpenEnd
    <3> QED BY <1>2, <1>3, <3>1, <3>2 DEF ConnRec
  <2>3. d = [[NoConn EXCEPT !.there = TRUE, !.begin = pos, !.total = pos, !.end = end]
               EXCEPT !.state = state]
    BY <1>1, <1>4 DEF FirstChunk
  <2>4. NoConn \in ConnRec /\ NoConn.got = z BY DEF NoConn, ConnRec, ConnStates, OpenEnd
  <2> HIDE DEF end, pos, state, z, there
  <2>5. d \in ConnRec /\ d.there /\ d.begin = pos /\ d.got = z /\ d.total = pos /\ d.end = end
        /\ d.state = state
    BY <2>2, <2>3, <2>4 DEF ConnRec
  <2> QED BY <1>3, <2>1, <2>5 DEF PosOf, pos, state, z
<1>6. ~there => d = htConn BY <1>1, <1>4
<1>7. there => /\ ~htRes.pinned /\ htRes.range /\ htPre.version # 0
               /\ \A p \in Positions : p < Copied => htFile'[p] = htPre.version
  <2> SUFFICES ASSUME there PROVE /\ ~htRes.pinned /\ htRes.range /\ htPre.version # 0
                                  /\ \A p \in Positions : p < Copied => htFile'[p] = htPre.version
    OBVIOUS
  <2>1. written BY <1>2 DEF PreOK
  <2>2. ~htRes.pinned /\ htRes.range /\ htPre.version # 0 BY <1>2, TagVersions DEF PreOK
  <2> QED BY <1>1, <2>1, <2>2, PrefixCopied
<1>8. d \in ConnRec /\ d.there = htConn.there /\ d.state = htConn.state
  BY <1>2, <1>5, <1>6 DEF ConnRec
<1> HIDE DEF there
<1>9. Standing(d)'
  <2>1. RecordOK(htRes, d)'
    <3>1. CASE there
      <4>1. d.state # "completed" BY <1>5, <3>1 DEF there
      <4> QED BY <1>1, <1>2, <1>3, <1>5, <1>7, <3>1, <4>1 DEF RecordOK
    <3>2. CASE ~there BY <1>1, <1>2, <1>6, <3>2
    <3> QED BY <3>1, <3>2
  <2>2. PreOK(d)' BY <1>1, StoppedStep
  <2>3. VersionsOK' BY <1>1, <1>2, <1>3 DEF Standing, VersionsOK
  <2>4. Covers(d)'
    <3>1. CASE there BY <1>3, <1>5, <1>7, <3>1 DEF Covers
    <3>2. CASE ~there
      <4>1. \A p \in Positions : htFile'[p] = htFile[p] \/ (p < Copied /\ moves)
        BY <1>1, PrefixCopied
      <4>2. ASSUME htConn.there, htPre.file PROVE htConn.begin = 0 /\ htConn.got = 0
        <5>1. ~moves BY <1>2, <3>2, <4>2 DEF there, PreOK
        <5>2. Copied = 0 /\ htRes.range BY <1>2, <1>3, <4>2, <5>1 DEF PreOK
        <5> QED BY <1>2, <4>2, <5>2, PrefixCopied DEF PreOK, ConnRec
      <4>3. ASSUME htConn.there, ~htPre.file PROVE ~moves BY <4>3
      <4> HIDE DEF moves
      <4>4. CASE htPre.file /\ htConn.there
        <5>1. PosOf(d) = 0 BY <1>6, <3>2, <4>2, <4>4 DEF PosOf
        <5> QED BY <5>1, PositionsUpTo DEF Covers
      <4>5. CASE ~htPre.file /\ htConn.there
        BY <1>1, <1>2, <1>6, <3>2, <4>1, <4>3, <4>5 DEF Standing, Covers
      <4>6. CASE ~htConn.there BY <1>8, <4>6 DEF Covers
      <4> QED BY <4>4, <4>5, <4>6
    <3> QED BY <3>1, <3>2
  <2>5. GenuineOK(d)'
    <3> SUFFICES ASSUME htServer.checksum = 0 PROVE GenuineOK(d)'
      BY <1>1 DEF GenuineOK
    <3>1. CASE moves
      <4>1. /\ htPre.file /\ htRes.range /\ ~htRes.pinned /\ d.state # "completed"
            /\ htConn.state # "completed"
        <5>1. ~htConn.there => htConn.state = "new" BY <1>2 DEF RecordOK, NoConn
        <5> QED BY <1>2, <1>8, <3>1, <5>1 DEF PreOK
      <4>2. Genuine(htRes, d)' BY <1>1, <4>1 DEF Genuine
      <4>3. htStored.there => Genuine(htStored.res, htStored.conn)'
        <5>1. \A p \in Positions : htFile'[p] \in {0, FileWithPrefix[p]} \/ htFile' = htFile
          BY <1>1
        <5>2. CASE htFile' = htFile
          BY <1>1, <1>2, <5>2 DEF Standing, GenuineOK, Genuine
        <5>3. CASE htFile' # htFile BY <1>1, <4>1, <5>1, <5>3, StoredCopied
        <5> QED BY <5>2, <5>3
      <4>4. htStored.there => Settled(d)' BY <1>1, <4>1, SettledStep
      <4> QED BY <1>1, <4>1, <4>2, <4>3, <4>4 DEF GenuineOK
    <3>2. CASE ~moves
      <4>1. htFile' = htFile /\ d = htConn BY <1>1, <1>6, <3>2 DEF there
      <4> QED BY <1>1, <1>2, <4>1 DEF Standing, GenuineOK, AllRead, Genuine, Settled, OneVersion
    <3> QED BY <3>1, <3>2
  <2>6. RecordOK(htStored.res, htStored.conn)' BY <1>1, <1>2 DEF Standing
  <2> QED BY <2>1, <2>2, <2>3, <2>4, <2>5, <2>6 DEF Standing
<1>10. Standing(htConn)' BY <1>4, <1>9, StandingNext
<1>11. HtTyped'
  <2>1. htDataPos' \in Nat /\ htStops' \in Nat BY <1>1, <1>2, <1>3
  <2>2. htHeld' \in Tags /\ htReq' \in ReqRec BY <1>1, TagVersions, NothingAsked
  <2>3. htState' \in HtStates BY <1>1 DEF HtStates
  <2> QED BY <1>1, <1>2, <1>3, <1>4, <1>8, <2>1, <2>2, <2>3 DEF HtTyped, OthersTyped
<1>12. StateOK'
  <2>1. htReq'.at = "off" BY <1>1 DEF NoReq
  <2> QED BY <1>1, <1>2, <1>4, <1>8, <2>1 DEF StateOK
<1> QED BY <1>1, <1>3, <1>10, <1>11, <1>12, QuietStep

\* Where Start or Pause leaves the bytes of the prefetch: in the target, or where
\* they are.
LEMMA PlacedStep ==
  ASSUME HtInv, htReq.at = "off", UNCHANGED <<htServer, htRes, htStored>>,
         \/ htFile' = FileWithPrefix /\ htPre' = PreStopped
         \/ htFile' = htFile /\ htPre' = htPre
  PROVE  /\ htFile' \in [Positions -> Tags] /\ htPre' \in PreRec
         /\ VersionsOK' /\ RecordOK(htStored.res, htStored.conn)'
         /\ htPre'.file => htPre' = htPre /\ htFile' = htFile
         /\ htPre'.file => htPre'.fallback
         /\ ~htPre.file => htFile' = htFile
         /\ ~htPre'.file => \A c : PreOK(c)'
         /\ htPre.file /\ ~htPre'.file => \A p \in Positions : p < htPre.got => htFile'[p] # 0
         /\ htServer.checksum = 0 /\ htStored.there => Genuine(htStored.res, htStored.conn)'
         /\ htPre.file => htConn.state # "completed" /\ htRes.range /\ ~htRes.pinned
<1>1. OthersTyped /\ Standing(htConn) /\ FallBackOK /\ PreOK(htConn) /\ VersionsOK
      /\ htFile \in [Positions -> Tags] /\ htPre \in PreRec
  BY DEF HtInv, HtTyped, OthersTyped, Standing
<1>2. htPre.file => htPre.fallback BY <1>1 DEF FallBackOK
<1>3. htPre.file => htConn.state # "completed" /\ htRes.range /\ ~htRes.pinned
  BY <1>1 DEF PreOK, Standing, RecordOK, NoConn
<1>4. RecordOK(htStored.res, htStored.conn)' BY <1>1 DEF Standing
<1>5. CASE htFile' = htFile /\ htPre' = htPre
  <2>1. VersionsOK' BY <1>1, <1>5 DEF VersionsOK
  <2>2. ~htPre'.file => \A c : PreOK(c)' BY <1>1, <1>5 DEF PreOK
  <2>3. htServer.checksum = 0 /\ htStored.there => Genuine(htStored.res, htStored.conn)'
    BY <1>1, <1>5 DEF Standing, GenuineOK, Genuine
  <2> QED BY <1>1, <1>2, <1>3, <1>4, <1>5, <2>1, <2>2, <2>3
<1>6. CASE htFile' = FileWithPrefix /\ htPre' = PreStopped
  <2>1. /\ htPre' \in PreRec /\ ~htPre'.file /\ \A c : PreOK(c)' BY <1>6, StoppedStep
  <2>2. /\ htFile' \in [Positions -> Tags] /\ \A p \in Positions : htFile'[p] <= htServer.version
        /\ ~htPre.file => htFile' = htFile
    BY <1>6, PrefixCopied
  <2>3. VersionsOK' BY <1>1, <2>2 DEF VersionsOK
  <2>4. htServer.checksum = 0 /\ htStored.there => Genuine(htStored.res, htStored.conn)'
    <3>1. \A p \in Positions : htFile'[p] \in {0, FileWithPrefix[p]} BY <1>6
    <3> QED BY <1>3, <3>1, StoredCopied
  <2>5. htPre.file => \A p \in Positions : p < htPre.got => htFile'[p] # 0
    <3>1. htPre.file => htPre.version # 0 BY <1>1, TagVersions DEF PreOK
    <3> QED BY <1>6, <3>1, PrefixCopied
  <2> QED BY <1>3, <1>4, <2>1, <2>2, <2>3, <2>4, <2>5
<1> QED BY <1>5, <1>6

\* The connection that was there goes on, with its state or as a new one.
LEMMA ResumedStanding ==
  ASSUME HtInv, htReq.at = "off", htConn.there, htState # "resolved" \/ ~htPre.file,
         UNCHANGED <<htServer, htRes, htStored, htSpoilt>>, htState' # "resolved",
         \/ htFile' = FileWithPrefix /\ htPre' = PreStopped
         \/ htFile' = htFile /\ htPre' = htPre,
         NEW s \in ConnStates, s = htConn.state \/ (s = "new" /\ htConn.state # "completed"),
         NEW c, c = [htConn EXCEPT !.state = s]
  PROVE  Standing(c)' /\ c \in ConnRec /\ c.there /\ c.state = s /\ c.got = htConn.got
<1>1. OthersTyped /\ Standing(htConn) /\ htConn \in ConnRec /\ RecordOK(htRes, htConn)
      /\ PreOK(htConn)
  BY DEF HtInv, HtTyped, Standing
<1>2. /\ c \in ConnRec /\ c.there /\ c.state = s /\ c.begin = htConn.begin /\ c.got = htConn.got
      /\ c.end = htConn.end /\ c.total = htConn.total /\ PosOf(c) = PosOf(htConn)
      /\ htConn.begin \in Nat /\ htConn.got \in Nat
  BY <1>1 DEF ConnRec, PosOf
<1>3. RecordOK(htRes, c)' BY <1>1, <1>2 DEF RecordOK
<1>4. /\ VersionsOK' /\ RecordOK(htStored.res, htStored.conn)'
      /\ htPre'.file => htPre' = htPre /\ htFile' = htFile
      /\ ~htPre.file => htFile' = htFile
      /\ ~htPre'.file => \A d : PreOK(d)'
      /\ htPre.file /\ ~htPre'.file => \A p \in Positions : p < htPre.got => htFile'[p] # 0
      /\ htServer.checksum = 0 /\ htStored.there => Genuine(htStored.res, htStored.conn)'
      /\ htPre.file => htConn.state # "completed" /\ htRes.range /\ ~htRes.pinned
  BY PlacedStep
<1>5. PreOK(c)'
  <2>1. CASE htPre'.file
    <3>1. s # "completed" BY <1>4, <2>1
    <3> QED BY <1>1, <1>2, <1>4, <2>1, <3>1 DEF PreOK
  <2>2. CASE ~htPre'.file BY <1>4, <2>2
  <2> QED BY <2>1, <2>2
<1>6. Covers(c)'
  <2>1. CASE ~htPre.file
    <3>1. ~htPre'.file BY <1>4, <2>1
    <3> QED BY <1>1, <1>2, <1>4, <2>1, <3>1 DEF Standing, Covers
  <2>2. CASE htPre'.file BY <1>1, <1>2, <1>4, <2>2 DEF Standing, Covers
  <2>3. CASE htPre.file /\ ~htPre'.file
    <3>1. PosOf(c) <= htPre.got BY <1>1, <1>2, <2>3 DEF PreOK, PosOf
    <3>2. htPre.got \in Nat BY <1>1 DEF OthersTyped, PreRec
    <3>3. \A p \in Positions : p < PosOf(c) => p < htPre.got
      BY <1>1, <1>2, <3>1, <3>2, PositionsUpTo DEF PosOf
    <3> QED BY <1>4, <2>3, <3>3 DEF Covers
  <2> QED BY <2>1, <2>2, <2>3
<1>7. GenuineOK(c)'
  <2> SUFFICES ASSUME htServer.checksum = 0 PROVE GenuineOK(c)'
    BY DEF GenuineOK
  <2>1. Genuine(htRes, c)'
    <3>1. CASE htPre.file BY <1>4, <3>1 DEF Genuine
    <3>2. CASE ~htPre.file BY <1>1, <1>2, <1>4, <3>2 DEF Standing, GenuineOK, Genuine
    <3> QED BY <3>1, <3>2
  <2>2. htStored.there => Settled(c)'
    <3>1. s = htConn.state => c = htConn BY <1>1 DEF ConnRec
    <3> QED BY <1>1, <1>2, <3>1 DEF Standing, GenuineOK, Settled
  <2>3. (s = "completed" \/ AllRead(c)) /\ ~htRes.range => OneVersion'
    BY <1>1, <1>2, <1>4 DEF Standing, GenuineOK, AllRead, OneVersion
  <2>4. AllRead(c)' => AllRead(c) BY DEF AllRead
  <2> QED BY <1>2, <1>4, <2>1, <2>2, <2>3, <2>4 DEF GenuineOK
<1> QED BY <1>2, <1>3, <1>4, <1>5, <1>6, <1>7 DEF Standing

\* The first chunk of a resource with ranges.
LEMMA FirstChunkStep ==
  ASSUME HtInv, htRes.range, NEW pos \in Nat, NEW d, d = FirstChunk(pos)
  PROVE  /\ d \in ConnRec /\ d.there /\ d.begin = pos /\ d.got = 0 /\ d.total = pos
         /\ d.state = "new" /\ PosOf(d) = pos
         /\ d.end = IF htRes.known THEN htRes.size - 1 ELSE OpenEnd
<1> DEFINE end == IF KnownSize(htRes) > 0 THEN htRes.size - 1 ELSE OpenEnd
<1>1. RecordOK(htRes, htConn) /\ htRes \in ResRec BY DEF HtInv, Standing, HtTyped, OthersTyped
<1>2. htRes.size \in Nat /\ (htRes.known => htRes.size > 0) BY <1>1, SizeType DEF RecordOK, ResRec
<1>3. end = (IF htRes.known THEN htRes.size - 1 ELSE OpenEnd) /\ end \in Int
  BY <1>2 DEF KnownSize, OpenEnd
<1>4. d = [NoConn EXCEPT !.there = TRUE, !.begin = pos, !.total = pos, !.end = end]
  BY DEF FirstChunk
<1>5. NoConn \in ConnRec /\ NoConn.got = 0 /\ NoConn.state = "new"
  BY DEF NoConn, ConnRec, ConnStates, OpenEnd
<1> HIDE DEF end
<1>6. d \in ConnRec /\ d.there /\ d.begin = pos /\ d.got = NoConn.got /\ d.total = pos
      /\ d.state = NoConn.state /\ d.end = end
  BY <1>3, <1>4, <1>5 DEF ConnRec
<1> QED BY <1>3, <1>5, <1>6 DEF PosOf

\* Start goes on where the download is.
LEMMA HtStartStep ==
  ASSUME HtInv, HtStart
  PROVE  HtInv'
<1> DEFINE whole == htRes.known /\ htPre.at = "done" /\ ~htPre.failed /\ htPre.got >= htRes.size
           stays == htRes.range /\ htPre.fallback /\ ~whole
           pos == IF stays THEN htPre.got ELSE IF htRes.range THEN Copied ELSE htDataPos
<1>1. /\ htState \in {"resolved", "paused", "error"} /\ ~RetriesMismatch
      /\ IF htRes.range /\ ~stays
         THEN htFile' = FileWithPrefix /\ htPre' = PreStopped
         ELSE UNCHANGED <<htFile, htPre>>
      /\ htDataPos' = pos
      /\ IF htConn.there THEN StartResumed ELSE StartFresh(pos)
      /\ htHeld' = 0
      /\ UNCHANGED <<htServer, htRes, htStored, htFaults, htStops, htSpoilt>>
  BY DEF HtStart
<1>2. /\ HtTyped /\ OthersTyped /\ Standing(htConn) /\ StateOK /\ htConn \in ConnRec
      /\ htReq \in ReqRec /\ htReq.at = "off" /\ htRes \in ResRec
      /\ PreOK(htConn) /\ RecordOK(htRes, htConn) /\ htDataPos \in Nat
      /\ htMismatch \in BOOLEAN /\ (htMismatch => htServer.checksum # 0)
  <2>1. HtTyped /\ OthersTyped /\ Standing(htConn) /\ StateOK BY DEF HtInv, HtTyped
  <2>2. htReq.at = "off" BY <1>1, <2>1 DEF StateOK
  <2> QED BY <2>1, <2>2 DEF HtTyped, OthersTyped, Standing, StateOK
<1>3. /\ htFile' \in [Positions -> Tags] /\ htPre' \in PreRec
      /\ VersionsOK' /\ RecordOK(htStored.res, htStored.conn)'
      /\ htPre'.file => htPre' = htPre /\ htFile' = htFile
      /\ htPre'.file => htPre'.fallback
      /\ ~htPre.file => htFile' = htFile
      /\ ~htPre'.file => \A c : PreOK(c)'
      /\ htPre.file /\ ~htPre'.file => \A p \in Positions : p < htPre.got => htFile'[p] # 0
      /\ htServer.checksum = 0 /\ htStored.there => Genuine(htStored.res, htStored.conn)'
      /\ htPre.file => htConn.state # "completed" /\ htRes.range /\ ~htRes.pinned
  <2>1. \/ htFile' = FileWithPrefix /\ htPre' = PreStopped
        \/ htFile' = htFile /\ htPre' = htPre
    BY <1>1
  <2> QED BY <1>1, <1>2, <2>1, PlacedStep
<1>4. pos \in Nat /\ htPre.got \in Nat BY <1>2, PrefixCopied DEF OthersTyped, PreRec
<1>5. /\ htPre'.file => stays /\ pos = htPre.got
      /\ stays => htPre'.file /\ htPre.file
      /\ htRes.range /\ ~stays => pos = Copied
      /\ ~htRes.range => ~htPre.file /\ ~htPre'.file
  <2>1. htPre.file => htPre.fallback BY <1>2 DEF HtInv, FallBackOK
  <2>2. htPre.fallback => htPre.file BY <1>2 DEF PreOK
  <2>3. htRes.range /\ ~stays => ~htPre'.file BY <1>1, StoppedStep
  <2>4. ~htRes.range => htPre' = htPre /\ ~htPre.file BY <1>1, <1>3
  <2>5. stays => htPre' = htPre BY <1>1
  <2> QED BY <2>1, <2>2, <2>3, <2>4, <2>5
<1> HIDE DEF pos, stays, whole
<1>6. htState' \in HtStates /\ htMismatch' \in BOOLEAN => OthersTyped'
  BY <1>1, <1>2, <1>3, <1>4, TagVersions DEF OthersTyped
<1>7. CASE htConn.there
  <2> DEFINE skips == \/ htConn.state = "completed"
                      \/ htConn.state \in {"refused", "forbidden"} /\ htState # "error"
  <2>1. /\ htState' = "running" /\ UNCHANGED htMismatch
        /\ htConn' = IF skips THEN htConn
                     ELSE [(IF HasPrefix THEN htConn ELSE ResetIn(htRes, htConn)) EXCEPT !.state = "new"]
        /\ htReq' = IF skips THEN NoReq ELSE AskFor(FALSE)
    BY <1>1, <1>7 DEF StartResumed
  <2>2. OthersTyped' BY <1>2, <1>6, <2>1 DEF HtStates
  <2>3. htState # "resolved" \/ ~htPre.file BY <1>2, <1>7 DEF PreOK
  <2>4. \/ htFile' = FileWithPrefix /\ htPre' = PreStopped
        \/ htFile' = htFile /\ htPre' = htPre
    BY <1>1
  <2>5. CASE skips
    <3>1. htConn' = htConn /\ htReq' = NoReq BY <2>1, <2>5
    <3>2. PICK c : c = htConn OBVIOUS
    <3>3. c = [htConn EXCEPT !.state = htConn.state] /\ htConn.state \in ConnStates
      BY <1>2, <3>2 DEF ConnRec
    <3>4. Standing(c)' BY <1>1, <1>2, <1>7, <2>1, <2>3, <2>4, <3>3, ResumedStanding
    <3>5. Standing(htConn)' BY <3>1, <3>2, <3>4, StandingNext
    <3>6. HtTyped' BY <1>2, <2>2, <3>1, NothingAsked DEF HtTyped
    <3>7. htReq'.at = "off" BY <3>1 DEF NoReq
    <3>8. StateOK' BY <1>1, <1>2, <1>7, <2>1, <2>5, <3>1, <3>7 DEF StateOK
    <3>9. FallBackOK' BY <1>3, <3>1, <3>5, <3>7 DEF FallBackOK, NoReq, Standing, PreOK
    <3>10. RequestOK' /\ PinnedBody'
      BY <3>7 DEF RequestOK, AskOK, AskedOK, BodyOK, HeldOK, PinnedBody
    <3>11. DoneIsWhole' BY <2>1 DEF DoneIsWhole
    <3> QED BY <3>5, <3>6, <3>8, <3>9, <3>10, <3>11 DEF HtInv
  <2>6. CASE ~skips
    <3>1. PICK c : c = [htConn EXCEPT !.state = "new"] OBVIOUS
    <3>2. "new" \in ConnStates /\ htConn.state # "completed" BY <2>6 DEF ConnStates
    <3>3. Standing(c)' /\ c \in ConnRec /\ c.there /\ c.state = "new" /\ c.got = htConn.got
      BY <1>1, <1>2, <1>7, <2>1, <2>3, <2>4, <3>1, <3>2, ResumedStanding
    <3>4. Waiting(c)' BY <1>1, <1>2, <2>1, <2>2, <3>3 DEF Waiting
    <3>5. htReq' = AskFor(FALSE) /\ htRes' = htRes BY <1>1, <2>1, <2>6
    <3>6. CASE HasPrefix
      <4>1. htConn' = c BY <2>1, <2>6, <3>1, <3>6
      <4>2. htRes.eligible /\ 0 < c.got /\ c.got < htRes.size
        BY <1>2, <3>3, <3>6 DEF HasPrefix, KnownSize, ResRec, ConnRec
      <4> QED BY <1>3, <3>4, <3>5, <4>1, <4>2, AskStep
    <3>7. CASE ~HasPrefix
      <4>1. PICK d : d = ResetIn(htRes', c) OBVIOUS
      <4>2. htConn' = [ResetIn(htRes, htConn) EXCEPT !.state = "new"] BY <2>1, <2>6, <3>7
      <4>3. htConn' = d
        <5>1. CASE htRes.range BY <3>1, <3>5, <4>1, <4>2, <5>1 DEF ResetIn
        <5>2. CASE ~htRes.range
          <6>1. /\ ResetIn(htRes, htConn) = [htConn EXCEPT !.begin = 0, !.end = 0, !.got = 0, !.total = 0,
                                              !.state = IF @ = "completed" THEN "new" ELSE @]
                /\ d = [c EXCEPT !.begin = 0, !.end = 0, !.got = 0, !.total = 0,
                                 !.state = IF @ = "completed" THEN "new" ELSE @]
            BY <3>5, <4>1, <5>2 DEF ResetIn
          <6> QED BY <1>2, <3>1, <3>2, <4>2, <6>1 DEF ConnRec
        <5> QED BY <5>1, <5>2
      <4>4. Waiting(d)' /\ (htRes.range \/ d.got = 0) BY <3>4, <3>5, <4>1, ResetStep
      <4> QED BY <1>3, <3>5, <4>3, <4>4, AskStep
    <3> QED BY <3>6, <3>7
  <2> QED BY <2>5, <2>6
<1>8. CASE ~htConn.there
  <2>1. StartFresh(pos) /\ htConn = NoConn /\ ~htRes.pinned BY <1>1, <1>2, <1>8 DEF RecordOK
  <2>2. htConn.state = "new" BY <2>1 DEF NoConn
  <2>3. htServer.checksum = 0 /\ htStored.there => \A c : Settled(c)'
    <3>1. ASSUME htServer.checksum = 0, htStored.there, NEW c PROVE Settled(c)'
      BY <1>1, <2>1, <2>2, <3>1, SettledStep
    <3> QED BY <3>1
  <2>4. CASE htRes.range /\ htRes.known /\ pos >= htRes.size /\ htRes.size > 0
    <3>1. Verified /\ UNCHANGED <<htConn, htReq>> BY <2>1, <2>4 DEF StartFresh
    <3>2. htState' \in {"error", "done"} /\ htMismatch' \in BOOLEAN
          /\ (htMismatch' => htServer'.checksum # 0)
      BY <1>1, <1>2, <3>1 DEF Verified, Mismatches
    <3>3. HtTyped' BY <1>2, <1>6, <3>1, <3>2 DEF HtStates, HtTyped
    <3>4. Standing(htConn)'
      <4>1. PreOK(htConn)'
        <5>1. CASE htPre'.file BY <1>1, <1>2, <1>3, <1>8, <3>1, <5>1 DEF PreOK
        <5>2. CASE ~htPre'.file BY <1>3, <5>2 DEF PreOK
        <5> QED BY <5>1, <5>2
      <4>2. Covers(htConn)' BY <1>8, <3>1 DEF Covers
      <4>3. GenuineOK(htConn)'
        <5>1. Genuine(htRes, htConn)' BY <1>1, <2>1, <2>4 DEF Genuine
        <5>2. htServer.checksum = 0 /\ htStored.there => Settled(htConn)' BY <1>1, <1>2, <3>1 DEF Standing, GenuineOK, Settled
        <5> QED BY <1>1, <1>3, <2>2, <3>1, <5>1, <5>2 DEF GenuineOK, AllRead
      <4> QED BY <1>1, <1>2, <1>3, <3>1, <4>1, <4>2, <4>3 DEF Standing
    <3>5. htReq'.at = "off" BY <1>2, <3>1
    <3>6. FallBackOK'
      <4>1. htReq' = htReq /\ (htReq.plain => ~htPre.file) BY <3>1 DEF HtInv, FallBackOK
      <4> QED BY <1>3, <1>5, <3>4, <3>5, <4>1 DEF FallBackOK, Standing, PreOK
    <3>7. StateOK' BY <1>1, <2>4, <3>1, <3>2, <3>5 DEF StateOK
    <3>8. RequestOK' /\ PinnedBody'
      BY <3>5 DEF RequestOK, AskOK, AskedOK, BodyOK, HeldOK, PinnedBody
    <3>9. DoneIsWhole' BY <1>1, <1>8, <2>1, <2>4, <3>1 DEF DoneIsWhole
    <3> QED BY <3>3, <3>4, <3>6, <3>7, <3>8, <3>9 DEF HtInv
  <2>5. CASE htRes.range /\ ~(htRes.known /\ pos >= htRes.size /\ htRes.size > 0)
    <3>1. /\ htState' = "running" /\ htConn' = FirstChunk(pos) /\ htReq' = AskFor(FALSE)
          /\ UNCHANGED htMismatch
      BY <2>1, <2>5 DEF StartFresh
    <3>2. PICK d : d = FirstChunk(pos) OBVIOUS
    <3>3. /\ d \in ConnRec /\ d.there /\ d.begin = pos /\ d.got = 0 /\ d.total = pos
          /\ d.state = "new" /\ PosOf(d) = pos
          /\ d.end = IF htRes.known THEN htRes.size - 1 ELSE OpenEnd
      BY <1>4, <2>5, <3>2, FirstChunkStep
    <3>4. RecordOK(htRes, d)' BY <1>1, <1>2, <2>1, <2>5, <3>3 DEF RecordOK
    <3>5. PreOK(d)'
      <4>1. CASE htPre'.file
        <5>1. pos = htPre.got /\ (htRes.known => pos < htRes.size)
          <6>1. htRes.size \in Nat /\ (htRes.known => htRes.size > 0)
            BY <1>2, SizeType DEF RecordOK, ResRec
          <6> QED BY <1>4, <1>5, <2>5, <4>1, <6>1
        <5> QED BY <1>1, <1>2, <1>3, <1>4, <3>1, <3>3, <4>1, <5>1 DEF PreOK
      <4>2. CASE ~htPre'.file BY <1>3, <4>2
      <4> QED BY <4>1, <4>2
    <3>6. Covers(d)'
      <4>1. CASE htPre'.file BY <3>3, <4>1 DEF Covers
      <4>2. CASE ~htPre'.file /\ htPre.file
        <5>1. pos = htPre.got BY <1>5, <2>5, <4>2, PrefixCopied
        <5> QED BY <1>3, <3>3, <4>2, <5>1 DEF Covers
      <4>3. CASE ~htPre'.file /\ ~htPre.file
        <5>1. pos = 0 BY <1>5, <2>5, <4>3, PrefixCopied
        <5> QED BY <3>3, <5>1, PositionsUpTo DEF Covers
      <4> QED BY <4>1, <4>2, <4>3
    <3>7. GenuineOK(d)'
      <4>1. Genuine(htRes, d)' BY <1>1, <2>1, <2>5 DEF Genuine
      <4> QED BY <1>1, <1>3, <2>3, <3>3, <4>1 DEF GenuineOK, AllRead
    <3>8. OthersTyped' BY <1>2, <1>6, <3>1 DEF HtStates
    <3>9. Waiting(d)'
      BY <1>1, <1>2, <1>3, <3>1, <3>3, <3>4, <3>5, <3>6, <3>7, <3>8 DEF Waiting, Standing
    <3> QED BY <1>1, <1>3, <2>5, <3>1, <3>2, <3>9, AskStep
  <2>6. CASE ~htRes.range
    <3>1. /\ htState' = "running" /\ UNCHANGED htMismatch
          /\ htConn' = [NoConn EXCEPT !.there = TRUE, !.end = 0]
          /\ htReq' = IF htHeld = 0 THEN AskFor(TRUE)
                      ELSE [NoReq EXCEPT !.at = "held", !.version = htHeld]
      BY <2>1, <2>6 DEF StartFresh
    <3>2. PICK d : d = htConn' OBVIOUS
    <3>3. d \in ConnRec /\ d.there /\ d.begin = 0 /\ d.got = 0 /\ d.total = 0 /\ d.state = "new"
          /\ PosOf(d) = 0
      <4> DEFINE z == 0
      <4>1. /\ NoConn \in ConnRec /\ NoConn.begin = z /\ NoConn.got = z /\ NoConn.total = z
            /\ NoConn.state = "new" /\ z \in Int
        BY DEF NoConn, ConnRec, ConnStates, OpenEnd
      <4>2. d = [NoConn EXCEPT !.there = TRUE, !.end = z] BY <3>1, <3>2
      <4> HIDE DEF z
      <4>3. d \in ConnRec /\ d.there /\ d.begin = z /\ d.got = z /\ d.total = z /\ d.state = "new"
        BY <4>1, <4>2 DEF ConnRec
      <4> QED BY <4>3 DEF z, PosOf
    <3>4. RecordOK(htRes, d)' BY <1>1, <1>2, <2>1, <2>6, <3>3 DEF RecordOK
    <3>5. PreOK(d)' BY <1>3, <1>5, <2>6
    <3>6. Covers(d)' BY <3>3, PositionsUpTo DEF Covers
    <3>7. GenuineOK(d)'
      <4>1. Genuine(htRes, d)' BY <3>3, PositionsUpTo DEF Genuine
      <4> QED BY <1>1, <1>3, <2>3, <3>3, <4>1 DEF GenuineOK, AllRead
    <3>8. OthersTyped' BY <1>2, <1>6, <3>1 DEF HtStates
    <3>9. Waiting(d)'
      BY <1>1, <1>2, <1>3, <3>1, <3>3, <3>4, <3>5, <3>6, <3>7, <3>8 DEF Waiting, Standing
    <3>10. CASE htHeld = 0
      <4>1. htReq' = AskFor(TRUE) BY <3>1, <3>10
      <4> QED BY <1>5, <2>6, <3>2, <3>3, <3>9, <4>1, AskStep
    <3>11. CASE htHeld # 0
      <4>1. htReq' = [NoReq EXCEPT !.at = "held", !.version = htHeld] BY <3>1, <3>11
      <4>2. htHeld \in Tags /\ htHeld \in Versions BY <1>2, <3>11, TagVersions DEF OthersTyped
      <4>3. htReq' \in ReqRec /\ htReq'.at = "held" /\ htReq'.version = htHeld
        BY <4>1, <4>2, NothingAsked DEF ReqRec
      <4>4. /\ ~htRes.eligible /\ htHeld <= htServer.version /\ htRes.tag <= htHeld
            /\ htStored.there => htStored.res.tag <= htHeld
            /\ htRes.known => htRes.size = SizeOf(htHeld)
        BY <1>2, <3>11 DEF StateOK
      <4>5. SizeOf(htHeld) \in Nat /\ 0 <= SizeOf(htHeld) BY <4>2, SizeType
      <4>6. PosOf(htConn') <= SizeOf(htHeld) /\ \A p \in Positions : ~(p < htConn'.got)
        BY <3>2, <3>3, <4>5, PositionsUpTo
      <4>7. HeldOK' BY <1>1, <2>6, <4>2, <4>3, <4>4, <4>6 DEF HeldOK, VersionRead
      <4>8. AskOK' /\ AskedOK' /\ BodyOK' /\ PinnedBody'
        BY <4>3 DEF AskOK, AskedOK, BodyOK, PinnedBody
      <4>9. FallBackOK' BY <1>5, <2>6, <4>3 DEF FallBackOK
      <4> QED BY <3>2, <3>9, <4>3, <4>7, <4>8, <4>9, RequestStep DEF RequestOK
    <3> QED BY <3>10, <3>11
  <2> QED BY <2>4, <2>5, <2>6
<1> QED BY <1>7, <1>8

\* A retry after a mismatch: nothing is left, so nothing has to be told of it.
LEMMA FullRedownloadStep ==
  ASSUME HtInv, FullRedownload
  PROVE  HtInv'
<1>1. /\ htState = "error" /\ htMismatch /\ htMismatch' = FALSE
      /\ htState' = "running" /\ htReq' = AskFor(FALSE)
      /\ htFile' = [p \in Positions |-> 0]
      /\ htPre' = PreStopped /\ htDataPos' = 0 /\ htHeld' = 0
      /\ IF htRes.range
         THEN /\ htRes' = [htRes EXCEPT !.eligible = FALSE, !.pinned = FALSE]
              /\ htConn' = FirstChunk(0)
         ELSE /\ htConn' = [ResetIn(htRes, htConn) EXCEPT !.state = "new"]
              /\ UNCHANGED htRes
      /\ UNCHANGED <<htServer, htStored, htFaults, htStops, htSpoilt>>
  BY DEF FullRedownload, RetriesMismatch
<1>2. /\ HtTyped /\ OthersTyped /\ Standing(htConn) /\ StateOK /\ htConn \in ConnRec
      /\ htRes \in ResRec /\ RecordOK(htRes, htConn) /\ VersionsOK
      /\ htServer.checksum # 0 /\ (htConn.there \/ htRes.range)
  BY <1>1 DEF HtInv, HtTyped, OthersTyped, Standing, StateOK
<1>3. htPre' \in PreRec /\ ~htPre'.file /\ \A c : PreOK(c)' BY <1>1, StoppedStep
<1>4. htFile' \in [Positions -> Tags] /\ \A p \in Positions : htFile'[p] = 0
  BY <1>1, TagVersions
<1>5. /\ htRes' \in ResRec /\ htRes'.range = htRes.range /\ htRes'.known = htRes.known
      /\ htRes'.size = htRes.size /\ htRes'.tag = htRes.tag /\ htRes'.unknown = htRes.unknown
      /\ ~htRes'.pinned
  <2>1. CASE htRes.range BY <1>1, <1>2, <2>1 DEF ResRec
  <2>2. CASE ~htRes.range BY <1>1, <1>2, <2>2 DEF RecordOK
  <2> QED BY <2>1, <2>2
<1>6. PICK d : d = htConn' OBVIOUS
<1>7. /\ d \in ConnRec /\ d.there /\ d.begin = 0 /\ d.got = 0 /\ d.total = 0 /\ d.state = "new"
      /\ PosOf(d) = 0
      /\ htRes.range => d.end = IF htRes.known THEN htRes.size - 1 ELSE OpenEnd
  <2>1. CASE htRes.range
    <3> DEFINE z == 0
    <3>1. d = FirstChunk(z) /\ z \in Nat BY <1>1, <1>6, <2>1
    <3> HIDE DEF z
    <3>2. /\ d \in ConnRec /\ d.there /\ d.begin = z /\ d.got = 0 /\ d.total = z
          /\ d.state = "new" /\ PosOf(d) = z
          /\ d.end = IF htRes.known THEN htRes.size - 1 ELSE OpenEnd
      BY <2>1, <3>1, FirstChunkStep
    <3> QED BY <3>2 DEF z
  <2>2. CASE ~htRes.range
    <3> DEFINE z == 0
               s == IF htConn.state = "completed" THEN "new" ELSE htConn.state
    <3>1. d = [[htConn EXCEPT !.begin = z, !.end = z, !.got = z, !.total = z, !.state = s]
                 EXCEPT !.state = "new"]
      BY <1>1, <1>2, <1>6, <2>2 DEF ResetIn, ConnRec
    <3>2. z \in Nat /\ z \in Int /\ s \in ConnStates /\ htConn.there
      BY <1>2, <2>2 DEF ConnRec, ConnStates
    <3> HIDE DEF z, s
    <3>3. d \in ConnRec /\ d.there /\ d.begin = z /\ d.got = z /\ d.total = z /\ d.state = "new"
      BY <1>2, <3>1, <3>2 DEF ConnRec, ConnStates
    <3> QED BY <2>2, <3>3 DEF z, PosOf
  <2> QED BY <2>1, <2>2
<1>8. Waiting(d)'
  <2>1. RecordOK(htRes, d)' BY <1>2, <1>5, <1>7 DEF RecordOK
  <2>2. VersionsOK'
    <3>1. htServer.version \in Nat
      <4>1. htServer.version \in Versions BY <1>2 DEF OthersTyped, ServerRec
      <4> QED BY <4>1, TagVersions
    <3> QED BY <1>1, <1>2, <1>4, <1>5, <3>1 DEF VersionsOK
  <2>3. Covers(d)' BY <1>7, PositionsUpTo DEF Covers
  <2>4. GenuineOK(d)' BY <1>1, <1>2 DEF GenuineOK
  <2>5. RecordOK(htStored.res, htStored.conn)' BY <1>1, <1>2 DEF Standing
  <2>6. OthersTyped'
    <3>1. htState' \in HtStates /\ htMismatch' \in BOOLEAN BY <1>1 DEF HtStates
    <3>2. htDataPos' \in Nat /\ htHeld' \in Tags BY <1>1, TagVersions
    <3> QED BY <1>1, <1>2, <1>3, <1>4, <1>5, <3>1, <3>2 DEF OthersTyped
  <2> QED BY <1>1, <1>3, <1>7, <2>1, <2>2, <2>3, <2>4, <2>5, <2>6 DEF Waiting, Standing
<1> QED BY <1>1, <1>3, <1>6, <1>7, <1>8, AskStep

\* The beginning of a body that is read.
LEMMA BodyRequest ==
  ASSUME HtInv, htReq.at = "asked", NEW v \in Versions, NEW from \in Nat, NEW expected \in Int,
         NEW discard \in Nat, NEW restart \in BOOLEAN, htReq' = Body(v, from, expected, discard, restart)
  PROVE  /\ htReq' \in ReqRec /\ htReq'.at = "body" /\ htReq'.version = v /\ htReq'.from = from
         /\ htReq'.read = 0 /\ htReq'.expected = expected /\ htReq'.discard = discard
         /\ htReq'.restart = restart
<1> DEFINE z == 0
<1>1. htReq \in ReqRec /\ v \in Tags /\ z \in Nat BY TagVersions DEF HtInv, HtTyped
<1>2. htReq' = [htReq EXCEPT !.at = "body", !.version = v, !.from = from, !.read = z,
                             !.expected = expected, !.discard = discard, !.restart = restart]
  BY DEF Body
<1> HIDE DEF z
<1>3. htReq' \in ReqRec
  <2> DEFINE r == [htReq EXCEPT !.at = "body", !.version = v, !.from = from]
             s == [r EXCEPT !.read = z, !.expected = expected]
  <2>1. r \in ReqRec BY <1>1 DEF ReqRec
  <2>2. s \in ReqRec
    <3> HIDE DEF r
    <3> QED BY <1>1, <2>1 DEF ReqRec
  <2>3. [s EXCEPT !.discard = discard, !.restart = restart] \in ReqRec
    <3> HIDE DEF s
    <3> QED BY <2>2 DEF ReqRec
  <2>4. htReq' = [s EXCEPT !.discard = discard, !.restart = restart] BY <1>1, <1>2 DEF ReqRec
  <2> QED BY <2>3, <2>4
<1>4. /\ htReq'.at = "body" /\ htReq'.version = v /\ htReq'.from = from
      /\ htReq'.read = z /\ htReq'.expected = expected /\ htReq'.discard = discard
      /\ htReq'.restart = restart
  BY <1>1, <1>2 DEF ReqRec
<1> QED BY <1>3, <1>4 DEF z

\* A request that is answered: what it is about.
LEMMA AskedNow ==
  ASSUME HtInv, htReq.at = "asked"
  PROVE  /\ HtTyped /\ OthersTyped /\ Waiting(htConn) /\ Standing(htConn) /\ AskedOK
         /\ RecordOK(htRes, htConn) /\ PreOK(htConn) /\ VersionsOK
         /\ htConn \in ConnRec /\ htConn.there /\ htConn.state = "new"
         /\ htReq \in ReqRec /\ htRes \in ResRec /\ htPre \in PreRec
         /\ htPre.file => htPre.fallback /\ htRes.range
         /\ htPre.fallback => htPre.file
         /\ ~htPre.fallback => ~htPre.file
         /\ htServer.version \in Versions /\ htServer.version \in Nat
         /\ SizeOf(htServer.version) \in Nat /\ SizeOf(htServer.version) > 0
         /\ htRes.known => htRes.size > 0
         /\ ~(htRes.pinned /\ PosOf(htConn) >= htRes.size)
<1>1. /\ HtTyped /\ OthersTyped /\ Waiting(htConn) /\ Standing(htConn) /\ AskedOK
      /\ RecordOK(htRes, htConn) /\ PreOK(htConn) /\ VersionsOK
      /\ htConn \in ConnRec /\ htConn.there /\ htConn.state = "new"
      /\ htReq \in ReqRec /\ htRes \in ResRec /\ htPre \in PreRec /\ FallBackOK
  BY WaitingNow DEF HtInv, HtTyped, OthersTyped, Waiting, Standing, RequestOK
<1>2. /\ htPre.file => htPre.fallback /\ htRes.range
      /\ htPre.fallback => htPre.file
  BY <1>1 DEF FallBackOK, PreOK
<1>3. htServer.version \in Versions BY <1>1 DEF OthersTyped, ServerRec
<1>4. htServer.version \in Nat /\ SizeOf(htServer.version) \in Nat /\ SizeOf(htServer.version) > 0
  BY <1>3, TagVersions, SizeType
<1>5. htRes.known => htRes.size > 0 BY <1>1, SizeType DEF RecordOK
<1>6. ~(htRes.pinned /\ PosOf(htConn) >= htRes.size)
  <2>1. htRes.pinned => PosOf(htConn) < htRes.size BY <1>1 DEF RecordOK, AskedOK
  <2>2. PosOf(htConn) \in Nat /\ htRes.size \in Nat BY <1>1 DEF ConnRec, ResRec, PosOf
  <2> QED BY <2>1, <2>2
<1> QED BY <1>1, <1>2, <1>3, <1>4, <1>5, <1>6

\* A sequential answer starts the connection over, in what is left of the target.
LEMMA SequentialStep ==
  ASSUME HtInv, htReq.at = "asked",
         UNCHANGED <<htServer, htState, htHeld, htStored, htFaults, htStops, htSpoilt, htMismatch>>,
         htDataPos' \in {htDataPos, 0},
         htRes' \in ResRec, ~htRes'.range, ~htRes'.pinned, htRes'.tag <= htServer.version,
         htRes'.known => \E v \in Versions : htRes'.size = SizeOf(v),
         ~htRes'.known => htRes'.size = 0,
         htFile' \in [Positions -> Tags], \A p \in Positions : htFile'[p] \in {0, FileWithPrefix[p]},
         \/ htPre.fallback /\ htPre' = PreStopped
         \/ ~htPre.fallback /\ htPre' = htPre,
         NEW c \in ConnRec, c.there, c.begin = 0, c.got = 0, c.total = 0, c.state = "new"
  PROVE  Waiting(c)' /\ ~htPre'.file /\ ~htPre'.fallback
<1>1. /\ OthersTyped /\ Waiting(htConn) /\ Standing(htConn)
      /\ PreOK(htConn) /\ VersionsOK /\ htConn.state = "new"
      /\ ~htPre.fallback => ~htPre.file
      /\ htServer.version \in Nat
      /\ ~(htRes.pinned /\ PosOf(htConn) >= htRes.size)
  BY AskedNow
<1>2. PosOf(c) = 0 BY DEF PosOf
<1>3. htPre' \in PreRec /\ ~htPre'.file /\ ~htPre'.fallback /\ PreOK(c)'
  <2>1. CASE htPre.fallback /\ htPre' = PreStopped BY <2>1, StoppedStep
  <2>2. CASE ~htPre.fallback /\ htPre' = htPre BY <1>1, <2>2 DEF OthersTyped, PreOK
  <2> QED BY <2>1, <2>2
<1>4. RecordOK(htRes, c)' BY <1>2 DEF RecordOK
<1>5. \A p \in Positions : htFile'[p] <= htServer.version BY <1>1, PrefixCopied
<1>6. VersionsOK' BY <1>1, <1>5 DEF VersionsOK
<1>7. Covers(c)' BY <1>2, PositionsUpTo DEF Covers
<1>8. GenuineOK(c)'
  <2> SUFFICES ASSUME htServer.checksum = 0 PROVE GenuineOK(c)'
    BY DEF GenuineOK
  <2>1. Genuine(htRes, c)' BY <1>2, PositionsUpTo DEF Genuine
  <2>2. htStored.there => Genuine(htStored.res, htStored.conn)' BY <1>1, StoredCopied
  <2>3. htStored.there => Settled(c)' BY <1>1, SettledStep
  <2> QED BY <2>1, <2>2, <2>3 DEF GenuineOK, AllRead
<1>9. RecordOK(htStored.res, htStored.conn)' BY <1>1 DEF Standing
<1>10. OthersTyped'
  <2>1. htDataPos' \in Nat BY <1>1 DEF OthersTyped
  <2> QED BY <1>1, <1>3, <2>1 DEF OthersTyped
<1> QED BY <1>1, <1>3, <1>4, <1>6, <1>7, <1>8, <1>9, <1>10 DEF Waiting, Standing

\* ... and the body of the complete resource follows.
LEMMA SequentialBody ==
  ASSUME HtInv, htReq.at = "asked", UNCHANGED <<htServer, htStored>>,
         NEW c \in ConnRec, Waiting(c)', htConn' = c, c.begin = 0, c.got = 0,
         ~htPre'.file, ~htPre'.fallback,
         ~htRes'.range, ~htRes'.pinned, htRes'.tag <= htServer.version,
         htRes'.eligible => htRes'.tag \in {0, htServer.version},
         NEW expected \in Int, NEW restart \in BOOLEAN,
         htReq' = Body(htServer.version, 0, expected, 0, restart),
         IF expected = -1 THEN ~htRes'.known /\ (restart => ~htServer.lengths)
         ELSE htRes'.known /\ expected = htRes'.size /\ (restart => htServer.lengths)
  PROVE  HtInv'
<1> DEFINE v == htServer.version
           z == 0
<1>1. v \in Versions /\ v \in Nat /\ SizeOf(v) \in Nat /\ VersionsOK /\ z \in Nat BY AskedNow
<1>2. PosOf(c) = 0 BY DEF PosOf
<1>3. /\ htReq' \in ReqRec /\ htReq'.at = "body" /\ htReq'.version = v /\ htReq'.from = 0
      /\ htReq'.read = 0 /\ htReq'.expected = expected /\ htReq'.discard = 0
      /\ htReq'.restart = restart
  <2>1. htReq' = Body(v, z, expected, z, restart) OBVIOUS
  <2> HIDE DEF v, z
  <2>2. /\ htReq' \in ReqRec /\ htReq'.at = "body" /\ htReq'.version = v /\ htReq'.from = z
        /\ htReq'.read = 0 /\ htReq'.expected = expected /\ htReq'.discard = z
        /\ htReq'.restart = restart
    BY <1>1, <2>1, BodyRequest
  <2> QED BY <2>2 DEF z
<1>4. VersionRead'
  <2>1. htStored'.there => htStored'.res.tag <= v BY <1>1 DEF VersionsOK
  <2>2. PosOf(htConn') <= SizeOf(v) /\ \A p \in Positions : ~(p < htConn'.got)
    BY <1>1, <1>2, PositionsUpTo
  <2> QED BY <1>1, <1>3, <2>1, <2>2 DEF VersionRead
<1>5. PosOf(htConn') = htReq'.from + htReq'.read + htReq'.discard BY <1>2, <1>3
<1>6. BodyOK' BY <1>3, <1>4, <1>5 DEF BodyOK
<1>7. AskOK' /\ AskedOK' /\ HeldOK' BY <1>3 DEF AskOK, AskedOK, HeldOK
<1>8. PinnedBody' /\ FallBackOK' BY <1>3 DEF PinnedBody, FallBackOK
<1> QED BY <1>3, <1>6, <1>7, <1>8, RequestStep DEF RequestOK

\* What Truncated leaves is there or cut off.
LEMMA TruncatedFile ==
  ASSUME NEW file \in [Positions -> Tags], NEW size
  PROVE  /\ Truncated(file, size) \in [Positions -> Tags]
         /\ \A p \in Positions : Truncated(file, size)[p] = IF p < size THEN file[p] ELSE 0
BY TagVersions DEF Truncated

\* 200: the complete resource, from its first byte.
LEMMA Answer200Step ==
  ASSUME HtInv, Answer200
  PROVE  HtInv'
<1> DEFINE v == htServer.version
           restart == htReq.restart \/ htReq.range
           stops == htReq.range /\ htPre.fallback
           base == IF htReq.range
                   THEN [htRes EXCEPT !.range = FALSE, !.eligible = TRUE, !.pinned = FALSE, !.tag = TagOf(v)]
                   ELSE [htRes EXCEPT !.tag = IF htRes.eligible THEN TagOf(v) ELSE @]
           conn == IF htReq.range THEN ResetIn(base, htConn) ELSE htConn
           file == IF stops THEN FileWithPrefix ELSE htFile
           fits == ~htRes.known \/ SizeOf(v) = htRes.size
<1>1. /\ htReq.at = "asked"
      /\ htDataPos' = IF htReq.range THEN 0 ELSE htDataPos
      /\ IF ~restart /\ htServer.lengths /\ ~fits
         THEN /\ FailsWith("terminal", base, conn)
              /\ htRes' = base /\ htFile' = file
         ELSE /\ htPre' = IF stops THEN PreStopped ELSE htPre
              /\ htConn' = conn
              /\ IF restart /\ htServer.lengths
                 THEN /\ htRes' = [base EXCEPT !.size = SizeOf(v), !.known = TRUE, !.unknown = FALSE]
                      /\ htFile' = Truncated(file, SizeOf(v))
                      /\ htReq' = Body(v, 0, SizeOf(v), 0, TRUE)
                 ELSE IF restart
                 THEN /\ htRes' = [base EXCEPT !.size = 0, !.known = FALSE, !.unknown = TRUE, !.tag = 0,
                                               !.pinned = FALSE]
                      /\ htFile' = Truncated(file, 0)
                      /\ htReq' = Body(v, 0, -1, 0, TRUE)
                 ELSE /\ htRes' = base /\ htFile' = file
                      /\ htReq' = Body(v, 0, IF KnownSize(htRes) > 0 THEN htRes.size ELSE -1, 0, FALSE)
      /\ UNCHANGED <<htServer, htState, htHeld, htStored, htFaults, htStops, htSpoilt, htMismatch>>
  BY DEF Answer200
<1>2. /\ HtTyped /\ OthersTyped /\ Waiting(htConn) /\ Standing(htConn) /\ AskedOK
      /\ RecordOK(htRes, htConn) /\ VersionsOK
      /\ htConn \in ConnRec /\ htConn.there /\ htConn.state = "new"
      /\ htReq \in ReqRec /\ htRes \in ResRec
      /\ htPre.file => htRes.range
      /\ htPre.fallback => htPre.file
      /\ ~htPre.fallback => ~htPre.file
      /\ v \in Versions /\ v \in Nat /\ SizeOf(v) \in Nat /\ SizeOf(v) > 0
      /\ htRes.known => htRes.size > 0
      /\ htFile \in [Positions -> Tags] /\ htRes.size \in Nat
  BY <1>1, AskedNow DEF OthersTyped, ResRec
<1>3. ~htReq.range => /\ ~htRes.range /\ htConn.got = 0 /\ ~htPre.file /\ ~htPre.fallback
                      /\ ~htRes.pinned
  BY <1>1, <1>2 DEF AskedOK, RecordOK
<1>4. TagOf(v) \in Tags /\ TagOf(v) \in {0, v} /\ TagOf(v) <= v
  <2>1. TagOf(v) \in {0, v} /\ v \in Tags /\ 0 \in Tags /\ 0 <= v BY <1>2, TagVersions DEF TagOf
  <2> QED BY <1>2, <2>1
<1>5. /\ base \in ResRec /\ ~base.range /\ ~base.pinned /\ base.tag <= v
      /\ base.known = htRes.known /\ base.size = htRes.size
      /\ base.eligible => base.tag \in {0, v}
  <2> DEFINE tag == TagOf(v)
  <2>1. CASE htReq.range
    <3>1. base = [htRes EXCEPT !.range = FALSE, !.eligible = TRUE, !.pinned = FALSE, !.tag = tag]
      BY <2>1
    <3>2. tag \in Tags /\ tag \in {0, v} /\ tag <= v BY <1>4
    <3> HIDE DEF tag
    <3>3. /\ base \in ResRec /\ ~base.range /\ ~base.pinned /\ base.tag = tag
          /\ base.known = htRes.known /\ base.size = htRes.size
      BY <1>2, <3>1, <3>2 DEF ResRec
    <3> QED BY <3>2, <3>3
  <2>2. CASE ~htReq.range
    <3> DEFINE t == IF htRes.eligible THEN tag ELSE htRes.tag
    <3>1. base = [htRes EXCEPT !.tag = t] BY <1>2, <2>2 DEF ResRec
    <3>2. t \in Tags /\ t <= v /\ (htRes.eligible => t \in {0, v})
      BY <1>2, <1>4 DEF VersionsOK, ResRec
    <3> HIDE DEF t
    <3>3. /\ base \in ResRec /\ base.range = htRes.range /\ base.pinned = htRes.pinned /\ base.tag = t
          /\ base.known = htRes.known /\ base.size = htRes.size /\ base.eligible = htRes.eligible
      BY <1>2, <3>1, <3>2 DEF ResRec
    <3> QED BY <1>3, <2>2, <3>2, <3>3
  <2> QED BY <2>1, <2>2
<1>6. PICK d : d = conn OBVIOUS
<1>7. d \in ConnRec /\ d.there /\ d.begin = 0 /\ d.got = 0 /\ d.total = 0 /\ d.state = "new"
  <2>1. CASE htReq.range
    <3> DEFINE z == 0
               s == IF htConn.state = "completed" THEN "new" ELSE htConn.state
    <3>1. d = [htConn EXCEPT !.begin = z, !.end = z, !.got = z, !.total = z, !.state = s]
      BY <1>2, <1>5, <1>6, <2>1 DEF ResetIn, ConnRec
    <3>2. z \in Nat /\ z \in Int /\ s = "new" /\ s \in ConnStates BY <1>2 DEF ConnStates
    <3> HIDE DEF z, s
    <3>3. d \in ConnRec /\ d.there /\ d.begin = z /\ d.got = z /\ d.total = z /\ d.state = s
      BY <1>2, <3>1, <3>2 DEF ConnRec
    <3> QED BY <3>2, <3>3 DEF z
  <2>2. CASE ~htReq.range
    BY <1>2, <1>3, <1>6, <2>2 DEF RecordOK, PosOf, ConnRec
  <2> QED BY <2>1, <2>2
<1>8. /\ file \in [Positions -> Tags]
      /\ \A p \in Positions : file[p] = FileWithPrefix[p]
  <2>1. CASE stops BY <2>1, PrefixCopied
  <2>2. CASE ~stops
    <3>1. ~htPre.file BY <1>2, <1>3, <2>2
    <3> QED BY <1>2, <2>2, <3>1, PrefixCopied
  <2> QED BY <2>1, <2>2
<1>9. restart \in BOOLEAN /\ htDataPos' \in {htDataPos, 0} BY <1>1, <1>2 DEF ReqRec
<1>10. CASE ~restart /\ htServer.lengths /\ ~fits
  <2>1. FailsWith("terminal", base, conn) /\ htRes' = base /\ htFile' = file BY <1>1, <1>10
  <2>2. ~htReq.range /\ ~htPre.fallback BY <1>3, <1>10
  <2>3. htPre' = htPre BY <2>1, <2>2 DEF FailsWith
  <2>4. /\ htRes' \in ResRec /\ ~htRes'.range /\ ~htRes'.pinned /\ htRes'.tag <= v
        /\ htRes'.known => \E w \in Versions : htRes'.size = SizeOf(w)
        /\ ~htRes'.known => htRes'.size = 0
    BY <1>2, <1>5, <2>1 DEF RecordOK
  <2>5. htFile' \in [Positions -> Tags] /\ \A p \in Positions : htFile'[p] \in {0, FileWithPrefix[p]}
    BY <1>8, <2>1
  <2> HIDE DEF base, conn, file, restart, fits, v
  <2>6. Waiting(d)'
    BY <1>1, <1>7, <1>9, <2>2, <2>3, <2>4, <2>5, SequentialStep DEF v
  <2>7. FailsWith("terminal", htRes', d) BY <1>6, <2>1
  <2> QED BY <1>1, <2>6, <2>7, FailsStep DEF Kinds
<1>11. CASE ~(~restart /\ htServer.lengths /\ ~fits)
  <2>1. /\ htPre' = IF stops THEN PreStopped ELSE htPre
        /\ htConn' = d
    BY <1>1, <1>6, <1>11
  <2>2. \/ htPre.fallback /\ htPre' = PreStopped
        \/ ~htPre.fallback /\ htPre' = htPre
    BY <1>3, <2>1
  <2>3. PICK expected \in Int, restarts \in BOOLEAN :
          /\ htReq' = Body(v, 0, expected, 0, restarts)
          /\ htRes' \in ResRec /\ ~htRes'.range /\ ~htRes'.pinned /\ htRes'.tag <= v
          /\ htRes'.eligible => htRes'.tag \in {0, v}
          /\ htRes'.known => \E w \in Versions : htRes'.size = SizeOf(w)
          /\ ~htRes'.known => htRes'.size = 0
          /\ IF expected = -1 THEN ~htRes'.known /\ (restarts => ~htServer.lengths)
             ELSE htRes'.known /\ expected = htRes'.size /\ (restarts => htServer.lengths)
          /\ htFile' \in [Positions -> Tags]
          /\ \A p \in Positions : htFile'[p] \in {0, FileWithPrefix[p]}
    <3>1. CASE restart /\ htServer.lengths
      <4>1. /\ htRes' = [base EXCEPT !.size = SizeOf(v), !.known = TRUE, !.unknown = FALSE]
            /\ htFile' = Truncated(file, SizeOf(v))
            /\ htReq' = Body(v, 0, SizeOf(v), 0, TRUE)
        BY <1>1, <1>11, <3>1
      <4> HIDE DEF base, file
      <4>2. /\ htRes' \in ResRec /\ ~htRes'.range /\ ~htRes'.pinned /\ htRes'.tag = base.tag
            /\ htRes'.eligible = base.eligible /\ htRes'.known /\ htRes'.size = SizeOf(v)
        BY <1>2, <1>5, <4>1 DEF ResRec
      <4>3. /\ htFile' \in [Positions -> Tags]
            /\ \A p \in Positions : htFile'[p] \in {0, FileWithPrefix[p]}
        BY <1>8, <4>1, TruncatedFile
      <4>4. SizeOf(v) \in Int /\ SizeOf(v) # -1 BY <1>2
      <4> HIDE DEF v
      <4> QED BY <1>2, <1>5, <3>1, <4>1, <4>2, <4>3, <4>4
    <3>2. CASE restart /\ ~htServer.lengths
      <4> DEFINE z == 0
      <4>1. /\ htRes' = [base EXCEPT !.size = z, !.known = FALSE, !.unknown = TRUE, !.tag = z,
                                     !.pinned = FALSE]
            /\ htFile' = Truncated(file, 0)
            /\ htReq' = Body(v, 0, -1, 0, TRUE)
        BY <1>1, <1>11, <3>2
      <4>2. z \in Nat /\ z \in Tags /\ z <= v BY <1>2, TagVersions
      <4> HIDE DEF base, file, z
      <4>3. /\ htRes' \in ResRec /\ ~htRes'.range /\ ~htRes'.pinned /\ htRes'.tag = z
            /\ ~htRes'.known /\ htRes'.size = z
        BY <1>5, <4>1, <4>2 DEF ResRec
      <4>4. /\ htFile' \in [Positions -> Tags]
            /\ \A p \in Positions : htFile'[p] \in {0, FileWithPrefix[p]}
        BY <1>8, <4>1, TruncatedFile
      <4>5. -1 \in Int /\ TRUE \in BOOLEAN OBVIOUS
      <4>6. z = 0 BY DEF z
      <4> HIDE DEF v
      <4> QED BY <3>2, <4>1, <4>2, <4>3, <4>4, <4>5, <4>6
    <3>3. CASE ~restart
      <4> DEFINE e == IF KnownSize(htRes) > 0 THEN htRes.size ELSE -1
      <4>1. htRes' = base /\ htFile' = file /\ htReq' = Body(v, 0, e, 0, FALSE)
        BY <1>1, <1>11, <3>3
      <4>2. e \in Int /\ IF e = -1 THEN ~htRes.known ELSE htRes.known /\ e = htRes.size
        BY <1>2 DEF KnownSize
      <4> HIDE DEF e, base, file, v
      <4>3. /\ htRes' \in ResRec /\ ~htRes'.range /\ ~htRes'.pinned /\ htRes'.tag <= v
            /\ htRes'.eligible => htRes'.tag \in {0, v}
            /\ htRes'.known => \E w \in Versions : htRes'.size = SizeOf(w)
            /\ ~htRes'.known => htRes'.size = 0
            /\ htRes'.known = htRes.known /\ htRes'.size = htRes.size
        BY <1>2, <1>5, <4>1 DEF RecordOK
      <4>4. htFile' \in [Positions -> Tags] /\ \A p \in Positions : htFile'[p] \in {0, FileWithPrefix[p]}
        BY <1>8, <4>1
      <4> QED BY <4>1, <4>2, <4>3, <4>4
    <3> QED BY <1>9, <3>1, <3>2, <3>3
  <2> HIDE DEF base, conn, file, restart, fits, stops
  <2>4. Waiting(d)' /\ ~htPre'.file /\ ~htPre'.fallback
    BY <1>1, <1>7, <1>9, <2>2, <2>3, SequentialStep
  <2> QED BY <1>1, <1>7, <2>1, <2>3, <2>4, SequentialBody
<1> QED BY <1>10, <1>11

\* The validator that was asked for is the one of the version that answers.
LEMMA Validated ==
  ASSUME HtInv, htReq.at = "asked", htRes.range, htReq.ifRange \in {0, htServer.version},
         htRes.pinned \/ htPre.fallback, htRes.tag # 0
  PROVE  htRes.tag = htServer.version
BY AskedNow DEF AskedOK

\* 206: the rest of the resource, whose overlap with the prefetch is dropped.
LEMMA Answer206Step ==
  ASSUME HtInv, Answer206
  PROVE  HtInv'
<1> DEFINE v == htServer.version
           last == SizeOf(v) - 1
           start == htReq.start
           valid == /\ start <= last /\ htReq.end \in {OpenEnd, last}
                    /\ KnownSize(htRes) \in {0, SizeOf(v)}
           inside == start <= Copied /\ Copied <= SizeOf(v)
           sized == IF htReq.end = OpenEnd THEN [htRes EXCEPT !.size = SizeOf(v), !.known = TRUE] ELSE htRes
           conn == IF htReq.end = OpenEnd THEN [htConn EXCEPT !.end = last] ELSE htConn
           file == IF htReq.end = OpenEnd THEN Truncated(htFile, SizeOf(v)) ELSE htFile
<1>1. /\ htReq.at = "asked" /\ htReq.range /\ htServer.ranges
      /\ htReq.ifRange \in {0, v}
      /\ IF ~valid
         THEN FailsWith("terminal", htRes, htConn) /\ UNCHANGED <<htRes, htFile, htDataPos>>
         ELSE IF htPre.fallback
         THEN /\ htFile' = [p \in Positions |-> IF p < Copied THEN htPre.version ELSE file[p]]
              /\ htPre' = PreStopped
              /\ IF inside
                 THEN /\ htDataPos' = Copied
                      /\ htRes' = [sized EXCEPT !.pinned = @ \/ htRes.tag # 0]
                      /\ htConn' = TakenOver(conn)
                      /\ htReq' = Body(v, start, SizeOf(v) - start, Copied - start, FALSE)
                 ELSE /\ htRes' = sized /\ UNCHANGED htDataPos
                      /\ AfterError("network", sized, conn)
         ELSE /\ htRes' = IF htReq.probe
                          THEN [sized EXCEPT !.range = TRUE, !.eligible = FALSE, !.pinned = TRUE,
                                             !.unknown = FALSE]
                          ELSE sized
              /\ htConn' = IF htReq.probe THEN [conn EXCEPT !.begin = 0, !.end = last] ELSE conn
              /\ htFile' = file
              /\ htReq' = Body(v, start, SizeOf(v) - start, 0, FALSE)
              /\ UNCHANGED <<htPre, htDataPos>>
      /\ UNCHANGED <<htServer, htState, htHeld, htStored, htFaults, htStops, htSpoilt, htMismatch>>
  BY DEF Answer206
<1>2. /\ HtTyped /\ OthersTyped /\ Waiting(htConn) /\ Standing(htConn) /\ AskedOK
      /\ RecordOK(htRes, htConn) /\ PreOK(htConn) /\ VersionsOK
      /\ htConn \in ConnRec /\ htConn.there /\ htConn.state = "new"
      /\ htReq \in ReqRec /\ htRes \in ResRec
      /\ htPre.file => htPre.fallback /\ htRes.range
      /\ htPre.fallback => htPre.file
      /\ v \in Versions /\ v \in Nat /\ SizeOf(v) \in Nat /\ SizeOf(v) > 0
      /\ htRes.known => htRes.size > 0
      /\ ~(htRes.pinned /\ PosOf(htConn) >= htRes.size)
  BY <1>1, AskedNow
<1>3. /\ htConn.begin \in Nat /\ htConn.got \in Nat /\ htConn.end \in Int /\ htRes.size \in Nat
      /\ start = PosOf(htConn) /\ PosOf(htConn) = htConn.begin + htConn.got /\ start \in Nat
      /\ last \in Int /\ last >= 0
      /\ htFile \in [Positions -> Tags] /\ htFaults \in Nat /\ Copied \in Nat
      /\ htDataPos \in Nat
  BY <1>1, <1>2, PrefixCopied DEF ConnRec, ResRec, PosOf, AskedOK, OthersTyped
<1>4. htRes.range => /\ ~htReq.probe /\ ~htReq.restart /\ htReq.end = htConn.end
                     /\ htConn.end = IF htRes.known THEN htRes.size - 1 ELSE OpenEnd
  BY <1>1, <1>2 DEF AskedOK, RecordOK
<1>5. ~htRes.range => /\ htReq.probe /\ ~htReq.restart /\ Prefix /\ htRes.tag # 0 /\ htRes.known
                      /\ htReq.ifRange = htRes.tag /\ htReq.end = htRes.size - 1
                      /\ ~htPre.file /\ ~htPre.fallback /\ ~htRes.pinned /\ htConn.begin = 0
  BY <1>1, <1>2 DEF AskedOK, RecordOK
<1>6. htReq.restart = FALSE
  <2>1. htReq.restart \in BOOLEAN BY <1>2 DEF ReqRec
  <2> QED BY <1>4, <1>5, <2>1
<1>7. htReq.end = OpenEnd <=> ~htRes.known
  BY <1>2, <1>3, <1>4, <1>5 DEF OpenEnd
<1>8. CASE ~valid
  <2>1. FailsWith("terminal", htRes, htConn) /\ UNCHANGED <<htRes, htFile, htDataPos>>
    BY <1>1, <1>8
  <2>2. PICK c : c = htConn OBVIOUS
  <2>3. Waiting(c)' BY <1>1, <1>3, <2>1, <2>2, FailsPre, UnmovedStep
  <2>4. FailsWith("terminal", htRes', c) BY <2>1, <2>2
  <2> QED BY <1>1, <2>3, <2>4, FailsStep DEF Kinds
<1>9. ASSUME valid
      PROVE  /\ sized \in ResRec /\ sized.known /\ sized.size = SizeOf(v)
             /\ sized.range = htRes.range /\ sized.tag = htRes.tag /\ sized.pinned = htRes.pinned
             /\ sized.unknown = htRes.unknown /\ sized.eligible = htRes.eligible
             /\ conn \in ConnRec /\ conn.there /\ conn.state = "new" /\ conn.begin = htConn.begin
             /\ conn.got = htConn.got /\ conn.total = htConn.total /\ PosOf(conn) = start
             /\ htRes.range => conn.end = last
             /\ file \in [Positions -> Tags]
             /\ \A p \in Positions : file[p] \in {0, htFile[p]}
             /\ \A p \in Positions : p < start => file[p] = htFile[p]
             /\ start < SizeOf(v)
             /\ ~htRes.range => sized = htRes /\ conn = htConn /\ file = htFile
  <2>1. start < SizeOf(v) BY <1>2, <1>3, <1>9
  <2>2. CASE ~htRes.known
    <3>1. htRes.range /\ htReq.end = OpenEnd BY <1>5, <1>7, <2>2
    <3>2. /\ sized = [htRes EXCEPT !.size = SizeOf(v), !.known = TRUE]
          /\ conn = [htConn EXCEPT !.end = last]
          /\ file = Truncated(htFile, SizeOf(v))
      BY <3>1
    <3> HIDE DEF sized, conn, file, last
    <3>3. /\ sized \in ResRec /\ sized.known /\ sized.size = SizeOf(v)
          /\ sized.range = htRes.range /\ sized.tag = htRes.tag /\ sized.pinned = htRes.pinned
          /\ sized.unknown = htRes.unknown /\ sized.eligible = htRes.eligible
      BY <1>2, <3>2 DEF ResRec
    <3>4. /\ conn \in ConnRec /\ conn.there /\ conn.state = "new" /\ conn.begin = htConn.begin
          /\ conn.got = htConn.got /\ conn.total = htConn.total /\ conn.end = last
      BY <1>2, <1>3, <3>2 DEF ConnRec
    <3>5. PosOf(conn) = start BY <1>3, <3>4 DEF PosOf
    <3>6. /\ file \in [Positions -> Tags]
          /\ \A p \in Positions : file[p] = IF p < SizeOf(v) THEN htFile[p] ELSE 0
      BY <1>3, <3>2, TruncatedFile
    <3>7. \A p \in Positions : p < start => p < SizeOf(v) BY <1>2, <1>3, <2>1, PositionsUpTo
    <3> QED BY <2>1, <3>1, <3>3, <3>4, <3>5, <3>6, <3>7
  <2>3. CASE htRes.known
    <3>1. htReq.end # OpenEnd /\ htReq.end = last /\ htRes.size = SizeOf(v)
      BY <1>2, <1>3, <1>7, <1>9, <2>3 DEF KnownSize
    <3>2. sized = htRes /\ conn = htConn /\ file = htFile BY <3>1
    <3>3. htRes.range => htConn.end = last BY <1>4, <3>1
    <3> HIDE DEF sized, conn, file, last
    <3> QED BY <1>2, <1>3, <2>1, <2>3, <3>1, <3>2, <3>3
  <2> QED BY <2>2, <2>3
<1>10. htStored.there => htStored.res.tag <= v BY <1>2 DEF VersionsOK
<1>11. htRes.tag <= v /\ htRes.tag \in Nat
  <2>1. htRes.tag \in Tags BY <1>2 DEF ResRec
  <2> QED BY <1>2, <2>1, TagVersions DEF VersionsOK
<1>12. ASSUME valid, htPre.fallback
       PROVE  /\ htPre.file /\ htRes.range /\ ~htRes.pinned /\ ~htRes.unknown
              /\ htPre.version # 0 /\ htPre.version \in Tags /\ htPre.version <= v
              /\ htConn.got = 0 /\ htConn.begin <= Copied /\ start = htConn.begin
              /\ htRes.tag # 0 => htRes.tag = v /\ htPre.version = htRes.tag
              /\ htFile' \in [Positions -> Tags]
              /\ \A p \in Positions : p < Copied => htFile'[p] = htPre.version
              /\ \A p \in Positions : htFile'[p] \in {0, FileWithPrefix[p]}
              /\ \A p \in Positions : htFile'[p] <= v
              /\ htPre' \in PreRec /\ ~htPre'.file /\ ~htPre'.fallback /\ \A c : PreOK(c)'
  <2>1. htPre.file /\ htRes.range BY <1>2, <1>12
  <2>2. /\ ~htRes.pinned /\ ~htRes.unknown /\ htPre.version \in Versions /\ htPre.version <= v
        /\ htConn.got = 0 /\ htConn.begin <= htPre.got /\ htRes.tag \in {0, htPre.version}
    BY <1>2, <2>1 DEF PreOK, RecordOK
  <2>3. htPre.version # 0 /\ htPre.version \in Tags BY <2>2, TagVersions
  <2>4. htRes.tag # 0 => htRes.tag = v BY <1>1, <1>12, <2>1, Validated
  <2>5. Copied = htPre.got BY <2>1, PrefixCopied
  <2>6. htFile' = [p \in Positions |-> IF p < Copied THEN htPre.version ELSE file[p]]
        /\ htPre' = PreStopped
    BY <1>1, <1>12
  <2>7. file \in [Positions -> Tags] /\ \A p \in Positions : file[p] \in {0, htFile[p]}
    BY <1>9, <1>12
  <2> HIDE DEF file, valid, v
  <2>8. /\ htFile' \in [Positions -> Tags]
        /\ \A p \in Positions : htFile'[p] = IF p < Copied THEN htPre.version ELSE file[p]
    BY <2>3, <2>6, <2>7
  <2>9. \A p \in Positions : htFile'[p] \in {0, FileWithPrefix[p]}
    BY <2>7, <2>8, PrefixCopied
  <2>10. \A p \in Positions : htFile'[p] <= v
    <3>1. 0 <= v BY <1>2
    <3>2. \A p \in Positions : FileWithPrefix[p] <= v BY PrefixCopied DEF v
    <3> QED BY <2>9, <3>1, <3>2
  <2>11. htPre' \in PreRec /\ ~htPre'.file /\ ~htPre'.fallback /\ \A c : PreOK(c)'
    BY <2>6, StoppedStep
  <2> QED BY <1>3, <2>1, <2>2, <2>3, <2>4, <2>5, <2>8, <2>9, <2>10, <2>11
<1>13. CASE valid /\ htPre.fallback /\ ~inside
  <2>1. htRes' = sized /\ UNCHANGED htDataPos /\ AfterError("network", sized, conn)
    BY <1>1, <1>13
  <2>2. PICK c : c = conn OBVIOUS
  <2>3. /\ htRes' \in ResRec /\ htRes'.known /\ htRes'.size = SizeOf(v)
        /\ htRes'.range /\ htRes'.tag = htRes.tag /\ ~htRes'.pinned /\ ~htRes'.unknown
        /\ c \in ConnRec /\ c.there /\ c.state = "new" /\ c.begin = htConn.begin
        /\ c.got = 0 /\ c.total = htConn.total /\ PosOf(c) = start /\ c.end = last
    BY <1>9, <1>12, <1>13, <2>1, <2>2
  <2>4. Waiting(c)'
    <3>1. RecordOK(htRes, c)'
      <4>1. c.total = PosOf(c) BY <1>2, <1>3, <2>3 DEF RecordOK
      <4> QED BY <1>2, <2>3, <4>1 DEF RecordOK
    <3>2. PreOK(c)' BY <1>12, <1>13
    <3>3. VersionsOK' BY <1>1, <1>2, <1>11, <1>12, <1>13, <2>3 DEF VersionsOK
    <3>4. Covers(c)'
      <4>1. \A p \in Positions : p < start => p < Copied
        BY <1>3, <1>12, <1>13, PositionsUpTo
      <4> QED BY <1>12, <1>13, <2>3, <4>1 DEF Covers
    <3>5. GenuineOK(c)'
      <4> SUFFICES ASSUME htServer.checksum = 0 PROVE GenuineOK(c)'
        BY <1>1 DEF GenuineOK
      <4>1. Genuine(htRes, c)' BY <2>3 DEF Genuine
      <4>2. htStored.there => Genuine(htStored.res, htStored.conn)'
        BY <1>1, <1>2, <1>12, <1>13, StoredCopied
      <4>3. htStored.there => Settled(c)' BY <1>1, <1>2, SettledStep
      <4> QED BY <1>1, <2>3, <4>1, <4>2, <4>3 DEF GenuineOK
    <3>6. RecordOK(htStored.res, htStored.conn)' BY <1>1, <1>2 DEF Standing
    <3>7. OthersTyped' BY <1>1, <1>2, <1>12, <1>13, <2>1, <2>3 DEF OthersTyped
    <3> QED BY <1>1, <1>2, <2>3, <3>1, <3>2, <3>3, <3>4, <3>5, <3>6, <3>7 DEF Waiting, Standing
  <2>5. AfterError("network", htRes', c) BY <2>1, <2>2
  <2>6. ~htPre'.file BY <1>12, <1>13
  <2> QED BY <1>2, <2>4, <2>5, <2>6, ErrorStep DEF Kinds
<1>14. CASE valid /\ htPre.fallback /\ inside
  <2>1. /\ htDataPos' = Copied
        /\ htRes' = [sized EXCEPT !.pinned = @ \/ htRes.tag # 0]
        /\ htConn' = TakenOver(conn)
        /\ htReq' = Body(v, start, SizeOf(v) - start, Copied - start, FALSE)
    BY <1>1, <1>14
  <2>2. PICK d : d = TakenOver(conn) OBVIOUS
  <2>3. /\ htRes' \in ResRec /\ htRes'.known /\ htRes'.size = SizeOf(v)
        /\ htRes'.range /\ htRes'.tag = htRes.tag /\ ~htRes'.unknown
        /\ htRes'.pinned <=> htRes.tag # 0
    <3> DEFINE pin == sized.pinned \/ htRes.tag # 0
    <3>1. sized \in ResRec /\ sized.known /\ sized.size = SizeOf(v) /\ sized.range
          /\ sized.tag = htRes.tag /\ ~sized.pinned /\ ~sized.unknown
      BY <1>9, <1>12, <1>14
    <3>2. pin \in BOOLEAN /\ (pin <=> htRes.tag # 0) BY <3>1
    <3>3. htRes' = [sized EXCEPT !.pinned = pin] BY <2>1, <3>1 DEF ResRec
    <3> HIDE DEF pin, sized
    <3> QED BY <3>1, <3>2, <3>3 DEF ResRec
  <2>4. /\ d \in ConnRec /\ d.there /\ d.state = "new" /\ d.begin = htConn.begin
        /\ d.got = Copied - start /\ d.total = Copied /\ d.end = last /\ PosOf(d) = Copied
    <3> DEFINE got == Copied - start
               total == Copied
    <3>1. /\ conn \in ConnRec /\ conn.there /\ conn.state = "new" /\ conn.begin = htConn.begin
          /\ conn.end = last
      BY <1>9, <1>12, <1>14
    <3>2. got \in Nat /\ total \in Nat BY <1>3, <1>14
    <3>3. d = [conn EXCEPT !.got = got, !.total = total] BY <2>2 DEF TakenOver
    <3> HIDE DEF got, total, conn, last
    <3>4. /\ d \in ConnRec /\ d.there /\ d.state = "new" /\ d.begin = htConn.begin
          /\ d.got = got /\ d.total = total /\ d.end = last
      BY <3>1, <3>2, <3>3 DEF ConnRec
    <3>5. PosOf(d) = Copied BY <1>3, <1>12, <1>14, <3>4 DEF PosOf, got
    <3> QED BY <3>4, <3>5 DEF got, total
  <2>5. htRes'.pinned => /\ htRes.tag = v /\ \A p \in Positions : p < Copied => htFile'[p] = htRes.tag
    BY <1>12, <1>14, <2>3
  <2>6. Waiting(d)'
    <3>1. RecordOK(htRes, d)' BY <1>2, <1>12, <1>14, <2>3, <2>4 DEF RecordOK
    <3>2. PreOK(d)' BY <1>12, <1>14
    <3>3. VersionsOK' BY <1>1, <1>2, <1>11, <1>12, <1>14, <2>3 DEF VersionsOK
    <3>4. Covers(d)' BY <1>12, <1>14, <2>4 DEF Covers
    <3>5. GenuineOK(d)'
      <4> SUFFICES ASSUME htServer.checksum = 0 PROVE GenuineOK(d)'
        BY <1>1 DEF GenuineOK
      <4>1. Genuine(htRes, d)' BY <2>3, <2>4, <2>5 DEF Genuine
      <4>2. htStored.there => Genuine(htStored.res, htStored.conn)'
        BY <1>1, <1>2, <1>12, <1>14, StoredCopied
      <4>3. htStored.there => Settled(d)' BY <1>1, <1>2, SettledStep
      <4> QED BY <1>1, <2>4, <4>1, <4>2, <4>3 DEF GenuineOK, AllRead
    <3>6. RecordOK(htStored.res, htStored.conn)' BY <1>1, <1>2 DEF Standing
    <3>7. OthersTyped' BY <1>1, <1>2, <1>3, <1>12, <1>14, <2>1, <2>3 DEF OthersTyped
    <3> QED BY <1>1, <1>2, <2>4, <3>1, <3>2, <3>3, <3>4, <3>5, <3>6, <3>7 DEF Waiting, Standing
  <2>7. /\ htReq' \in ReqRec /\ htReq'.at = "body" /\ htReq'.version = v /\ htReq'.from = start
        /\ htReq'.read = 0 /\ htReq'.expected = SizeOf(v) - start /\ htReq'.discard = Copied - start
        /\ htReq'.restart = FALSE
    <3> DEFINE expected == SizeOf(v) - start
               discard == Copied - start
               restart == FALSE
    <3>1. expected \in Int /\ discard \in Nat /\ restart \in BOOLEAN BY <1>2, <1>3, <1>14
    <3>2. htReq' = Body(v, start, expected, discard, restart) BY <2>1
    <3> HIDE DEF expected, discard, restart, v, start
    <3>3. /\ htReq' \in ReqRec /\ htReq'.at = "body" /\ htReq'.version = v /\ htReq'.from = start
          /\ htReq'.read = 0 /\ htReq'.expected = expected /\ htReq'.discard = discard
          /\ htReq'.restart = restart
      BY <1>1, <1>2, <1>3, <3>1, <3>2, BodyRequest
    <3> QED BY <3>3 DEF expected, discard, restart
  <2>8. htConn' = d BY <2>1, <2>2
  <2>9. VersionRead'
    BY <1>1, <1>2, <1>10, <1>11, <1>14, <2>3, <2>4, <2>7, <2>8 DEF VersionRead
  <2>10. PosOf(htConn') = htReq'.from + htReq'.read + htReq'.discard
    BY <1>3, <2>4, <2>7, <2>8
  <2>11. BodyOK' BY <2>3, <2>5, <2>7, <2>9, <2>10 DEF BodyOK
  <2>12. AskOK' /\ AskedOK' /\ HeldOK' BY <2>7 DEF AskOK, AskedOK, HeldOK
  <2>13. PinnedBody' BY <2>3, <2>4, <2>5, <2>8 DEF PinnedBody
  <2>14. FallBackOK' BY <1>12, <1>14, <2>7 DEF FallBackOK
  <2> QED BY <2>6, <2>7, <2>8, <2>11, <2>12, <2>13, <2>14, RequestStep DEF RequestOK
<1>15. CASE valid /\ ~htPre.fallback
  <2>1. /\ htRes' = IF htReq.probe
                    THEN [sized EXCEPT !.range = TRUE, !.eligible = FALSE, !.pinned = TRUE,
                                       !.unknown = FALSE]
                    ELSE sized
        /\ htConn' = IF htReq.probe THEN [conn EXCEPT !.begin = 0, !.end = last] ELSE conn
        /\ htFile' = file
        /\ htReq' = Body(v, start, SizeOf(v) - start, 0, FALSE)
        /\ UNCHANGED <<htPre, htDataPos>>
    BY <1>1, <1>15
  <2>2. PICK d : d = htConn' OBVIOUS
  <2>3. ~htPre.file BY <1>2, <1>15
  <2>4. /\ htFile' \in [Positions -> Tags]
        /\ \A p \in Positions : htFile'[p] \in {0, htFile[p]}
        /\ \A p \in Positions : p < start => htFile'[p] = htFile[p]
        /\ start < SizeOf(v)
        /\ ~htRes.range => htFile' = htFile
    BY <1>9, <1>15, <2>1
  <2>5. /\ htRes' \in ResRec /\ htRes'.known /\ htRes'.size = SizeOf(v) /\ htRes'.range
        /\ htRes'.tag = htRes.tag /\ ~htRes'.unknown
        /\ htRes'.pinned = (htRes.pinned \/ ~htRes.range)
    <3>1. /\ sized \in ResRec /\ sized.known /\ sized.size = SizeOf(v)
          /\ sized.range = htRes.range /\ sized.tag = htRes.tag /\ sized.pinned = htRes.pinned
          /\ sized.unknown = htRes.unknown
      BY <1>9, <1>15
    <3>2. htRes.range => ~htRes.unknown BY <1>2 DEF RecordOK
    <3>3. CASE htRes.range
      <4>1. htRes' = sized BY <1>4, <2>1, <3>3
      <4>2. htRes.pinned \in BOOLEAN BY <1>2 DEF ResRec
      <4> HIDE DEF sized
      <4> QED BY <3>1, <3>2, <3>3, <4>1, <4>2
    <3>4. CASE ~htRes.range
      <4>1. htRes' = [sized EXCEPT !.range = TRUE, !.eligible = FALSE, !.pinned = TRUE,
                                   !.unknown = FALSE]
        BY <1>5, <2>1, <3>4
      <4> HIDE DEF sized
      <4> QED BY <3>1, <3>4, <4>1 DEF ResRec
    <3> QED BY <3>3, <3>4
  <2>6. /\ d \in ConnRec /\ d.there /\ d.state = "new" /\ d.begin = htConn.begin
        /\ d.got = htConn.got /\ d.total = htConn.total /\ d.end = last /\ PosOf(d) = start
    <3>1. /\ conn \in ConnRec /\ conn.there /\ conn.state = "new" /\ conn.begin = htConn.begin
          /\ conn.got = htConn.got /\ conn.total = htConn.total /\ PosOf(conn) = start
          /\ htRes.range => conn.end = last
      BY <1>9, <1>15
    <3>2. CASE htRes.range
      <4>1. d = conn BY <1>4, <2>1, <2>2, <3>2
      <4> QED BY <3>1, <3>2, <4>1
    <3>3. CASE ~htRes.range
      <4> DEFINE z == 0
      <4>1. d = [conn EXCEPT !.begin = z, !.end = last] /\ z \in Nat /\ conn.begin = z
        BY <1>5, <2>1, <2>2, <3>1, <3>3
      <4> HIDE DEF z, conn, last
      <4>2. /\ d \in ConnRec /\ d.there /\ d.state = "new" /\ d.begin = z
            /\ d.got = conn.got /\ d.total = conn.total /\ d.end = last
        BY <1>3, <3>1, <4>1 DEF ConnRec
      <4>3. d.begin = conn.begin BY <4>1, <4>2
      <4> QED BY <3>1, <4>2, <4>3 DEF PosOf
    <3> QED BY <3>2, <3>3
  <2>7. htRes'.pinned => htRes.tag = v
    <3>1. CASE htRes.range
      <4>1. htRes.pinned => htRes.tag # 0 BY <1>2 DEF RecordOK
      <4> QED BY <1>1, <2>5, <3>1, <4>1, Validated
    <3>2. CASE ~htRes.range BY <1>1, <1>5, <3>2
    <3> QED BY <3>1, <3>2
  <2>8. htServer.checksum = 0 /\ htRes'.pinned =>
          \A p \in Positions : p < start => htFile'[p] \in {0, htRes.tag}
    <3> SUFFICES ASSUME htServer.checksum = 0, htRes'.pinned
                 PROVE  \A p \in Positions : p < start => htFile'[p] \in {0, htRes.tag}
      OBVIOUS
    <3>1. Genuine(htRes, htConn) BY <1>2 DEF Standing, GenuineOK
    <3>2. htRes.tag # 0 /\ (htRes.pinned \/ (~htRes.range /\ htRes.eligible)) /\ ~(v > htRes.tag)
      <4>1. htRes.tag = v /\ v # 0 /\ ~(v > v) BY <1>2, <2>7, TagVersions
      <4>2. htRes.pinned \/ ~htRes.range BY <2>5
      <4>3. ~htRes.range => htRes.eligible BY <1>5 DEF Prefix
      <4> HIDE DEF v
      <4> QED BY <4>1, <4>2, <4>3
    <3>3. \A p \in Positions : p < start => htFile[p] \in {0, htRes.tag}
      BY <1>3, <3>1, <3>2 DEF Genuine
    <3> QED BY <2>4, <3>3
  <2> HIDE DEF sized, conn, file, valid, inside, start
  <2>9. Waiting(d)'
    <3>1. RecordOK(htRes, d)'
      <4>1. d.total = PosOf(d) BY <1>2, <1>3, <2>6 DEF RecordOK
      <4>2. htRes'.pinned => htRes'.tag # 0 /\ htRes'.size = SizeOf(htRes'.tag)
        BY <1>2, <2>5, <2>7, TagVersions
      <4> QED BY <1>2, <2>5, <2>6, <4>1, <4>2 DEF RecordOK
    <3>2. PreOK(d)'
      BY <1>2, <2>1, <2>3, <1>15 DEF PreOK
    <3>3. VersionsOK'
      <4>1. \A p \in Positions : htFile'[p] <= v
        <5>1. 0 <= v BY <1>2
        <5> QED BY <1>2, <2>4, <5>1 DEF VersionsOK
      <4> QED BY <1>1, <1>2, <2>5, <4>1 DEF VersionsOK
    <3>4. Covers(d)'
      BY <1>1, <1>2, <1>3, <2>3, <2>4, <2>6 DEF Standing, Covers
    <3>5. GenuineOK(d)'
      <4> SUFFICES ASSUME htServer.checksum = 0 PROVE GenuineOK(d)'
        BY <1>1 DEF GenuineOK
      <4>1. Genuine(htRes, d)' BY <2>5, <2>6, <2>8 DEF Genuine
      <4>2. htStored.there => Genuine(htStored.res, htStored.conn)'
        <5>1. \A p \in Positions : htFile'[p] \in {0, FileWithPrefix[p]}
          BY <2>3, <2>4, PrefixCopied
        <5> QED BY <1>1, <2>3, <5>1, StoredCopied
      <4>3. htStored.there => Settled(d)' BY <1>1, <1>2, SettledStep
      <4> QED BY <1>1, <2>6, <4>1, <4>2, <4>3 DEF GenuineOK, AllRead
    <3>6. RecordOK(htStored.res, htStored.conn)' BY <1>1, <1>2 DEF Standing
    <3>7. OthersTyped' BY <1>1, <1>2, <2>1, <2>4, <2>5 DEF OthersTyped
    <3> QED BY <1>1, <1>2, <2>6, <3>1, <3>2, <3>3, <3>4, <3>5, <3>6, <3>7 DEF Waiting, Standing
  <2>10. /\ htReq' \in ReqRec /\ htReq'.at = "body" /\ htReq'.version = v /\ htReq'.from = start
         /\ htReq'.read = 0 /\ htReq'.expected = SizeOf(v) - start /\ htReq'.discard = 0
         /\ htReq'.restart = FALSE
    <3> DEFINE expected == SizeOf(v) - start
               discard == 0
               restart == FALSE
    <3>1. expected \in Int /\ discard \in Nat /\ restart \in BOOLEAN BY <1>2, <1>3
    <3>2. htReq' = Body(v, start, expected, discard, restart) BY <2>1
    <3> HIDE DEF expected, discard, restart, v
    <3>3. /\ htReq' \in ReqRec /\ htReq'.at = "body" /\ htReq'.version = v /\ htReq'.from = start
          /\ htReq'.read = 0 /\ htReq'.expected = expected /\ htReq'.discard = discard
          /\ htReq'.restart = restart
      BY <1>1, <1>2, <1>3, <3>1, <3>2, BodyRequest
    <3> QED BY <3>3 DEF expected, discard, restart
  <2>11. htConn' = d BY <2>2
  <2>12. VersionRead'
    <3>1. PosOf(d) <= SizeOf(v) BY <1>2, <1>3, <2>4, <2>6
    <3> QED BY <1>1, <1>2, <1>10, <1>11, <2>5, <2>10, <2>11, <3>1 DEF VersionRead
  <2>13. PosOf(htConn') = htReq'.from + htReq'.read + htReq'.discard
    BY <1>3, <2>6, <2>10, <2>11
  <2>14. BodyOK' BY <2>5, <2>7, <2>10, <2>12, <2>13 DEF BodyOK
  <2>15. AskOK' /\ AskedOK' /\ HeldOK' BY <2>10 DEF AskOK, AskedOK, HeldOK
  <2>16. PinnedBody' BY <1>1, <2>5, <2>6, <2>8, <2>11 DEF PinnedBody
  <2>17. FallBackOK' BY <2>1, <2>3, <2>10 DEF FallBackOK
  <2> QED BY <2>9, <2>10, <2>11, <2>14, <2>15, <2>16, <2>17, RequestStep DEF RequestOK
<1> QED BY <1>8, <1>13, <1>14, <1>15

\* The invariant holds before anything was resolved.
LEMMA HtInitially == HtInit => HtInv
<1> SUFFICES ASSUME HtInit PROVE HtInv
  OBVIOUS
<1>1. /\ htServer \in [version : {1}, validator : BOOLEAN, lengths : BOOLEAN, ranges : BOOLEAN,
                       checksum : {0, 1}]
      /\ htState = "idle" /\ htRes = NoRes /\ htPre = NoPre /\ htHeld = 0 /\ htDataPos = 0
      /\ htConn = NoConn /\ htReq = NoReq
      /\ htFile = [p \in Positions |-> 0]
      /\ htStored = [there |-> FALSE, res |-> NoRes, conn |-> NoConn]
      /\ htMismatch = FALSE /\ htFaults = 0 /\ htStops = 0 /\ htSpoilt = FALSE
  BY DEF HtInit
<1>2. /\ NoRes \in ResRec /\ ~NoRes.range /\ NoRes.tag = 0 /\ ~NoRes.pinned /\ ~NoRes.eligible
      /\ ~NoRes.known /\ NoRes.size = 0 /\ ~NoRes.unknown
  BY TagVersions DEF NoRes, ResRec
<1>3. /\ NoPre \in PreRec /\ ~NoPre.file /\ ~NoPre.fallback /\ NoPre.at = "off"
  BY TagVersions DEF NoPre, PreRec
<1>4. /\ NoConn \in ConnRec /\ ~NoConn.there /\ NoConn.begin = 0 /\ NoConn.total = 0
      /\ PosOf(NoConn) = 0 /\ NoConn.state = "new"
  BY DEF NoConn, ConnRec, ConnStates, OpenEnd, PosOf
<1>5. htServer \in ServerRec /\ htServer.version = 1 /\ 1 \in Versions
  BY <1>1, TagVersions DEF ServerRec
<1>6. htFile \in [Positions -> Tags] /\ \A p \in Positions : htFile[p] = 0
  BY <1>1, TagVersions
<1>7. htStored \in StoredRec /\ ~htStored.there /\ htStored.res = NoRes /\ htStored.conn = NoConn
  BY <1>1, <1>2, <1>4 DEF StoredRec
<1>8. HtTyped
  <2>1. htState \in HtStates /\ htHeld \in Tags /\ htDataPos \in Nat /\ htFaults \in Nat
        /\ htStops \in Nat /\ htMismatch \in BOOLEAN /\ htSpoilt \in BOOLEAN
    BY <1>1, TagVersions DEF HtStates
  <2> QED BY <1>1, <1>2, <1>3, <1>4, <1>5, <1>6, <1>7, <2>1, NothingAsked DEF HtTyped, OthersTyped
<1>9. Standing(htConn)
  <2>1. RecordOK(NoRes, NoConn) BY <1>2, <1>4 DEF RecordOK
  <2>2. PreOK(htConn) BY <1>1, <1>3 DEF PreOK
  <2>3. VersionsOK BY <1>1, <1>2, <1>5, <1>6, <1>7 DEF VersionsOK
  <2>4. Covers(htConn) BY <1>1, <1>4 DEF Covers
  <2>5. GenuineOK(htConn) BY <1>1, <1>2, <1>4, <1>7 DEF GenuineOK, AllRead, Genuine
  <2> QED BY <1>1, <1>7, <2>1, <2>2, <2>3, <2>4, <2>5 DEF Standing
<1>10. htReq.at = "off" BY <1>1 DEF NoReq
<1>11. StateOK BY <1>1, <1>4, <1>7, <1>10 DEF StateOK
<1>12. FallBackOK BY <1>1, <1>3, <1>10 DEF FallBackOK
<1>13. RequestOK /\ PinnedBody
  BY <1>10 DEF RequestOK, AskOK, AskedOK, BodyOK, HeldOK, PinnedBody
<1>14. DoneIsWhole BY <1>1 DEF DoneIsWhole
<1> QED BY <1>8, <1>9, <1>11, <1>12, <1>13, <1>14 DEF HtInv

\* Steps that leave all alone.
LEMMA HtStutter ==
  ASSUME HtInv, UNCHANGED htVars
  PROVE  HtInv'
<1>1. /\ HtTyped /\ OthersTyped /\ Standing(htConn) /\ FallBackOK /\ StateOK /\ RequestOK
      /\ PinnedBody /\ DoneIsWhole
  BY DEF HtInv, HtTyped
<1>2. /\ UNCHANGED <<htServer, htState, htRes, htPre, htHeld, htDataPos, htConn>>
      /\ UNCHANGED <<htReq, htFile, htStored, htMismatch, htFaults, htStops, htSpoilt>>
  BY DEF htVars
<1>3. HtTyped' BY <1>1, <1>2 DEF HtTyped, OthersTyped
<1>4. Standing(htConn)'
  BY <1>1, <1>2 DEF Standing, PreOK, VersionsOK, Covers, GenuineOK, AllRead, Genuine, Settled, OneVersion
<1>5. FallBackOK' /\ StateOK' BY <1>1, <1>2 DEF FallBackOK, StateOK
<1>6. RequestOK'
  BY <1>1, <1>2 DEF RequestOK, AskOK, AskedOK, BodyOK, HeldOK, VersionRead, Prefix
<1>7. PinnedBody' /\ DoneIsWhole' BY <1>1, <1>2 DEF PinnedBody, DoneIsWhole, OneVersion, LeftBehind
<1> QED BY <1>3, <1>4, <1>5, <1>6, <1>7 DEF HtInv

\* Every step keeps the invariant.
LEMMA HtStep ==
  ASSUME HtInv, [HtNext]_htVars
  PROVE  HtInv'
<1>1. CASE HtResolve BY <1>1, ResolveStep
<1>2. CASE Prefetch BY <1>2, PrefetchStep
<1>3. CASE HtStart BY <1>3, HtStartStep
<1>4. CASE FullRedownload BY <1>4, FullRedownloadStep
<1>5. CASE Ask BY <1>5, AskActionStep
<1>6. CASE RequestFails BY <1>6, RequestFailsStep
<1>7. CASE Answer200 BY <1>7, Answer200Step
<1>8. CASE Answer206 BY <1>8, Answer206Step
<1>9. CASE ReadBody BY <1>9, ReadBodyStep
<1>10. CASE EndOfBody BY <1>10, EndOfBodyStep
<1>11. CASE BodyBreaks BY <1>11, BodyBreaksStep
<1>12. CASE ReadHeld BY <1>12, ReadHeldStep
<1>13. CASE FallBackCompletes BY <1>13, FallBackCompletesStep
<1>14. CASE FallBackFails BY <1>14, FallBackFailsStep
<1>15. CASE DownloadEnds BY <1>15, DownloadEndsStep
<1>16. CASE HtPause BY <1>16, HtPauseStep
<1>17. CASE HtCheckpoint BY <1>17, CheckpointStep
<1>18. CASE HtCrash BY <1>18, HtCrashStep
<1>19. CASE ResourceChanges BY <1>19, ResourceChangesStep
<1>20. CASE UNCHANGED htVars BY <1>20, HtStutter
<1> QED
  BY <1>1, <1>2, <1>3, <1>4, <1>5, <1>6, <1>7, <1>8, <1>9, <1>10, <1>11, <1>12, <1>13, <1>14,
     <1>15, <1>16, <1>17, <1>18, <1>19, <1>20
  DEF HtNext

\* What the record of an HTTP download says of the bytes on disk, through the
\* prefetch, the takeover, the sequential fall back and every restart.
THEOREM HtInvariant == HtSpec => []HtInv
<1>1. HtInit => HtInv BY HtInitially
<1>2. HtInv /\ [HtNext]_htVars => HtInv' BY HtStep
<1> QED BY <1>1, <1>2, PTL DEF HtSpec

\* A download that a connection finished has no hole; and where it ended
\* sequentially, or its Range requests kept to a validator, it is one version of
\* the resource.
THEOREM DoneWhole == HtSpec => []DoneIsWhole
<1>1. HtInv => DoneIsWhole BY DEF HtInv
<1> QED BY <1>1, HtInvariant, PTL

\* The state of a connection, its request and its prefetch has its type.
THEOREM HtTypeCorrect == HtSpec => []HtTypeOK
<1>1. HtInv => HtTypeOK
  <2> SUFFICES ASSUME HtInv PROVE HtTypeOK
    OBVIOUS
  <2>1. HtTyped /\ OthersTyped /\ PreOK(htConn) BY DEF HtInv, HtTyped, Standing
  <2> QED
    BY <2>1 DEF HtTypeOK, HtTyped, OthersTyped, HtStates, PreRec, ConnRec, ConnStates, ReqRec, Tags, PreOK
<1> QED BY <1>1, HtInvariant, PTL

-----------------------------------------------------------------------------
\* ED2K: a task that has the transfer for itself is the one whose path it has, and
\* a transfer that is finished has its file.
EdInv ==
    /\ EdTypeOK
    /\ \A t \in EdTasks : edTask[t].alone => transfer.of = t /\ t \notin removal
    /\ transfer.of # NoTask /\ transfer.finished => edFile[transfer.of] = "whole"
    /\ EdDoneHasFile

\* Nothing has started.
LEMMA EdInvInit == EdInit => EdInv
<1> SUFFICES ASSUME EdInit PROVE EdInv OBVIOUS
<1>1. /\ transfer \in [of : EdTasks \cup {NoTask}, paused : BOOLEAN, finished : BOOLEAN]
      /\ transfer.of = NoTask /\ ~transfer.finished /\ removal = {}
  BY DEF EdInit, NoTransfer
<1>2. /\ edTask \in [EdTasks -> [started : BOOLEAN, closed : BOOLEAN, alone : BOOLEAN,
                                wait : {"off", "on", "returned"}]]
      /\ \A t \in EdTasks : ~edTask[t].alone
  BY DEF EdInit
<1>3. hasClient \in BOOLEAN /\ edFile \in [EdTasks -> {"none", "part", "whole"}] BY DEF EdInit
<1> QED BY <1>1, <1>2, <1>3 DEF EdInv, EdTypeOK, EdDoneHasFile

\* A watcher that comes back for an event leaves the others' events.
LEMMA EdReturnsStep ==
  ASSUME EdInv, NEW t \in EdTasks, Returns(t), edTask[t].wait = "on",
         UNCHANGED <<transfer, hasClient, edFile, edStarts>>,
         edTask[t].alone /\ ~edTask[t].closed => edFile[t] = "whole"
  PROVE  EdInv'
<1>1. EdTypeOK' BY DEF EdInv, EdTypeOK, Returns
<1>2. \A u \in EdTasks : edTask'[u].alone = edTask[u].alone /\ edTask'[u].closed = edTask[u].closed
  BY DEF EdInv, EdTypeOK, Returns
<1>3. \A u \in EdTasks \ {t} : edTask'[u] = edTask[u] BY DEF EdInv, EdTypeOK, Returns
<1>4. EdDoneHasFile' BY <1>2, <1>3 DEF EdInv, EdDoneHasFile
<1> QED BY <1>1, <1>2, <1>4 DEF EdInv, Returns

\* Every step keeps the invariant.
LEMMA EdInvStep ==
  ASSUME EdInv, [EdNext]_edVars
  PROVE  EdInv'
<1>0. EdTypeOK BY DEF EdInv
<1>1. CASE UNCHANGED edVars BY <1>1 DEF edVars, EdInv, EdTypeOK, EdDoneHasFile
<1>2. ASSUME NEW t \in EdTasks, EdStart(t) PROVE EdInv'
  <2> DEFINE adds == transfer.of = NoTask
             alone == IF adds THEN t \notin removal ELSE edTask[t].alone /\ transfer.of = t
             wait == IF edTask[t].wait = "returned" THEN "off" ELSE edTask[t].wait
  <2>1. /\ edTask' = [edTask EXCEPT ![t].started = TRUE, ![t].alone = alone, ![t].wait = wait]
        /\ hasClient' = TRUE /\ removal' = removal
    BY <1>0, <1>2 DEF EdStart, EdTypeOK
  <2>2. alone \in BOOLEAN /\ wait \in {"off", "on"} BY <1>0 DEF EdTypeOK
  <2>3. /\ edTask' \in [EdTasks -> [started : BOOLEAN, closed : BOOLEAN, alone : BOOLEAN,
                                    wait : {"off", "on", "returned"}]]
        /\ edTask'[t].alone = alone /\ edTask'[t].wait # "returned"
        /\ \A u \in EdTasks \ {t} : edTask'[u] = edTask[u]
    <3> HIDE DEF alone, wait
    <3> QED BY <1>0, <2>1, <2>2 DEF EdTypeOK
  <2>4. CASE adds
    <3>1. /\ transfer' = [NoTransfer EXCEPT !.of = t, !.finished = edFile[t] = "whole"]
          /\ edFile' = [edFile EXCEPT ![t] = IF @ = "none" THEN "part" ELSE @]
      BY <1>2, <2>4 DEF EdStart
    <3>2. /\ transfer' \in [of : EdTasks \cup {NoTask}, paused : BOOLEAN, finished : BOOLEAN]
          /\ transfer'.of = t /\ (transfer'.finished => edFile[t] = "whole")
      BY <3>1 DEF NoTransfer
    <3>3. /\ edFile' \in [EdTasks -> {"none", "part", "whole"}]
          /\ \A u \in EdTasks : edFile[u] = "whole" => edFile'[u] = "whole"
      BY <1>0, <3>1 DEF EdTypeOK
    <3>4. EdTypeOK' BY <1>0, <2>1, <2>3, <3>2, <3>3 DEF EdTypeOK
    <3>5. \A u \in EdTasks \ {t} : ~edTask[u].alone BY <2>4, EdAssumption DEF EdInv
    <3>6. EdDoneHasFile' BY <2>3, <3>5 DEF EdDoneHasFile
    <3> QED BY <2>1, <2>3, <2>4, <3>2, <3>3, <3>4, <3>5, <3>6 DEF EdInv
  <2>5. CASE ~adds
    <3>1. transfer' = [transfer EXCEPT !.paused = FALSE] /\ edFile' = edFile
      BY <1>2, <2>5 DEF EdStart
    <3>2. /\ transfer' \in [of : EdTasks \cup {NoTask}, paused : BOOLEAN, finished : BOOLEAN]
          /\ transfer'.of = transfer.of /\ transfer'.finished = transfer.finished
      BY <1>0, <3>1 DEF EdTypeOK
    <3>3. EdTypeOK' BY <1>0, <2>1, <2>3, <3>1, <3>2 DEF EdTypeOK
    <3>4. EdDoneHasFile' BY <2>3, <3>1 DEF EdInv, EdDoneHasFile
    <3> QED BY <2>1, <2>3, <2>5, <3>1, <3>2, <3>3, <3>4 DEF EdInv
  <2> QED BY <2>4, <2>5
<1>3. ASSUME NEW t \in EdTasks, EdPause(t) PROVE EdInv'
  <2>1. /\ transfer' \in [of : EdTasks \cup {NoTask}, paused : BOOLEAN, finished : BOOLEAN]
        /\ transfer'.of = transfer.of /\ transfer'.finished = transfer.finished
        /\ UNCHANGED <<hasClient, edTask, removal, edFile, edStarts>>
    BY <1>0, <1>3 DEF EdPause, EdTypeOK
  <2> QED BY <2>1 DEF EdInv, EdTypeOK, EdDoneHasFile
<1>4. ASSUME NEW t \in EdTasks, EdClose(t) PROVE EdInv'
  <2>1. /\ edTask' = [u \in EdTasks |-> [edTask[u] EXCEPT !.closed = @ \/ u = t,
                                                         !.alone = @ /\ transfer.of = NoTask]]
        /\ transfer' = NoTransfer /\ UNCHANGED <<hasClient, edFile, edStarts>>
        /\ removal' \subseteq EdTasks
    BY <1>0, <1>4 DEF EdClose, EdTypeOK, EdWaiters
  <2>2. \A u \in EdTasks : ~(edTask[u].alone /\ transfer.of = NoTask) BY EdAssumption DEF EdInv
  <2>3. /\ edTask' \in [EdTasks -> [started : BOOLEAN, closed : BOOLEAN, alone : BOOLEAN,
                                    wait : {"off", "on", "returned"}]]
        /\ \A u \in EdTasks : ~edTask'[u].alone
    <3>1. ASSUME NEW u \in EdTasks
          PROVE  /\ edTask'[u] \in [started : BOOLEAN, closed : BOOLEAN, alone : BOOLEAN,
                                    wait : {"off", "on", "returned"}]
                 /\ ~edTask'[u].alone
      <4> DEFINE alone == edTask[u].alone /\ transfer.of = NoTask
                 shut == edTask[u].closed \/ u = t
      <4>1. alone = FALSE BY <2>2, <3>1
      <4>2. edTask'[u] = [edTask[u] EXCEPT !.closed = shut, !.alone = alone]
        BY <1>0, <2>1, <3>1 DEF EdTypeOK
      <4>3. shut \in BOOLEAN BY <1>0, <3>1 DEF EdTypeOK
      <4> HIDE DEF alone, shut
      <4> QED BY <1>0, <3>1, <4>1, <4>2, <4>3 DEF EdTypeOK
    <3>2. edTask' = [u \in EdTasks |-> edTask'[u]] BY <2>1
    <3> QED BY <3>1, <3>2
  <2>4. EdTypeOK' BY <1>0, <2>1, <2>3 DEF EdTypeOK, NoTransfer
  <2> QED BY <2>1, <2>3, <2>4 DEF EdInv, EdDoneHasFile, NoTransfer
<1>5. ASSUME NEW t \in EdTasks, EdWait(t) PROVE EdInv'
  <2> DEFINE wait == IF transfer.of # NoTask /\ transfer.finished THEN "returned" ELSE "on"
  <2>1. edTask' = [edTask EXCEPT ![t].wait = wait] /\ hasClient' = TRUE
        /\ UNCHANGED <<transfer, removal, edFile, edStarts>>
    BY <1>5 DEF EdWait
  <2>2. wait \in {"on", "returned"} OBVIOUS
  <2>3. wait = "returned" /\ edTask[t].alone => edFile[t] = "whole" BY DEF EdInv
  <2> HIDE DEF wait
  <2>4. EdTypeOK' BY <1>0, <2>1, <2>2 DEF EdTypeOK
  <2>5. /\ \A u \in EdTasks : edTask'[u].alone = edTask[u].alone
        /\ \A u \in EdTasks \ {t} : edTask'[u] = edTask[u]
        /\ edTask'[t].wait = wait
    BY <1>0, <2>1 DEF EdTypeOK
  <2>6. EdDoneHasFile' BY <2>1, <2>3, <2>5 DEF EdInv, EdDoneHasFile
  <2> QED BY <2>1, <2>4, <2>5, <2>6 DEF EdInv
<1>6. ASSUME NEW t \in EdTasks, EdWaitCancelled(t) PROVE EdInv'
  BY <1>6, EdReturnsStep DEF EdWaitCancelled
<1>7. ASSUME NEW t \in EdTasks, EdEvent(t) PROVE EdInv'
  <2>1. edTask[t].alone => edFile[t] = "whole" BY <1>7 DEF EdInv, EdEvent
  <2> QED BY <1>7, <2>1, EdReturnsStep DEF EdEvent
<1>8. CASE EdManagerClose
  <2>1. /\ edTask' \in [EdTasks -> [started : BOOLEAN, closed : BOOLEAN, alone : BOOLEAN,
                                    wait : {"off", "on", "returned"}]]
        /\ \A u \in EdTasks : ~edTask'[u].alone
    BY <1>0, <1>8 DEF EdManagerClose, EdTypeOK
  <2>2. EdTypeOK' BY <1>0, <1>8, <2>1 DEF EdManagerClose, EdTypeOK, NoTransfer
  <2> QED BY <1>8, <2>1, <2>2 DEF EdInv, EdDoneHasFile, EdManagerClose, NoTransfer
<1>9. CASE TransferFinishes
  <2>1. /\ transfer' \in [of : EdTasks \cup {NoTask}, paused : BOOLEAN, finished : BOOLEAN]
        /\ transfer'.of = transfer.of /\ transfer.of \in EdTasks
        /\ edFile' = [edFile EXCEPT ![transfer.of] = "whole"]
        /\ UNCHANGED <<hasClient, edTask, removal, edStarts>>
    BY <1>0, <1>9 DEF TransferFinishes, EdTypeOK
  <2>2. /\ edFile' \in [EdTasks -> {"none", "part", "whole"}]
        /\ edFile'[transfer.of] = "whole"
        /\ \A u \in EdTasks : edFile[u] = "whole" => edFile'[u] = "whole"
    BY <1>0, <2>1 DEF EdTypeOK
  <2>3. EdTypeOK' BY <1>0, <2>1, <2>2 DEF EdTypeOK
  <2> QED BY <2>1, <2>2, <2>3 DEF EdInv, EdDoneHasFile
<1> QED BY <1>1, <1>2, <1>3, <1>4, <1>5, <1>6, <1>7, <1>8, <1>9 DEF EdNext

\* No ED2K task is shown as done without its own file, while the transfer of the
\* link is the one that it added and nobody took it away, whatever the other
\* tasks of the link start, pause and close (Start, Close and Wait in fetcher.go).
THEOREM EdDoneTasksHaveFiles == EdSpec => []EdDoneHasFile
<1>1. EdInit => EdInv BY EdInvInit
<1>2. EdInv /\ [EdNext]_edVars => EdInv' BY EdInvStep
<1>3. EdInv => EdDoneHasFile BY DEF EdInv
<1> QED BY <1>1, <1>2, <1>3, PTL DEF EdSpec
=============================================================================
