------------------------ MODULE TaskLifecycleProofs ------------------------
(* Theorems about TaskLifecycle, for any number of goroutines and calls.    *)
EXTENDS TaskLifecycle, TLAPS

-----------------------------------------------------------------------------
\* Type correctness: first where the goroutines stand, then the other variables

DataOK ==
  /\ status \in Status
  /\ gen \in Nat
  /\ lock \in Starters \cup Pausers \cup {Watch, None}
  /\ member \in BOOLEAN /\ watched \in BOOLEAN
  /\ rec \in Status \cup {Absent}
  /\ fstate \in {"resolved", "active", "paused", "done", "error"}
  /\ live \in SUBSET Nat /\ ending \in SUBSET live
  /\ cur \in Nat
  /\ canc \in BOOLEAN
  /\ doneCh \in Result \cup {None}
  /\ lastStop \in Nat /\ orphaned \in BOOLEAN /\ crashes \in Nat

\* The type invariant, divided into what belongs to the goroutines and the rest.
LEMMA TypeParts == TypeOK <=> ThreadsOK /\ DataOK
BY DEF TypeOK, DataOK

\* The two halves again make the type invariant of the next state.
LEMMA TypeJoin == ThreadsOK' /\ DataOK' => TypeOK'
BY DEF TypeOK, DataOK

\* A generation of the control state is a number.
LEMMA GenerationType ==
  ASSUME TypeOK, NEW t \in Threads
  PROVE  th[t].gen \in Nat /\ th[t].snap \in Status \cup {Absent}
BY DEF TypeOK, ThreadsOK, Thread

\* A goroutine that moves to a place of its own code leaves the others where
\* they are (Goto, Begin and Clone are the only ways to move one).
LEMMA MoveType ==
  ASSUME ThreadsOK, NEW t \in Threads, NEW p, NEW g \in Nat, NEW c \in Status \cup {Absent},
         th' = [th EXCEPT ![t] = Goroutine(p, g, c)],
         t \in Starters => p \in StarterPC,
         t \in Pausers  => p \in PauserPC,
         t \in Tickers  => p \in TickPC,
         t \in Deleters => p \in DeletePC,
         t = Watch      => p \in WatchPC
  PROVE  ThreadsOK'
<1> DEFINE PC == StarterPC \cup PauserPC \cup WatchPC \cup TickPC \cup DeletePC
<1>1. p \in PC BY DEF Threads
<1>2. Goroutine(p, g, c) \in Thread BY <1>1 DEF Goroutine, Thread
<1>3. th' \in [Threads -> Thread] BY <1>2 DEF ThreadsOK
<1>4. /\ th'[t].pc = p
      /\ \A u \in Threads \ {t} : th'[u] = th[u]
  BY DEF ThreadsOK, Goroutine
<1> QED BY <1>3, <1>4 DEF ThreadsOK, Threads

\* Goto keeps the types of the goroutines.
LEMMA GotoType ==
  ASSUME TypeOK, NEW t \in Threads, NEW p, Goto(t, p),
         t \in Starters => p \in StarterPC,
         t \in Pausers  => p \in PauserPC,
         t \in Tickers  => p \in TickPC,
         t \in Deleters => p \in DeletePC,
         t = Watch      => p \in WatchPC
  PROVE  ThreadsOK'
<1>1. (IF p = "idle" THEN 0 ELSE th[t].gen) \in Nat BY GenerationType
<1> QED BY <1>1, MoveType, TypeParts DEF Goto

\* Begin, which starts an operation in a goroutine, keeps them.
LEMMA BeginType ==
  ASSUME TypeOK, NEW t \in Threads, NEW p, NEW g \in Nat, Begin(t, p, g),
         t \in Starters => p \in StarterPC,
         t \in Pausers  => p \in PauserPC,
         t \notin Tickers, t \notin Deleters, t # Watch
  PROVE  ThreadsOK'
BY MoveType, TypeParts DEF Begin

\* Clone, which copies the status for a write, keeps them.
LEMMA CloneType ==
  ASSUME TypeOK, NEW t \in Threads, NEW from, NEW p, Clone(t, from, p),
         t \in Starters => p \in StarterPC,
         t \in Pausers  => p \in PauserPC,
         t \in Tickers  => p \in TickPC,
         t \notin Deleters,
         t = Watch      => p \in WatchPC
  PROVE  ThreadsOK'
BY MoveType, GenerationType, TypeParts DEF Clone, TypeOK

\* Whether a watcher leaves is a Boolean.
LEMMA WatchLeavesType == WatchLeaves \in BOOLEAN
BY DEF WatchLeaves

\* doStart keeps the types of the goroutines.
LEMMA StarterThreads ==
  ASSUME TypeOK, NEW s \in Starters, StarterNext(s)
  PROVE  ThreadsOK'
<1> USE GotoType, BeginType, CloneType DEF Step, HandlerStep, HandlerExit, AfterError,
        StarterPC, PauserPC, WatchPC, TickPC, DeletePC
<1> s \in Threads /\ s \notin Pausers \cup Tickers \cup Deleters \cup {Watch}
  BY ThreadAssumption DEF Threads
<1>1. CASE Choose(s)             BY <1>1 DEF Choose
<1>2. CASE QueueWait(s)          BY <1>2 DEF QueueWait
<1>3. CASE DoStart(s)
  <2>1. gen + 1 \in Nat BY DEF TypeOK
  <2> QED BY <1>3, <2>1 DEF DoStart
<1>4. CASE GiveUp(s)             BY <1>4 DEF GiveUp
<1>5. CASE HandlerLock(s)        BY <1>5 DEF HandlerLock
<1>6. CASE HandlerPrepare(s)     BY <1>6 DEF HandlerPrepare
<1>7. CASE HandlerCheck(s)       BY <1>7 DEF HandlerCheck
<1>8. CASE FetcherLook(s)        BY <1>8 DEF FetcherLook
<1>17. CASE FetcherStart(s)      BY <1>17 DEF FetcherStart
<1>9. CASE HandlerClone(s)       BY <1>9 DEF HandlerClone
<1>10. CASE HandlerPut(s)        BY <1>10 DEF HandlerPut
<1>11. CASE SpawnWatch(s)
  <2>1. CASE watched BY <1>11, <2>1 DEF SpawnWatch
  <2>2. CASE ~watched
    <3> DEFINE pc == IF status = "done" THEN "exit" ELSE "waiting"
    <3>1. th' = [th EXCEPT ![s] = Idle, ![Watch] = Goroutine(pc, 0, Absent)]
      BY <1>11, <2>2 DEF SpawnWatch
    <3>2. pc \in WatchPC /\ "idle" \in StarterPC OBVIOUS
    <3>3. Goroutine(pc, 0, Absent) \in Thread /\ Idle \in Thread
      BY <3>2 DEF Goroutine, Idle, Thread
    <3>4. th \in [Threads -> Thread] BY TypeParts DEF ThreadsOK
    <3>5. /\ th' \in [Threads -> Thread]
          /\ th'[s].pc = "idle" /\ th'[Watch].pc = pc
          /\ \A u \in Threads \ {s, Watch} : th'[u] = th[u]
      BY <3>1, <3>3, <3>4 DEF Goroutine, Idle, Threads
    <3> HIDE DEF pc
    <3> QED BY <3>2, <3>5, TypeParts, ThreadAssumption DEF ThreadsOK, Threads
  <2> QED BY <2>1, <2>2
<1>12. CASE HandlerFailed(s)     BY <1>12 DEF HandlerFailed
<1>13. CASE ErrorMark(s)         BY <1>13 DEF ErrorMark
<1>14. CASE ErrorLook(s)         BY <1>14 DEF ErrorLook
<1>15. CASE ErrorClone(s)        BY <1>15 DEF ErrorClone
<1>16. CASE ErrorPut(s)          BY <1>16 DEF ErrorPut
<1> QED
  BY <1>1, <1>2, <1>3, <1>4, <1>5, <1>6, <1>7, <1>8, <1>9,
     <1>10, <1>11, <1>12, <1>13, <1>14, <1>15, <1>16, <1>17
  DEF StarterNext, ErrorNext

\* doStart keeps the types of the task and its records.
LEMMA StarterData ==
  ASSUME TypeOK, NEW s \in Starters, StarterNext(s)
  PROVE  DataOK'
<1> USE TypeParts, WatchLeavesType DEF DataOK, Status, Absent, NewStatus, Put, Fails, Step, At,
        HandlerStep, HandlerExit, Clone, taskVars, fetcherVars, history
<1> th[s].gen \in Nat /\ th[s].snap \in Status \cup {Absent}
  BY GenerationType DEF Threads
<1>1. CASE Choose(s)             BY <1>1 DEF Choose
<1>2. CASE QueueWait(s)          BY <1>2 DEF QueueWait
<1>3. CASE DoStart(s)            BY <1>3 DEF DoStart
<1>4. CASE GiveUp(s)             BY <1>4 DEF GiveUp
<1>5. CASE HandlerLock(s)        BY <1>5 DEF HandlerLock
<1>6. CASE HandlerPrepare(s)     BY <1>6 DEF HandlerPrepare
<1>7. CASE HandlerCheck(s)       BY <1>7 DEF HandlerCheck
<1>8. CASE FetcherLook(s)        BY <1>8 DEF FetcherLook
<1>17. CASE FetcherStart(s)
  <2>1. canc' \in BOOLEAN BY <1>17 DEF FetcherStart
  <2>2. live' \in SUBSET Nat /\ ending' \in SUBSET live' /\ cur' \in Nat
    BY <1>17 DEF FetcherStart
  <2>3. doneCh' \in Result \cup {None} BY <1>17 DEF FetcherStart
  <2>4. /\ UNCHANGED <<status, gen, member, watched, rec, history>>
        /\ fstate' \in {"resolved", "active", "paused", "done", "error"}
        /\ lock' \in {lock, None}
    BY <1>17 DEF FetcherStart
  <2> QED BY <2>1, <2>2, <2>3, <2>4
<1>9. CASE HandlerClone(s)       BY <1>9 DEF HandlerClone
<1>10. CASE HandlerPut(s)        BY <1>10 DEF HandlerPut
<1>11. CASE SpawnWatch(s)
  <2>1. orphaned' \in BOOLEAN BY <1>11 DEF SpawnWatch
  <2>2. watched' \in BOOLEAN  BY <1>11 DEF SpawnWatch
  <2> QED BY <1>11, <2>1, <2>2 DEF SpawnWatch
<1>12. CASE HandlerFailed(s)     BY <1>12 DEF HandlerFailed
<1>13. CASE ErrorMark(s)         BY <1>13 DEF ErrorMark
<1>14. CASE ErrorLook(s)         BY <1>14 DEF ErrorLook
<1>15. CASE ErrorClone(s)        BY <1>15 DEF ErrorClone
<1>16. CASE ErrorPut(s)          BY <1>16 DEF ErrorPut
<1> QED
  BY <1>1, <1>2, <1>3, <1>4, <1>5, <1>6, <1>7, <1>8, <1>9,
     <1>10, <1>11, <1>12, <1>13, <1>14, <1>15, <1>16, <1>17
  DEF StarterNext, ErrorNext

\* doPause keeps the types of the goroutines.
LEMMA PauserThreads ==
  ASSUME TypeOK, NEW p \in Pausers, PauserNext(p)
  PROVE  ThreadsOK'
<1> USE GotoType, BeginType, CloneType DEF Step, HandlerStep, HandlerExit, AfterError,
        StarterPC, PauserPC, WatchPC, TickPC, DeletePC
<1> p \in Threads /\ p \notin Starters \cup Tickers \cup Deleters \cup {Watch}
  BY ThreadAssumption DEF Threads
<1>1. CASE PreparePause(p)
  <2>1. gen + 1 \in Nat BY DEF TypeOK
  <2> QED BY <1>1, <2>1 DEF PreparePause
<1>2. CASE PauseLock(p)          BY <1>2 DEF PauseLock
<1>3. CASE PauseStop(p)          BY <1>3 DEF PauseStop
<1>4. CASE PauseClone(p)         BY <1>4 DEF PauseClone
<1>5. CASE PausePut(p)           BY <1>5 DEF PausePut
<1>6. CASE PauseQueue(p)         BY <1>6 DEF PauseQueue
<1> QED BY <1>1, <1>2, <1>3, <1>4, <1>5, <1>6 DEF PauserNext

\* doPause keeps the types of the task and its records.
LEMMA PauserData ==
  ASSUME TypeOK, NEW p \in Pausers, PauserNext(p)
  PROVE  DataOK'
<1> USE TypeParts DEF DataOK, Status, Absent, NewStatus, Put, Fails, Step, At,
        HandlerStep, HandlerExit, Clone, taskVars, fetcherVars, history
<1> th[p].gen \in Nat /\ th[p].snap \in Status \cup {Absent}
  BY GenerationType DEF Threads
<1>1. CASE PreparePause(p)       BY <1>1 DEF PreparePause
<1>2. CASE PauseLock(p)
  <2>1. canc' \in BOOLEAN BY <1>2 DEF PauseLock
  <2> QED BY <1>2, <2>1 DEF PauseLock
<1>3. CASE PauseStop(p)          BY <1>3 DEF PauseStop
<1>4. CASE PauseClone(p)         BY <1>4 DEF PauseClone
<1>5. CASE PausePut(p)           BY <1>5 DEF PausePut
<1>6. CASE PauseQueue(p)         BY <1>6 DEF PauseQueue
<1> QED BY <1>1, <1>2, <1>3, <1>4, <1>5, <1>6 DEF PauserNext

\* The watcher keeps the types of the goroutines.
LEMMA WatchThreads ==
  ASSUME TypeOK, WatchNext
  PROVE  ThreadsOK'
<1> USE GotoType, BeginType, CloneType DEF Step, HandlerStep, HandlerExit, AfterError,
        StarterPC, PauserPC, WatchPC, TickPC, DeletePC
<1> Watch \in Threads /\ Watch \notin Starters \cup Pausers \cup Tickers \cup Deleters
  BY ThreadAssumption DEF Threads
<1>1. CASE WatchTake             BY <1>1 DEF WatchTake
<1>2. CASE WatchError            BY <1>2 DEF WatchError
<1>3. CASE ErrorMark(Watch)      BY <1>3 DEF ErrorMark
<1>4. CASE ErrorLook(Watch)      BY <1>4 DEF ErrorLook
<1>5. CASE ErrorClone(Watch)     BY <1>5 DEF ErrorClone
<1>6. CASE ErrorPut(Watch)       BY <1>6 DEF ErrorPut
<1>7. CASE WatchErrorCheck       BY <1>7 DEF WatchErrorCheck
<1>8. CASE WatchOk               BY <1>8 DEF WatchOk
<1>9. CASE MarkDone              BY <1>9 DEF MarkDone
<1>10. CASE DoneClone            BY <1>10 DEF DoneClone
<1>11. CASE DonePut              BY <1>11 DEF DonePut
<1>12. CASE WatchExit            BY <1>12 DEF WatchExit
<1> QED
  BY <1>1, <1>2, <1>3, <1>4, <1>5, <1>6, <1>7,
     <1>8, <1>9, <1>10, <1>11, <1>12
  DEF WatchNext, ErrorNext

\* The watcher keeps the types of the task and its records.
LEMMA WatchData ==
  ASSUME TypeOK, WatchNext
  PROVE  DataOK'
<1> USE TypeParts DEF DataOK, Status, Absent, NewStatus, Put, Fails, Step, At,
        HandlerStep, HandlerExit, Clone, taskVars, fetcherVars, history
<1> th[Watch].snap \in Status \cup {Absent}
  BY GenerationType DEF Threads
<1>1. CASE WatchTake             BY <1>1 DEF WatchTake
<1>2. CASE WatchError            BY <1>2 DEF WatchError
<1>3. CASE ErrorMark(Watch)      BY <1>3 DEF ErrorMark
<1>4. CASE ErrorLook(Watch)      BY <1>4 DEF ErrorLook
<1>5. CASE ErrorClone(Watch)     BY <1>5 DEF ErrorClone
<1>6. CASE ErrorPut(Watch)       BY <1>6 DEF ErrorPut
<1>7. CASE WatchErrorCheck       BY <1>7 DEF WatchErrorCheck
<1>8. CASE WatchOk               BY <1>8 DEF WatchOk
<1>9. CASE MarkDone              BY <1>9 DEF MarkDone
<1>10. CASE DoneClone            BY <1>10 DEF DoneClone
<1>11. CASE DonePut              BY <1>11 DEF DonePut
<1>12. CASE WatchExit
  <2>1. watched' \in BOOLEAN BY <1>12 DEF WatchExit
  <2> QED BY <1>12, <2>1 DEF WatchExit
<1> QED
  BY <1>1, <1>2, <1>3, <1>4, <1>5, <1>6, <1>7,
     <1>8, <1>9, <1>10, <1>11, <1>12
  DEF WatchNext, ErrorNext

\* The tick goroutine keeps the types of the goroutines.
LEMMA TickThreads ==
  ASSUME TypeOK, NEW t \in Tickers, TickNext(t)
  PROVE  ThreadsOK'
<1> USE GotoType, BeginType, CloneType DEF Step, HandlerStep, HandlerExit, AfterError,
        StarterPC, PauserPC, WatchPC, TickPC, DeletePC
<1> t \in Threads /\ t \notin Starters \cup Pausers \cup Deleters \cup {Watch}
  BY ThreadAssumption DEF Threads
<1>1. CASE TickLook(t)           BY <1>1 DEF TickLook
<1>2. CASE TickClone(t)          BY <1>2 DEF TickClone
<1>3. CASE TickPut(t)            BY <1>3 DEF TickPut
<1> QED BY <1>1, <1>2, <1>3 DEF TickNext

\* The tick goroutine keeps the types of the task and its records.
LEMMA TickData ==
  ASSUME TypeOK, NEW t \in Tickers, TickNext(t)
  PROVE  DataOK'
<1> USE TypeParts DEF DataOK, Status, Absent, NewStatus, Put, Fails, Step, At,
        HandlerStep, HandlerExit, Clone, taskVars, fetcherVars, history
<1> th[t].gen \in Nat /\ th[t].snap \in Status \cup {Absent}
  BY GenerationType DEF Threads
<1>1. CASE TickLook(t)           BY <1>1 DEF TickLook
<1>2. CASE TickClone(t)          BY <1>2 DEF TickClone
<1>3. CASE TickPut(t)            BY <1>3 DEF TickPut
<1> QED BY <1>1, <1>2, <1>3 DEF TickNext

\* Delete keeps the types of the goroutines.
LEMMA DeleteThreads ==
  ASSUME TypeOK, NEW d \in Deleters, DeleteNext(d)
  PROVE  ThreadsOK'
<1> USE GotoType, BeginType, CloneType DEF Step, HandlerStep, HandlerExit, AfterError,
        StarterPC, PauserPC, WatchPC, TickPC, DeletePC
<1> d \in Threads /\ d \notin Starters \cup Pausers \cup Tickers \cup {Watch}
  BY ThreadAssumption DEF Threads
<1>1. CASE DeleteRemove(d)       BY <1>1 DEF DeleteRemove
<1>2. CASE DeleteErase(d)        BY <1>2 DEF DeleteErase
<1>3. CASE DeleteClose(d)        BY <1>3 DEF DeleteClose
<1>4. CASE DeleteRestore(d)      BY <1>4 DEF DeleteRestore
<1> QED BY <1>1, <1>2, <1>3, <1>4 DEF DeleteNext

\* Delete keeps the types of the task and its records.
LEMMA DeleteData ==
  ASSUME TypeOK, NEW d \in Deleters, DeleteNext(d)
  PROVE  DataOK'
<1> USE TypeParts, WatchLeavesType DEF DataOK, Status, Absent, NewStatus, Put, Fails, Step, At,
        HandlerStep, HandlerExit, Clone, taskVars, fetcherVars, history
<1> th[d].gen \in Nat /\ th[d].snap \in Status \cup {Absent}
  BY GenerationType DEF Threads
<1>1. CASE DeleteRemove(d)
  <2>1. member' \in BOOLEAN BY <1>1 DEF DeleteRemove
  <2> QED BY <1>1, <2>1 DEF DeleteRemove
<1>2. CASE DeleteErase(d)
  <2>1. canc' \in BOOLEAN BY <1>2 DEF DeleteErase
  <2> QED BY <1>2, <2>1 DEF DeleteErase
<1>3. CASE DeleteClose(d)        BY <1>3 DEF DeleteClose
<1>4. CASE DeleteRestore(d)      BY <1>4 DEF DeleteRestore
<1> QED BY <1>1, <1>2, <1>3, <1>4 DEF DeleteNext

\* The loop of the fetcher keeps the types.
LEMMA LoopType ==
  ASSUME TypeOK, NEW r \in live, LoopFinish(r) \/ LoopReport(r) \/ LoopCancelled(r)
  PROVE  TypeOK'
<1>1. ThreadsOK'
  BY TypeParts DEF ThreadsOK, LoopFinish, LoopReport, LoopCancelled
<1>2. DataOK'
  <2> USE TypeParts DEF DataOK, taskVars, fetcherVars, history
  <2>1. CASE LoopFinish(r) BY <2>1 DEF LoopFinish
  <2>2. CASE LoopReport(r)
    <3>1. PICK ok \in BOOLEAN :
            /\ fstate' = IF ok THEN "done" ELSE "error"
            /\ doneCh' = IF doneCh = None THEN [run |-> r, ok |-> ok] ELSE doneCh
      BY <2>2 DEF LoopReport
    <3>2. [run |-> r, ok |-> ok] \in Result BY DEF Result
    <3>3. UNCHANGED <<taskVars, th, cur, canc, history>> BY <2>2 DEF LoopReport
    <3>4. live' \in SUBSET Nat /\ ending' \in SUBSET live' BY <2>2 DEF LoopReport
    <3> QED BY <3>1, <3>2, <3>3, <3>4
  <2>3. CASE LoopCancelled(r) BY <2>3 DEF LoopCancelled
  <2> QED BY <2>1, <2>2, <2>3
<1> QED BY <1>1, <1>2, TypeJoin

\* A crash and the Setup after it keep the types.
LEMMA RestartType ==
  ASSUME TypeOK, Restart
  PROVE  TypeOK'
<1>1. ThreadsOK'
  BY ThreadAssumption DEF Restart, ThreadsOK, Thread, Threads, Idle, Absent, Status,
     StarterPC, PauserPC, WatchPC, TickPC, DeletePC
<1>2. status' \in Status /\ rec' \in Status \cup {Absent}
  BY DEF TypeOK, Restart, Status, Absent
<1>3. member' \in BOOLEAN /\ watched' \in BOOLEAN /\ canc' \in BOOLEAN /\ orphaned' \in BOOLEAN
  BY DEF Restart
<1>4. DataOK' BY <1>2, <1>3 DEF TypeOK, Restart, DataOK
<1> QED BY <1>1, <1>4, TypeJoin

\* So every step keeps them.
LEMMA TypeStep ==
  ASSUME TypeOK, [Next]_vars
  PROVE  TypeOK'
<1>1. CASE \E s \in Starters : StarterNext(s)
  BY <1>1, StarterThreads, StarterData, TypeJoin
<1>2. CASE \E p \in Pausers : PauserNext(p)
  BY <1>2, PauserThreads, PauserData, TypeJoin
<1>3. CASE \E t \in Tickers : TickNext(t)
  BY <1>3, TickThreads, TickData, TypeJoin
<1>4. CASE \E d \in Deleters : DeleteNext(d)
  BY <1>4, DeleteThreads, DeleteData, TypeJoin
<1>5. CASE WatchNext BY <1>5, WatchThreads, WatchData, TypeJoin
<1>6. CASE LoopNext  BY <1>6, LoopType DEF LoopNext
<1>7. CASE Restart   BY <1>7, RestartType
<1>8. CASE UNCHANGED vars
  BY <1>8 DEF TypeOK, ThreadsOK, vars, taskVars, fetcherVars, history
<1> QED BY <1>1, <1>2, <1>3, <1>4, <1>5, <1>6, <1>7, <1>8 DEF Next

\* The initial states have them.
LEMMA TypeInit == ASSUME Init PROVE TypeOK
<1>1. ThreadsOK
  BY ThreadAssumption DEF Init, ThreadsOK, Thread, Threads, Idle, Absent, Status,
     StarterPC, PauserPC, WatchPC, TickPC, DeletePC
<1> QED BY <1>1 DEF TypeOK, Init, Status, Absent

\* Every variable keeps its type, for any number of goroutines and generations
\* (the goroutines of downloader.go stand at places of their own code).
THEOREM TypeCorrect == Spec => []TypeOK
<1>1. Init => TypeOK BY TypeInit
<1>2. TypeOK /\ [Next]_vars => TypeOK' BY TypeStep
<1> QED BY <1>1, <1>2, PTL DEF Spec

-----------------------------------------------------------------------------
\* The inductive invariant.  Most steps move one goroutine that takes neither
\* task.lock nor a generation: they are quiet.

\* Goto moves one goroutine and leaves the others where they are.
LEMMA GotoMoves ==
  ASSUME TypeOK, NEW t \in Threads, NEW p, Goto(t, p)
  PROVE  /\ th'[t].pc = p
         /\ th'[t].gen = IF p = "idle" THEN 0 ELSE th[t].gen
         /\ \A u \in Threads \ {t} : th'[u] = th[u]
BY DEF TypeOK, ThreadsOK, Goto, Goroutine

\* Begin moves one goroutine and leaves the others where they are.
LEMMA BeginMoves ==
  ASSUME TypeOK, NEW t \in Threads, NEW p, NEW g, Begin(t, p, g)
  PROVE  /\ th'[t].pc = p
         /\ th'[t].gen = g
         /\ \A u \in Threads \ {t} : th'[u] = th[u]
BY DEF TypeOK, ThreadsOK, Begin, Goroutine

\* Clone, which copies the status for a write, moves one goroutine too.
LEMMA CloneMoves ==
  ASSUME TypeOK, NEW t \in Threads, NEW from, NEW p, Clone(t, from, p)
  PROVE  /\ th[t].pc = from
         /\ th'[t].pc = p
         /\ th'[t].gen = th[t].gen
         /\ \A u \in Threads \ {t} : th'[u] = th[u]
BY DEF TypeOK, ThreadsOK, Clone, Goroutine, At

\* A step that takes neither task.lock nor a generation, nor touches the fetcher
Quiet(t) ==
  /\ \A u \in Threads \ {t} : th'[u] = th[u]
  /\ th'[t].gen \in {th[t].gen, 0}
  /\ HoldsLock(t)' => HoldsLock(t) /\ lock' = lock
  /\ InFlight(t)' => InFlight(t) /\ th'[t].gen = th[t].gen
  /\ Admitted(t)' => Admitted(t)
  /\ lock' = lock \/ HoldsLock(t)
  /\ UNCHANGED <<gen, cur, lastStop, live, ending>>
  /\ status' = status \/ status' # "pause"
  /\ th[t].pc \in {"p_lock", "p_stop"} => th[t].gen # gen \/ status # "pause"

\* A quiet step keeps the invariant.
LEMMA QuietStep ==
  ASSUME TypeOK, IInv, NEW t \in Threads, Quiet(t)
  PROVE  IInv'
<1> \A u \in Threads : th[u].gen \in Nat BY GenerationType
<1> gen \in Nat /\ cur \in Nat /\ lastStop \in Nat BY DEF TypeOK
<1>1. \A u \in Threads \ {t} :
        /\ HoldsLock(u)' <=> HoldsLock(u)
        /\ InFlight(u)' <=> InFlight(u)
        /\ Admitted(u)' <=> Admitted(u)
        /\ th'[u].gen = th[u].gen
  <2> TAKE u \in Threads \ {t}
  <2> QED BY DEF Quiet, HoldsLock, InFlight, Admitted
<1>2. MutexInv'
  <2> SUFFICES ASSUME NEW u \in Threads, HoldsLock(u)' PROVE lock' = u BY DEF MutexInv
  <2>1. CASE u = t BY <2>1 DEF IInv, MutexInv, Quiet
  <2>2. CASE u # t
    <3>1. HoldsLock(u) /\ lock = u BY <2>2, <1>1 DEF IInv, MutexInv
    <3> QED BY <2>2, <3>1 DEF IInv, MutexInv, Quiet
  <2> QED BY <2>1, <2>2
<1>3. GenerationInv' BY <1>1 DEF IInv, GenerationInv, Quiet
<1>4. FreshInv'
  <2> SUFFICES ASSUME NEW u \in Threads, InFlight(u)'
               PROVE  /\ th'[u].gen # cur' /\ th'[u].gen # lastStop'
                      /\ \A v \in Threads \ {u} : InFlight(v)' => th'[v].gen # th'[u].gen
    BY DEF FreshInv
  <2>1. \A v \in Threads : InFlight(v)' => InFlight(v) /\ th'[v].gen = th[v].gen
    <3> TAKE v \in Threads
    <3> QED BY <1>1 DEF Quiet
  <2>2. InFlight(u) /\ th'[u].gen = th[u].gen BY <2>1
  <2>3. th[u].gen # cur /\ th[u].gen # lastStop
    BY <2>2 DEF IInv, FreshInv
  <2>4. ASSUME NEW v \in Threads \ {u}, InFlight(v)' PROVE th'[v].gen # th'[u].gen
    BY <2>1, <2>2, <2>4 DEF IInv, FreshInv
  <2> QED BY <2>2, <2>3, <2>4 DEF Quiet
<1>5. AdmittedInv'
  <2> SUFFICES ASSUME NEW u \in Threads, Admitted(u)'
               PROVE  th'[u].gen > cur' /\ th'[u].gen > lastStop'
    BY DEF AdmittedInv
  <2>1. CASE u = t BY <2>1 DEF IInv, AdmittedInv, Quiet, Admitted, InFlight
  <2>2. CASE u # t BY <2>2, <1>1 DEF IInv, AdmittedInv, Quiet
  <2> QED BY <2>1, <2>2
<1>6. StopInv' BY DEF IInv, StopInv, Stopped, Quiet
<1>7. PauseInv'
  <2> SUFFICES ASSUME status' = "pause", lastStop' # gen' PROVE PausePending'
    BY DEF PauseInv
  <2>1. PICK p \in Pausers : th[p].pc \in {"p_lock", "p_stop"} /\ th[p].gen = gen
    BY DEF IInv, PauseInv, PausePending, Quiet
  <2>2. p \in Threads \ {t} BY <2>1 DEF Quiet, Threads
  <2> QED BY <2>1, <2>2 DEF PausePending, Quiet
<1> QED BY <1>2, <1>3, <1>4, <1>5, <1>6, <1>7 DEF IInv

\* A step that takes a new generation: DoStart, PreparePause, ErrorMark, MarkDone
Bump(t) ==
  /\ gen' = gen + 1
  /\ \A u \in Threads \ {t} : th'[u] = th[u]
  /\ th'[t].gen \in {gen + 1, th[t].gen, 0}
  /\ InFlight(t)' => th'[t].gen = gen + 1
  /\ ~Admitted(t)'
  /\ HoldsLock(t)' => lock' = t
  /\ lock' = lock \/ lock = None
  /\ UNCHANGED <<cur, lastStop, live, ending>>
  /\ status' = "pause" => t \in Pausers /\ th'[t].pc = "p_lock" /\ th'[t].gen = gen + 1

\* A step with a new generation makes every admission stale, and keeps it.
LEMMA BumpStep ==
  ASSUME TypeOK, IInv, NEW t \in Threads, Bump(t)
  PROVE  IInv'
<1> \A u \in Threads : th[u].gen \in Nat BY GenerationType
<1> gen \in Nat /\ cur \in Nat /\ lastStop \in Nat BY DEF TypeOK
<1> None \notin Threads BY ThreadAssumption DEF Threads
<1>1. \A u \in Threads \ {t} :
        /\ HoldsLock(u)' <=> HoldsLock(u)
        /\ InFlight(u)' <=> InFlight(u)
        /\ Admitted(u)' <=> Admitted(u)
        /\ th'[u].gen = th[u].gen
  <2> TAKE u \in Threads \ {t}
  <2> QED BY DEF Bump, HoldsLock, InFlight, Admitted
<1>2. MutexInv'
  <2> SUFFICES ASSUME NEW u \in Threads, HoldsLock(u)' PROVE lock' = u BY DEF MutexInv
  <2>1. CASE u = t BY <2>1 DEF Bump
  <2>2. CASE u # t
    <3>1. lock = u BY <2>2, <1>1 DEF IInv, MutexInv
    <3> QED BY <3>1 DEF Bump
  <2> QED BY <2>1, <2>2
<1>3. GenerationInv' BY <1>1 DEF IInv, GenerationInv, Bump
<1>4. FreshInv'
  <2>1. \A u \in Threads : InFlight(u)' =>
          \/ u = t /\ th'[u].gen = gen + 1
          \/ u # t /\ InFlight(u) /\ th'[u].gen = th[u].gen
    <3> TAKE u \in Threads
    <3> QED BY <1>1 DEF Bump
  <2>2. \A u \in Threads : th[u].gen <= gen BY DEF IInv, GenerationInv
  <2> SUFFICES ASSUME NEW u \in Threads, InFlight(u)'
               PROVE  /\ th'[u].gen # cur' /\ th'[u].gen # lastStop'
                      /\ \A v \in Threads \ {u} : InFlight(v)' => th'[v].gen # th'[u].gen
    BY DEF FreshInv
  <2>3. th'[u].gen # cur /\ th'[u].gen # lastStop
    BY <2>1 DEF IInv, FreshInv, GenerationInv
  <2>4. ASSUME NEW v \in Threads \ {u}, InFlight(v)' PROVE th'[v].gen # th'[u].gen
    BY <2>1, <2>2, <2>4 DEF IInv, FreshInv
  <2> QED BY <2>3, <2>4 DEF Bump
<1>5. AdmittedInv'
  <2> SUFFICES ASSUME NEW u \in Threads, Admitted(u)'
               PROVE  th'[u].gen > cur' /\ th'[u].gen > lastStop'
    BY DEF AdmittedInv
  <2>1. u # t BY DEF Bump
  <2> QED BY <2>1, <1>1 DEF IInv, AdmittedInv, Bump
<1>6. StopInv' BY DEF IInv, StopInv, Stopped, Bump
<1>7. PauseInv' BY DEF PauseInv, PausePending, Bump
<1> QED BY <1>2, <1>3, <1>4, <1>5, <1>6, <1>7 DEF IInv

\* A handler takes task.lock and finds its generation current
Admission(t) ==
  /\ lock = None /\ lock' = t
  /\ \A u \in Threads \ {t} : th'[u] = th[u]
  /\ th[t].pc \in {"locking", "p_lock"} /\ th[t].gen = gen
  /\ th'[t].pc = IF th[t].pc = "locking" THEN "resolving" ELSE "p_stop"
  /\ th'[t].gen = th[t].gen
  /\ UNCHANGED <<status, gen, cur, lastStop, live, ending>>

\* A handler that is admitted under task.lock is the only one.
LEMMA AdmissionStep ==
  ASSUME TypeOK, IInv, NEW t \in Threads, Admission(t)
  PROVE  IInv'
<1> \A u \in Threads : th[u].gen \in Nat BY GenerationType
<1> gen \in Nat /\ cur \in Nat /\ lastStop \in Nat BY DEF TypeOK
<1> None \notin Threads BY ThreadAssumption DEF Threads
<1>1. \A u \in Threads \ {t} :
        /\ HoldsLock(u)' <=> HoldsLock(u)
        /\ InFlight(u)' <=> InFlight(u)
        /\ Admitted(u)' <=> Admitted(u)
        /\ th'[u].gen = th[u].gen
  <2> TAKE u \in Threads \ {t}
  <2> QED BY DEF Admission, HoldsLock, InFlight, Admitted
<1>2. InFlight(t) BY DEF Admission, InFlight
<1>3. MutexInv'
  <2> SUFFICES ASSUME NEW u \in Threads, HoldsLock(u)' PROVE lock' = u BY DEF MutexInv
  <2>1. CASE u # t
    <3>1. lock = u BY <2>1, <1>1 DEF IInv, MutexInv
    <3> QED BY <3>1 DEF Admission
  <2> QED BY <2>1 DEF Admission
<1>4. GenerationInv' BY <1>1 DEF IInv, GenerationInv, Admission
<1>5. FreshInv'
  <2>1. \A u \in Threads : InFlight(u)' => InFlight(u) /\ th'[u].gen = th[u].gen
    <3> TAKE u \in Threads
    <3> QED BY <1>1, <1>2 DEF Admission
  <2> SUFFICES ASSUME NEW u \in Threads, InFlight(u)'
               PROVE  /\ th'[u].gen # cur' /\ th'[u].gen # lastStop'
                      /\ \A v \in Threads \ {u} : InFlight(v)' => th'[v].gen # th'[u].gen
    BY DEF FreshInv
  <2>2. th'[u].gen # cur /\ th'[u].gen # lastStop BY <2>1 DEF IInv, FreshInv
  <2>3. ASSUME NEW v \in Threads \ {u}, InFlight(v)' PROVE th'[v].gen # th'[u].gen
    BY <2>1, <2>3 DEF IInv, FreshInv
  <2> QED BY <2>2, <2>3 DEF Admission
<1>6. AdmittedInv'
  <2> SUFFICES ASSUME NEW u \in Threads, Admitted(u)'
               PROVE  th'[u].gen > cur' /\ th'[u].gen > lastStop'
    BY DEF AdmittedInv
  <2>1. CASE u = t BY <2>1, <1>2 DEF IInv, FreshInv, GenerationInv, Admission
  <2>2. CASE u # t BY <2>2, <1>1 DEF IInv, AdmittedInv, Admission
  <2> QED BY <2>1, <2>2
<1>7. StopInv' BY DEF IInv, StopInv, Stopped, Admission
<1>8. PauseInv'
  <2> SUFFICES ASSUME status = "pause", PausePending PROVE PausePending'
    BY DEF IInv, PauseInv, Admission
  <2>1. PICK p \in Pausers : th[p].pc \in {"p_lock", "p_stop"} /\ th[p].gen = gen
    BY DEF PausePending
  <2>2. CASE p = t BY <2>1, <2>2 DEF PausePending, Admission
  <2>3. CASE p # t BY <2>1, <2>3 DEF PausePending, Admission, Threads
  <2> QED BY <2>2, <2>3
<1> QED BY <1>3, <1>4, <1>5, <1>6, <1>7, <1>8 DEF IInv

\* FetcherStart: an admitted start handler makes its run the current one
LEMMA LaunchStep ==
  ASSUME TypeOK, IInv, NEW s \in Starters, HandlerStep(s, "launching", "saving"),
         cur' = th[s].gen, UNCHANGED <<status, gen, lock, lastStop>>
  PROVE  IInv'
<1> s \in Threads BY DEF Threads
<1> \A u \in Threads : th[u].gen \in Nat BY GenerationType
<1> gen \in Nat /\ cur \in Nat /\ lastStop \in Nat BY DEF TypeOK
<1>1. /\ th[s].pc = "launching" /\ th'[s].pc = "saving" /\ th'[s].gen = th[s].gen
      /\ \A u \in Threads \ {s} : th'[u] = th[u]
  BY GotoMoves DEF HandlerStep, Step, At
<1>2. Admitted(s) /\ InFlight(s) /\ HoldsLock(s) BY <1>1 DEF Admitted, InFlight, HoldsLock
<1>3. ~Admitted(s)' /\ ~InFlight(s)' BY <1>1 DEF Admitted, InFlight
<1>4. \A u \in Threads \ {s} :
        /\ HoldsLock(u)' <=> HoldsLock(u)
        /\ InFlight(u)' <=> InFlight(u)
        /\ Admitted(u)' <=> Admitted(u)
        /\ th'[u].gen = th[u].gen
  <2> TAKE u \in Threads \ {s}
  <2> QED BY <1>1 DEF HoldsLock, InFlight, Admitted
<1>5. th[s].gen > lastStop BY <1>2 DEF IInv, AdmittedInv
<1>6. lock = s BY <1>2 DEF IInv, MutexInv
<1>7. MutexInv'
  <2> SUFFICES ASSUME NEW u \in Threads, HoldsLock(u)' PROVE lock' = u BY DEF MutexInv
  <2> QED BY <1>4, <1>6 DEF IInv, MutexInv
<1>8. GenerationInv' BY <1>1 DEF IInv, GenerationInv
<1>9. FreshInv'
  <2> SUFFICES ASSUME NEW u \in Threads, InFlight(u)'
               PROVE  /\ th'[u].gen # cur' /\ th'[u].gen # lastStop'
                      /\ \A v \in Threads \ {u} : InFlight(v)' => th'[v].gen # th'[u].gen
    BY DEF FreshInv
  <2>1. u # s /\ InFlight(u) /\ th'[u].gen = th[u].gen BY <1>3, <1>4
  <2>2. th[u].gen # th[s].gen /\ th[u].gen # lastStop
    BY <2>1, <1>2 DEF IInv, FreshInv
  <2>3. ASSUME NEW v \in Threads \ {u}, InFlight(v)' PROVE th'[v].gen # th'[u].gen
    <3>1. v # s /\ InFlight(v) /\ th'[v].gen = th[v].gen BY <1>3, <1>4, <2>3
    <3> QED BY <2>1, <3>1 DEF IInv, FreshInv
  <2> QED BY <2>1, <2>2, <2>3
<1>10. AdmittedInv'
  <2> SUFFICES ASSUME NEW u \in Threads, Admitted(u)' PROVE FALSE BY DEF AdmittedInv
  <2>1. u # s /\ HoldsLock(u) BY <1>3, <1>4 DEF Admitted, HoldsLock
  <2> QED BY <2>1, <1>6 DEF IInv, MutexInv
<1>11. StopInv' BY <1>5 DEF StopInv
<1>12. PauseInv'
  <2> SUFFICES ASSUME status = "pause", lastStop # gen PROVE PausePending'
    BY DEF PauseInv
  <2>1. PICK p \in Pausers : th[p].pc \in {"p_lock", "p_stop"} /\ th[p].gen = gen
    BY DEF IInv, PauseInv, PausePending
  <2>2. p \in Threads \ {s} BY <2>1, <1>1 DEF Threads
  <2> QED BY <2>1, <2>2, <1>1 DEF PausePending
<1> QED BY <1>7, <1>8, <1>9, <1>10, <1>11, <1>12 DEF IInv

\* PauseStop: the fetcher is stopped for an admitted pause
LEMMA StopStep ==
  ASSUME TypeOK, IInv, NEW p \in Pausers, PauseStop(p)
  PROVE  IInv'
<1> p \in Threads BY DEF Threads
<1> \A u \in Threads : th[u].gen \in Nat BY GenerationType
<1> gen \in Nat /\ cur \in Nat /\ lastStop \in Nat BY DEF TypeOK
<1>1. /\ th[p].pc = "p_stop" /\ th'[p].pc = "p_save" /\ th'[p].gen = th[p].gen
      /\ \A u \in Threads \ {p} : th'[u] = th[u]
  BY GotoMoves DEF PauseStop, Step, At
<1>2. Stopped /\ lastStop' = th[p].gen /\ UNCHANGED <<status, gen, lock, live, ending, cur>>
  BY DEF PauseStop, taskVars
<1>3. Admitted(p) /\ InFlight(p) /\ HoldsLock(p) BY <1>1 DEF Admitted, InFlight, HoldsLock
<1>4. ~Admitted(p)' /\ ~InFlight(p)' BY <1>1 DEF Admitted, InFlight
<1>5. \A u \in Threads \ {p} :
        /\ HoldsLock(u)' <=> HoldsLock(u)
        /\ InFlight(u)' <=> InFlight(u)
        /\ Admitted(u)' <=> Admitted(u)
        /\ th'[u].gen = th[u].gen
  <2> TAKE u \in Threads \ {p}
  <2> QED BY <1>1 DEF HoldsLock, InFlight, Admitted
<1>6. lock = p BY <1>3 DEF IInv, MutexInv
<1>7. MutexInv'
  <2> SUFFICES ASSUME NEW u \in Threads, HoldsLock(u)' PROVE lock' = u BY DEF MutexInv
  <2> QED BY <1>2, <1>5, <1>6 DEF IInv, MutexInv
<1>8. GenerationInv' BY <1>1, <1>2 DEF IInv, GenerationInv
<1>9. FreshInv'
  <2> SUFFICES ASSUME NEW u \in Threads, InFlight(u)'
               PROVE  /\ th'[u].gen # cur' /\ th'[u].gen # lastStop'
                      /\ \A v \in Threads \ {u} : InFlight(v)' => th'[v].gen # th'[u].gen
    BY DEF FreshInv
  <2>1. u # p /\ InFlight(u) /\ th'[u].gen = th[u].gen BY <1>4, <1>5
  <2>2. th[u].gen # th[p].gen /\ th[u].gen # cur
    BY <2>1, <1>3 DEF IInv, FreshInv
  <2>3. ASSUME NEW v \in Threads \ {u}, InFlight(v)' PROVE th'[v].gen # th'[u].gen
    <3>1. v # p /\ InFlight(v) /\ th'[v].gen = th[v].gen BY <1>4, <1>5, <2>3
    <3> QED BY <2>1, <3>1 DEF IInv, FreshInv
  <2> QED BY <1>2, <2>1, <2>2, <2>3
<1>10. AdmittedInv'
  <2> SUFFICES ASSUME NEW u \in Threads, Admitted(u)' PROVE FALSE BY DEF AdmittedInv
  <2>1. u # p /\ HoldsLock(u) BY <1>4, <1>5 DEF Admitted, HoldsLock
  <2> QED BY <2>1, <1>6 DEF IInv, MutexInv
<1>11. StopInv' BY <1>2 DEF StopInv, Stopped
<1>12. PauseInv'
  <2> SUFFICES ASSUME status = "pause", th[p].gen # gen PROVE PausePending'
    BY <1>2 DEF PauseInv
  <2>1. th[p].gen > lastStop /\ th[p].gen <= gen
    BY <1>3 DEF IInv, AdmittedInv, GenerationInv
  <2>2. PICK q \in Pausers : th[q].pc \in {"p_lock", "p_stop"} /\ th[q].gen = gen
    BY <2>1 DEF IInv, PauseInv, PausePending
  <2>3. q \in Threads \ {p} BY <2>2 DEF Threads
  <2> QED BY <2>2, <2>3, <1>1, <1>2 DEF PausePending
<1> QED BY <1>7, <1>8, <1>9, <1>10, <1>11, <1>12 DEF IInv

\* SpawnWatch: two goroutines move, neither of which has anything in flight
LEMMA SpawnStep ==
  ASSUME TypeOK, IInv, NEW s \in Starters, SpawnWatch(s), ~watched
  PROVE  IInv'
<1> s \in Threads /\ Watch \in Threads /\ s # Watch BY ThreadAssumption DEF Threads
<1> \A u \in Threads : th[u].gen \in Nat BY GenerationType
<1> gen \in Nat BY DEF TypeOK
<1>1. /\ th'[s].pc = "idle" /\ th'[s].gen = 0
      /\ th'[Watch].pc \in {"exit", "waiting"} /\ th'[Watch].gen = 0
      /\ \A u \in Threads \ {s, Watch} : th'[u] = th[u]
  BY DEF SpawnWatch, TypeOK, ThreadsOK, Goroutine, Idle
<1>2. UNCHANGED <<status, gen, lock, live, ending, cur, lastStop>>
  BY DEF SpawnWatch, fetcherVars
<1>3. \A u \in Threads :
        /\ HoldsLock(u)' => HoldsLock(u)
        /\ InFlight(u)' => InFlight(u) /\ th'[u].gen = th[u].gen
        /\ Admitted(u)' => Admitted(u) /\ th'[u].gen = th[u].gen
  <2> TAKE u \in Threads
  <2>1. CASE u \in {s, Watch} BY <1>1, <2>1 DEF HoldsLock, InFlight, Admitted
  <2>2. CASE u \notin {s, Watch} BY <1>1, <2>2 DEF HoldsLock, InFlight, Admitted
  <2> QED BY <2>1, <2>2
<1>4. MutexInv' BY <1>2, <1>3 DEF IInv, MutexInv
<1>5. GenerationInv' BY <1>1, <1>2 DEF IInv, GenerationInv
<1>6. FreshInv' BY <1>2, <1>3 DEF IInv, FreshInv
<1>7. AdmittedInv' BY <1>2, <1>3 DEF IInv, AdmittedInv
<1>8. StopInv' BY <1>2 DEF IInv, StopInv, Stopped
<1>9. PauseInv'
  <2> SUFFICES ASSUME status = "pause", lastStop # gen PROVE PausePending'
    BY <1>2 DEF PauseInv
  <2>1. PICK p \in Pausers : th[p].pc \in {"p_lock", "p_stop"} /\ th[p].gen = gen
    BY DEF IInv, PauseInv, PausePending
  <2>2. p \in Threads \ {s, Watch} BY ThreadAssumption DEF Threads
  <2> QED BY <2>1, <2>2, <1>1, <1>2 DEF PausePending
<1> QED BY <1>4, <1>5, <1>6, <1>7, <1>8, <1>9 DEF IInv

\* doStart keeps the invariant.
LEMMA StarterInv ==
  ASSUME TypeOK, IInv, NEW s \in Starters, StarterNext(s)
  PROVE  IInv'
<1> s \in Threads /\ s # Watch /\ None \notin Threads BY ThreadAssumption DEF Threads
<1> th[s].pc \in StarterPC BY DEF TypeOK, ThreadsOK
<1> USE DEF Quiet, HoldsLock, InFlight, Admitted, Step, At, StarterPC
<1>1. CASE Choose(s)
  <2>1. Quiet(s) BY <1>1, GotoMoves DEF Choose, taskVars, fetcherVars, history
  <2> QED BY <2>1, QuietStep
<1>2. CASE QueueWait(s)
  <2>1. Quiet(s) BY <1>2, GotoMoves DEF QueueWait, fetcherVars, history
  <2> QED BY <2>1, QuietStep
<1>3. CASE DoStart(s)
  <2>1. Bump(s) BY <1>3, BeginMoves DEF DoStart, NewStatus, Bump, fetcherVars, history
  <2> QED BY <2>1, BumpStep
<1>4. CASE GiveUp(s)
  <2>1. Quiet(s) BY <1>4, GotoMoves DEF GiveUp, taskVars, fetcherVars, history
  <2> QED BY <2>1, QuietStep
<1>5. CASE HandlerLock(s)
  <2>1. CASE IsRunningGeneration(s)
    <3>1. Admission(s)
      BY <1>5, <2>1, GotoMoves
      DEF HandlerLock, Admission, IsRunningGeneration, fetcherVars, history
    <3> QED BY <3>1, AdmissionStep
  <2>2. CASE ~IsRunningGeneration(s)
    <3>1. Quiet(s) BY <1>5, <2>2, GotoMoves DEF HandlerLock, fetcherVars, history
    <3> QED BY <3>1, QuietStep
  <2> QED BY <2>1, <2>2
<1>6. CASE HandlerPrepare(s)
  <2>1. Quiet(s) BY <1>6, GotoMoves DEF HandlerPrepare, HandlerStep, HandlerExit, fetcherVars, history
  <2> QED BY <2>1, QuietStep
<1>7. CASE HandlerCheck(s)
  <2>1. Quiet(s) BY <1>7, GotoMoves DEF HandlerCheck, HandlerStep, HandlerExit, fetcherVars, history
  <2> QED BY <2>1, QuietStep
<1>8. CASE FetcherLook(s)
  <2>1. Quiet(s) BY <1>8, GotoMoves DEF FetcherLook, HandlerStep, HandlerExit, fetcherVars, history
  <2> QED BY <2>1, QuietStep
<1>17. CASE FetcherStart(s)
  <2>1. CASE th'[s].pc = "failed" \/ fstate = "done"
    <3>1. Quiet(s) BY <1>17, <2>1, GotoMoves DEF FetcherStart, HandlerStep, HandlerExit, history
    <3> QED BY <3>1, QuietStep
  <2>2. CASE th'[s].pc # "failed" /\ fstate # "done"
    <3>1. HandlerStep(s, "launching", "saving")
      BY <1>17, <2>2, GotoMoves DEF FetcherStart, HandlerStep, HandlerExit
    <3>2. cur' = th[s].gen /\ UNCHANGED <<status, gen, lock, lastStop>>
      BY <1>17, <2>2, <3>1, GotoMoves DEF FetcherStart, HandlerExit, HandlerStep, history
    <3> QED BY <3>1, <3>2, LaunchStep
  <2> QED BY <2>1, <2>2
<1>9. CASE HandlerClone(s)
  <2>1. Quiet(s) BY <1>9, CloneMoves DEF HandlerClone, taskVars, fetcherVars, history
  <2> QED BY <2>1, QuietStep
<1>10. CASE HandlerPut(s)
  <2>1. Quiet(s) BY <1>10, GotoMoves DEF HandlerPut, HandlerStep, HandlerExit, fetcherVars, history
  <2> QED BY <2>1, QuietStep
<1>11. CASE SpawnWatch(s)
  <2>1. CASE watched
    <3>1. Quiet(s) BY <1>11, <2>1, GotoMoves DEF SpawnWatch, fetcherVars
    <3> QED BY <3>1, QuietStep
  <2>2. CASE ~watched BY <1>11, <2>2, SpawnStep
  <2> QED BY <2>1, <2>2
<1>12. CASE HandlerFailed(s)
  <2>1. Quiet(s) BY <1>12, GotoMoves DEF HandlerFailed, taskVars, fetcherVars, history
  <2> QED BY <2>1, QuietStep
<1>13. CASE ErrorMark(s)
  <2>1. CASE status = "running"
    <3>1. Bump(s)
      BY <1>13, <2>1, GotoMoves DEF ErrorMark, NewStatus, Bump, fetcherVars, history
    <3> QED BY <3>1, BumpStep
  <2>2. CASE status # "running"
    <3>1. Quiet(s) BY <1>13, <2>2, GotoMoves DEF ErrorMark, AfterError, fetcherVars, history
    <3> QED BY <3>1, QuietStep
  <2> QED BY <2>1, <2>2
<1>14. CASE ErrorLook(s)
  <2>1. Quiet(s) BY <1>14, GotoMoves DEF ErrorLook, AfterError, fetcherVars, history
  <2> QED BY <2>1, QuietStep
<1>15. CASE ErrorClone(s)
  <2>1. Quiet(s) BY <1>15, CloneMoves DEF ErrorClone, taskVars, fetcherVars, history
  <2> QED BY <2>1, QuietStep
<1>16. CASE ErrorPut(s)
  <2>1. Quiet(s) BY <1>16, GotoMoves DEF ErrorPut, AfterError, fetcherVars, history
  <2> QED BY <2>1, QuietStep
<1> QED
  BY <1>1, <1>2, <1>3, <1>4, <1>5, <1>6, <1>7, <1>8, <1>9,
     <1>10, <1>11, <1>12, <1>13, <1>14, <1>15, <1>16, <1>17
  DEF StarterNext, ErrorNext

\* doPause keeps the invariant.
LEMMA PauserInv ==
  ASSUME TypeOK, IInv, NEW p \in Pausers, PauserNext(p)
  PROVE  IInv'
<1> p \in Threads /\ p # Watch /\ None \notin Threads BY ThreadAssumption DEF Threads
<1> th[p].pc \in PauserPC BY DEF TypeOK, ThreadsOK
<1> USE DEF Quiet, HoldsLock, InFlight, Admitted, Step, At, PauserPC
<1>1. CASE PreparePause(p)
  <2>1. Bump(p) BY <1>1, BeginMoves DEF PreparePause, NewStatus, Bump, fetcherVars, history
  <2> QED BY <2>1, BumpStep
<1>2. CASE PauseLock(p)
  <2>1. CASE IsPausedGeneration(p)
    <3>1. Admission(p)
      BY <1>2, <2>1, GotoMoves DEF PauseLock, Admission, IsPausedGeneration, history
    <3> QED BY <3>1, AdmissionStep
  <2>2. CASE ~IsPausedGeneration(p)
    <3>1. Quiet(p) BY <1>2, <2>2, GotoMoves DEF PauseLock, IsPausedGeneration, history
    <3> QED BY <3>1, QuietStep
  <2> QED BY <2>1, <2>2
<1>3. CASE PauseStop(p) BY <1>3, StopStep
<1>4. CASE PauseClone(p)
  <2>1. Quiet(p) BY <1>4, CloneMoves DEF PauseClone, taskVars, fetcherVars, history
  <2> QED BY <2>1, QuietStep
<1>5. CASE PausePut(p)
  <2>1. Quiet(p) BY <1>5, GotoMoves DEF PausePut, fetcherVars, history
  <2> QED BY <2>1, QuietStep
<1>6. CASE PauseQueue(p)
  <2>1. Quiet(p) BY <1>6, GotoMoves DEF PauseQueue, fetcherVars, history
  <2> QED BY <2>1, QuietStep
<1> QED BY <1>1, <1>2, <1>3, <1>4, <1>5, <1>6 DEF PauserNext

\* The watcher keeps the invariant.
LEMMA WatchInv ==
  ASSUME TypeOK, IInv, WatchNext
  PROVE  IInv'
<1> Watch \in Threads /\ None \notin Threads BY ThreadAssumption DEF Threads
<1> th[Watch].pc \in WatchPC BY DEF TypeOK, ThreadsOK
<1> USE DEF Quiet, HoldsLock, InFlight, Admitted, Step, At, WatchPC
<1>1. CASE WatchTake
  <2>1. Quiet(Watch) BY <1>1, GotoMoves DEF WatchTake, taskVars, history
  <2> QED BY <2>1, QuietStep
<1>2. CASE WatchError
  <2>1. Quiet(Watch) BY <1>2, GotoMoves DEF WatchError, taskVars, fetcherVars, history
  <2> QED BY <2>1, QuietStep
<1>3. CASE ErrorMark(Watch)
  <2>1. CASE status = "running"
    <3>1. Bump(Watch)
      BY <1>3, <2>1, GotoMoves DEF ErrorMark, NewStatus, Bump, fetcherVars, history
    <3> QED BY <3>1, BumpStep
  <2>2. CASE status # "running"
    <3>1. Quiet(Watch) BY <1>3, <2>2, GotoMoves DEF ErrorMark, AfterError, fetcherVars, history
    <3> QED BY <3>1, QuietStep
  <2> QED BY <2>1, <2>2
<1>4. CASE ErrorLook(Watch)
  <2>1. Quiet(Watch) BY <1>4, GotoMoves DEF ErrorLook, AfterError, fetcherVars, history
  <2> QED BY <2>1, QuietStep
<1>5. CASE ErrorClone(Watch)
  <2>1. Quiet(Watch) BY <1>5, CloneMoves DEF ErrorClone, taskVars, fetcherVars, history
  <2> QED BY <2>1, QuietStep
<1>6. CASE ErrorPut(Watch)
  <2>1. Quiet(Watch) BY <1>6, GotoMoves DEF ErrorPut, AfterError, fetcherVars, history
  <2> QED BY <2>1, QuietStep
<1>7. CASE WatchErrorCheck
  <2>1. Quiet(Watch) BY <1>7, GotoMoves DEF WatchErrorCheck, taskVars, fetcherVars, history
  <2> QED BY <2>1, QuietStep
<1>8. CASE WatchOk
  <2>1. Quiet(Watch) BY <1>8, GotoMoves DEF WatchOk, taskVars, fetcherVars, history
  <2> QED BY <2>1, QuietStep
<1>9. CASE MarkDone
  <2>1. CASE status = "running"
    <3>1. Bump(Watch)
      BY <1>9, <2>1, GotoMoves DEF MarkDone, NewStatus, Bump, fetcherVars, history
    <3> QED BY <3>1, BumpStep
  <2>2. CASE status # "running"
    <3>1. Quiet(Watch) BY <1>9, <2>2, GotoMoves DEF MarkDone, fetcherVars, history
    <3> QED BY <3>1, QuietStep
  <2> QED BY <2>1, <2>2
<1>10. CASE DoneClone
  <2>1. Quiet(Watch) BY <1>10, CloneMoves DEF DoneClone, taskVars, fetcherVars, history
  <2> QED BY <2>1, QuietStep
<1>11. CASE DonePut
  <2>1. Quiet(Watch) BY <1>11, GotoMoves DEF DonePut, fetcherVars, history
  <2> QED BY <2>1, QuietStep
<1>12. CASE WatchExit
  <2>1. Quiet(Watch) BY <1>12, GotoMoves DEF WatchExit, fetcherVars, history
  <2> QED BY <2>1, QuietStep
<1> QED
  BY <1>1, <1>2, <1>3, <1>4, <1>5, <1>6, <1>7, <1>8, <1>9, <1>10, <1>11, <1>12
  DEF WatchNext, ErrorNext

\* The tick goroutine keeps the invariant.
LEMMA TickInv ==
  ASSUME TypeOK, IInv, NEW t \in Tickers, TickNext(t)
  PROVE  IInv'
<1> t \in Threads BY DEF Threads
<1> th[t].pc \in TickPC BY DEF TypeOK, ThreadsOK
<1> USE DEF Quiet, HoldsLock, InFlight, Admitted, Step, At, TickPC
<1>1. CASE TickLook(t)
  <2>1. Quiet(t) BY <1>1, GotoMoves DEF TickLook, taskVars, fetcherVars, history
  <2> QED BY <2>1, QuietStep
<1>2. CASE TickClone(t)
  <2>1. Quiet(t) BY <1>2, CloneMoves DEF TickClone, taskVars, fetcherVars, history
  <2> QED BY <2>1, QuietStep
<1>3. CASE TickPut(t)
  <2>1. Quiet(t) BY <1>3, GotoMoves DEF TickPut, fetcherVars, history
  <2> QED BY <2>1, QuietStep
<1> QED BY <1>1, <1>2, <1>3 DEF TickNext

\* Delete keeps the invariant.
LEMMA DeleteInv ==
  ASSUME TypeOK, IInv, NEW d \in Deleters, DeleteNext(d)
  PROVE  IInv'
<1> d \in Threads BY DEF Threads
<1> th[d].pc \in DeletePC BY DEF TypeOK, ThreadsOK
<1> USE DEF Quiet, HoldsLock, InFlight, Admitted, Step, At, DeletePC
<1>1. CASE DeleteRemove(d)
  <2>1. Quiet(d) BY <1>1, GotoMoves DEF DeleteRemove, fetcherVars, history
  <2> QED BY <2>1, QuietStep
<1>2. CASE DeleteErase(d)
  <2>1. Quiet(d) BY <1>2, GotoMoves DEF DeleteErase, history
  <2> QED BY <2>1, QuietStep
<1>3. CASE DeleteClose(d)
  <2>1. Quiet(d) BY <1>3, GotoMoves DEF DeleteClose, taskVars, history
  <2> QED BY <2>1, QuietStep
<1>4. CASE DeleteRestore(d)
  <2>1. Quiet(d) BY <1>4, GotoMoves DEF DeleteRestore, fetcherVars
  <2> QED BY <2>1, QuietStep
<1> QED BY <1>1, <1>2, <1>3, <1>4 DEF DeleteNext

\* The loop of the fetcher keeps the invariant.
LEMMA LoopInv ==
  ASSUME TypeOK, IInv, LoopNext
  PROVE  IInv'
<1>1. UNCHANGED <<status, gen, lock, th, cur, lastStop>>
  BY DEF LoopNext, LoopFinish, LoopReport, LoopCancelled, taskVars, history
<1>2. Stopped => Stopped'
  BY DEF TypeOK, Stopped, LoopNext, LoopFinish, LoopReport, LoopCancelled
<1> QED
  BY <1>1, <1>2 DEF IInv, MutexInv, GenerationInv, FreshInv, AdmittedInv, StopInv, PauseInv,
     HoldsLock, InFlight, Admitted, PausePending

\* A crash and the Setup after it keep the invariant.
LEMMA RestartInv ==
  ASSUME TypeOK, Restart
  PROVE  IInv'
<1>1. \A t \in Threads : th'[t].pc = "idle" /\ th'[t].gen = 0 BY DEF Restart, Idle
<1> QED
  BY <1>1 DEF Restart, IInv, MutexInv, GenerationInv, FreshInv, AdmittedInv, StopInv, PauseInv,
     HoldsLock, InFlight, Admitted, Stopped

\* So every step keeps it.
LEMMA InvStep ==
  ASSUME TypeOK, IInv, [Next]_vars
  PROVE  IInv'
<1>1. CASE Next
  BY <1>1, StarterInv, PauserInv, TickInv, DeleteInv, WatchInv, LoopInv, RestartInv DEF Next
<1>2. CASE UNCHANGED vars
  BY <1>2 DEF vars, taskVars, fetcherVars, history, IInv, MutexInv, GenerationInv, FreshInv,
     AdmittedInv, StopInv, PauseInv, HoldsLock, InFlight, Admitted, PausePending, Stopped
<1> QED BY <1>1, <1>2

\* The initial states satisfy it.
LEMMA InvInit == ASSUME Init PROVE IInv
<1>1. \A t \in Threads : th[t].pc = "idle" /\ th[t].gen = 0 BY DEF Init, Idle
<1> QED
  BY <1>1 DEF Init, IInv, MutexInv, GenerationInv, FreshInv, AdmittedInv, StopInv, PauseInv,
     HoldsLock, InFlight, Admitted, Stopped

\* Generations order the runs and the pauses of a task, and task.lock has one
\* owner, in every reachable state (statusMut, doStart, runPauseHandler).
THEOREM Invariant == Spec => [](TypeOK /\ IInv)
<1>1. Init => TypeOK /\ IInv BY TypeInit, InvInit
<1>2. TypeOK /\ IInv /\ [Next]_vars => TypeOK' /\ IInv' BY TypeStep, InvStep
<1> QED BY <1>1, <1>2, PTL DEF Spec

\* A paused task is physically stopped once the latest pause handler has reached
\* the fetcher, however many start and pause handlers race for task.lock
\* (runPauseHandler, doStart).
THEOREM PauseStops == Spec => []PausedMeansStopped
<1>1. TypeOK /\ IInv => PausedMeansStopped
  BY DEF TypeOK, IInv, PauseInv, StopInv, GenerationInv, PausedMeansStopped
<1> QED BY <1>1, Invariant, PTL

\* Whoever reaches Fetcher.Start has the generation of the task.
LEMMA LaunchesAreFresh ==
  ASSUME TypeOK, IInv, Next, cur' \notin {cur, 0}
  PROVE  cur' > cur /\ cur' > lastStop
<1>1. PICK s \in Starters : StarterNext(s)
  BY DEF Next, PauserNext, PreparePause, PauseLock, PauseStop, PauseClone, PausePut, PauseQueue,
     WatchNext, WatchTake, WatchError, WatchErrorCheck, WatchOk, MarkDone, DoneClone, DonePut,
     WatchExit, ErrorNext, ErrorMark, ErrorLook, ErrorClone, ErrorPut,
     TickNext, TickLook, TickClone, TickPut,
     DeleteNext, DeleteRemove, DeleteErase, DeleteClose, DeleteRestore,
     LoopNext, LoopFinish, LoopReport, LoopCancelled, Restart, fetcherVars
<1>2. FetcherStart(s)
  BY <1>1 DEF StarterNext, Choose, QueueWait, DoStart, GiveUp, HandlerLock, HandlerPrepare,
     HandlerCheck, FetcherLook, HandlerClone, HandlerPut, SpawnWatch, HandlerFailed,
     ErrorNext, ErrorMark, ErrorLook, ErrorClone, ErrorPut, fetcherVars
<1>3. s \in Threads /\ cur' = th[s].gen /\ th[s].pc = "launching"
  BY <1>2 DEF FetcherStart, HandlerStep, HandlerExit, Step, At, Threads
<1> QED BY <1>3 DEF IInv, AdmittedInv, Admitted

\* A start handler that was overtaken by a pause or by another start never
\* reaches Fetcher.Start (the generation checks of doStart's handler).
THEOREM StaleStarts == Spec => StaleStartNeverRuns
<1>1. TypeOK /\ IInv /\ [Next]_vars
        => [cur' \notin {cur, 0} => cur' > cur /\ cur' > lastStop]_vars
  BY LaunchesAreFresh
<1> QED BY <1>1, Invariant, PTL DEF Spec, StaleStartNeverRuns

-----------------------------------------------------------------------------
\* The inductive invariant behind RunningIsWatched: the watcher, while it is not
\* about to leave, or the start handler that has the generation of the task

WatchStays == th[Watch].pc \in WatchPC \ {"idle", "exit", "done_clone", "done_put"}

\* A start handler that marked the task failed has an older generation.
WatchedInv ==
  /\ watched <=> th[Watch].pc # "idle"
  /\ \A s \in Starters : th[s].pc \in {"err_save", "err_clone", "err_put"} => th[s].gen < gen
  /\ member /\ status = "running" =>
       WatchStays \/ orphaned \/ \E s \in Starters : Begun(s) /\ th[s].gen = gen

\* A step of a goroutine other than the watcher that does not start the task
Aside(t) ==
  /\ t # Watch
  /\ \A u \in Threads \ {t} : th'[u] = th[u]
  /\ UNCHANGED <<watched, orphaned>>
  /\ member' => member
  /\ gen' \in {gen, gen + 1}
  /\ status' = "running" => status = "running" /\ gen' = gen
  /\ t \in Starters =>
       /\ th'[t].pc \in {"err_save", "err_clone", "err_put"} => th'[t].gen < gen'
       /\ status' = "running" /\ Begun(t) /\ th[t].gen = gen => Begun(t)' /\ th'[t].gen = gen

\* Such a step leaves the one who will finish the task.
LEMMA AsideStep ==
  ASSUME TypeOK, WatchedInv, NEW t \in Threads, Aside(t)
  PROVE  WatchedInv'
<1> Watch \in Threads /\ Starters \subseteq Threads BY DEF Threads
<1> \A u \in Threads : th[u].gen \in Nat BY GenerationType
<1> gen \in Nat BY DEF TypeOK
<1>1. th'[Watch] = th[Watch] BY DEF Aside
<1>2. \A s \in Starters : th'[s].pc \in {"err_save", "err_clone", "err_put"} => th'[s].gen < gen'
  BY DEF Aside, WatchedInv
<1>3. ASSUME member', status' = "running"
      PROVE  WatchStays' \/ orphaned' \/ \E s \in Starters : Begun(s)' /\ th'[s].gen = gen'
  <2>1. member /\ status = "running" /\ gen' = gen BY <1>3 DEF Aside
  <2>2. CASE WatchStays \/ orphaned BY <2>2, <1>1 DEF Aside, WatchStays
  <2>3. CASE \E s \in Starters : Begun(s) /\ th[s].gen = gen
    <3>1. PICK s \in Starters : Begun(s) /\ th[s].gen = gen BY <2>3
    <3>2. Begun(s)' /\ th'[s].gen = gen' BY <1>3, <2>1, <3>1 DEF Aside, Begun
    <3> QED BY <3>2
  <2> QED BY <2>1, <2>2, <2>3 DEF WatchedInv
<1>4. watched' <=> th'[Watch].pc # "idle" BY <1>1 DEF WatchedInv, Aside
<1> QED BY <1>2, <1>3, <1>4 DEF WatchedInv

\* doStart keeps the one who will finish the task.
LEMMA StarterWatched ==
  ASSUME TypeOK, IInv, WatchedInv, NEW s \in Starters, StarterNext(s)
  PROVE  WatchedInv'
<1> s \in Threads /\ Watch \in Threads /\ s # Watch BY ThreadAssumption DEF Threads
<1> th[s].pc \in StarterPC BY DEF TypeOK, ThreadsOK
<1> th[s].gen \in Nat /\ gen \in Nat /\ th[s].gen <= gen
  BY GenerationType DEF TypeOK, IInv, GenerationInv
<1> USE DEF Aside, Begun, Step, At, StarterPC
<1>1. CASE Choose(s)
  <2>1. Aside(s) BY <1>1, GotoMoves DEF Choose, taskVars, history
  <2> QED BY <2>1, AsideStep
<1>2. CASE QueueWait(s)
  <2>1. Aside(s) BY <1>2, GotoMoves DEF QueueWait, history
  <2> QED BY <2>1, AsideStep
<1>3. CASE DoStart(s)
  <2>1. /\ th'[s].pc = "locking" /\ th'[s].gen = gen'
        /\ \A u \in Threads \ {s} : th'[u] = th[u]
        /\ gen' = gen + 1 /\ watched' = watched
    BY <1>3, BeginMoves DEF DoStart, NewStatus
  <2>2. \A u \in Starters : th'[u].pc \in {"err_save", "err_clone", "err_put"} => th'[u].gen < gen'
    <3> TAKE u \in Starters
    <3>1. CASE u = s BY <2>1, <3>1
    <3>2. CASE u # s
      <4>1. u \in Threads /\ th'[u] = th[u] /\ th[u].gen \in Nat BY <2>1, <3>2, GenerationType DEF Threads
      <4> QED BY <2>1, <4>1 DEF WatchedInv
    <3> QED BY <3>1, <3>2
  <2>3. Begun(s)' /\ th'[s].gen = gen' BY <2>1
  <2>4. watched' <=> th'[Watch].pc # "idle" BY <2>1 DEF WatchedInv
  <2> QED BY <2>2, <2>3, <2>4 DEF WatchedInv
<1>4. CASE GiveUp(s)
  <2>1. Aside(s) BY <1>4, GotoMoves DEF GiveUp, taskVars, history
  <2> QED BY <2>1, AsideStep
<1>5. CASE HandlerLock(s)
  <2>1. Aside(s) BY <1>5, GotoMoves DEF HandlerLock, IsRunningGeneration, history
  <2> QED BY <2>1, AsideStep
<1>6. CASE HandlerPrepare(s)
  <2>1. Aside(s)
    BY <1>6, GotoMoves DEF HandlerPrepare, HandlerStep, HandlerExit, IsRunningGeneration, history
  <2> QED BY <2>1, AsideStep
<1>7. CASE HandlerCheck(s)
  <2>1. Aside(s)
    BY <1>7, GotoMoves DEF HandlerCheck, HandlerStep, HandlerExit, IsRunningGeneration, history
  <2> QED BY <2>1, AsideStep
<1>8. CASE FetcherLook(s)
  <2>1. Aside(s) BY <1>8, GotoMoves DEF FetcherLook, HandlerStep, HandlerExit, history
  <2> QED BY <2>1, AsideStep
<1>9. CASE FetcherStart(s)
  <2>1. Aside(s) BY <1>9, GotoMoves DEF FetcherStart, HandlerStep, HandlerExit, history
  <2> QED BY <2>1, AsideStep
<1>10. CASE HandlerClone(s)
  <2>1. Aside(s) BY <1>10, CloneMoves DEF HandlerClone, taskVars, history
  <2> QED BY <2>1, AsideStep
<1>11. CASE HandlerPut(s)
  <2>1. Aside(s) BY <1>11, GotoMoves DEF HandlerPut, HandlerStep, HandlerExit, history
  <2> QED BY <2>1, AsideStep
<1>12. CASE SpawnWatch(s)
  <2>1. UNCHANGED <<status, gen, member>> BY <1>12 DEF SpawnWatch
  <2>2. CASE watched
    <3>1. th'[s].pc = "idle" /\ \A u \in Threads \ {s} : th'[u] = th[u]
      BY <1>12, <2>2, GotoMoves DEF SpawnWatch
    <3>2. watched' /\ orphaned' = WatchLeaves BY <1>12, <2>2 DEF SpawnWatch
    <3>3. th'[Watch] = th[Watch] /\ th[Watch].pc # "idle" BY <2>2, <3>1 DEF WatchedInv
    <3>4. orphaned' \/ WatchStays'
      BY <3>2, <3>3 DEF WatchLeaves, WatchStays, TypeOK, ThreadsOK
    <3>5. \A u \in Starters : th'[u].pc \in {"err_save", "err_clone", "err_put"} => th'[u].gen < gen'
      BY <2>1, <3>1 DEF WatchedInv, Threads
    <3> QED BY <3>2, <3>3, <3>4, <3>5 DEF WatchedInv
  <2>3. CASE ~watched
    <3>1. /\ th'[s].pc = "idle" /\ th'[Watch].pc = IF status = "done" THEN "exit" ELSE "waiting"
          /\ \A u \in Threads \ {s, Watch} : th'[u] = th[u]
          /\ watched'
      BY <1>12, <2>3 DEF SpawnWatch, TypeOK, ThreadsOK, Goroutine, Idle
    <3>2. status = "running" => WatchStays' BY <3>1 DEF WatchStays, WatchPC
    <3>3. \A u \in Starters : th'[u].pc \in {"err_save", "err_clone", "err_put"} => th'[u].gen < gen'
      BY <2>1, <3>1, ThreadAssumption DEF WatchedInv, Threads
    <3>4. th'[Watch].pc # "idle" BY <3>1
    <3> QED BY <2>1, <3>1, <3>2, <3>3, <3>4 DEF WatchedInv
  <2> QED BY <2>2, <2>3
<1>13. CASE HandlerFailed(s)
  <2>1. Aside(s)
    BY <1>13, GotoMoves DEF HandlerFailed, IsRunningGeneration, taskVars, history
  <2> QED BY <2>1, AsideStep
<1>14. CASE ErrorMark(s)
  <2>1. Aside(s)
    BY <1>14, GotoMoves DEF ErrorMark, NewStatus, AfterError, history
  <2> QED BY <2>1, AsideStep
<1>15. CASE ErrorLook(s)
  <2>1. Aside(s) BY <1>15, GotoMoves DEF ErrorLook, AfterError, history, WatchedInv
  <2> QED BY <2>1, AsideStep
<1>16. CASE ErrorClone(s)
  <2>1. Aside(s) BY <1>16, CloneMoves DEF ErrorClone, taskVars, history, WatchedInv
  <2> QED BY <2>1, AsideStep
<1>17. CASE ErrorPut(s)
  <2>1. Aside(s) BY <1>17, GotoMoves DEF ErrorPut, AfterError, history, WatchedInv
  <2> QED BY <2>1, AsideStep
<1> QED
  BY <1>1, <1>2, <1>3, <1>4, <1>5, <1>6, <1>7, <1>8, <1>9,
     <1>10, <1>11, <1>12, <1>13, <1>14, <1>15, <1>16, <1>17
  DEF StarterNext, ErrorNext

\* doPause leaves a task that is not running, and does nothing to one it finds
\* started again.
LEMMA PauserWatched ==
  ASSUME TypeOK, WatchedInv, NEW p \in Pausers, PauserNext(p)
  PROVE  WatchedInv'
<1> p \in Threads /\ p # Watch /\ p \notin Starters BY ThreadAssumption DEF Threads
<1> gen \in Nat BY DEF TypeOK
<1>1. \A u \in Threads \ {p} : th'[u] = th[u]
  BY GotoMoves, BeginMoves, CloneMoves
  DEF PauserNext, PreparePause, PauseLock, PauseStop, PauseClone, PausePut, PauseQueue, Step
<1>2. /\ UNCHANGED <<watched, orphaned, member>>
      /\ gen' \in {gen, gen + 1}
      /\ status' = "running" => status = "running" /\ gen' = gen
  BY DEF PauserNext, PreparePause, PauseLock, PauseStop, PauseClone, PausePut, PauseQueue, NewStatus,
         taskVars, history
<1>3. Aside(p) BY <1>1, <1>2 DEF Aside
<1> QED BY <1>3, AsideStep

\* The tick goroutine changes nothing but the record.
LEMMA TickWatched ==
  ASSUME TypeOK, WatchedInv, NEW t \in Tickers, TickNext(t)
  PROVE  WatchedInv'
<1> t \in Threads /\ t # Watch /\ t \notin Starters BY ThreadAssumption DEF Threads
<1> gen \in Nat BY DEF TypeOK
<1>1. \A u \in Threads \ {t} : th'[u] = th[u]
  BY GotoMoves, CloneMoves DEF TickNext, TickLook, TickClone, TickPut, Step
<1>2. UNCHANGED <<watched, orphaned, member, gen, status>>
  BY DEF TickNext, TickLook, TickClone, TickPut, taskVars, history
<1>3. Aside(t) BY <1>1, <1>2 DEF Aside
<1> QED BY <1>3, AsideStep

\* Delete: a task that is put back has its watcher, or is known to have none.
LEMMA DeleteWatched ==
  ASSUME TypeOK, WatchedInv, NEW d \in Deleters, DeleteNext(d)
  PROVE  WatchedInv'
<1> d \in Threads /\ d # Watch /\ d \notin Starters /\ Watch \in Threads BY ThreadAssumption DEF Threads
<1> gen \in Nat BY DEF TypeOK
<1>1. \A u \in Threads \ {d} : th'[u] = th[u]
  BY GotoMoves DEF DeleteNext, DeleteRemove, DeleteErase, DeleteClose, DeleteRestore, Step
<1>2. CASE DeleteRestore(d)
  <2>1. UNCHANGED <<watched, gen, status>> /\ orphaned' = (At(Watch, "idle") \/ WatchLeaves)
    BY <1>2 DEF DeleteRestore
  <2>2. th'[Watch] = th[Watch] BY <1>1
  <2>3. orphaned' \/ WatchStays'
    BY <2>1, <2>2 DEF WatchLeaves, WatchStays, At, TypeOK, ThreadsOK
  <2>4. \A u \in Starters : th'[u] = th[u] BY <1>1 DEF Threads
  <2> QED BY <2>1, <2>2, <2>3, <2>4 DEF WatchedInv
<1>3. CASE DeleteRemove(d) \/ DeleteErase(d) \/ DeleteClose(d)
  <2>1. UNCHANGED <<watched, orphaned, gen, status>> /\ (member' => member)
    BY <1>3 DEF DeleteRemove, DeleteErase, DeleteClose, taskVars, history
  <2>2. Aside(d) BY <1>1, <2>1 DEF Aside
  <2> QED BY <2>2, AsideStep
<1> QED BY <1>2, <1>3 DEF DeleteNext

\* The watcher leaves a task only when it is not running, or not in the list.
LEMMA WatchWatched ==
  ASSUME TypeOK, WatchedInv, WatchNext
  PROVE  WatchedInv'
<1> Watch \in Threads /\ Watch \notin Starters BY ThreadAssumption DEF Threads
<1> th[Watch].pc \in WatchPC BY DEF TypeOK, ThreadsOK
<1> gen \in Nat /\ \A u \in Threads : th[u].gen \in Nat BY GenerationType DEF TypeOK
<1>1. \A u \in Threads \ {Watch} : th'[u] = th[u]
  BY GotoMoves, CloneMoves
  DEF WatchNext, WatchTake, WatchError, ErrorNext, ErrorMark, ErrorLook, ErrorClone, ErrorPut,
      WatchErrorCheck, WatchOk, MarkDone, DoneClone, DonePut, WatchExit, Step
<1>2. /\ UNCHANGED <<member, orphaned>>
      /\ gen' \in {gen, gen + 1}
      /\ status' = "running" => status = "running" /\ gen' = gen
  BY DEF WatchNext, WatchTake, WatchError, ErrorNext, ErrorMark, ErrorLook, ErrorClone, ErrorPut,
         WatchErrorCheck, WatchOk, MarkDone, DoneClone, DonePut, WatchExit, NewStatus, taskVars, history
<1>3. watched' <=> th'[Watch].pc # "idle"
  <2>1. CASE WatchExit BY <2>1, GotoMoves DEF WatchExit, Step
  <2>2. CASE ~WatchExit
    <3>1. watched' = watched /\ th[Watch].pc # "idle"
      BY <2>2 DEF WatchNext, WatchTake, WatchError, ErrorNext, ErrorMark, ErrorLook, ErrorClone, ErrorPut,
           WatchErrorCheck, WatchOk, MarkDone, DoneClone, DonePut, taskVars, Step, Clone, At
    <3>2. th'[Watch].pc # "idle"
      BY <2>2, GotoMoves, CloneMoves
      DEF WatchNext, WatchTake, WatchError, ErrorNext, ErrorMark, ErrorLook, ErrorClone, ErrorPut,
          WatchErrorCheck, WatchOk, MarkDone, DoneClone, DonePut, Step, AfterError
    <3> QED BY <3>1, <3>2 DEF WatchedInv
  <2> QED BY <2>1, <2>2
<1>4. ASSUME member, status' = "running", WatchStays PROVE WatchStays'
  <2> USE <1>4, GotoMoves DEF Step, At, WatchStays, WatchPC, AfterError
  <2>1. CASE WatchTake           BY <2>1 DEF WatchTake
  <2>2. CASE WatchError          BY <2>2 DEF WatchError, taskVars
  <2>3. CASE ErrorMark(Watch)    BY <2>3 DEF ErrorMark, NewStatus
  <2>4. CASE ErrorLook(Watch)    BY <2>4 DEF ErrorLook
  <2>5. CASE ErrorClone(Watch)   BY <2>5, CloneMoves DEF ErrorClone
  <2>6. CASE ErrorPut(Watch)     BY <2>6 DEF ErrorPut
  <2>7. CASE WatchErrorCheck     BY <2>7 DEF WatchErrorCheck, taskVars
  <2>8. CASE WatchOk             BY <2>8 DEF WatchOk
  <2>9. CASE MarkDone            BY <2>9 DEF MarkDone, NewStatus
  <2>10. CASE DoneClone          BY <2>10, CloneMoves DEF DoneClone
  <2>11. CASE DonePut            BY <2>11 DEF DonePut
  <2>12. CASE WatchExit          BY <2>12 DEF WatchExit
  <2> QED
    BY <2>1, <2>2, <2>3, <2>4, <2>5, <2>6, <2>7, <2>8, <2>9, <2>10, <2>11, <2>12
    DEF WatchNext, ErrorNext
<1>5. \A u \in Starters : u \in Threads /\ th'[u] = th[u] BY <1>1 DEF Threads
<1>6. \A u \in Starters : th'[u].pc \in {"err_save", "err_clone", "err_put"} => th'[u].gen < gen'
  BY <1>2, <1>5 DEF WatchedInv
<1>7. ASSUME member', status' = "running"
      PROVE  WatchStays' \/ orphaned' \/ \E s \in Starters : Begun(s)' /\ th'[s].gen = gen'
  BY <1>2, <1>4, <1>5, <1>7 DEF WatchedInv, Begun
<1> QED BY <1>3, <1>6, <1>7 DEF WatchedInv

\* The loop of the fetcher, and a crash.
LEMMA RestWatched ==
  ASSUME TypeOK, WatchedInv, LoopNext \/ Restart \/ UNCHANGED vars
  PROVE  WatchedInv'
<1>1. CASE LoopNext \/ UNCHANGED vars
  <2>1. UNCHANGED <<th, watched, orphaned, member, gen, status>>
    BY <1>1 DEF LoopNext, LoopFinish, LoopReport, LoopCancelled, vars, taskVars, history
  <2> QED BY <2>1 DEF WatchedInv, WatchStays, Begun
<1>2. CASE Restart
  <2>1. \A t \in Threads : th'[t].pc = "idle" BY <1>2 DEF Restart, Idle
  <2>2. watched' = FALSE /\ status' # "running" BY <1>2 DEF Restart
  <2>3. th'[Watch].pc = "idle" /\ \A s \in Starters : th'[s].pc = "idle" BY <2>1 DEF Threads
  <2> QED BY <2>2, <2>3 DEF WatchedInv
<1> QED BY <1>1, <1>2

\* A running task has a handler on its way with the generation of the task, or a
\* watcher that stays, or is known to have lost it, in every reachable state.
THEOREM WatchedInvariant == Spec => []WatchedInv
<1>1. Init => WatchedInv
  <2> SUFFICES ASSUME Init PROVE WatchedInv OBVIOUS
  <2>1. \A t \in Threads : th[t].pc = "idle" BY DEF Init, Idle
  <2>2. th[Watch].pc = "idle" /\ \A s \in Starters : th[s].pc = "idle" BY <2>1 DEF Threads
  <2> QED BY <2>2 DEF Init, WatchedInv
<1>2. TypeOK /\ IInv /\ WatchedInv /\ [Next]_vars => WatchedInv'
  BY StarterWatched, PauserWatched, TickWatched, DeleteWatched, WatchWatched, RestWatched DEF Next
<1> QED BY <1>1, <1>2, Invariant, PTL DEF Spec

\* A running task is never forgotten: a handler is on its way, or someone watches
\* it, but for the two holes that the history variable records (doStart, watch).
THEOREM RunningWatched == Spec => []RunningIsWatched
<1>1. TypeOK /\ WatchedInv => RunningIsWatched
  <2>1. TypeOK /\ WatchedInv /\ WatchStays => watched BY DEF WatchedInv, WatchStays
  <2> QED BY <2>1 DEF WatchedInv, RunningIsWatched
<1> QED BY <1>1, WatchedInvariant, TypeCorrect, PTL

-----------------------------------------------------------------------------
\* The inductive invariant behind DoneRecordKept: while the task is done, whoever
\* is about to save it holds a copy that says so.  MarkDone takes task.lock, so
\* that no start, pause or error handler stands between its copy and its write.

Saves(t) == th[t].pc \in {"putting", "err_put", "p_put", "done_put"}
DoneInv  == status = "done" => \A t \in Threads : Saves(t) => th[t].snap = "done"

\* A step of one goroutine that does not end the download, and copies the status
\* that the task has if it copies one
KeepsDone(t) ==
  /\ \A u \in Threads \ {t} : th'[u] = th[u]
  /\ status' = "done" => status = "done"
  /\ status' = "done" /\ Saves(t)' => th'[t].snap = "done"

\* Such a step leaves the copies true.
LEMMA KeepsDoneStep ==
  ASSUME DoneInv, NEW t \in Threads, KeepsDone(t)
  PROVE  DoneInv'
BY DEF DoneInv, KeepsDone, Saves

\* A goroutine that goes where nothing is saved.
LEMMA GotoKeepsDone ==
  ASSUME TypeOK, NEW t \in Threads, NEW p, Goto(t, p),
         p \notin {"putting", "err_put", "p_put", "done_put"},
         status' = "done" => status = "done"
  PROVE  KeepsDone(t)
BY GotoMoves DEF KeepsDone, Saves

\* A goroutine that copies the status.
LEMMA CloneKeepsDone ==
  ASSUME TypeOK, NEW t \in Threads, NEW from, NEW p, Clone(t, from, p), status' = status
  PROVE  KeepsDone(t)
<1>1. th'[t].snap = status BY DEF Clone, Goroutine, TypeOK, ThreadsOK
<1> QED BY <1>1, CloneMoves DEF KeepsDone

\* handleOnError does not end the download.
LEMMA ErrorKeepsDone ==
  ASSUME TypeOK, NEW t \in Threads, ErrorNext(t)
  PROVE  KeepsDone(t)
<1> AfterError(t) \in {"err_check", "idle"} BY DEF AfterError
<1> USE GotoKeepsDone DEF Step
<1>1. CASE ErrorMark(t)  BY <1>1 DEF ErrorMark, NewStatus
<1>2. CASE ErrorLook(t)  BY <1>2 DEF ErrorLook
<1>3. CASE ErrorClone(t) BY <1>3, CloneKeepsDone DEF ErrorClone, taskVars
<1>4. CASE ErrorPut(t)   BY <1>4 DEF ErrorPut
<1> QED BY <1>1, <1>2, <1>3, <1>4 DEF ErrorNext

\* doStart does not end the download.
LEMMA StarterKeepsDone ==
  ASSUME TypeOK, DoneInv, NEW s \in Starters, StarterNext(s)
  PROVE  DoneInv'
<1> s \in Threads BY DEF Threads
<1> USE GotoKeepsDone DEF Step, HandlerStep, HandlerExit, taskVars
<1>1. CASE Choose(s)         BY <1>1, KeepsDoneStep DEF Choose
<1>2. CASE QueueWait(s)      BY <1>2, KeepsDoneStep DEF QueueWait
<1>3. CASE DoStart(s)
  <2>1. status' = "running" BY <1>3 DEF DoStart, NewStatus
  <2> QED BY <2>1 DEF DoneInv
<1>4. CASE GiveUp(s)         BY <1>4, KeepsDoneStep DEF GiveUp
<1>5. CASE HandlerLock(s)    BY <1>5, KeepsDoneStep DEF HandlerLock
<1>6. CASE HandlerPrepare(s) BY <1>6, KeepsDoneStep DEF HandlerPrepare
<1>7. CASE HandlerCheck(s)   BY <1>7, KeepsDoneStep DEF HandlerCheck
<1>8. CASE FetcherLook(s)    BY <1>8, KeepsDoneStep DEF FetcherLook
<1>9. CASE FetcherStart(s)   BY <1>9, KeepsDoneStep DEF FetcherStart
<1>10. CASE HandlerClone(s)  BY <1>10, KeepsDoneStep, CloneKeepsDone DEF HandlerClone
<1>11. CASE HandlerPut(s)    BY <1>11, KeepsDoneStep DEF HandlerPut
<1>12. CASE SpawnWatch(s)
  <2>1. status' = status BY <1>12 DEF SpawnWatch
  <2>2. CASE watched BY <1>12, <2>1, <2>2, KeepsDoneStep DEF SpawnWatch
  <2>3. CASE ~watched
    <3>1. \A u \in Threads : Saves(u)' => th'[u] = th[u]
      BY <1>12, <2>3 DEF SpawnWatch, TypeOK, ThreadsOK, Goroutine, Idle, Saves, Threads
    <3> QED BY <2>1, <3>1 DEF DoneInv, Saves
  <2> QED BY <2>2, <2>3
<1>13. CASE HandlerFailed(s) BY <1>13, KeepsDoneStep DEF HandlerFailed
<1>14. CASE ErrorNext(s)     BY <1>14, KeepsDoneStep, ErrorKeepsDone
<1> QED
  BY <1>1, <1>2, <1>3, <1>4, <1>5, <1>6, <1>7, <1>8, <1>9, <1>10, <1>11, <1>12, <1>13, <1>14
  DEF StarterNext

\* doPause does not end the download.
LEMMA PauserKeepsDone ==
  ASSUME TypeOK, DoneInv, NEW p \in Pausers, PauserNext(p)
  PROVE  DoneInv'
<1> p \in Threads BY DEF Threads
<1> USE GotoKeepsDone DEF Step, taskVars
<1>1. CASE PreparePause(p)
  <2>1. status' = "pause" BY <1>1 DEF PreparePause, NewStatus
  <2> QED BY <2>1 DEF DoneInv
<1>2. CASE PauseLock(p)  BY <1>2, KeepsDoneStep DEF PauseLock
<1>3. CASE PauseStop(p)  BY <1>3, KeepsDoneStep DEF PauseStop
<1>4. CASE PauseClone(p) BY <1>4, KeepsDoneStep, CloneKeepsDone DEF PauseClone
<1>5. CASE PausePut(p)   BY <1>5, KeepsDoneStep DEF PausePut
<1>6. CASE PauseQueue(p) BY <1>6, KeepsDoneStep DEF PauseQueue
<1> QED BY <1>1, <1>2, <1>3, <1>4, <1>5, <1>6 DEF PauserNext

\* The watcher ends the download under task.lock, when nobody is about to save
\* the task, and saves nothing but what it copied since.
LEMMA WatchKeepsDone ==
  ASSUME TypeOK, MutexInv, DoneInv, WatchNext
  PROVE  DoneInv'
<1> Watch \in Threads BY DEF Threads
<1> USE GotoKeepsDone DEF Step, taskVars
<1>1. CASE WatchTake         BY <1>1, KeepsDoneStep DEF WatchTake
<1>2. CASE WatchError        BY <1>2, KeepsDoneStep DEF WatchError
<1>3. CASE ErrorNext(Watch)  BY <1>3, KeepsDoneStep, ErrorKeepsDone
<1>4. CASE WatchErrorCheck   BY <1>4, KeepsDoneStep DEF WatchErrorCheck
<1>5. CASE WatchOk           BY <1>5, KeepsDoneStep DEF WatchOk
<1>6. CASE MarkDone
  <2>1. ASSUME NEW t \in Threads PROVE ~Saves(t)'
    <3>1. lock = None /\ ~HoldsLock(t)
      BY <1>6, ThreadAssumption DEF MarkDone, MutexInv, Threads
    <3>2. CASE t = Watch BY <1>6, <3>2, GotoMoves DEF MarkDone, Saves
    <3>3. CASE t # Watch
      <4>1. th'[t] = th[t] BY <1>6, <3>3, GotoMoves DEF MarkDone
      <4>2. th[t].pc # "done_put"
        BY <3>3 DEF TypeOK, ThreadsOK, Threads, StarterPC, PauserPC, TickPC, DeletePC
      <4> QED BY <3>1, <4>1, <4>2 DEF Saves, HoldsLock
    <3> QED BY <3>2, <3>3
  <2> QED BY <2>1 DEF DoneInv
<1>7. CASE DoneClone         BY <1>7, KeepsDoneStep, CloneKeepsDone DEF DoneClone
<1>8. CASE DonePut           BY <1>8, KeepsDoneStep DEF DonePut
<1>9. CASE WatchExit         BY <1>9, KeepsDoneStep DEF WatchExit
<1> QED
  BY <1>1, <1>2, <1>3, <1>4, <1>5, <1>6, <1>7, <1>8, <1>9 DEF WatchNext, ErrorNext

\* The tick goroutine, Delete, the loop of the fetcher, and a crash, after which
\* nobody is about to save anything.
LEMMA RestKeepsDone ==
  ASSUME TypeOK, DoneInv,
         \/ \E t \in Tickers : TickNext(t)
         \/ \E d \in Deleters : DeleteNext(d)
         \/ LoopNext \/ Restart \/ UNCHANGED vars
  PROVE  DoneInv'
<1> USE GotoKeepsDone DEF Step, taskVars
<1>1. ASSUME NEW t \in Tickers, TickNext(t) PROVE DoneInv'
  <2> t \in Threads BY DEF Threads
  <2>1. CASE TickLook(t)  BY <2>1, KeepsDoneStep DEF TickLook
  <2>2. CASE TickClone(t) BY <2>2, KeepsDoneStep, CloneKeepsDone DEF TickClone
  <2>3. CASE TickPut(t)   BY <2>3, KeepsDoneStep DEF TickPut
  <2> QED BY <1>1, <2>1, <2>2, <2>3 DEF TickNext
<1>2. ASSUME NEW d \in Deleters, DeleteNext(d) PROVE DoneInv'
  <2> d \in Threads BY DEF Threads
  <2>1. CASE DeleteRemove(d)  BY <2>1, KeepsDoneStep DEF DeleteRemove
  <2>2. CASE DeleteErase(d)   BY <2>2, KeepsDoneStep DEF DeleteErase
  <2>3. CASE DeleteClose(d)   BY <2>3, KeepsDoneStep DEF DeleteClose
  <2>4. CASE DeleteRestore(d) BY <2>4, KeepsDoneStep DEF DeleteRestore
  <2> QED BY <1>2, <2>1, <2>2, <2>3, <2>4 DEF DeleteNext
<1>3. CASE LoopNext \/ UNCHANGED vars
  <2>1. UNCHANGED <<th, status>>
    BY <1>3 DEF LoopNext, LoopFinish, LoopReport, LoopCancelled, vars
  <2> QED BY <2>1 DEF DoneInv, Saves
<1>4. CASE Restart
  <2>1. \A t \in Threads : th'[t].pc = "idle" BY <1>4 DEF Restart, Idle
  <2> QED BY <2>1 DEF DoneInv, Saves
<1> QED BY <1>1, <1>2, <1>3, <1>4

\* While the task is done, whoever saves it writes that it is, in every reachable
\* state, the tick goroutine and Delete apart (saveTask's clone and its callers).
THEOREM DoneInvariant == Spec => []DoneInv
<1>1. Init => DoneInv BY DEF Init, DoneInv
<1>2. TypeOK /\ IInv /\ DoneInv /\ [Next]_vars => DoneInv'
  BY StarterKeepsDone, PauserKeepsDone, WatchKeepsDone, RestKeepsDone DEF Next, IInv
<1> QED BY <1>1, <1>2, Invariant, PTL DEF Spec

\* Completion, once on disk, is taken away by nobody but the tick's unlocked
\* checkpoint and Delete: what start, pause and error handlers save says done too
\* (saveTask, markTaskDone, doDelete).
THEOREM DoneKept == Spec => DoneRecordKept
<1> DEFINE Exempt == \/ \E t \in Tickers : TickPut(t)
                     \/ \E d \in Deleters : DeleteErase(d) \/ DeleteRestore(d)
<1>1. ASSUME DoneInv, rec = "done", status = "done", Next, ~Exempt
      PROVE  rec' = "done"
  <2>1. ASSUME NEW t \in Threads, Saves(t), Put(t) PROVE rec' = "done"
    BY <1>1, <2>1 DEF DoneInv, Put
  <2>2. ASSUME NEW t \in Threads, ErrorNext(t) PROVE rec' = "done"
    BY <1>1, <2>1, <2>2
    DEF ErrorNext, ErrorMark, ErrorLook, ErrorClone, ErrorPut, Fails, taskVars, Step, At, Saves
  <2>3. ASSUME NEW s \in Starters, StarterNext(s) PROVE rec' = "done"
    <3> s \in Threads BY DEF Threads
    <3>1. CASE HandlerPut(s)
      BY <1>1, <2>1, <3>1 DEF HandlerPut, Fails, HandlerExit, Step, At, Saves
    <3>2. CASE HandlerPrepare(s)
      BY <1>1, <3>2 DEF HandlerPrepare
    <3>3. CASE ~HandlerPut(s) /\ ~HandlerPrepare(s) /\ ~ErrorNext(s)
      <4>1. rec' = rec
        BY <2>3, <3>3 DEF StarterNext, Choose, QueueWait, DoStart, GiveUp, HandlerLock, HandlerCheck,
             FetcherLook, FetcherStart, HandlerClone, SpawnWatch, HandlerFailed, taskVars
      <4> QED BY <1>1, <4>1
    <3> QED BY <2>2, <3>1, <3>2, <3>3
  <2>4. ASSUME NEW p \in Pausers, PauserNext(p) PROVE rec' = "done"
    <3> p \in Threads BY DEF Threads
    <3>1. CASE PausePut(p) BY <1>1, <2>1, <3>1 DEF PausePut, Fails, Step, At, Saves
    <3>2. CASE ~PausePut(p)
      BY <1>1, <2>4, <3>2
      DEF PauserNext, PreparePause, PauseLock, PauseStop, PauseClone, PauseQueue, taskVars
    <3> QED BY <3>1, <3>2
  <2>5. CASE WatchNext
    <3> Watch \in Threads BY DEF Threads
    <3>1. CASE DonePut BY <1>1, <2>1, <3>1 DEF DonePut, Fails, Step, At, Saves
    <3>2. CASE ErrorNext(Watch) BY <2>2, <3>2
    <3>3. CASE ~DonePut /\ ~ErrorNext(Watch)
      BY <1>1, <2>5, <3>3
      DEF WatchNext, ErrorNext, WatchTake, WatchError, WatchErrorCheck, WatchOk, MarkDone, DoneClone, WatchExit, taskVars
    <3> QED BY <3>1, <3>2, <3>3
  <2>6. ASSUME NEW t \in Tickers, TickNext(t) PROVE rec' = "done"
    BY <1>1, <2>6 DEF TickNext, TickLook, TickClone, taskVars
  <2>7. ASSUME NEW d \in Deleters, DeleteNext(d) PROVE rec' = "done"
    BY <1>1, <2>7 DEF DeleteNext, DeleteRemove, DeleteClose, taskVars
  <2>8. CASE LoopNext \/ Restart
    BY <1>1, <2>8 DEF LoopNext, LoopFinish, LoopReport, LoopCancelled, Restart, taskVars
  <2> QED BY <1>1, <2>3, <2>4, <2>5, <2>6, <2>7, <2>8 DEF Next
<1>2. DoneInv /\ [Next]_vars
        => [rec = "done" /\ status = "done" /\ rec' # "done" => Exempt]_vars
  BY <1>1
<1> QED BY <1>2, DoneInvariant, PTL DEF Spec, DoneRecordKept
=============================================================================
