----------------------------- MODULE TaskTargets -----------------------------
(***************************************************************************)
(* The first preparation of a task (prepareTask, decideDownloadDirForTask  *)
(* and CheckDuplicateAndRename, in the handler of doStart of               *)
(* pkg/download/downloader.go): where the file of a task goes, decided     *)
(* once, from the configuration and the files on disk of that moment,      *)
(* while checkDuplicateLock is held. All tasks want the same name; the     *)
(* name is the number of its suffix.                                       *)
(***************************************************************************)
EXTENDS Naturals, FiniteSets, FiniteSetsExt

CONSTANTS
    Targeting,       \* tasks of a fetcher manager with AutoRename
    Late,            \* those whose file appears when the download ends (HLS)
    Categorized,     \* those that a category matches and that do not skip it
    MaxSettings,     \* bound: changes of the white list
    MaxStartFaults,  \* bound: failed saves and failed starts
    MaxTargetCalls   \* bound: calls of Pause, and resets of a blob task

ASSUME TargetsAssumption ==
    /\ IsFiniteSet(Targeting) /\ Late \subseteq Targeting /\ Categorized \subseteq Targeting
    /\ {MaxSettings, MaxStartFaults, MaxTargetCalls} \subseteq Nat

VARIABLES
    ptTask,      \* the task, and the handler of its run
    ptLock,      \* who holds checkDuplicateLock
    ptFiles,     \* the files on disk: which tasks wrote into each
    ptAllowed,   \* the directories that the white list accepts
    ptSettings, ptFaults, ptCalls,
    ptExposed    \* tasks left without the file at their target, until they make it again
                 \* with no other task there

targetVars == <<ptTask, ptLock, ptFiles, ptAllowed, ptSettings, ptFaults, ptCalls, ptExposed>>
ptBounds == <<ptSettings, ptFaults, ptCalls>>

Dirs == {"base", "category"}
Names == 0..Cardinality(Targeting)
NoTarget == [dir |-> "none", name |-> 0]
Targets == [dir : Dirs, name : Names]
HasFile(target) == ptFiles[target] # {}
At(target) == {u \in Targeting : ptTask[u].target = target}

TargetsTypeOK ==
    /\ ptTask \in [Targeting -> [at : {"idle", "begun", "prepared", "ready", "running", "done", "gone"},
                                 wanted : BOOLEAN, target : Targets \cup {NoTarget}]]
    /\ ptLock \in SUBSET Targeting /\ Cardinality(ptLock) <= 1
    /\ ptFiles \in [Targets -> SUBSET Targeting]
    /\ ptAllowed \subseteq Dirs /\ ptExposed \subseteq Targeting

TargetsInit ==
    /\ ptTask = [t \in Targeting |-> [at |-> "idle", wanted |-> FALSE, target |-> NoTarget]]
    /\ ptLock = {} /\ ptFiles = [f \in Targets |-> {}]
    /\ ptAllowed \in {Dirs, {"base"}}
    /\ ptSettings = 0 /\ ptFaults = 0 /\ ptCalls = 0 /\ ptExposed = {}

Prepared(t) == ptTask[t].target # NoTarget    \* ~task.NeedsPreparation
Moves(t, at) == ptTask' = [ptTask EXCEPT ![t].at = at]
MayFailHere == ptFaults < MaxStartFaults /\ ptFaults' = ptFaults + 1
Calls == ptCalls < MaxTargetCalls /\ ptCalls' = ptCalls + 1

-----------------------------------------------------------------------------

\* doStart: the status, then the handler under task.lock.
HandlerBegins(t) ==
    /\ ptTask[t].at = "idle"
    /\ ptTask' = [ptTask EXCEPT ![t].at = "begun", ![t].wanted = TRUE]
    /\ UNCHANGED <<ptLock, ptFiles, ptAllowed, ptBounds, ptExposed>>

\* The category's directory where the white list accepts it, else the base.
DirOf(t) == IF t \in Categorized /\ "category" \in ptAllowed THEN "category" ELSE "base"

\* CheckDuplicateAndRename: the first name that no file has.
FreeName(dir) == Min({n \in Names : ~HasFile([dir |-> dir, name |-> n])})

\* mutant: checkDuplicateLock covers the choice of the name only
PrepareMutated(t) ==
    /\ ptTask[t].at = "begun" /\ ~Prepared(t) /\ ptLock = {} /\ DirOf(t) \in ptAllowed
    /\ ptTask' = [ptTask EXCEPT ![t].at = "prepared",
                                ![t].target = [dir |-> DirOf(t), name |-> FreeName(DirOf(t))]]
    /\ UNCHANGED <<ptLock, ptFaults, ptFiles, ptAllowed, ptSettings, ptCalls, ptExposed>>

\* prepareTask: a candidate is saved before it is published; a task that fails
\* here is prepared again by its next run.
Prepare(t) ==
    /\ ptTask[t].at = "begun" /\ ~Prepared(t) /\ ptLock = {}
    /\ \/ /\ DirOf(t) \in ptAllowed
          /\ ptTask' = [ptTask EXCEPT ![t].at = "prepared",
                                      ![t].target = [dir |-> DirOf(t), name |-> FreeName(DirOf(t))]]
          /\ ptLock' = {t} /\ UNCHANGED ptFaults
       \/ /\ DirOf(t) \notin ptAllowed
          /\ Moves(t, "idle") /\ UNCHANGED <<ptLock, ptFaults>>
       \/ MayFailHere /\ Moves(t, "idle") /\ UNCHANGED ptLock
    /\ UNCHANGED <<ptFiles, ptAllowed, ptSettings, ptCalls, ptExposed>>

\* A prepared task keeps its directory, which must pass the white list again.
KeepTarget(t) ==
    /\ ptTask[t].at = "begun" /\ Prepared(t)
    /\ Moves(t, IF ptTask[t].target.dir \in ptAllowed THEN "ready" ELSE "idle")
    /\ UNCHANGED <<ptLock, ptFiles, ptAllowed, ptBounds, ptExposed>>

\* A file of t is at its target again: a task that comes later finds it.
Sheltered(t) ==
    IF {u \in At(ptTask[t].target) : ptTask[u].at # "gone"} = {t} THEN ptExposed \ {t} ELSE ptExposed

\* The rest of the handler: a run that is no longer wanted goes without a start;
\* fetcher.Start makes the file, or fails before or after; the locks are released.
HandlerStarts(t) ==
    LET target == ptTask[t].target IN
    /\ ptTask[t].at \in {"prepared", "ready"}
    /\ ptLock' = ptLock \ {t}
    /\ \E makes \in {FALSE, ptTask[t].wanted /\ t \notin Late}, starts \in {FALSE, ptTask[t].wanted} :
         /\ starts => makes = (t \notin Late)
         /\ makes => ptTask[t].wanted
         /\ IF ptTask[t].wanted /\ ~starts THEN MayFailHere ELSE UNCHANGED ptFaults
         /\ ptFiles' = IF makes THEN [ptFiles EXCEPT ![target] = @ \cup {t}] ELSE ptFiles
         /\ ptExposed' = IF makes THEN Sheltered(t)
                         ELSE IF t \in ptFiles[target] THEN ptExposed ELSE ptExposed \cup {t}
         /\ Moves(t, IF starts THEN "running" ELSE "idle")
    /\ UNCHANGED <<ptAllowed, ptSettings, ptCalls>>

\* Pause changes the status at once; the handler that has the lock finds out.
PauseRun(t) ==
    /\ Calls
    /\ \/ /\ ptTask[t].at \in {"begun", "prepared", "ready"} /\ ptTask[t].wanted
          /\ ptTask' = [ptTask EXCEPT ![t].wanted = FALSE]
       \/ ptTask[t].at = "running" /\ Moves(t, "idle")
    /\ UNCHANGED <<ptLock, ptFiles, ptAllowed, ptSettings, ptFaults, ptExposed>>

\* A handler that begins its work for a run that is not wanted any more.
HandlerLeaves(t) ==
    /\ ptTask[t].at = "begun" /\ ~ptTask[t].wanted
    /\ Moves(t, "idle")
    /\ UNCHANGED <<ptLock, ptFiles, ptAllowed, ptBounds, ptExposed>>

\* The end of the download: HLS moves its merged file over whatever is there.
RunEnds(t) ==
    /\ ptTask[t].at = "running"
    /\ Moves(t, "done")
    /\ IF t \in Late
       THEN /\ ptFiles' = [ptFiles EXCEPT ![ptTask[t].target] = {t}]
            /\ ptExposed' = Sheltered(t) \cup (At(ptTask[t].target) \ {t})
       ELSE UNCHANGED <<ptFiles, ptExposed>>
    /\ UNCHANGED <<ptLock, ptAllowed, ptBounds>>

\* resetTaskFetcher: the file of the failed source goes, the name stays, and a
\* new run begins.
ResetSource(t) ==
    /\ ptTask[t].at = "running" /\ t \notin Late /\ Calls
    /\ ptTask' = [ptTask EXCEPT ![t].at = "begun", ![t].wanted = TRUE]
    /\ ptFiles' = [ptFiles EXCEPT ![ptTask[t].target] = {}]
    /\ ptExposed' = ptExposed \cup At(ptTask[t].target)
    /\ UNCHANGED <<ptLock, ptAllowed, ptSettings, ptFaults>>

\* Deletion of a task that is not in its handler, with its file or without.
DropTarget(t) ==
    /\ ptTask[t].at \in {"idle", "running", "done"}
    /\ ptTask' = [ptTask EXCEPT ![t].at = "gone"]
    /\ \/ UNCHANGED <<ptFiles, ptExposed>>
       \/ /\ Prepared(t)
          /\ ptFiles' = [ptFiles EXCEPT ![ptTask[t].target] = {}]
          /\ ptExposed' = ptExposed \cup At(ptTask[t].target)
    /\ UNCHANGED <<ptLock, ptAllowed, ptBounds>>

\* PutConfig
ChangeWhiteList ==
    /\ ptSettings < MaxSettings
    /\ ptSettings' = ptSettings + 1
    /\ ptAllowed' \in SUBSET Dirs
    /\ UNCHANGED <<ptTask, ptLock, ptFiles, ptFaults, ptCalls, ptExposed>>

TargetsNext ==
    \/ \E t \in Targeting :
          \/ HandlerBegins(t) \/ Prepare(t) \/ KeepTarget(t) \/ HandlerStarts(t) \/ HandlerLeaves(t)
          \/ PauseRun(t) \/ RunEnds(t) \/ ResetSource(t) \/ DropTarget(t)
    \/ ChangeWhiteList

TargetsSpec == TargetsInit /\ [][TargetsNext]_targetVars

-----------------------------------------------------------------------------
(* Properties *)

\* Two tasks that are there have two targets, unless one of them is without a file
\* at its own (it had none when checkDuplicateLock was released, or the file was
\* removed or replaced since) or made it again where the other already was: no
\* order of preparations, pauses, failures, deletions and settings leads there
\* while both files are on disk.
TargetsApart ==
    \A t, u \in Targeting \ ptExposed :
        /\ t # u /\ Prepared(t) /\ Prepared(u)
        /\ {ptTask[t].at, ptTask[u].at} \cap {"gone"} = {}
        => ptTask[t].target # ptTask[u].target
=============================================================================
