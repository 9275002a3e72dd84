----------------------------- MODULE TaskGroups -----------------------------
(***************************************************************************)
(* Batches of tasks, the groups they make, and deletion, of                *)
(* pkg/download/downloader.go: CreateDirectBatchWithResult creates a group *)
(* with a directory of its own and then its members one by one, from       *)
(* requests or from fetchers that Resolve cached; Delete takes tasks out   *)
(* of the list, removes their records and files one by one, and puts back  *)
(* those that fail; a group without members is cleaned up by whoever took  *)
(* the last one away, and by Setup after a crash.                          *)
(*                                                                         *)
(* A section under d.lock, one storage write and the work on one task's    *)
(* files are one action each. All batches ask for the same directory, so   *)
(* that its suffixes matter.                                               *)
(***************************************************************************)
EXTENDS Naturals, Sequences, FiniteSets, SequencesExt

CONSTANTS
    Batches,           \* calls that create; the identity of a batch is that of its group
    Grouped,           \* those that make a group
    Members,           \* tasks
    BatchItems,        \* the members a batch creates, in order
    Rids,              \* resolved fetchers
    RidOf,             \* the fetcher of a member, NoRid where it comes from a request
    NoRid,
    GroupDeleters,     \* callers of Delete
    Filters,           \* the identities a call of Delete names: of tasks and groups
    MaxMishaps         \* bound: crashes, and failed storage and file operations

ASSUME GroupsAssumption ==
    /\ Grouped \subseteq Batches /\ IsFiniteSet(Batches)
    /\ BatchItems \in [Batches -> Seq(Members)]
    /\ \A b, c \in Batches : \A i \in 1..Len(BatchItems[b]), j \in 1..Len(BatchItems[c]) :
          BatchItems[b][i] = BatchItems[c][j] => b = c /\ i = j    \* an item makes a new task
    /\ RidOf \in [Members -> Rids \cup {NoRid}] /\ NoRid \notin Rids
    /\ Filters \subseteq SUBSET (Members \cup Grouped) /\ MaxMishaps \in Nat

VARIABLES
    tgTask,       \* by member: in d.tasks or not, its record, its file
    tgDeleting,   \* d.deletingTasks
    tgGroups, tgStoredGroups, tgCreating,   \* d.groups, their records, d.creatingGroups
    tgPath,       \* the directory of a group: the suffix of its name
    tgDirs,       \* directories that exist
    tgCache,      \* d.fetcherCache
    tgBatch, tgDelete,   \* the callers
    tgMishaps,
    tgOverlap,    \* groups a member of which was in two deletions at once
    tgStuck       \* groups whose cleanup failed

groupsOnly == <<tgGroups, tgStoredGroups, tgDirs>>
tgGhosts == <<tgOverlap, tgStuck>>
groupVars == <<tgTask, tgDeleting, groupsOnly, tgCreating, tgPath, tgCache, tgBatch, tgDelete,
               tgMishaps, tgGhosts>>

DirNames == 0..Cardinality(Batches)
BatchOf == [t \in Members |-> CHOOSE b \in Batches : Contains(BatchItems[b], t)]
MembersOf(g) == {t \in Members : BatchOf[t] = g}
HasParent(t) == BatchOf[t] \in Grouped
InDir(t, path) == HasParent(t) /\ tgPath[BatchOf[t]] = path

Listed == {t \in Members : tgTask[t].listed}
NoDeletion == [at |-> "idle", all |-> {}, todo |-> {}, now |-> {}, groups |-> {}, parents |-> {},
               force |-> FALSE, setup |-> FALSE]

GroupsTypeOK ==
    /\ tgTask \in [Members -> [listed : BOOLEAN, stored : BOOLEAN, file : BOOLEAN, made : BOOLEAN]]
    /\ tgDeleting \subseteq Members
    /\ tgGroups \subseteq Grouped /\ tgStoredGroups \subseteq Grouped /\ tgCreating \subseteq Grouped
    /\ tgPath \in [Batches -> DirNames] /\ tgDirs \subseteq DirNames
    /\ tgCache \subseteq Rids
    /\ \A b \in Batches : tgBatch[b].at \in {"idle", "item", "held", "putback", "cleanup", "gone"}
    /\ \A x \in GroupDeleters : tgDelete[x].at \in {"idle", "files", "restore", "next", "cleanup"}

GroupsInit ==
    /\ tgTask = [t \in Members |-> [listed |-> FALSE, stored |-> FALSE, file |-> FALSE, made |-> FALSE]]
    /\ tgDeleting = {} /\ tgGroups = {} /\ tgStoredGroups = {} /\ tgCreating = {}
    /\ tgPath = [b \in Batches |-> 0] /\ tgDirs = {}
    /\ tgCache = Rids
    /\ tgBatch = [b \in Batches |-> [at |-> "idle", item |-> 0]]
    /\ tgDelete = [x \in GroupDeleters |-> NoDeletion]
    /\ tgMishaps = 0 /\ tgOverlap = {} /\ tgStuck = {}

MayFail == tgMishaps < MaxMishaps /\ tgMishaps' = tgMishaps + 1
Working == \A x \in GroupDeleters : ~tgDelete[x].setup    \* Setup has returned

-----------------------------------------------------------------------------
(* Cleanup *)

\* mutant: a deletion under way, which may still fail, is no reason to keep a group
MayGoMutated(ids) ==
    {g \in (ids \cap tgGroups) \ tgCreating : \A t \in Listed : HasParent(t) => BatchOf[t] # g}

\* The groups cleanupTaskGroups takes: no member is listed or in a deletion, and
\* no batch is still creating.
MayGo(ids) ==
    {g \in (ids \cap tgGroups) \ tgCreating :
        \A t \in Listed \cup tgDeleting : HasParent(t) => BatchOf[t] # g}

\* Under d.lock: a forced deletion of the group removes its directory with all
\* that is in it, any other only what is empty; the record goes last. The work
\* on the groups of "failed" ends with an error, before or after the directory.
CleanUp(ids, forced) ==
    LET chosen == MayGo(ids)
        empty == {g \in chosen \ forced : \A t \in Members : InDir(t, tgPath[g]) => ~tgTask[t].file}
    IN
    \E failed \in SUBSET chosen :
      \E kept \in SUBSET (forced \cap failed) :
        LET emptied == {tgPath[g] : g \in (forced \cap chosen) \ kept} IN
        /\ IF failed = {} THEN UNCHANGED tgMishaps ELSE MayFail
        /\ tgGroups' = tgGroups \ (chosen \ failed)
        /\ tgStoredGroups' = tgStoredGroups \ (chosen \ failed)
        /\ tgDirs' = tgDirs \ (emptied \cup {tgPath[g] : g \in empty})
        /\ tgTask' = [t \in Members |->
                        IF HasParent(t) /\ tgPath[BatchOf[t]] \in emptied
                        THEN [tgTask[t] EXCEPT !.file = FALSE] ELSE tgTask[t]]
        /\ tgStuck' = tgStuck \cup failed

-----------------------------------------------------------------------------
(* Creation *)

BatchAt(b, at, item) == tgBatch' = [tgBatch EXCEPT ![b] = [at |-> at, item |-> item]]
NextItem(b) == BatchAt(b, "item", tgBatch[b].item + 1)
Current(b) == BatchItems[b][tgBatch[b].item]

\* mutant: the directories on disk decide alone
FirstFreeMutated == CHOOSE s \in DirNames : s \notin tgDirs /\ \A r \in 0..s - 1 : r \in tgDirs

\* createTaskGroup, under d.lock: the first name that no group has reserved and
\* no directory has; the directory goes again where the record cannot be written.
FirstFree == CHOOSE s \in DirNames :
    /\ s \notin tgDirs /\ \A g \in tgGroups : tgPath[g] # s
    /\ \A r \in 0..s - 1 : r \in tgDirs \/ \E g \in tgGroups : tgPath[g] = r

BatchBegins(b) ==
    /\ Working /\ tgBatch[b].at = "idle"
    /\ \/ /\ b \notin Grouped
          /\ BatchAt(b, "item", 1)
          /\ UNCHANGED <<groupsOnly, tgCreating, tgPath, tgMishaps>>
       \/ /\ b \in Grouped
          /\ tgPath' = [tgPath EXCEPT ![b] = FirstFree]
          /\ tgDirs' = tgDirs \cup {FirstFree}
          /\ tgStoredGroups' = tgStoredGroups \cup {b}
          /\ tgGroups' = tgGroups \cup {b} /\ tgCreating' = tgCreating \cup {b}
          /\ BatchAt(b, "item", 1)
          /\ UNCHANGED tgMishaps
       \/ /\ b \in Grouped /\ MayFail
          /\ BatchAt(b, "gone", 0)
          /\ UNCHANGED <<groupsOnly, tgCreating, tgPath>>
    /\ UNCHANGED <<tgTask, tgDeleting, tgCache, tgDelete, tgGhosts>>

\* createResolved: "Only one creator may use a resolved fetcher".
TakeRid(b) ==
    /\ RidOf[Current(b)] \in tgCache
    /\ tgCache' = tgCache \ {RidOf[Current(b)]}
    /\ BatchAt(b, "held", tgBatch[b].item)

\* One item of the batch; one that is invalid, or whose fetcher another creator
\* has, is a failure of its own.
BeginItem(b) ==
    /\ tgBatch[b].at = "item" /\ tgBatch[b].item <= Len(BatchItems[b])
    /\ \/ RidOf[Current(b)] # NoRid /\ TakeRid(b)
       \/ NextItem(b) /\ UNCHANGED tgCache
    /\ UNCHANGED <<tgTask, tgDeleting, groupsOnly, tgCreating, tgPath, tgDelete, tgMishaps,
                   tgGhosts>>

\* doCreate under d.lock: the group must still be there, the record is written
\* before the task is listed. What fails gives the fetcher back.
CreateMember(b) ==
    LET t == Current(b) IN
    /\ \/ tgBatch[b].at = "held"
       \/ tgBatch[b].at = "item" /\ tgBatch[b].item <= Len(BatchItems[b]) /\ RidOf[t] = NoRid
    /\ \/ /\ b \in Grouped => b \in tgGroups
          /\ tgTask' = [tgTask EXCEPT ![t].listed = TRUE, ![t].stored = TRUE, ![t].made = TRUE]
          /\ NextItem(b)
          /\ UNCHANGED tgMishaps
       \/ /\ RidOf[t] # NoRid    \* otherwise the next item, as where the item is invalid
          /\ \/ b \in Grouped /\ b \notin tgGroups /\ UNCHANGED tgMishaps
             \/ MayFail
          /\ BatchAt(b, "putback", tgBatch[b].item)
          /\ UNCHANGED tgTask
    /\ UNCHANGED <<tgDeleting, groupsOnly, tgCreating, tgPath, tgCache, tgDelete, tgGhosts>>

PutBackRid(b) ==
    /\ tgBatch[b].at = "putback"
    /\ tgCache' = tgCache \cup {RidOf[Current(b)]}
    /\ NextItem(b)
    /\ UNCHANGED <<tgTask, tgDeleting, groupsOnly, tgCreating, tgPath, tgDelete, tgMishaps,
                   tgGhosts>>

\* The end of the batch, in two sections under d.lock.
BatchEnds(b) ==
    /\ \/ /\ tgBatch[b].at = "item" /\ tgBatch[b].item > Len(BatchItems[b])
          /\ tgCreating' = tgCreating \ {b}
          /\ BatchAt(b, IF b \in Grouped THEN "cleanup" ELSE "gone", 0)
          /\ UNCHANGED <<groupsOnly, tgTask, tgMishaps, tgStuck>>
       \/ /\ tgBatch[b].at = "cleanup"
          /\ CleanUp({b}, {})
          /\ BatchAt(b, "gone", 0)
          /\ UNCHANGED tgCreating
    /\ UNCHANGED <<tgDeleting, tgPath, tgCache, tgDelete, tgOverlap>>

\* A listed task downloads into its directory, which its fetcher makes where it
\* is missing.
MemberWrites(t) ==
    /\ t \in Listed /\ ~tgTask[t].file
    /\ tgTask' = [tgTask EXCEPT ![t].file = TRUE]
    /\ tgDirs' = IF HasParent(t) THEN tgDirs \cup {tgPath[BatchOf[t]]} ELSE tgDirs
    /\ UNCHANGED <<tgDeleting, tgGroups, tgStoredGroups, tgCreating, tgPath, tgCache, tgBatch, tgDelete,
                   tgMishaps, tgGhosts>>

-----------------------------------------------------------------------------
(* Deletion *)

Deletes(x, change) == tgDelete' = [tgDelete EXCEPT ![x] = change]
Parents(tasks) == {BatchOf[t] : t \in {u \in tasks : HasParent(u)}}
Taken(tasks) == [t \in Members |->
                    IF t \in tasks THEN [tgTask[t] EXCEPT !.listed = FALSE] ELSE tgTask[t]]
Deletion(tasks, groups, force, setup) ==
    [at |-> "next", all |-> tasks, todo |-> tasks, now |-> {}, groups |-> groups,
     parents |-> groups \cup Parents(tasks), force |-> force, setup |-> setup]

\* The head of Delete under d.lock, for tasks, groups or both
\* (expandGroupTaskIDsLocked; no filter names them all): a group under creation refuses, the tasks leave
\* the list.
DeleteBegins(x) ==
    \E ids \in Filters, force \in BOOLEAN :
        LET groups == ids \cap tgGroups
            tasks == {t \in Listed : t \in ids \/ (HasParent(t) /\ BatchOf[t] \in ids)}
        IN
        /\ Working /\ tgDelete[x].at = "idle"
        /\ groups \cap tgCreating = {}
        /\ groups \cup tasks # {}
        /\ tgDeleting' = tgDeleting \cup tasks
        /\ tgOverlap' = tgOverlap \cup Parents(tasks \cap tgDeleting)
        /\ tgTask' = Taken(tasks)
        /\ Deletes(x, Deletion(tasks, groups, force, FALSE))
        /\ UNCHANGED <<groupsOnly, tgCreating, tgPath, tgCache, tgBatch, tgMishaps, tgStuck>>

NextOf(tasks) == CHOOSE t \in tasks : TRUE    \* the order of the list tells nothing apart

\* doDelete of the next task: its records first, then its files. An error puts
\* the task's record and the task back.
DeleteOne(x) ==
    LET d == tgDelete[x] IN
    /\ \/ /\ d.at = "next" /\ d.todo # {}
          /\ \E fails \in BOOLEAN :
               LET t == NextOf(d.todo) IN
               /\ IF fails THEN MayFail ELSE UNCHANGED tgMishaps
               /\ tgTask' = [tgTask EXCEPT ![t].stored = @ /\ fails]
               /\ Deletes(x, [d EXCEPT !.at = IF fails THEN "restore" ELSE "files",
                                       !.now = {t}, !.todo = @ \ {t}])
       \/ /\ d.at = "files" /\ MayFail
          /\ Deletes(x, [d EXCEPT !.at = "restore"])
          /\ UNCHANGED tgTask
       \/ /\ d.at = "files"
          /\ tgTask' = [t \in Members |-> IF t \in d.now /\ d.force THEN [tgTask[t] EXCEPT !.file = FALSE]
                                          ELSE tgTask[t]]
          /\ Deletes(x, [d EXCEPT !.at = "next", !.now = {}])
          /\ UNCHANGED tgMishaps
       \/ /\ d.at = "restore"
          /\ \E stored \in BOOLEAN :
               /\ IF stored THEN UNCHANGED tgMishaps ELSE MayFail
               /\ tgTask' = [t \in Members |->
                    IF t \in d.now THEN [tgTask[t] EXCEPT !.listed = TRUE, !.stored = @ \/ stored]
                    ELSE tgTask[t]]
          /\ Deletes(x, [d EXCEPT !.at = "next", !.now = {}])
    /\ UNCHANGED <<tgDeleting, groupsOnly, tgCreating, tgPath, tgCache, tgBatch, tgGhosts>>

\* mutant: the groups are looked at before the deletion is over
DeleteEndsMutated(x) ==
    LET d == tgDelete[x] IN
    /\ \/ /\ d.at = "next" /\ d.todo = {}
          /\ CleanUp(d.parents, IF d.force THEN d.groups ELSE {})
          /\ Deletes(x, [d EXCEPT !.at = "cleanup"])
          /\ UNCHANGED tgDeleting
       \/ /\ d.at = "cleanup"
          /\ tgDeleting' = tgDeleting \ d.all
          /\ Deletes(x, NoDeletion)
          /\ UNCHANGED <<tgTask, groupsOnly, tgMishaps, tgStuck>>
    /\ UNCHANGED <<tgCreating, tgPath, tgCache, tgBatch, tgOverlap>>

\* The tasks leave deletingTasks, then the groups they belonged to are looked
\* at: two sections under d.lock.
DeleteEnds(x) ==
    LET d == tgDelete[x] IN
    /\ \/ /\ d.at = "next" /\ d.todo = {}
          /\ tgDeleting' = tgDeleting \ d.all
          /\ Deletes(x, [d EXCEPT !.at = "cleanup"])
          /\ UNCHANGED <<tgTask, groupsOnly, tgMishaps, tgStuck>>
       \/ /\ d.at = "cleanup"
          /\ CleanUp(d.parents, IF d.force THEN d.groups ELSE {})
          /\ Deletes(x, NoDeletion)
          /\ UNCHANGED tgDeleting
    /\ UNCHANGED <<tgCreating, tgPath, tgCache, tgBatch, tgOverlap>>

-----------------------------------------------------------------------------
(* Crash and Setup *)

\* cleanupNonExistingTasks, where the configuration asks for it: one deletion of
\* stored tasks that have no file; one that is not resolved yet is left alone.
FilesMissing(stored) == {t \in stored : ~tgTask[t].file}

\* Everything in memory is lost; Setup loads the groups and the tasks, cleans up
\* the groups that have none, and may delete the tasks whose files are missing
\* (FilesMissing) before anyone else can call.
CrashAndSetup ==
    LET stored == {t \in Members : tgTask[t].stored}
        gone == {g \in tgStoredGroups : \A t \in stored : HasParent(t) => BatchOf[t] # g}
    IN
    /\ MayFail
    /\ tgGroups' = tgStoredGroups \ gone /\ tgStoredGroups' = tgStoredGroups \ gone
    /\ tgDirs' = tgDirs \ {tgPath[g] : g \in {h \in gone :
                     \A t \in Members : InDir(t, tgPath[h]) => ~tgTask[t].file}}
    /\ tgCreating' = {} /\ tgCache' = {} /\ tgStuck' = {}
    /\ tgBatch' = [b \in Batches |-> IF tgBatch[b].at = "idle" THEN tgBatch[b]
                                     ELSE [at |-> "gone", item |-> 0]]
    /\ \E missing \in SUBSET FilesMissing(stored), x \in GroupDeleters :
         /\ tgDeleting' = missing
         /\ tgTask' = [t \in Members |-> [tgTask[t] EXCEPT !.listed = t \in stored \ missing]]
         /\ tgDelete' = [y \in GroupDeleters |->
                           IF y = x /\ missing # {} THEN Deletion(missing, {}, FALSE, TRUE)
                           ELSE NoDeletion]
    /\ UNCHANGED <<tgPath, tgOverlap>>

BatchNext(b) == BatchBegins(b) \/ BeginItem(b) \/ CreateMember(b) \/ PutBackRid(b) \/ BatchEnds(b)
DeleteNext(x) == DeleteBegins(x) \/ DeleteOne(x) \/ DeleteEnds(x)

GroupsNext ==
    \/ \E b \in Batches : BatchNext(b)
    \/ \E t \in Members : MemberWrites(t)
    \/ \E x \in GroupDeleters : DeleteNext(x)
    \/ CrashAndSetup

GroupsSpec == GroupsInit /\ [][GroupsNext]_groupVars

-----------------------------------------------------------------------------
(* Properties *)

\* A task in the list or in a deletion that may still fail has its group, and so
\* has a stored task the record of its group, for the next start: whatever
\* deletions and batches come between, as long as no two deletions have one task
\* (cleanupTaskGroups, Delete). A resolved fetcher has become one task at most.
MembersHaveGroups ==
    /\ \A t \in Members : HasParent(t) /\ BatchOf[t] \notin tgOverlap =>
         /\ t \in Listed \cup tgDeleting => BatchOf[t] \in tgGroups
         /\ tgTask[t].stored => BatchOf[t] \in tgStoredGroups
    /\ \A r \in Rids : Cardinality({t \in Members : RidOf[t] = r /\ tgTask[t].made}) <= 1

\* What stays in the list keeps its file: a forced deletion of a group empties
\* its directory, which no other group may have been given in the meantime
\* (createTaskGroup, cleanupTaskGroups).
KeptTasksKeepFiles ==
    [][\A t \in Members : /\ tgTask[t].listed /\ tgTask'[t].listed /\ tgTask[t].file
                          /\ BatchOf[t] \notin tgOverlap
                          => tgTask'[t].file]_groupVars

\* A group whose last member went, or that never got one, does not stay behind:
\* while it is empty, the batch that creates in it or a deletion that had one of
\* its tasks still has its cleanup to do (cleanupEmptyGroups), unless a cleanup
\* of it failed, or a crash left it to Setup.
EmptyGroup(g) == g \in tgGroups /\ \A t \in MembersOf(g) : t \notin Listed \cup tgDeleting
EmptyGroupsGo ==
    \A g \in Grouped : EmptyGroup(g) =>
        \/ g \in tgStuck
        \/ tgBatch[g].at \notin {"idle", "gone"}
        \/ \E x \in GroupDeleters : g \in tgDelete[x].parents
=============================================================================
