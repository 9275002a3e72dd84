---------------------------- MODULE ExtensionHost ----------------------------
(***************************************************************************)
(* Installing and deleting an extension (pkg/download/extension.go) while  *)
(* its scripts hold webview profiles (extension_webview_config.go) and the *)
(* downloader shuts down (Close of downloader.go). No lock covers the list *)
(* of extensions; a profile has its own, and git operations are admitted   *)
(* under extensionGitLock. There is one extension identity.                *)
(***************************************************************************)
EXTENDS Naturals, FiniteSets

CONSTANTS
    Installs,      \* calls of InstallExtensionByFolder and ByGit, and UpgradeCheckExtension
    GitCalls,      \* those that clone a repository first
    Deletions,     \* calls of DeleteExtension
    Runtimes,      \* webview runtimes of script engines, one page each
    MaxHostFaults  \* bound: failing copies, writes, removals and page closes

ASSUME HostAssumption ==
    /\ IsFiniteSet(Installs) /\ GitCalls \subseteq Installs
    /\ IsFiniteSet(Deletions) /\ IsFiniteSet(Runtimes) /\ MaxHostFaults \in Nat

VARIABLES
    xhHost,      \* how often the extension is listed, its record, the folder, closed and whether storage is
    xhInstall,   \* where each call is, and whether it made a new entry
    xhDelete,    \* where each deletion is, its profile, the pages it has to close
    xhCurrent,   \* webviewProfiles: the profile of the identity, or 0
    xhProfile,   \* every profile ever made: revoked, and whether its data was removed
    xhRuntime,   \* the profile that a runtime keeps, and its page
    xhData,      \* the profiles whose pages wrote into the data directory
    xhFaults

hostVars == <<xhHost, xhInstall, xhDelete, xhCurrent, xhProfile, xhRuntime, xhData, xhFaults>>
profileVars == <<xhCurrent, xhProfile, xhRuntime, xhData>>

Profiles == 1..(1 + Cardinality(Installs))
Installing == {"cloning", "copying", "looking", "listing", "putting", "dropping"}
Removing == {"closing", "removing"}

HostTypeOK ==
    /\ xhHost \in [listed : 0..Cardinality(Installs), record : BOOLEAN, folder : BOOLEAN,
                   closed : BOOLEAN, storage : BOOLEAN]
    /\ xhInstall \in [Installs -> [at : Installing \cup {"idle", "returned"}, new : BOOLEAN]]
    /\ xhDelete \in [Deletions -> [at : Removing \cup {"idle", "revoking", "folder", "unlisting", "deleting", "returned"},
                                   profile : {0} \cup Profiles, pages : SUBSET Runtimes]]
    /\ xhCurrent \in {0} \cup Profiles
    /\ xhProfile \in [Profiles -> [made : BOOLEAN, revoked : BOOLEAN, removed : BOOLEAN]]
    /\ xhRuntime \in [Runtimes -> [profile : {0} \cup Profiles, page : {"none", "chosen", "opening", "open", "closed"}]]
    /\ xhData \subseteq Profiles

HostInit ==
    /\ xhHost = [listed |-> 0, record |-> FALSE, folder |-> FALSE, closed |-> FALSE, storage |-> TRUE]
    /\ xhInstall = [i \in Installs |-> [at |-> "idle", new |-> FALSE]]
    /\ xhDelete = [d \in Deletions |-> [at |-> "idle", profile |-> 0, pages |-> {}]]
    /\ xhCurrent = 0 /\ xhData = {} /\ xhFaults = 0
    /\ xhProfile = [p \in Profiles |-> [made |-> FALSE, revoked |-> FALSE, removed |-> FALSE]]
    /\ xhRuntime = [r \in Runtimes |-> [profile |-> 0, page |-> "none"]]

HostFault == xhFaults < MaxHostFaults /\ xhFaults' = xhFaults + 1
Stands(i, at) == xhInstall' = [xhInstall EXCEPT ![i].at = at]
Goes(d, at) == xhDelete' = [xhDelete EXCEPT ![d].at = at]
NewProfile == CHOOSE p \in Profiles : ~xhProfile[p].made /\ \A q \in Profiles : q < p => xhProfile[q].made

\* extensionWebViewProfile: the one of the map, or a new one.
ProfileFor(p) ==
    /\ p = IF xhCurrent # 0 THEN xhCurrent ELSE NewProfile
    /\ xhCurrent' = p

-----------------------------------------------------------------------------
(* Install *)

\* fetchExtensionByGit: closed is read, and the wait group counted, in one step
\* of extensionGitLock.
Admitted == ~xhHost.closed

InstallBegins(i) ==
    /\ xhInstall[i].at = "idle"
    /\ Stands(i, IF i \in GitCalls THEN IF Admitted THEN "cloning" ELSE "returned" ELSE "copying")
    /\ UNCHANGED <<xhHost, xhDelete, profileVars, xhFaults>>

\* The clone, cancelled or failed, or its handler, which only looks at the
\* version (UpgradeCheckExtension) or installs.
CloneEnds(i) ==
    /\ xhInstall[i].at = "cloning"
    /\ Stands(i, "copying") \/ Stands(i, "returned")
    /\ UNCHANGED <<xhHost, xhDelete, profileVars, xhFaults>>

CopyDir(i) ==
    /\ xhInstall[i].at = "copying"
    /\ \/ Stands(i, "looking") /\ UNCHANGED xhFaults
       \/ HostFault /\ Stands(i, "returned")
    /\ xhHost' = [xhHost EXCEPT !.folder = TRUE]
    /\ UNCHANGED <<xhDelete, profileVars>>

\* getExtension, and then, with no lock, the append or the update of the entry.
LookForExtension(i) ==
    /\ xhInstall[i].at = "looking"
    /\ xhInstall' = [xhInstall EXCEPT ![i].at = "listing", ![i].new = xhHost.listed = 0]
    /\ UNCHANGED <<xhHost, xhDelete, profileVars, xhFaults>>

ListExtension(i) ==
    /\ xhInstall[i].at = "listing" /\ Stands(i, "putting")
    /\ xhHost' = IF xhInstall[i].new THEN [xhHost EXCEPT !.listed = @ + 1] ELSE xhHost
    /\ UNCHANGED <<xhDelete, profileVars, xhFaults>>

PutExtension(i) ==
    /\ xhInstall[i].at = "putting"
    /\ \/ /\ xhHost.storage /\ Stands(i, IF xhInstall[i].new THEN "dropping" ELSE "returned")
          /\ xhHost' = [xhHost EXCEPT !.record = TRUE] /\ UNCHANGED xhFaults
       \/ ~xhHost.storage /\ Stands(i, "returned") /\ UNCHANGED <<xhHost, xhFaults>>
       \/ HostFault /\ Stands(i, "returned") /\ UNCHANGED xhHost
    /\ UNCHANGED <<xhDelete, profileVars>>

\* A fresh installation begins with a fresh profile.
DropProfile(i) ==
    /\ xhInstall[i].at = "dropping" /\ Stands(i, "returned")
    /\ xhCurrent' = 0
    /\ UNCHANGED <<xhHost, xhDelete, xhProfile, xhRuntime, xhData, xhFaults>>

-----------------------------------------------------------------------------
(* Delete *)

RemovalBegins(d) ==
    /\ xhDelete[d].at = "idle"
    /\ IF xhHost.listed = 0
       THEN Goes(d, "returned") /\ UNCHANGED <<xhCurrent, xhProfile>>
       ELSE \E p \in Profiles :
              /\ ProfileFor(p)
              /\ xhProfile' = [xhProfile EXCEPT ![p].made = TRUE]
              /\ xhDelete' = [xhDelete EXCEPT ![d].at = "revoking", ![d].profile = p]
    /\ UNCHANGED <<xhHost, xhInstall, xhRuntime, xhData, xhFaults>>

PagesOf(p) == {r \in Runtimes : xhRuntime[r].profile = p /\ xhRuntime[r].page = "open"}
ProfileMuFree(p) == \A r \in Runtimes : ~(xhRuntime[r].profile = p /\ xhRuntime[r].page = "opening")
DeleteMuFree(p) == \A e \in Deletions : ~(xhDelete[e].profile = p /\ xhDelete[e].at \in Removing)

\* deleteMu, then mu: no page opens on the profile from here on.
RevokeProfile(d) ==
    LET p == xhDelete[d].profile IN
    /\ xhDelete[d].at = "revoking" /\ DeleteMuFree(p) /\ ProfileMuFree(p)
    /\ xhProfile' = [xhProfile EXCEPT ![p].revoked = TRUE]
    /\ xhDelete' = [xhDelete EXCEPT ![d].at = "closing", ![d].pages = PagesOf(p)]
    /\ UNCHANGED <<xhHost, xhInstall, xhCurrent, xhRuntime, xhData, xhFaults>>

ClosePageOf(d) ==
    /\ xhDelete[d].at = "closing"
    /\ IF xhDelete[d].pages = {}
       THEN Goes(d, "removing") /\ UNCHANGED <<xhRuntime, xhFaults>>
       ELSE \E r \in xhDelete[d].pages :
              \/ /\ xhDelete' = [xhDelete EXCEPT ![d].pages = @ \ {r}]
                 /\ xhRuntime' = [xhRuntime EXCEPT ![r].page = "closed"] /\ UNCHANGED xhFaults
              \/ HostFault /\ Goes(d, "returned") /\ UNCHANGED xhRuntime
    /\ UNCHANGED <<xhHost, xhInstall, xhCurrent, xhProfile, xhData>>

\* RemoveProfile of the provider and RemoveAll of the data.
RemoveData(d) ==
    /\ xhDelete[d].at = "removing"
    /\ \/ /\ xhData' = {} /\ xhProfile' = [xhProfile EXCEPT ![xhDelete[d].profile].removed = TRUE]
          /\ Goes(d, "folder") /\ UNCHANGED xhFaults
       \/ HostFault /\ Goes(d, "returned") /\ UNCHANGED <<xhData, xhProfile>>
    /\ UNCHANGED <<xhHost, xhInstall, xhCurrent, xhRuntime>>

RemoveFolder(d) ==
    /\ xhDelete[d].at = "folder"
    /\ \/ xhHost' = [xhHost EXCEPT !.folder = FALSE] /\ Goes(d, "unlisting") /\ UNCHANGED xhFaults
       \/ HostFault /\ Goes(d, "returned") /\ UNCHANGED xhHost
    /\ UNCHANGED <<xhInstall, profileVars>>

Unlist(d) ==
    /\ xhDelete[d].at = "unlisting" /\ Goes(d, "deleting")
    /\ xhHost' = [xhHost EXCEPT !.listed = IF @ = 0 THEN 0 ELSE @ - 1]
    /\ UNCHANGED <<xhInstall, profileVars, xhFaults>>

DeleteRecord(d) ==
    /\ xhDelete[d].at = "deleting" /\ Goes(d, "returned")
    /\ \/ xhHost.storage /\ xhHost' = [xhHost EXCEPT !.record = FALSE] /\ UNCHANGED xhFaults
       \/ ~xhHost.storage /\ UNCHANGED <<xhHost, xhFaults>>
       \/ HostFault /\ UNCHANGED xhHost
    /\ UNCHANGED <<xhInstall, profileVars>>

-----------------------------------------------------------------------------
(* Scripts, the settings of an extension, and the end *)

\* doTrigger: a script of a listed extension matches the event.
ChooseScript(r) ==
    /\ xhRuntime[r] = [profile |-> 0, page |-> "none"] /\ xhHost.listed > 0
    /\ xhRuntime' = [xhRuntime EXCEPT ![r].page = "chosen"]
    /\ UNCHANGED <<xhHost, xhInstall, xhDelete, xhCurrent, xhProfile, xhData, xhFaults>>

\* The script was read where its file was still there, and only then its engine
\* takes the profile (newExtensionWebViewRuntime).
NewRuntime(r) ==
    /\ xhRuntime[r].page = "chosen"
    /\ \/ \E p \in Profiles :
             /\ ProfileFor(p)
             /\ xhProfile' = [xhProfile EXCEPT ![p].made = TRUE]
             /\ xhRuntime' = [xhRuntime EXCEPT ![r] = [profile |-> p, page |-> "none"]]
       \/ /\ ~xhHost.folder
          /\ xhRuntime' = [xhRuntime EXCEPT ![r].page = "closed"]
          /\ UNCHANGED <<xhCurrent, xhProfile>>
    /\ UNCHANGED <<xhHost, xhInstall, xhDelete, xhData, xhFaults>>

\* mutant: the profile that the runtime keeps is not asked
MayOpenMutated(p) == TRUE
\* extensionWebViewOpener.Open: not revoked, and a proxy only while not closed.
MayOpen(p) == ~xhProfile[p].revoked

OpenPage(r) ==
    LET p == xhRuntime[r].profile IN
    /\ p # 0 /\ xhRuntime[r].page = "none" /\ ProfileMuFree(p)
    /\ MayOpen(p) /\ ~xhHost.closed
    /\ xhRuntime' = [xhRuntime EXCEPT ![r].page = "opening"]
    /\ UNCHANGED <<xhHost, xhInstall, xhDelete, xhCurrent, xhProfile, xhData, xhFaults>>

\* provider.Open makes the data directory; the page is tracked before mu is free.
PageOpens(r) ==
    /\ xhRuntime[r].page = "opening"
    /\ xhData' = xhData \cup {xhRuntime[r].profile}
    /\ \/ xhRuntime' = [xhRuntime EXCEPT ![r].page = "open"] /\ UNCHANGED xhFaults
       \/ HostFault /\ xhRuntime' = [xhRuntime EXCEPT ![r].page = "closed"]
    /\ UNCHANGED <<xhHost, xhInstall, xhDelete, xhCurrent, xhProfile>>

\* The browser of an open page writes whenever it likes.
PageWrites(r) ==
    /\ xhRuntime[r].page = "open"
    /\ xhData' = xhData \cup {xhRuntime[r].profile}
    /\ UNCHANGED <<xhHost, xhInstall, xhDelete, xhCurrent, xhProfile, xhRuntime, xhFaults>>

\* The script, or the end of its session, closes the page.
PageCloses(r) ==
    /\ xhRuntime[r].page = "open" /\ ProfileMuFree(xhRuntime[r].profile)
    /\ xhRuntime' = [xhRuntime EXCEPT ![r].page = "closed"]
    /\ UNCHANGED <<xhHost, xhInstall, xhDelete, xhCurrent, xhProfile, xhData, xhFaults>>

HostCloseBegins ==
    /\ ~xhHost.closed /\ xhHost' = [xhHost EXCEPT !.closed = TRUE]
    /\ UNCHANGED <<xhInstall, xhDelete, profileVars, xhFaults>>

\* waitForExtensionGit, and only then the storage.
CloseStorage ==
    /\ xhHost.closed /\ xhHost.storage
    /\ \A i \in GitCalls : xhInstall[i].at \notin Installing
    /\ xhHost' = [xhHost EXCEPT !.storage = FALSE]
    /\ UNCHANGED <<xhInstall, xhDelete, profileVars, xhFaults>>

InstallStep(i) ==
    \/ InstallBegins(i) \/ CloneEnds(i) \/ CopyDir(i)
    \/ LookForExtension(i) \/ ListExtension(i) \/ PutExtension(i) \/ DropProfile(i)
DeleteStep(d) ==
    \/ RemovalBegins(d) \/ RevokeProfile(d) \/ ClosePageOf(d) \/ RemoveData(d)
    \/ RemoveFolder(d) \/ Unlist(d) \/ DeleteRecord(d)
RuntimeStep(r) ==
    \/ ChooseScript(r) \/ NewRuntime(r)
    \/ OpenPage(r) \/ PageOpens(r) \/ PageWrites(r) \/ PageCloses(r)

HostNext ==
    \/ \E i \in Installs : InstallStep(i)
    \/ \E d \in Deletions : DeleteStep(d)
    \/ \E r \in Runtimes : RuntimeStep(r)
    \/ HostCloseBegins \/ CloseStorage

HostSpec == HostInit /\ [][HostNext]_hostVars

-----------------------------------------------------------------------------
(* Properties *)

\* "Existing runtimes retain this object, so reinstalling cannot let an old
\* runtime recreate data" (extensionWebViewProfile): what a deletion removed is
\* never written again by a page of the profile it revoked, whichever engines,
\* openings and installations were under way.
RemovedDataStaysGone == \A p \in xhData : ~xhProfile[p].removed

\* No clone and no installation from one is under way once the storage that it
\* writes to is closed (waitForExtensionGit).
GitOverBeforeStorage ==
    ~xhHost.storage => \A i \in GitCalls : xhInstall[i].at \notin Installing
=============================================================================
