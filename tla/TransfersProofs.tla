--------------------------- MODULE TransfersProofs ---------------------------
(***************************************************************************)
(* Theorems about four components of MCTransfers, each for itself: the     *)
(* host of the extensions, the targets of tasks, batches with groups and   *)
(* deletion, and the FTP fetcher. Each has an inductive invariant of its   *)
(* own (HostInv, TargetsInv, GroupsInv, FtpInv), a lemma for each kind of  *)
(* step, and the theorems of its specification at the end of its part.     *)
(***************************************************************************)
EXTENDS ExtensionHost, TaskTargets, TaskGroups, FtpFetcher, FiniteSetTheorems, WellFoundedInduction,
        NaturalsInduction, TLAPS

(* Numbers *)

\* A set of natural numbers that has an element has a least one.
LEMMA LeastOf ==
  ASSUME NEW S, S \subseteq Nat, S # {}
  PROVE  \E n \in S : \A m \in S : n <= m
<1>1. PICK n \in S : \A m \in S : ~ (<<m, n>> \in OpToRel(<, Nat))
  BY WFMin, NatLessThanWellFounded
<1>2. \A m \in S : ~ (m < n)
  BY <1>1, Zenon DEF OpToRel
<1> QED
  BY <1>2

\* The numbers up to the size of a finite set are one more than its elements.
LEMMA OneMore ==
  ASSUME NEW S, IsFiniteSet(S), NEW f \in [0 .. Cardinality(S) -> S]
  PROVE  \E x, y \in 0 .. Cardinality(S) : x # y /\ f[x] = f[y]
<1> DEFINE n == Cardinality(S)
           D == 0 .. n
<1>1. n \in Nat
  BY FS_CardinalityType
<1>2. IsFiniteSet(D) /\ Cardinality(D) = n + 1
  <2> HIDE DEF n
  <2> QED
    BY <1>1, FS_Interval
<1>3. Cardinality(S) < Cardinality(D)
  BY <1>1, <1>2
<1>4. f \in [D -> S]
  OBVIOUS
<1> HIDE DEF D
<1>5. \E x, y \in D : x # y /\ f[x] = f[y]
  BY <1>2, <1>3, <1>4, FS_PigeonHole
<1> QED
  BY <1>5 DEF D

-----------------------------------------------------------------------------
(* ExtensionHost: the invariant *)

\* The installations that have passed the append to the list.
PastListing == {i \in Installs : xhInstall[i].at \in {"putting", "dropping", "returned"}}

\* An extension is listed at most once per installation.
ListedByInstalls == xhHost.listed <= Cardinality(PastListing)

\* A page in use, and a deletion that revokes, have a profile.
ProfilesKnown ==
    /\ \A r \in Runtimes : xhRuntime[r].page \in {"opening", "open"} => xhRuntime[r].profile \in Profiles
    /\ \A d \in Deletions : xhDelete[d].at \in Removing \cup {"revoking"} => xhDelete[d].profile \in Profiles

\* No page opens on a revoked profile. A deletion has revoked its profile before
\* it closes pages, has all that were open among them, and no page is open once
\* it removes the data.
RevokedShut ==
    /\ \A p \in Profiles : \A r \in Runtimes :
         xhProfile[p].revoked /\ xhRuntime[r].profile = p => xhRuntime[r].page # "opening"
    /\ \A d \in Deletions : xhDelete[d].at \in Removing =>
         /\ xhProfile[xhDelete[d].profile].revoked
         /\ PagesOf(xhDelete[d].profile) \subseteq
              IF xhDelete[d].at = "closing" THEN xhDelete[d].pages ELSE {}

\* Who has no page any more and none on its way writes nothing.
RemovedShut ==
    \A p \in Profiles : xhProfile[p].removed =>
        xhProfile[p].revoked /\ PagesOf(p) = {} /\ p \notin xhData

\* Storage closes after the end of git operations.
GitOver ==
    /\ ~xhHost.storage => xhHost.closed
    /\ GitOverBeforeStorage

HostInv ==
    /\ HostTypeOK /\ ListedByInstalls /\ ProfilesKnown /\ RevokedShut /\ RemovedShut /\ GitOver

\* The initial states satisfy the invariant.
LEMMA HostInitInv == HostInit => HostInv
<1> SUFFICES ASSUME HostInit PROVE HostInv
  OBVIOUS
<1>2. Cardinality(Installs) \in Nat /\ 0 \in 0 .. Cardinality(Installs)
  BY FS_CardinalityType, HostAssumption
<1>3. PastListing = {}
  <2>1. \A i \in Installs : xhInstall[i].at = "idle"
    BY DEF HostInit
  <2> QED
    BY <2>1 DEF PastListing
<1>4. HostTypeOK
  <2>1. xhHost \in [listed : 0..Cardinality(Installs), record : BOOLEAN, folder : BOOLEAN,
                    closed : BOOLEAN, storage : BOOLEAN]
    BY <1>2 DEF HostInit
  <2>2. xhInstall \in [Installs -> [at : Installing \cup {"idle", "returned"}, new : BOOLEAN]]
    BY DEF HostInit
  <2>3. xhDelete \in [Deletions -> [at : Removing \cup {"idle", "revoking", "folder", "unlisting", "deleting", "returned"},
                                    profile : {0} \cup Profiles, pages : SUBSET Runtimes]]
    <3> DEFINE P == {0} \cup Profiles
    <3>1. 0 \in P
      OBVIOUS
    <3> HIDE DEF P
    <3>2. xhDelete \in [Deletions -> [at : Removing \cup {"idle", "revoking", "folder", "unlisting", "deleting", "returned"},
                                      profile : P, pages : SUBSET Runtimes]]
      BY <3>1 DEF HostInit
    <3> QED
      BY <3>2 DEF P
  <2>4. xhProfile \in [Profiles -> [made : BOOLEAN, revoked : BOOLEAN, removed : BOOLEAN]]
    BY DEF HostInit
  <2>5. xhRuntime \in [Runtimes -> [profile : {0} \cup Profiles, page : {"none", "chosen", "opening", "open", "closed"}]]
    <3> DEFINE P == {0} \cup Profiles
    <3>1. 0 \in P
      OBVIOUS
    <3> HIDE DEF P
    <3>2. xhRuntime \in [Runtimes -> [profile : P, page : {"none", "chosen", "opening", "open", "closed"}]]
      BY <3>1 DEF HostInit
    <3> QED
      BY <3>2 DEF P
  <2>6. xhCurrent \in {0} \cup Profiles /\ xhData \subseteq Profiles
    BY DEF HostInit
  <2> QED
    BY <2>1, <2>2, <2>3, <2>4, <2>5, <2>6 DEF HostTypeOK
<1>5. ListedByInstalls
  <2>1. xhHost.listed = 0
    BY DEF HostInit
  <2> QED
    BY <1>3, <2>1, FS_EmptySet DEF ListedByInstalls
<1>6. \A r \in Runtimes : xhRuntime[r].page = "none"
  BY DEF HostInit
<1>7. \A d \in Deletions : xhDelete[d].at = "idle"
  BY DEF HostInit
<1>8. \A p \in Profiles : ~xhProfile[p].revoked /\ ~xhProfile[p].removed
  BY DEF HostInit
<1>9. xhHost.storage
  BY DEF HostInit
<1> QED
  BY <1>4, <1>5, <1>6, <1>7, <1>8, <1>9 DEF HostInv, ProfilesKnown, RevokedShut, RemovedShut, GitOver,
     Removing, GitOverBeforeStorage

\* The list grows with the installations that pass it only.
LEMMA ListingStep ==
  ASSUME HostTypeOK, ListedByInstalls, xhHost'.listed <= xhHost.listed,
         PastListing \subseteq PastListing', xhHost'.listed \in Int
  PROVE  ListedByInstalls'
<1>1. IsFiniteSet(PastListing') /\ IsFiniteSet(PastListing)
  BY FS_Subset, HostAssumption DEF PastListing
<1>2. Cardinality(PastListing) <= Cardinality(PastListing')
  BY <1>1, FS_Subset
<1>3. Cardinality(PastListing) \in Nat /\ Cardinality(PastListing') \in Nat
  BY <1>1, FS_CardinalityType
<1>4. xhHost.listed \in Int
  BY DEF HostTypeOK
<1> QED
  BY <1>2, <1>3, <1>4 DEF ListedByInstalls

\* A call that goes on, or back to its caller, and changes at most the record
\* and the folder of the extension. A clone begins while the host is open.
LEMMA InstallMoves ==
  ASSUME HostTypeOK, ListedByInstalls, GitOver, NEW i \in Installs,
         NEW at \in Installing \cup {"idle", "returned"}, NEW new \in BOOLEAN,
         at = "idle" => FALSE,
         i \in PastListing => at \in {"putting", "dropping", "returned"},
         at \in Installing => xhInstall[i].at \in Installing \/ i \notin GitCalls \/ ~xhHost.closed,
         xhInstall' = [xhInstall EXCEPT ![i].at = at, ![i].new = new],
         NEW record \in BOOLEAN, NEW folder \in BOOLEAN,
         xhHost' = [xhHost EXCEPT !.record = record, !.folder = folder],
         UNCHANGED <<xhDelete, xhProfile, xhRuntime, xhData>>, xhCurrent' \in {0, xhCurrent}
  PROVE  HostTypeOK' /\ ListedByInstalls' /\ GitOver'
<1>1. /\ xhHost' \in [listed : 0..Cardinality(Installs), record : BOOLEAN, folder : BOOLEAN,
                      closed : BOOLEAN, storage : BOOLEAN]
      /\ xhHost'.listed = xhHost.listed /\ xhHost'.closed = xhHost.closed /\ xhHost'.storage = xhHost.storage
      /\ xhHost.listed \in 0..Cardinality(Installs) /\ Cardinality(Installs) \in Nat
  BY FS_CardinalityType, HostAssumption DEF HostTypeOK
<1>2. /\ xhInstall' \in [Installs -> [at : Installing \cup {"idle", "returned"}, new : BOOLEAN]]
      /\ xhInstall'[i].at = at /\ \A j \in Installs : j # i => xhInstall'[j] = xhInstall[j]
  <2> DEFINE A == Installing \cup {"idle", "returned"}
             e == [xhInstall[i] EXCEPT !.at = at, !.new = new]
  <2>1. /\ at \in A /\ xhInstall \in [Installs -> [at : A, new : BOOLEAN]]
        /\ xhInstall' = [xhInstall EXCEPT ![i] = e]
    BY DEF HostTypeOK
  <2> HIDE DEF A
  <2>2. e \in [at : A, new : BOOLEAN] /\ e.at = at
    BY <2>1
  <2> HIDE DEF e
  <2>3. xhInstall' \in [Installs -> [at : A, new : BOOLEAN]] /\ xhInstall'[i] = e
        /\ \A j \in Installs : j # i => xhInstall'[j] = xhInstall[j]
    BY <2>1, <2>2
  <2> QED
    BY <2>2, <2>3 DEF A
<1>3. HostTypeOK'
  BY <1>1, <1>2 DEF HostTypeOK
<1>4. PastListing \subseteq PastListing'
  BY <1>2 DEF PastListing
<1>5. ListedByInstalls'
  BY <1>1, <1>4, ListingStep
<1>6. GitOver'
  BY <1>1, <1>2, HostAssumption DEF GitOver, GitOverBeforeStorage
<1> QED
  BY <1>3, <1>5, <1>6

\* Installations leave profiles, pages and data alone, but for the map that
\* forgets the profile.
LEMMA InstallInv ==
  ASSUME HostInv, NEW i \in Installs, InstallStep(i)
  PROVE  HostInv'
<1>1. /\ HostTypeOK /\ ListedByInstalls /\ GitOver /\ Cardinality(Installs) \in Nat
      /\ xhHost.listed \in 0 .. Cardinality(Installs)
      /\ xhHost.record \in BOOLEAN /\ xhHost.folder \in BOOLEAN /\ xhInstall[i].new \in BOOLEAN
      /\ xhHost = [xhHost EXCEPT !.record = xhHost.record, !.folder = xhHost.folder]
  BY FS_CardinalityType, HostAssumption DEF HostInv, HostTypeOK
<1>2. UNCHANGED <<xhProfile, xhRuntime, xhData, xhDelete>> /\ xhCurrent' \in {0, xhCurrent}
  BY DEF InstallStep, InstallBegins, CloneEnds, CopyDir, LookForExtension, ListExtension,
     PutExtension, DropProfile, profileVars
<1>3. ProfilesKnown' /\ RevokedShut' /\ RemovedShut'
  BY <1>2 DEF HostInv, ProfilesKnown, RevokedShut, RemovedShut, PagesOf
<1>4. CASE ListExtension(i)
  <2>1. /\ i \notin PastListing /\ PastListing' = PastListing \cup {i}
        /\ IsFiniteSet(PastListing) /\ PastListing' \subseteq Installs
    BY <1>1, <1>4, FS_Subset, HostAssumption DEF ListExtension, HostTypeOK, Stands, PastListing
  <2>2. Cardinality(PastListing') = Cardinality(PastListing) + 1 /\ Cardinality(PastListing) \in Nat
    BY <2>1, FS_AddElement, FS_CardinalityType
  <2>3. Cardinality(PastListing') <= Cardinality(Installs)
    BY <2>1, FS_Subset, HostAssumption
  <2>4. xhHost' \in [listed : Nat, record : BOOLEAN, folder : BOOLEAN, closed : BOOLEAN, storage : BOOLEAN]
        /\ xhHost'.listed \in {xhHost.listed, xhHost.listed + 1}
    BY <1>1, <1>4 DEF ListExtension, HostTypeOK
  <2>5. ListedByInstalls'
    BY <1>1, <2>2, <2>4 DEF ListedByInstalls
  <2>6. xhHost'.listed \in 0 .. Cardinality(Installs)
    BY <1>1, <2>2, <2>3, <2>4, <2>5 DEF ListedByInstalls
  <2>7. HostTypeOK'
    BY <1>1, <1>4, <2>4, <2>6 DEF ListExtension, HostTypeOK, Stands, Installing, profileVars
  <2>8. GitOver'
    BY <1>1, <1>4 DEF ListExtension, HostTypeOK, Stands, GitOver, GitOverBeforeStorage, Installing
  <2> QED
    BY <2>5, <2>7, <2>8, <1>3 DEF HostInv
<1>5. CASE ~ListExtension(i)
  <2>1. \E at \in Installing \cup {"idle", "returned"}, new \in BOOLEAN, record \in BOOLEAN, folder \in BOOLEAN :
          /\ at # "idle"
          /\ i \in PastListing => at \in {"putting", "dropping", "returned"}
          /\ at \in Installing => xhInstall[i].at \in Installing \/ i \notin GitCalls \/ ~xhHost.closed
          /\ xhInstall' = [xhInstall EXCEPT ![i].at = at, ![i].new = new]
          /\ xhHost' = [xhHost EXCEPT !.record = record, !.folder = folder]
    <3> DEFINE Moved(at, new, record, folder) ==
          /\ at # "idle" /\ at \in Installing \cup {"idle", "returned"}
          /\ i \in PastListing => at \in {"putting", "dropping", "returned"}
          /\ at \in Installing => xhInstall[i].at \in Installing \/ i \notin GitCalls \/ ~xhHost.closed
          /\ xhInstall' = [xhInstall EXCEPT ![i].at = at, ![i].new = new]
          /\ xhHost' = [xhHost EXCEPT !.record = record, !.folder = folder]
    <3>1. \A at : Stands(i, at) => xhInstall' = [xhInstall EXCEPT ![i].at = at, ![i].new = xhInstall[i].new]
      BY <1>1 DEF Stands, HostTypeOK
    <3>2. CASE InstallBegins(i)
      <4>1. xhInstall[i].at = "idle" /\ i \notin PastListing
        BY <3>2 DEF InstallBegins, PastListing
      <4>2. PICK at \in {"cloning", "returned", "copying"} :
              Stands(i, at) /\ (at # "returned" => i \notin GitCalls \/ ~xhHost.closed)
        BY <3>2 DEF InstallBegins, Admitted
      <4>3. Moved(at, xhInstall[i].new, xhHost.record, xhHost.folder)
        BY <3>1, <3>2, <4>1, <4>2, <1>1 DEF InstallBegins, Installing
      <4> QED
        BY <4>3, <1>1
    <3>3. CASE CloneEnds(i)
      <4>1. xhInstall[i].at = "cloning" /\ i \notin PastListing
        BY <3>3 DEF CloneEnds, PastListing
      <4>2. PICK at \in {"copying", "returned"} : Stands(i, at)
        BY <3>3 DEF CloneEnds
      <4>3. Moved(at, xhInstall[i].new, xhHost.record, xhHost.folder)
        BY <3>1, <3>3, <4>1, <4>2, <1>1 DEF CloneEnds, Installing
      <4> QED
        BY <4>3, <1>1
    <3>4. CASE CopyDir(i)
      <4>1. xhInstall[i].at = "copying" /\ i \notin PastListing
        BY <3>4 DEF CopyDir, PastListing
      <4>2. PICK at \in {"looking", "returned"} : Stands(i, at)
        BY <3>4 DEF CopyDir
      <4>3. xhHost' = [xhHost EXCEPT !.record = xhHost.record, !.folder = TRUE]
        BY <3>4, <1>1 DEF CopyDir, HostTypeOK
      <4>4. Moved(at, xhInstall[i].new, xhHost.record, TRUE)
        BY <3>1, <4>1, <4>2, <4>3 DEF Installing
      <4> QED
        BY <4>4, <1>1
    <3>5. CASE LookForExtension(i)
      <4>1. xhInstall[i].at = "looking" /\ i \notin PastListing
        BY <3>5 DEF LookForExtension, PastListing
      <4> DEFINE new == xhHost.listed = 0
      <4>2. xhInstall' = [xhInstall EXCEPT ![i].at = "listing", ![i].new = new] /\ xhHost' = xhHost
            /\ new \in BOOLEAN
        BY <3>5 DEF LookForExtension
      <4> HIDE DEF new
      <4>3. Moved("listing", new, xhHost.record, xhHost.folder)
        BY <4>1, <4>2, <1>1 DEF Installing
      <4> QED
        BY <4>2, <4>3, <1>1
    <3>6. CASE PutExtension(i)
      <4>1. xhInstall[i].at = "putting"
        BY <3>6 DEF PutExtension
      <4>2. PICK at \in {"dropping", "returned"} : Stands(i, at)
        BY <3>6 DEF PutExtension
      <4>3. PICK record \in BOOLEAN : xhHost' = [xhHost EXCEPT !.record = record, !.folder = xhHost.folder]
        <5>1. xhHost' = xhHost \/ xhHost' = [xhHost EXCEPT !.record = TRUE]
          BY <3>6 DEF PutExtension
        <5>2. CASE xhHost' = xhHost
          BY <5>2, <1>1
        <5>3. CASE xhHost' = [xhHost EXCEPT !.record = TRUE]
          <6>1. xhHost' = [xhHost EXCEPT !.record = TRUE, !.folder = xhHost.folder]
            BY <5>3, <1>1 DEF HostTypeOK
          <6> QED
            BY <6>1
        <5> QED
          BY <5>1, <5>2, <5>3
      <4>4. Moved(at, xhInstall[i].new, record, xhHost.folder)
        BY <3>1, <4>1, <4>2, <4>3 DEF Installing
      <4> QED
        BY <4>4, <1>1
    <3>7. CASE DropProfile(i)
      <4>1. Moved("returned", xhInstall[i].new, xhHost.record, xhHost.folder)
        BY <3>1, <3>7, <1>1 DEF DropProfile, Installing
      <4> QED
        BY <4>1, <1>1
    <3> QED
      BY <3>2, <3>3, <3>4, <3>5, <3>6, <3>7, <1>5 DEF InstallStep
  <2>2. HostTypeOK' /\ ListedByInstalls' /\ GitOver'
    BY <2>1, <1>1, <1>2, InstallMoves
  <2> QED
    BY <2>2, <1>3 DEF HostInv
<1> QED
  BY <1>4, <1>5

\* What a deletion is between two steps.
ProfileOrNone == {0} \cup Profiles
DeletionPlaces == Removing \cup {"idle", "revoking", "folder", "unlisting", "deleting", "returned"}
DeletionRecords == [at : DeletionPlaces, profile : ProfileOrNone, pages : SUBSET Runtimes]

\* The step of one deletion, as a new record of it.
LEMMA DeletionMoves ==
  ASSUME xhDelete \in [Deletions -> DeletionRecords], NEW d \in Deletions, NEW e \in DeletionRecords,
         xhDelete' = [xhDelete EXCEPT ![d] = e]
  PROVE  /\ xhDelete' \in [Deletions -> DeletionRecords] /\ xhDelete'[d] = e
         /\ \A f \in Deletions : f # d => xhDelete'[f] = xhDelete[f]
  OBVIOUS

\* A step that leaves the host and the installations alone leaves the list and
\* the git operations alone.
LEMMA HostRests ==
  ASSUME HostInv, UNCHANGED <<xhHost, xhInstall>>
  PROVE  ListedByInstalls' /\ GitOver'
  BY DEF HostInv, ListedByInstalls, PastListing, GitOver, GitOverBeforeStorage

\* A deletion that goes on after its profile is done with, or gives up.
LEMMA DeletionGoes ==
  ASSUME HostInv, NEW d \in Deletions, NEW at \in {"folder", "unlisting", "deleting", "returned"},
         Goes(d, at), UNCHANGED <<xhInstall, xhCurrent, xhProfile, xhRuntime, xhData>>,
         xhHost' \in [listed : 0..Cardinality(Installs), record : BOOLEAN, folder : BOOLEAN,
                      closed : BOOLEAN, storage : BOOLEAN],
         xhHost'.listed <= xhHost.listed, xhHost'.closed = xhHost.closed, xhHost'.storage = xhHost.storage
  PROVE  HostInv'
<1>1. HostTypeOK /\ ListedByInstalls /\ GitOver /\ xhHost'.listed \in Int
  BY FS_CardinalityType, HostAssumption DEF HostInv
<1>2. xhDelete \in [Deletions -> DeletionRecords] /\ at \in DeletionPlaces
  BY <1>1 DEF HostTypeOK, DeletionRecords, DeletionPlaces, ProfileOrNone
<1> DEFINE e == [xhDelete[d] EXCEPT !.at = at]
<1>3. /\ xhDelete' \in [Deletions -> DeletionRecords]
      /\ xhDelete'[d].at = at /\ \A f \in Deletions : f # d => xhDelete'[f] = xhDelete[f]
  <2>1. e \in DeletionRecords /\ e.at = at /\ xhDelete' = [xhDelete EXCEPT ![d] = e]
    BY <1>2 DEF DeletionRecords, Goes
  <2> HIDE DEF e
  <2> QED
    BY <1>2, <2>1, DeletionMoves
<1>4. HostTypeOK'
  BY <1>1, <1>3 DEF HostTypeOK, DeletionRecords, DeletionPlaces, ProfileOrNone
<1>5. PastListing \subseteq PastListing'
  BY DEF PastListing
<1>6. ListedByInstalls'
  BY <1>1, <1>5, ListingStep
<1>7. GitOver'
  BY <1>1 DEF GitOver, GitOverBeforeStorage
<1>8. ProfilesKnown' /\ RevokedShut' /\ RemovedShut'
  <2>1. at \notin Removing \cup {"revoking"}
    BY DEF Removing
  <2>2. \A f \in Deletions : xhDelete'[f].at \in Removing \cup {"revoking"} => xhDelete'[f] = xhDelete[f]
    BY <1>3, <2>1
  <2>3. PagesOf(0) = PagesOf(0)' /\ \A q : PagesOf(q)' = PagesOf(q)
    BY DEF PagesOf
  <2> QED
    BY <2>2, <2>3 DEF HostInv, ProfilesKnown, RevokedShut, RemovedShut
<1> QED
  BY <1>4, <1>6, <1>7, <1>8 DEF HostInv

\* The deletion of an extension revokes its profile when no page is on its way
\* to open, closes those that were open, and removes the data only then.
LEMMA DeleteInv ==
  ASSUME HostInv, NEW d \in Deletions, DeleteStep(d)
  PROVE  HostInv'
<1>1. /\ HostTypeOK /\ ListedByInstalls /\ GitOver /\ ProfilesKnown /\ RevokedShut /\ RemovedShut
      /\ Cardinality(Installs) \in Nat
      /\ xhHost.listed \in 0 .. Cardinality(Installs)
      /\ xhDelete[d].profile \in ProfileOrNone /\ xhDelete[d].pages \in SUBSET Runtimes
      /\ xhHost \in [listed : 0..Cardinality(Installs), record : BOOLEAN, folder : BOOLEAN,
                     closed : BOOLEAN, storage : BOOLEAN]
      /\ xhDelete \in [Deletions -> DeletionRecords]
  BY FS_CardinalityType, HostAssumption DEF HostInv, HostTypeOK, ProfileOrNone, DeletionRecords, DeletionPlaces
<1> DEFINE RestsBut(at) == Goes(d, at) /\ UNCHANGED <<xhInstall, xhCurrent, xhProfile, xhRuntime, xhData, xhHost>>
<1>2. \A at \in {"folder", "unlisting", "deleting", "returned"} : RestsBut(at) => HostInv'
  BY <1>1, DeletionGoes
<1>3. CASE RemovalBegins(d)
  <2>1. CASE xhHost.listed = 0
    BY <1>2, <1>3, <2>1 DEF RemovalBegins
  <2>2. CASE xhHost.listed # 0
    <3>1. PICK p \in Profiles :
            /\ xhCurrent' = p
            /\ xhProfile' = [xhProfile EXCEPT ![p].made = TRUE]
            /\ xhDelete' = [xhDelete EXCEPT ![d].at = "revoking", ![d].profile = p]
      BY <1>3, <2>2 DEF RemovalBegins, ProfileFor
    <3>2. UNCHANGED <<xhHost, xhInstall, xhRuntime, xhData>> /\ xhDelete[d].at = "idle"
      BY <1>3 DEF RemovalBegins
    <3> DEFINE e == [xhDelete[d] EXCEPT !.at = "revoking", !.profile = p]
    <3>3. e \in DeletionRecords /\ e.at = "revoking" /\ e.profile = p /\ xhDelete' = [xhDelete EXCEPT ![d] = e]
      BY <1>1, <3>1 DEF DeletionRecords, DeletionPlaces, ProfileOrNone
    <3> HIDE DEF e
    <3>4. /\ xhDelete' \in [Deletions -> DeletionRecords]
          /\ xhDelete'[d].at = "revoking" /\ xhDelete'[d].profile = p
          /\ \A f \in Deletions : f # d => xhDelete'[f] = xhDelete[f]
      BY <1>1, <3>3, DeletionMoves
    <3>5. /\ xhProfile' \in [Profiles -> [made : BOOLEAN, revoked : BOOLEAN, removed : BOOLEAN]]
          /\ \A q \in Profiles : xhProfile'[q].revoked = xhProfile[q].revoked /\ xhProfile'[q].removed = xhProfile[q].removed
      <4>1. xhProfile \in [Profiles -> [made : BOOLEAN, revoked : BOOLEAN, removed : BOOLEAN]]
        BY <1>1 DEF HostTypeOK
      <4> QED
        BY ONLY <4>1, <3>1
    <3>6. HostTypeOK'
      BY <1>1, <3>1, <3>2, <3>4, <3>5 DEF HostTypeOK, DeletionRecords, DeletionPlaces, ProfileOrNone
    <3>7. ListedByInstalls' /\ GitOver'
      BY <3>2, HostRests
    <3>8. \A q : PagesOf(q)' = PagesOf(q)
      BY <3>2 DEF PagesOf
    <3>9. ProfilesKnown'
      BY <1>1, <3>2, <3>4 DEF ProfilesKnown
    <3>10. RevokedShut'
      <4>1. \A f \in Deletions : xhDelete'[f].at \in Removing => f # d /\ xhDelete'[f] = xhDelete[f] /\ xhDelete[f].profile \in Profiles
        BY <1>1, <3>4 DEF Removing, ProfilesKnown
      <4> QED
        BY <1>1, <3>2, <3>5, <3>8, <4>1 DEF RevokedShut
    <3>11. RemovedShut'
      BY <1>1, <3>2, <3>5, <3>8 DEF RemovedShut
    <3> QED
      BY <3>6, <3>7, <3>9, <3>10, <3>11 DEF HostInv
  <2> QED
    BY <2>1, <2>2
<1>4. CASE RevokeProfile(d)
  <2> DEFINE p == xhDelete[d].profile
             open == PagesOf(p)
  <2>1. /\ xhDelete[d].at = "revoking" /\ p \in Profiles /\ ProfileMuFree(p) /\ DeleteMuFree(p)
        /\ UNCHANGED <<xhHost, xhInstall, xhCurrent, xhRuntime, xhData>>
        /\ xhProfile' = [xhProfile EXCEPT ![p].revoked = TRUE]
        /\ xhDelete' = [xhDelete EXCEPT ![d].at = "closing", ![d].pages = open]
        /\ open \in SUBSET Runtimes
    BY <1>1, <1>4 DEF RevokeProfile, ProfilesKnown, PagesOf
  <2>2. /\ xhDelete' \in [Deletions -> DeletionRecords]
        /\ xhDelete'[d].at = "closing" /\ xhDelete'[d].profile = p /\ xhDelete'[d].pages = open
        /\ \A f \in Deletions : f # d => xhDelete'[f] = xhDelete[f]
    <3> DEFINE e == [xhDelete[d] EXCEPT !.at = "closing", !.pages = open]
    <3> HIDE DEF open
    <3>1. /\ e \in DeletionRecords /\ e.at = "closing" /\ e.profile = p /\ e.pages = open
          /\ xhDelete' = [xhDelete EXCEPT ![d] = e]
      BY <1>1, <2>1 DEF DeletionRecords, DeletionPlaces, Removing
    <3> HIDE DEF e
    <3> QED
      BY <1>1, <3>1, DeletionMoves
  <2>3. /\ xhProfile' \in [Profiles -> [made : BOOLEAN, revoked : BOOLEAN, removed : BOOLEAN]]
        /\ xhProfile'[p].revoked
        /\ \A q \in Profiles : /\ xhProfile'[q].removed = xhProfile[q].removed
                               /\ q # p => xhProfile'[q] = xhProfile[q]
    <3>1. xhProfile \in [Profiles -> [made : BOOLEAN, revoked : BOOLEAN, removed : BOOLEAN]]
      BY <1>1 DEF HostTypeOK
    <3> HIDE DEF p, open
    <3> QED
      BY ONLY <3>1, <2>1
  <2>4. HostTypeOK'
    BY <1>1, <2>1, <2>2, <2>3 DEF HostTypeOK, DeletionRecords, DeletionPlaces, ProfileOrNone
  <2>5. ListedByInstalls' /\ GitOver'
    BY <2>1, HostRests
  <2>6. \A q : PagesOf(q)' = PagesOf(q)
    BY <2>1 DEF PagesOf
  <2>7. ProfilesKnown'
    BY <1>1, <2>1, <2>2 DEF ProfilesKnown
  <2>8. RevokedShut'
    <3>1. \A q \in Profiles : \A r \in Runtimes :
            xhProfile'[q].revoked /\ xhRuntime'[r].profile = q => xhRuntime'[r].page # "opening"
      BY <1>1, <2>1, <2>3 DEF RevokedShut, ProfileMuFree
    <3>2. \A f \in Deletions : xhDelete'[f].at \in Removing =>
            /\ xhProfile'[xhDelete'[f].profile].revoked
            /\ PagesOf(xhDelete'[f].profile) \subseteq
                 IF xhDelete'[f].at = "closing" THEN xhDelete'[f].pages ELSE {}
      <4>1. xhProfile'[xhDelete'[d].profile].revoked /\ PagesOf(xhDelete'[d].profile) \subseteq xhDelete'[d].pages
            /\ xhDelete'[d].at = "closing"
        BY <2>2, <2>3
      <4>2. \A f \in Deletions : f # d /\ xhDelete[f].at \in Removing =>
              /\ xhProfile'[xhDelete[f].profile].revoked
              /\ PagesOf(xhDelete[f].profile) \subseteq IF xhDelete[f].at = "closing" THEN xhDelete[f].pages ELSE {}
        <5> HIDE DEF p, open
        <5> QED
          BY <1>1, <2>3 DEF RevokedShut, ProfilesKnown
      <4> QED
        BY <4>1, <4>2, <2>2
    <3> QED
      BY <3>1, <3>2, <2>6 DEF RevokedShut
  <2>9. RemovedShut'
    BY <1>1, <2>1, <2>3, <2>6 DEF RemovedShut
  <2> QED
    BY <2>4, <2>5, <2>7, <2>8, <2>9 DEF HostInv
<1>5. CASE RemoveFolder(d)
  <2>1. PICK at \in {"unlisting", "returned"} : Goes(d, at)
    BY <1>5 DEF RemoveFolder
  <2>2. /\ xhHost' \in [listed : 0..Cardinality(Installs), record : BOOLEAN, folder : BOOLEAN,
                        closed : BOOLEAN, storage : BOOLEAN]
        /\ xhHost'.listed = xhHost.listed /\ xhHost'.closed = xhHost.closed /\ xhHost'.storage = xhHost.storage
    <3>1. xhHost' = xhHost \/ xhHost' = [xhHost EXCEPT !.folder = FALSE]
      BY <1>5 DEF RemoveFolder
    <3> QED
      BY ONLY <1>1, <3>1
  <2>3. UNCHANGED <<xhInstall, xhCurrent, xhProfile, xhRuntime, xhData>>
    BY <1>5 DEF RemoveFolder, profileVars
  <2> QED
    BY <1>1, <2>1, <2>2, <2>3, DeletionGoes
<1>6. CASE Unlist(d)
  BY <1>1, <1>6, DeletionGoes DEF Unlist, profileVars
<1>7. CASE DeleteRecord(d)
  <2>1. /\ xhHost' \in [listed : 0..Cardinality(Installs), record : BOOLEAN, folder : BOOLEAN,
                        closed : BOOLEAN, storage : BOOLEAN]
        /\ xhHost'.listed = xhHost.listed /\ xhHost'.closed = xhHost.closed /\ xhHost'.storage = xhHost.storage
    <3>1. xhHost' = xhHost \/ xhHost' = [xhHost EXCEPT !.record = FALSE]
      BY <1>7 DEF DeleteRecord
    <3> QED
      BY ONLY <1>1, <3>1
  <2>2. Goes(d, "returned") /\ UNCHANGED <<xhInstall, xhCurrent, xhProfile, xhRuntime, xhData>>
    BY <1>7 DEF DeleteRecord, profileVars
  <2> QED
    BY <1>1, <2>1, <2>2, DeletionGoes
<1>8. CASE ClosePageOf(d)
  <2>1. /\ xhDelete[d].at = "closing" /\ UNCHANGED <<xhHost, xhInstall, xhCurrent, xhProfile, xhData>>
        /\ xhDelete[d].profile \in Profiles
    BY <1>1, <1>8 DEF ClosePageOf, ProfilesKnown, Removing
  <2>2. ListedByInstalls' /\ GitOver'
    BY <2>1, HostRests
  <2>3. CASE Goes(d, "returned") /\ UNCHANGED xhRuntime
    BY <1>2, <2>1, <2>3
  <2>4. CASE xhDelete[d].pages = {} /\ Goes(d, "removing") /\ UNCHANGED xhRuntime
    <3> DEFINE e == [xhDelete[d] EXCEPT !.at = "removing"]
    <3>1. /\ e \in DeletionRecords /\ e.at = "removing" /\ e.profile = xhDelete[d].profile
          /\ xhDelete' = [xhDelete EXCEPT ![d] = e]
      BY <1>1, <2>4 DEF DeletionRecords, DeletionPlaces, Removing, Goes
    <3> HIDE DEF e
    <3>2. /\ xhDelete' \in [Deletions -> DeletionRecords]
          /\ xhDelete'[d].at = "removing" /\ xhDelete'[d].profile = xhDelete[d].profile
          /\ \A f \in Deletions : f # d => xhDelete'[f] = xhDelete[f]
      BY <1>1, <3>1, DeletionMoves
    <3>3. HostTypeOK'
      BY <1>1, <2>1, <2>4, <3>2 DEF HostTypeOK, DeletionRecords, DeletionPlaces, ProfileOrNone
    <3>4. \A q : PagesOf(q)' = PagesOf(q)
      BY <2>4 DEF PagesOf
    <3>5. ProfilesKnown'
      BY <1>1, <2>1, <2>4, <3>2 DEF ProfilesKnown
    <3>6. RevokedShut'
      <4>1. /\ xhProfile'[xhDelete'[d].profile].revoked /\ PagesOf(xhDelete'[d].profile) = {}
            /\ xhDelete'[d].at # "closing"
        BY <1>1, <2>1, <2>4, <3>2 DEF RevokedShut, Removing
      <4> QED
        BY <1>1, <2>1, <2>4, <3>2, <3>4, <4>1 DEF RevokedShut
    <3>7. RemovedShut'
      BY <1>1, <2>1, <3>4 DEF RemovedShut
    <3> QED
      BY <2>2, <3>3, <3>5, <3>6, <3>7 DEF HostInv
  <2>5. ASSUME NEW r \in xhDelete[d].pages,
               xhDelete' = [xhDelete EXCEPT ![d].pages = @ \ {r}],
               xhRuntime' = [xhRuntime EXCEPT ![r].page = "closed"]
        PROVE  HostInv'
    <3> DEFINE left == xhDelete[d].pages \ {r}
               e == [xhDelete[d] EXCEPT !.pages = left]
    <3>1. r \in Runtimes /\ left \in SUBSET Runtimes
      BY <1>1
    <3>2. /\ e \in DeletionRecords /\ e.at = "closing" /\ e.profile = xhDelete[d].profile /\ e.pages = left
          /\ xhDelete' = [xhDelete EXCEPT ![d] = e]
      BY <1>1, <2>1, <2>5, <3>1 DEF DeletionRecords
    <3> HIDE DEF e
    <3>3. /\ xhDelete' \in [Deletions -> DeletionRecords]
          /\ xhDelete'[d].at = "closing" /\ xhDelete'[d].profile = xhDelete[d].profile /\ xhDelete'[d].pages = left
          /\ \A f \in Deletions : f # d => xhDelete'[f] = xhDelete[f]
      BY <1>1, <3>2, DeletionMoves
    <3>4. /\ xhRuntime' \in [Runtimes -> [profile : {0} \cup Profiles, page : {"none", "chosen", "opening", "open", "closed"}]]
          /\ xhRuntime'[r].page = "closed"
          /\ \A u \in Runtimes : u # r => xhRuntime'[u] = xhRuntime[u]
      <4>1. xhRuntime \in [Runtimes -> [profile : {0} \cup Profiles, page : {"none", "chosen", "opening", "open", "closed"}]]
        BY <1>1 DEF HostTypeOK
      <4> QED
        BY ONLY <4>1, <3>1, <2>5
    <3>5. HostTypeOK'
      BY <1>1, <2>1, <3>3, <3>4 DEF HostTypeOK, DeletionRecords, DeletionPlaces, ProfileOrNone
    <3>6. \A q : PagesOf(q)' \subseteq PagesOf(q) \ {r}
      BY <3>4 DEF PagesOf
    <3>7. ProfilesKnown'
      BY <1>1, <2>1, <3>3, <3>4 DEF ProfilesKnown
    <3>8. RevokedShut'
      <4>1. \A q \in Profiles : \A u \in Runtimes :
              xhProfile'[q].revoked /\ xhRuntime'[u].profile = q => xhRuntime'[u].page # "opening"
        BY <1>1, <2>1, <3>4 DEF RevokedShut
      <4>2. /\ xhProfile'[xhDelete'[d].profile].revoked
            /\ PagesOf(xhDelete[d].profile)' \subseteq xhDelete'[d].pages /\ xhDelete'[d].at = "closing"
        <5>1. xhProfile[xhDelete[d].profile].revoked /\ PagesOf(xhDelete[d].profile) \subseteq xhDelete[d].pages
          BY <1>1, <2>1 DEF RevokedShut, Removing
        <5>2. \A u \in Runtimes : xhRuntime'[u].profile = xhDelete[d].profile /\ xhRuntime'[u].page = "open" => u \in left
          BY <5>1, <3>4 DEF PagesOf
        <5> QED
          BY <5>1, <5>2, <2>1, <3>3 DEF PagesOf
      <4>3. \A f \in Deletions : f # d /\ xhDelete'[f].at \in Removing =>
              /\ xhProfile'[xhDelete'[f].profile].revoked
              /\ PagesOf(xhDelete[f].profile)' \subseteq IF xhDelete'[f].at = "closing" THEN xhDelete'[f].pages ELSE {}
        <5> SUFFICES ASSUME NEW f \in Deletions, f # d, xhDelete'[f].at \in Removing
                     PROVE  /\ xhProfile'[xhDelete'[f].profile].revoked
                            /\ PagesOf(xhDelete[f].profile)' \subseteq IF xhDelete'[f].at = "closing" THEN xhDelete'[f].pages ELSE {}
          OBVIOUS
        <5>1. /\ xhDelete'[f] = xhDelete[f] /\ xhProfile[xhDelete[f].profile].revoked
              /\ PagesOf(xhDelete[f].profile) \subseteq IF xhDelete[f].at = "closing" THEN xhDelete[f].pages ELSE {}
          BY <1>1, <3>3 DEF RevokedShut
        <5>2. \A u \in Runtimes : xhRuntime'[u].profile = xhDelete[f].profile /\ xhRuntime'[u].page = "open"
                => u \in PagesOf(xhDelete[f].profile)
          BY <3>4 DEF PagesOf
        <5> QED
          BY <5>1, <5>2, <2>1 DEF PagesOf
      <4> QED
        BY <4>1, <4>2, <4>3 DEF RevokedShut
    <3>9. RemovedShut'
      BY <1>1, <2>1, <3>6 DEF RemovedShut
    <3> QED
      BY <2>2, <3>5, <3>7, <3>8, <3>9 DEF HostInv
  <2> QED
    BY <1>8, <2>3, <2>4, <2>5 DEF ClosePageOf
<1>9. CASE RemoveData(d)
  <2> DEFINE p == xhDelete[d].profile
  <2>1. /\ xhDelete[d].at = "removing" /\ UNCHANGED <<xhHost, xhInstall, xhCurrent, xhRuntime>>
        /\ p \in Profiles /\ xhProfile[p].revoked /\ PagesOf(p) = {}
    BY <1>1, <1>9 DEF RemoveData, ProfilesKnown, RevokedShut, Removing
  <2>2. CASE Goes(d, "returned") /\ UNCHANGED <<xhData, xhProfile>>
    BY <1>2, <2>1, <2>2
  <2>3. CASE xhData' = {} /\ xhProfile' = [xhProfile EXCEPT ![p].removed = TRUE] /\ Goes(d, "folder")
    <3> DEFINE e == [xhDelete[d] EXCEPT !.at = "folder"]
    <3>1. /\ e \in DeletionRecords /\ e.at = "folder" /\ xhDelete' = [xhDelete EXCEPT ![d] = e]
      BY <1>1, <2>3 DEF DeletionRecords, DeletionPlaces, Goes
    <3> HIDE DEF e
    <3>2. /\ xhDelete' \in [Deletions -> DeletionRecords] /\ xhDelete'[d].at = "folder"
          /\ \A f \in Deletions : f # d => xhDelete'[f] = xhDelete[f]
      BY <1>1, <3>1, DeletionMoves
    <3>3. /\ xhProfile' \in [Profiles -> [made : BOOLEAN, revoked : BOOLEAN, removed : BOOLEAN]]
          /\ \A q \in Profiles : /\ xhProfile'[q].revoked = xhProfile[q].revoked
                                 /\ q # p => xhProfile'[q].removed = xhProfile[q].removed
      <4>1. xhProfile \in [Profiles -> [made : BOOLEAN, revoked : BOOLEAN, removed : BOOLEAN]]
        BY <1>1 DEF HostTypeOK
      <4> HIDE DEF p
      <4> QED
        BY ONLY <4>1, <2>1, <2>3
    <3>4. HostTypeOK'
      BY <1>1, <2>1, <2>3, <3>2, <3>3 DEF HostTypeOK, DeletionRecords, DeletionPlaces, ProfileOrNone
    <3>5. ListedByInstalls' /\ GitOver'
      BY <2>1, HostRests
    <3>6. \A q : PagesOf(q)' = PagesOf(q)
      BY <2>1 DEF PagesOf
    <3>7. ProfilesKnown'
      BY <1>1, <2>1, <3>2 DEF ProfilesKnown, Removing
    <3>8. RevokedShut'
      <4>1. \A f \in Deletions : xhDelete'[f].at \in Removing => f # d /\ xhDelete'[f] = xhDelete[f] /\ xhDelete[f].profile \in Profiles
        BY <1>1, <3>2 DEF Removing, ProfilesKnown
      <4> QED
        BY <1>1, <2>1, <3>3, <3>6, <4>1 DEF RevokedShut
    <3>9. RemovedShut'
      BY <1>1, <2>1, <2>3, <3>3, <3>6 DEF RemovedShut
    <3> QED
      BY <3>4, <3>5, <3>7, <3>8, <3>9 DEF HostInv
  <2> QED
    BY <1>9, <2>2, <2>3 DEF RemoveData
<1> QED
  BY <1>3, <1>4, <1>5, <1>6, <1>7, <1>8, <1>9 DEF DeleteStep

\* A page opens on a profile that is not revoked only, and writes while it is open.
LEMMA RuntimeInv ==
  ASSUME HostInv, NEW r \in Runtimes, RuntimeStep(r)
  PROVE  HostInv'
<1> DEFINE Pages == {"none", "chosen", "opening", "open", "closed"}
           P == {0} \cup Profiles
           Runs == [profile : P, page : Pages]
<1>1. /\ HostTypeOK /\ ListedByInstalls /\ GitOver /\ ProfilesKnown /\ RevokedShut /\ RemovedShut
      /\ xhRuntime \in [Runtimes -> Runs] /\ r \in Runtimes
      /\ xhProfile \in [Profiles -> [made : BOOLEAN, revoked : BOOLEAN, removed : BOOLEAN]]
  BY DEF HostInv, HostTypeOK
<1>2. UNCHANGED <<xhHost, xhInstall, xhDelete>>
  BY DEF RuntimeStep, ChooseScript, NewRuntime, OpenPage, PageOpens, PageWrites, PageCloses
<1>3. ListedByInstalls' /\ GitOver'
  BY <1>2, HostRests
<1>4. ASSUME NEW e \in Runs, xhRuntime' = [xhRuntime EXCEPT ![r] = e],
             e.page \in {"opening", "open"} => e.profile \in Profiles,
             xhCurrent' \in P,
             xhProfile' \in [Profiles -> [made : BOOLEAN, revoked : BOOLEAN, removed : BOOLEAN]],
             \A p \in Profiles : xhProfile'[p].revoked = xhProfile[p].revoked /\ xhProfile'[p].removed = xhProfile[p].removed,
             xhData' \subseteq Profiles,
             \A p \in xhData' \ xhData : ~xhProfile[p].removed,
             e.page = "opening" => ~xhProfile[e.profile].revoked,
             e.page = "open" => /\ ~xhProfile[e.profile].revoked \/ r \in PagesOf(e.profile)
      PROVE  HostInv'
  <2>1. /\ xhRuntime' \in [Runtimes -> Runs] /\ xhRuntime'[r] = e
        /\ \A u \in Runtimes : u # r => xhRuntime'[u] = xhRuntime[u]
    <3> HIDE DEF Runs
    <3> QED
      BY <1>1, <1>4
  <2>2. HostTypeOK'
    BY <1>1, <1>2, <1>4, <2>1 DEF HostTypeOK
  <2>3. ProfilesKnown'
    BY <1>1, <1>2, <1>4, <2>1 DEF ProfilesKnown
  <2>4. ASSUME NEW p \in Profiles, xhProfile[p].revoked
        PROVE  PagesOf(p)' \subseteq PagesOf(p) /\ \A u \in Runtimes : xhRuntime'[u].profile = p => xhRuntime'[u].page # "opening"
    <3>1. ASSUME NEW u \in Runtimes, xhRuntime'[u].profile = p
          PROVE  /\ xhRuntime'[u].page # "opening" /\ (xhRuntime'[u].page = "open" => u \in PagesOf(p))
      <4>1. CASE u = r
        BY <1>4, <2>1, <2>4, <3>1, <4>1
      <4>2. CASE u # r
        BY <1>1, <2>1, <2>4, <3>1, <4>2 DEF RevokedShut, PagesOf
      <4> QED
        BY <4>1, <4>2
    <3> QED
      BY <3>1 DEF PagesOf
  <2>5. RevokedShut'
    <3>1. \A p \in Profiles : \A u \in Runtimes :
            xhProfile'[p].revoked /\ xhRuntime'[u].profile = p => xhRuntime'[u].page # "opening"
      BY <1>4, <2>4
    <3>2. ASSUME NEW d \in Deletions, xhDelete[d].at \in Removing
          PROVE  /\ xhProfile'[xhDelete[d].profile].revoked
                 /\ PagesOf(xhDelete[d].profile)' \subseteq IF xhDelete[d].at = "closing" THEN xhDelete[d].pages ELSE {}
      <4> DEFINE p == xhDelete[d].profile
      <4>1. p \in Profiles /\ xhProfile[p].revoked
            /\ PagesOf(p) \subseteq IF xhDelete[d].at = "closing" THEN xhDelete[d].pages ELSE {}
        BY <1>1, <3>2 DEF ProfilesKnown, RevokedShut
      <4>2. {u \in Runtimes : xhRuntime'[u].profile = p /\ xhRuntime'[u].page = "open"} \subseteq PagesOf(p)
        <5> HIDE DEF p
        <5> QED
          BY <2>4, <4>1 DEF PagesOf
      <4>3. xhProfile'[p].revoked
        BY <4>1, <1>4
      <4> QED
        BY <4>1, <4>2, <4>3, <1>2 DEF PagesOf
    <3> QED
      BY <1>2, <3>1, <3>2 DEF RevokedShut
  <2>6. RemovedShut'
    <3>1. ASSUME NEW p \in Profiles, xhProfile'[p].removed
          PROVE  xhProfile'[p].revoked /\ PagesOf(p)' = {} /\ p \notin xhData'
      <4>1. xhProfile[p].removed /\ xhProfile[p].revoked /\ PagesOf(p) = {} /\ p \notin xhData
        BY <1>1, <1>4, <3>1 DEF RemovedShut
      <4> QED
        BY <4>1, <1>4, <2>4
    <3> QED
      BY <3>1 DEF RemovedShut
  <2> QED
    BY <1>3, <2>2, <2>3, <2>5, <2>6 DEF HostInv
<1>5. xhRuntime[r] \in Runs /\ xhRuntime[r].profile \in P /\ xhRuntime[r].page \in Pages
  BY <1>1
<1>6. xhCurrent \in P /\ xhData \subseteq Profiles
  BY <1>1 DEF HostTypeOK
<1>7. \A page \in {"chosen", "closed"} :
        /\ [xhRuntime[r] EXCEPT !.page = page] \in Runs /\ [xhRuntime[r] EXCEPT !.page = page].page = page
  <2> HIDE DEF P
  <2> QED
    BY <1>5
<1>8. CASE ChooseScript(r)
  <2> DEFINE e == [xhRuntime[r] EXCEPT !.page = "chosen"]
  <2>1. e \in Runs /\ e.page = "chosen" /\ xhRuntime' = [xhRuntime EXCEPT ![r] = e]
        /\ UNCHANGED <<xhCurrent, xhProfile, xhData>>
    BY <1>1, <1>7, <1>8 DEF ChooseScript
  <2> HIDE DEF e
  <2> QED
    BY <1>1, <1>4, <1>6, <2>1
<1>9. CASE NewRuntime(r)
  <2>1. CASE xhRuntime' = [xhRuntime EXCEPT ![r].page = "closed"] /\ UNCHANGED <<xhCurrent, xhProfile>>
    <3> DEFINE e == [xhRuntime[r] EXCEPT !.page = "closed"]
    <3>1. e \in Runs /\ e.page = "closed" /\ xhRuntime' = [xhRuntime EXCEPT ![r] = e] /\ UNCHANGED xhData
      BY <1>1, <1>7, <1>9, <2>1 DEF NewRuntime
    <3> HIDE DEF e
    <3> QED
      BY <1>1, <1>4, <1>6, <2>1, <3>1
  <2>2. ASSUME NEW p \in Profiles, xhCurrent' = p, xhProfile' = [xhProfile EXCEPT ![p].made = TRUE],
               xhRuntime' = [xhRuntime EXCEPT ![r] = [profile |-> p, page |-> "none"]]
        PROVE  HostInv'
    <3> DEFINE e == [profile |-> p, page |-> "none"]
    <3>1. e \in Runs /\ e.page = "none" /\ xhRuntime' = [xhRuntime EXCEPT ![r] = e] /\ UNCHANGED xhData
      BY <1>9, <2>2 DEF NewRuntime
    <3>2. /\ xhProfile' \in [Profiles -> [made : BOOLEAN, revoked : BOOLEAN, removed : BOOLEAN]]
          /\ \A q \in Profiles : xhProfile'[q].revoked = xhProfile[q].revoked /\ xhProfile'[q].removed = xhProfile[q].removed
      BY <1>1, <2>2
    <3>3. xhCurrent' \in P
      BY <2>2
    <3> HIDE DEF e
    <3> QED
      BY <1>4, <1>6, <3>1, <3>2, <3>3
  <2> QED
    BY <1>9, <2>1, <2>2 DEF NewRuntime, ProfileFor
<1>10. CASE OpenPage(r)
  <2> DEFINE e == [xhRuntime[r] EXCEPT !.page = "opening"]
  <2>1. /\ e \in Runs /\ e.page = "opening" /\ e.profile = xhRuntime[r].profile
        /\ xhRuntime' = [xhRuntime EXCEPT ![r] = e] /\ UNCHANGED <<xhCurrent, xhProfile, xhData>>
    <3> HIDE DEF P
    <3> QED
      BY <1>1, <1>5, <1>10 DEF OpenPage
  <2>2. xhRuntime[r].profile \in Profiles /\ ~xhProfile[xhRuntime[r].profile].revoked
    BY <1>5, <1>10 DEF OpenPage, MayOpen
  <2> HIDE DEF e
  <2> QED
    BY <1>1, <1>4, <1>6, <2>1, <2>2
<1>11. CASE PageOpens(r)
  <2>1. /\ xhRuntime[r].profile \in Profiles /\ ~xhProfile[xhRuntime[r].profile].revoked
        /\ ~xhProfile[xhRuntime[r].profile].removed
        /\ UNCHANGED <<xhCurrent, xhProfile>> /\ xhData' = xhData \cup {xhRuntime[r].profile}
    BY <1>1, <1>11 DEF PageOpens, ProfilesKnown, RevokedShut, RemovedShut
  <2>2. PICK page \in {"open", "closed"} : xhRuntime' = [xhRuntime EXCEPT ![r].page = page]
    BY <1>11 DEF PageOpens
  <2> DEFINE e == [xhRuntime[r] EXCEPT !.page = page]
  <2>3. /\ e \in Runs /\ e.page = page /\ e.profile = xhRuntime[r].profile
        /\ xhRuntime' = [xhRuntime EXCEPT ![r] = e]
    <3> HIDE DEF P
    <3> QED
      BY <1>1, <1>5, <2>2
  <2> HIDE DEF e
  <2> QED
    BY <1>1, <1>4, <1>6, <2>1, <2>2, <2>3
<1>12. CASE PageWrites(r)
  <2>1. /\ xhRuntime[r].profile \in Profiles /\ r \in PagesOf(xhRuntime[r].profile)
        /\ ~xhProfile[xhRuntime[r].profile].removed
        /\ UNCHANGED <<xhCurrent, xhProfile>> /\ xhData' = xhData \cup {xhRuntime[r].profile}
        /\ xhRuntime' = [xhRuntime EXCEPT ![r] = xhRuntime[r]]
        /\ xhRuntime[r].page = "open"
    BY <1>1, <1>12 DEF PageWrites, ProfilesKnown, RemovedShut, PagesOf
  <2>2. PICK e \in Runs : e = xhRuntime[r]
    BY <1>5
  <2> QED
    BY <1>1, <1>4, <1>6, <2>1, <2>2
<1>13. CASE PageCloses(r)
  <2> DEFINE e == [xhRuntime[r] EXCEPT !.page = "closed"]
  <2>1. e \in Runs /\ e.page = "closed" /\ xhRuntime' = [xhRuntime EXCEPT ![r] = e]
        /\ UNCHANGED <<xhCurrent, xhProfile, xhData>>
    BY <1>1, <1>7, <1>13 DEF PageCloses
  <2> HIDE DEF e
  <2> QED
    BY <1>1, <1>4, <1>6, <2>1
<1> QED
  BY <1>8, <1>9, <1>10, <1>11, <1>12, <1>13 DEF RuntimeStep

\* Every step of the host keeps the invariant.
LEMMA HostNextInv == HostInv /\ [HostNext]_hostVars => HostInv'
<1> SUFFICES ASSUME HostInv, [HostNext]_hostVars PROVE HostInv'
  OBVIOUS
<1>1. ASSUME NEW i \in Installs, InstallStep(i) PROVE HostInv'
  BY <1>1, InstallInv
<1>2. ASSUME NEW d \in Deletions, DeleteStep(d) PROVE HostInv'
  BY <1>2, DeleteInv
<1>3. ASSUME NEW r \in Runtimes, RuntimeStep(r) PROVE HostInv'
  BY <1>3, RuntimeInv
<1>4. ASSUME UNCHANGED <<xhInstall, xhDelete, profileVars>>,
             xhHost' \in [listed : 0..Cardinality(Installs), record : BOOLEAN, folder : BOOLEAN,
                          closed : BOOLEAN, storage : BOOLEAN],
             xhHost'.listed = xhHost.listed, GitOver'
      PROVE  HostInv'
  <2>1. HostTypeOK' /\ ListedByInstalls'
    BY <1>4 DEF HostInv, HostTypeOK, ListedByInstalls, PastListing, profileVars
  <2>2. ProfilesKnown' /\ RevokedShut' /\ RemovedShut'
    BY <1>4 DEF HostInv, ProfilesKnown, RevokedShut, RemovedShut, PagesOf, profileVars
  <2> QED
    BY <1>4, <2>1, <2>2 DEF HostInv
<1>5. /\ HostTypeOK /\ GitOver
      /\ xhHost \in [listed : 0..Cardinality(Installs), record : BOOLEAN, folder : BOOLEAN,
                     closed : BOOLEAN, storage : BOOLEAN]
  BY DEF HostInv, HostTypeOK
<1>6. CASE HostCloseBegins
  <2>1. /\ xhHost' \in [listed : 0..Cardinality(Installs), record : BOOLEAN, folder : BOOLEAN,
                        closed : BOOLEAN, storage : BOOLEAN]
        /\ xhHost'.listed = xhHost.listed /\ xhHost'.closed /\ xhHost'.storage = xhHost.storage
    BY <1>5, <1>6 DEF HostCloseBegins
  <2> QED
    BY <1>4, <1>5, <1>6, <2>1 DEF HostCloseBegins, GitOver, GitOverBeforeStorage
<1>7. CASE CloseStorage
  <2>1. /\ xhHost' \in [listed : 0..Cardinality(Installs), record : BOOLEAN, folder : BOOLEAN,
                        closed : BOOLEAN, storage : BOOLEAN]
        /\ xhHost'.listed = xhHost.listed /\ xhHost'.closed
    BY <1>5, <1>7 DEF CloseStorage
  <2> QED
    BY <1>4, <1>5, <1>7, <2>1 DEF CloseStorage, GitOver, GitOverBeforeStorage
<1>8. CASE UNCHANGED hostVars
  BY <1>4, <1>5, <1>8 DEF hostVars, GitOver, GitOverBeforeStorage, profileVars
<1> QED
  BY <1>1, <1>2, <1>3, <1>6, <1>7, <1>8 DEF HostNext

\* The invariant of the host holds: extensions are listed once per installation
\* at most, profiles are revoked before their pages are closed and the data is
\* removed after that.
THEOREM HostInvariant == HostSpec => []HostInv
  BY HostInitInv, HostNextInv, PTL DEF HostSpec

\* The variables of the host have their types.
THEOREM HostTypeCorrect == HostSpec => []HostTypeOK
  BY HostInvariant, PTL DEF HostInv

\* What the deletion of an extension removed is never written again by a page
\* (extensionWebViewProfile, DeleteExtension).
THEOREM RemovedDataGone == HostSpec => []RemovedDataStaysGone
<1>1. HostInv => RemovedDataStaysGone
  BY DEF HostInv, HostTypeOK, RemovedShut, RemovedDataStaysGone
<1> QED
  BY <1>1, HostInvariant, PTL

\* The storage closes after the last git operation (waitForExtensionGit).
THEOREM GitEndsFirst == HostSpec => []GitOverBeforeStorage
<1>1. HostInv => GitOverBeforeStorage
  BY DEF HostInv, GitOver
<1> QED
  BY <1>1, HostInvariant, PTL

-----------------------------------------------------------------------------
(* TaskTargets: the invariant *)

\* What a prepared task that was not left without a file has at its target: its
\* file, or the lock under which the name was chosen.
OwnFile ==
    \A t \in Targeting \ ptExposed :
        Prepared(t) /\ ptTask[t].at # "gone" => t \in ptFiles[ptTask[t].target] \cup ptLock

\* Who wrote into a file has it as its target.
WritersAtHome == \A f \in Targets : \A t \in ptFiles[f] : ptTask[t].target = f

\* A run that is past the preparation has a target.
RunsPrepared ==
    \A t \in Targeting : ptTask[t].at \in {"prepared", "ready", "running", "done"} => Prepared(t)

TargetsInv == TargetsTypeOK /\ OwnFile /\ WritersAtHome /\ RunsPrepared /\ TargetsApart

\* What a task is between two steps.
TaskPlaces == {"idle", "begun", "prepared", "ready", "running", "done", "gone"}
TaskRecords == [at : TaskPlaces, wanted : BOOLEAN, target : Targets \cup {NoTarget}]

\* The initial states satisfy the invariant.
LEMMA TargetsInitInv == TargetsInit => TargetsInv
<1> SUFFICES ASSUME TargetsInit PROVE TargetsInv
  OBVIOUS
<1>1. TargetsTypeOK
  <2>1. ptTask \in [Targeting -> [at : {"idle", "begun", "prepared", "ready", "running", "done", "gone"},
                                  wanted : BOOLEAN, target : Targets \cup {NoTarget}]]
    BY DEF TargetsInit
  <2>2. ptLock = {} /\ Cardinality(ptLock) = 0
    BY FS_EmptySet DEF TargetsInit
  <2> QED
    BY <2>1, <2>2 DEF TargetsInit, TargetsTypeOK, Dirs
<1>2. \A t \in Targeting : ptTask[t].target = NoTarget /\ ptTask[t].at = "idle"
  BY DEF TargetsInit
<1>3. \A f \in Targets : ptFiles[f] = {}
  BY DEF TargetsInit
<1> QED
  BY <1>1, <1>2, <1>3 DEF TargetsInv, OwnFile, WritersAtHome, RunsPrepared, TargetsApart, Prepared

\* The names of a directory do not run out: there is one more than tasks, and
\* every file has a task of its own at it.
LEMMA NameIsFree ==
  ASSUME TargetsTypeOK, WritersAtHome, NEW dir \in Dirs
  PROVE  FreeName(dir) \in Names /\ ~HasFile([dir |-> dir, name |-> FreeName(dir)])
<1> DEFINE Free == {n \in Names : ~HasFile([dir |-> dir, name |-> n])}
<1>1. Names \subseteq Nat /\ Cardinality(Targeting) \in Nat
  BY FS_CardinalityType, TargetsAssumption DEF Names
<1>2. Free # {}
  <2> SUFFICES ASSUME Free = {} PROVE FALSE
    OBVIOUS
  <2>1. \A n \in Names : \E t \in Targeting : ptTask[t].target = [dir |-> dir, name |-> n]
    <3> TAKE n \in Names
    <3> DEFINE f == [dir |-> dir, name |-> n]
    <3>1. f \in Targets /\ ptFiles[f] # {} /\ ptFiles[f] \subseteq Targeting
      BY DEF Targets, HasFile, TargetsTypeOK
    <3> QED
      BY <3>1 DEF WritersAtHome
  <2> DEFINE w == [n \in Names |-> CHOOSE t \in Targeting : ptTask[t].target = [dir |-> dir, name |-> n]]
  <2>2. \A n \in Names : w[n] \in Targeting /\ ptTask[w[n]].target = [dir |-> dir, name |-> n]
    BY <2>1
  <2>3. w \in [0 .. Cardinality(Targeting) -> Targeting]
    BY <2>2 DEF Names
  <2> HIDE DEF w
  <2>4. PICK x, y \in Names : x # y /\ w[x] = w[y]
    BY <2>3, OneMore, TargetsAssumption DEF Names
  <2>5. [dir |-> dir, name |-> x].name = [dir |-> dir, name |-> y].name
    BY <2>2, <2>4
  <2> QED
    BY <2>4, <2>5
<1>3. FreeName(dir) \in Free
  <2>1. PICK n \in Free : \A m \in Free : n <= m
    BY <1>1, <1>2, LeastOf
  <2> QED
    BY <2>1 DEF FreeName, Min
<1> QED
  BY <1>3

\* A step that changes neither targets nor files, and after which no one is
\* there again who was gone.
LEMMA TargetsRest ==
  ASSUME TargetsInv, ptTask' \in [Targeting -> TaskRecords],
         \A t \in Targeting : /\ ptTask'[t].target = ptTask[t].target
                              /\ ptTask'[t].at \in {"prepared", "ready", "running", "done"} => Prepared(t)
                              /\ ptTask[t].at = "gone" => ptTask'[t].at = "gone",
         UNCHANGED <<ptLock, ptFiles, ptExposed>>, ptAllowed' \subseteq Dirs
  PROVE  TargetsInv'
<1>1. TargetsTypeOK'
  BY DEF TargetsInv, TargetsTypeOK, TaskRecords, TaskPlaces
<1>2. OwnFile' /\ WritersAtHome' /\ RunsPrepared'
  BY DEF TargetsInv, TargetsTypeOK, OwnFile, WritersAtHome, RunsPrepared, Prepared
<1>3. TargetsApart'
  BY DEF TargetsInv, TargetsApart, Prepared
<1> QED
  BY <1>1, <1>2, <1>3 DEF TargetsInv

\* No other task that is there has this one's target.
Alone(t) ==
    \A u \in Targeting : u # t /\ ptTask[u].target = ptTask[t].target => ptTask[u].at = "gone"

\* A task is remembered no more only where it is alone.
LEMMA ShelterMeans ==
  ASSUME TargetsTypeOK, NEW t \in Targeting
  PROVE  /\ Sheltered(t) \subseteq ptExposed
         /\ \A u \in ptExposed : u \notin Sheltered(t) => u = t /\ Alone(t)
<1> DEFINE There == {u \in At(ptTask[t].target) : ptTask[u].at # "gone"}
<1>1. CASE There = {t}
  <2>1. Alone(t)
    BY <1>1 DEF Alone, At
  <2> QED
    BY <1>1, <2>1 DEF Sheltered
<1>2. CASE There # {t}
  BY <1>2 DEF Sheltered
<1> QED
  BY <1>1, <1>2

\* The tasks that lose their file at a target are remembered; of those that have it
\* now, one that is alone may be remembered no more.
Remembered(f, stay) ==
    /\ ptExposed' \subseteq Targeting
    /\ \A u \in Targeting \ ptExposed' : \/ u \notin ptExposed /\ (ptTask[u].target = f => u \in stay)
                                         \/ u \in stay /\ Alone(u)

\* The same where one file is emptied or given to one task, and the tasks that
\* it is taken from are remembered.
LEMMA FileGoes ==
  ASSUME TargetsInv, ptTask' \in [Targeting -> TaskRecords],
         \A t \in Targeting : /\ ptTask'[t].target = ptTask[t].target
                              /\ ptTask'[t].at \in {"prepared", "ready", "running", "done"} => Prepared(t)
                              /\ ptTask[t].at = "gone" => ptTask'[t].at = "gone",
         UNCHANGED <<ptLock, ptAllowed>>, NEW f \in Targets,
         NEW stay \in SUBSET Targeting, \A t \in stay : ptTask[t].target = f,
         ptFiles' = [ptFiles EXCEPT ![f] = stay], Remembered(f, stay)
  PROVE  TargetsInv'
<1>1. /\ ptFiles \in [Targets -> SUBSET Targeting] /\ ptFiles' \in [Targets -> SUBSET Targeting]
      /\ ptFiles'[f] = stay /\ \A g \in Targets : g # f => ptFiles'[g] = ptFiles[g]
  BY DEF TargetsInv, TargetsTypeOK
<1>2. TargetsTypeOK'
  BY <1>1 DEF TargetsInv, TargetsTypeOK, TaskRecords, TaskPlaces, Remembered
<1>3. WritersAtHome' /\ RunsPrepared'
  BY <1>1 DEF TargetsInv, WritersAtHome, RunsPrepared, Prepared
<1>4. OwnFile'
  <2> SUFFICES ASSUME NEW t \in Targeting, t \notin ptExposed', ptTask'[t].target # NoTarget, ptTask'[t].at # "gone"
               PROVE  t \in ptFiles'[ptTask'[t].target] \cup ptLock'
    BY DEF OwnFile, Prepared
  <2>1. ptTask[t].target = ptTask'[t].target /\ ptTask[t].at # "gone" /\ ptTask[t].target \in Targets
    BY DEF TargetsInv, TargetsTypeOK
  <2>2. CASE t \in stay
    BY <1>1, <2>1, <2>2
  <2>3. CASE t \notin stay
    <3>1. t \notin ptExposed /\ ptTask[t].target # f
      BY <2>3 DEF Remembered
    <3>2. t \in ptFiles[ptTask[t].target] \cup ptLock
      BY <2>1, <3>1 DEF TargetsInv, OwnFile, Prepared
    <3> QED
      BY <1>1, <2>1, <3>1, <3>2
  <2> QED
    BY <2>2, <2>3
<1>5. TargetsApart'
  <2> SUFFICES ASSUME NEW t \in Targeting, NEW u \in Targeting, t \notin ptExposed', u \notin ptExposed', t # u,
                      ptTask'[t].target # NoTarget, ptTask'[u].target # NoTarget,
                      ptTask'[t].at # "gone", ptTask'[u].at # "gone"
               PROVE  ptTask[t].target # ptTask[u].target
    BY DEF TargetsApart, Prepared
  <2>1. CASE Alone(t) \/ Alone(u)
    BY <2>1 DEF Alone
  <2>2. CASE t \notin ptExposed /\ u \notin ptExposed
    BY <2>2 DEF TargetsInv, TargetsApart, Prepared
  <2> QED
    BY <2>1, <2>2 DEF Remembered
<1> QED
  BY <1>2, <1>3, <1>4, <1>5 DEF TargetsInv

\* The first preparation: the name is one that no file has, chosen when no
\* other task is between its choice and its file.
LEMMA PrepareInv ==
  ASSUME TargetsInv, NEW t \in Targeting, Prepare(t)
  PROVE  TargetsInv'
<1>1. /\ TargetsTypeOK /\ ptTask \in [Targeting -> TaskRecords] /\ ~Prepared(t) /\ ptLock = {}
      /\ UNCHANGED <<ptFiles, ptAllowed, ptExposed>> /\ ptTask[t].at = "begun"
  BY DEF Prepare, TargetsInv, TargetsTypeOK, TaskRecords, TaskPlaces
<1>2. CASE Moves(t, "idle") /\ UNCHANGED ptLock
  <2> DEFINE e == [ptTask[t] EXCEPT !.at = "idle"]
  <2>1. e \in TaskRecords /\ e.at = "idle" /\ e.target = ptTask[t].target /\ ptTask' = [ptTask EXCEPT ![t] = e]
    BY <1>1, <1>2 DEF Moves, TaskRecords, TaskPlaces
  <2> HIDE DEF e
  <2>2. ptTask' \in [Targeting -> TaskRecords] /\ ptTask'[t] = e
        /\ \A u \in Targeting : u # t => ptTask'[u] = ptTask[u]
    BY <1>1, <2>1
  <2>3. \A u \in Targeting : /\ ptTask'[u].target = ptTask[u].target
                             /\ ptTask'[u].at \in {"prepared", "ready", "running", "done"} => Prepared(u)
                             /\ ptTask[u].at = "gone" => ptTask'[u].at = "gone"
    BY <1>1, <2>1, <2>2 DEF TargetsInv, RunsPrepared
  <2> QED
    BY <1>1, <1>2, <2>2, <2>3, TargetsRest DEF TargetsTypeOK
<1>3. ASSUME DirOf(t) \in ptAllowed, ptLock' = {t},
             ptTask' = [ptTask EXCEPT ![t].at = "prepared",
                                      ![t].target = [dir |-> DirOf(t), name |-> FreeName(DirOf(t))]]
      PROVE  TargetsInv'
  <2> DEFINE f == [dir |-> DirOf(t), name |-> FreeName(DirOf(t))]
             e == [ptTask[t] EXCEPT !.at = "prepared", !.target = f]
  <2>1. f \in Targets /\ ptFiles[f] = {}
    <3>1. DirOf(t) \in Dirs
      BY DEF DirOf, Dirs
    <3>2. FreeName(DirOf(t)) \in Names /\ ~HasFile(f)
      BY <1>1, <3>1, NameIsFree DEF TargetsInv
    <3> QED
      BY <3>1, <3>2 DEF Targets, HasFile
  <2>2. f # NoTarget /\ NoTarget \notin Targets
    BY <2>1 DEF Targets, NoTarget, Dirs
  <2>3. e \in TaskRecords /\ e.at = "prepared" /\ e.target = f /\ ptTask' = [ptTask EXCEPT ![t] = e]
    <3> HIDE DEF f
    <3>1. ptTask' = [ptTask EXCEPT ![t].at = "prepared", ![t].target = f]
      BY <1>3 DEF f
    <3> QED
      BY <1>1, <2>1, <3>1 DEF TaskRecords, TaskPlaces
  <2> HIDE DEF e, f
  <2>4. ptTask' \in [Targeting -> TaskRecords] /\ ptTask'[t] = e
        /\ \A u \in Targeting : u # t => ptTask'[u] = ptTask[u]
    BY <1>1, <2>3
  <2>5. TargetsTypeOK'
    <3>1. ptLock' \in SUBSET Targeting /\ Cardinality(ptLock') <= 1
      <4>1. Cardinality({t}) = 1
        BY FS_Singleton
      <4> QED
        BY <1>3, <4>1
    <3> QED
      BY <1>1, <2>4, <3>1 DEF TargetsTypeOK, TaskRecords, TaskPlaces
  <2>6. \A u \in Targeting : \A g \in Targets : u \in ptFiles[g] => u # t
    BY <1>1, <2>2 DEF TargetsInv, WritersAtHome, Prepared
  <2>7. OwnFile'
    BY <1>1, <1>3, <2>4 DEF TargetsInv, OwnFile, Prepared
  <2>8. WritersAtHome'
    BY <1>1, <2>4, <2>6 DEF TargetsInv, WritersAtHome, TargetsTypeOK
  <2>9. RunsPrepared'
    BY <2>2, <2>3, <2>4 DEF TargetsInv, RunsPrepared, Prepared
  <2>10. \A u \in Targeting \ ptExposed : u # t /\ Prepared(u) /\ ptTask[u].at # "gone" => ptTask[u].target # f
    BY <1>1, <2>1 DEF TargetsInv, OwnFile
  <2>11. TargetsApart'
    <3>1. ASSUME NEW u \in Targeting \ ptExposed, u # t, ptTask'[u].target # NoTarget, ptTask'[u].at # "gone"
          PROVE  ptTask'[u].target # f
      BY <2>4, <2>10, <3>1 DEF Prepared
    <3>2. ASSUME NEW u \in Targeting \ ptExposed, NEW v \in Targeting \ ptExposed, u # v, u # t, v # t,
                 ptTask'[u].target # NoTarget, ptTask'[v].target # NoTarget,
                 ptTask'[u].at # "gone", ptTask'[v].at # "gone"
          PROVE  ptTask'[u].target # ptTask'[v].target
      BY <2>4, <3>2 DEF TargetsInv, TargetsApart, Prepared
    <3>3. ptTask'[t].target = f
      BY <2>3, <2>4
    <3>4. ASSUME NEW u \in Targeting \ ptExposed, NEW v \in Targeting \ ptExposed, u # v,
                 ptTask'[u].target # NoTarget, ptTask'[v].target # NoTarget,
                 ptTask'[u].at # "gone", ptTask'[v].at # "gone"
          PROVE  ptTask'[u].target # ptTask'[v].target
      <4>1. CASE u = t
        BY <3>1, <3>3, <3>4, <4>1
      <4>2. CASE v = t
        BY <3>1, <3>3, <3>4, <4>2
      <4> QED
        BY <3>2, <3>4, <4>1, <4>2
    <3> QED
      BY <1>1, <3>4 DEF TargetsApart, Prepared
  <2> QED
    BY <2>5, <2>7, <2>8, <2>9, <2>11 DEF TargetsInv
<1> QED
  BY <1>2, <1>3 DEF Prepare

\* The rest of the handler: the lock goes when the file is there, or the task
\* is remembered as one that was left without it.
LEMMA HandlerInv ==
  ASSUME TargetsInv, NEW t \in Targeting, HandlerStarts(t)
  PROVE  TargetsInv'
<1> DEFINE f == ptTask[t].target
<1>1. /\ TargetsTypeOK /\ ptTask \in [Targeting -> TaskRecords]
      /\ ptFiles \in [Targets -> SUBSET Targeting]
      /\ ptTask[t].at \in {"prepared", "ready"} /\ f \in Targets /\ Prepared(t)
      /\ ptLock' = ptLock \ {t} /\ UNCHANGED ptAllowed
  BY DEF HandlerStarts, TargetsInv, TargetsTypeOK, TaskRecords, TaskPlaces, RunsPrepared, Prepared
<1>2. PICK makes \in BOOLEAN, at \in {"running", "idle"} :
        /\ ptFiles' = IF makes THEN [ptFiles EXCEPT ![f] = @ \cup {t}] ELSE ptFiles
        /\ ptExposed' = IF makes THEN Sheltered(t)
                        ELSE IF t \in ptFiles[f] THEN ptExposed ELSE ptExposed \cup {t}
        /\ ptTask' = [ptTask EXCEPT ![t].at = at]
  <2>1. PICK makes \in {FALSE, ptTask[t].wanted /\ t \notin Late}, starts \in {FALSE, ptTask[t].wanted} :
         /\ starts => makes = (t \notin Late)
         /\ makes => ptTask[t].wanted
         /\ ptFiles' = IF makes THEN [ptFiles EXCEPT ![f] = @ \cup {t}] ELSE ptFiles
         /\ ptExposed' = IF makes THEN Sheltered(t)
                        ELSE IF t \in ptFiles[f] THEN ptExposed ELSE ptExposed \cup {t}
         /\ Moves(t, IF starts THEN "running" ELSE "idle")
    BY DEF HandlerStarts
  <2>2. ptTask[t].wanted \in BOOLEAN
    BY <1>1 DEF TaskRecords
  <2>3. makes \in BOOLEAN
    BY <2>1, <2>2
  <2>4. PICK at \in {"running", "idle"} : at = IF starts THEN "running" ELSE "idle"
    OBVIOUS
  <2>5. ptTask' = [ptTask EXCEPT ![t].at = at]
    BY <2>1, <2>4 DEF Moves
  <2> QED
    BY <2>1, <2>3, <2>5
<1> DEFINE e == [ptTask[t] EXCEPT !.at = at]
<1>3. e \in TaskRecords /\ e.at = at /\ e.target = f /\ ptTask' = [ptTask EXCEPT ![t] = e]
  BY <1>1, <1>2 DEF TaskRecords, TaskPlaces
<1> HIDE DEF e
<1>4. ptTask' \in [Targeting -> TaskRecords] /\ ptTask'[t] = e
      /\ \A u \in Targeting : u # t => ptTask'[u] = ptTask[u]
  BY <1>1, <1>3
<1> HIDE DEF f
<1>5. /\ ptFiles' \in [Targets -> SUBSET Targeting]
      /\ ptFiles[f] \subseteq ptFiles'[f] /\ ptFiles'[f] \subseteq ptFiles[f] \cup {t}
      /\ \A g \in Targets : g # f => ptFiles'[g] = ptFiles[g]
      /\ t \in ptFiles'[f] \/ t \in ptExposed'
      /\ ptExposed' \subseteq Targeting
      /\ \A u \in Targeting \ ptExposed' : u \notin ptExposed \/ (u = t /\ Alone(t))
  <2> ptExposed \subseteq Targeting
    BY <1>1 DEF TargetsTypeOK
  <2>1. CASE makes
    BY <1>1, <1>2, <2>1, ShelterMeans
  <2>2. CASE ~makes
    BY <1>1, <1>2, <2>2
  <2> QED
    BY <2>1, <2>2
<1>6. TargetsTypeOK'
  <2>1. IsFiniteSet(ptLock)
    BY <1>1, FS_Subset, TargetsAssumption DEF TargetsTypeOK
  <2>2. IsFiniteSet(ptLock') /\ Cardinality(ptLock') <= Cardinality(ptLock)
    BY <1>1, <2>1, FS_Subset
  <2>3. Cardinality(ptLock) \in Nat /\ Cardinality(ptLock') \in Nat
    BY <2>1, <2>2, FS_CardinalityType
  <2>4. ptLock' \in SUBSET Targeting /\ Cardinality(ptLock') <= 1
    BY <1>1, <2>2, <2>3 DEF TargetsTypeOK
  <2> QED
    BY <1>1, <1>4, <1>5, <2>4 DEF TargetsTypeOK, TaskRecords, TaskPlaces
<1>7. \A u \in Targeting : ptTask'[u].target = ptTask[u].target /\ (ptTask[u].at = "gone" => ptTask'[u].at = "gone")
  BY <1>1, <1>3, <1>4 DEF f
<1>8. OwnFile'
  <2> SUFFICES ASSUME NEW u \in Targeting, u \notin ptExposed', ptTask'[u].target # NoTarget, ptTask'[u].at # "gone"
               PROVE  u \in ptFiles'[ptTask'[u].target] \cup ptLock'
    BY DEF OwnFile, Prepared
  <2>1. CASE u = t
    BY <1>5, <1>7, <2>1 DEF f
  <2>2. CASE u # t
    <3>1. u \in ptFiles[ptTask[u].target] \cup ptLock /\ ptTask[u].target \in Targets
      BY <1>1, <1>5, <1>7, <2>2 DEF TargetsInv, OwnFile, Prepared, TargetsTypeOK
    <3>2. CASE ptTask[u].target = f
      BY <1>1, <1>5, <1>7, <2>2, <3>1, <3>2
    <3>3. CASE ptTask[u].target # f
      BY <1>1, <1>5, <1>7, <2>2, <3>1, <3>3
    <3> QED
      BY <3>2, <3>3
  <2> QED
    BY <2>1, <2>2
<1>9. WritersAtHome'
  <2> SUFFICES ASSUME NEW g \in Targets, NEW u \in ptFiles'[g] PROVE ptTask'[u].target = g
    BY DEF WritersAtHome
  <2>1. u \in ptFiles[g] \/ (g = f /\ u = t)
    BY <1>5
  <2>2. u \in Targeting
    BY <1>5
  <2> QED
    BY <1>7, <2>1, <2>2 DEF TargetsInv, WritersAtHome, f
<1>10. RunsPrepared'
  BY <1>1, <1>4, <1>7 DEF TargetsInv, RunsPrepared, Prepared
<1>11. TargetsApart'
  <2> SUFFICES ASSUME NEW u \in Targeting, NEW v \in Targeting, u \notin ptExposed', v \notin ptExposed', u # v,
                      ptTask'[u].target # NoTarget, ptTask'[v].target # NoTarget,
                      ptTask'[u].at # "gone", ptTask'[v].at # "gone"
               PROVE  ptTask[u].target # ptTask[v].target
    BY <1>7 DEF TargetsApart, Prepared
  <2>1. CASE Alone(t) /\ (u = t \/ v = t)
    BY <1>7, <2>1 DEF Alone
  <2>2. CASE u \notin ptExposed /\ v \notin ptExposed
    BY <1>7, <2>2 DEF TargetsInv, TargetsApart, Prepared
  <2> QED
    BY <1>5, <2>1, <2>2
<1> QED
  BY <1>6, <1>8, <1>9, <1>10, <1>11 DEF TargetsInv

\* Every step keeps the invariant.
LEMMA TargetsNextInv == TargetsInv /\ [TargetsNext]_targetVars => TargetsInv'
<1> SUFFICES ASSUME TargetsInv, [TargetsNext]_targetVars PROVE TargetsInv'
  OBVIOUS
<1>1. /\ TargetsTypeOK /\ ptTask \in [Targeting -> TaskRecords] /\ ptAllowed \subseteq Dirs
      /\ ptFiles \in [Targets -> SUBSET Targeting]
      /\ \A u \in Targeting : Prepared(u) => ptTask[u].target \in Targets
  BY DEF TargetsInv, TargetsTypeOK, TaskRecords, TaskPlaces, Prepared
<1> DEFINE InPlace(u, at) == at \in {"prepared", "ready", "running", "done"} => Prepared(u)
           Steps(u, at) == /\ at \in TaskPlaces /\ (ptTask[u].at = "gone" => at = "gone") /\ InPlace(u, at)
                           /\ \/ ptTask' = [ptTask EXCEPT ![u].at = at]
                              \/ ptTask' = [ptTask EXCEPT ![u].at = at, ![u].wanted = TRUE]
                              \/ ptTask' = [ptTask EXCEPT ![u].wanted = FALSE] /\ at = ptTask[u].at
           Settled == /\ ptTask' \in [Targeting -> TaskRecords]
                      /\ \A u \in Targeting : /\ ptTask'[u].target = ptTask[u].target
                                              /\ ptTask'[u].at \in {"prepared", "ready", "running", "done"} => Prepared(u)
                                              /\ ptTask[u].at = "gone" => ptTask'[u].at = "gone"
<1>2. ASSUME NEW t \in Targeting, NEW at, Steps(t, at) PROVE Settled
  <2>1. PICK wanted \in BOOLEAN : ptTask' = [ptTask EXCEPT ![t] = [ptTask[t] EXCEPT !.at = at, !.wanted = wanted]]
    <3>1. ptTask[t].wanted \in BOOLEAN /\ ptTask[t] \in TaskRecords
      BY <1>1 DEF TaskRecords
    <3>2. CASE ptTask' = [ptTask EXCEPT ![t].at = at]
      <4>1. ptTask' = [ptTask EXCEPT ![t] = [ptTask[t] EXCEPT !.at = at, !.wanted = ptTask[t].wanted]]
        BY <1>1, <3>1, <3>2 DEF TaskRecords
      <4> QED
        BY <3>1, <4>1
    <3>3. CASE ptTask' = [ptTask EXCEPT ![t].at = at, ![t].wanted = TRUE]
      <4>1. ptTask' = [ptTask EXCEPT ![t] = [ptTask[t] EXCEPT !.at = at, !.wanted = TRUE]]
        BY <1>1, <3>3
      <4> QED
        BY <4>1
    <3>4. CASE ptTask' = [ptTask EXCEPT ![t].wanted = FALSE] /\ at = ptTask[t].at
      <4>1. ptTask' = [ptTask EXCEPT ![t] = [ptTask[t] EXCEPT !.at = at, !.wanted = FALSE]]
        BY <1>1, <3>1, <3>4 DEF TaskRecords
      <4> QED
        BY <4>1
    <3> QED
      BY <1>2, <3>2, <3>3, <3>4
  <2> DEFINE e == [ptTask[t] EXCEPT !.at = at, !.wanted = wanted]
  <2>2. e \in TaskRecords /\ e.at = at /\ e.target = ptTask[t].target /\ ptTask' = [ptTask EXCEPT ![t] = e]
    <3>1. ptTask[t] \in TaskRecords /\ at \in TaskPlaces /\ wanted \in BOOLEAN
      BY <1>1, <1>2
    <3>2. e \in TaskRecords /\ e.at = at /\ e.target = ptTask[t].target
      BY ONLY <3>1 DEF TaskRecords
    <3> QED
      BY <2>1, <3>2
  <2> HIDE DEF e
  <2>3. ptTask' \in [Targeting -> TaskRecords] /\ ptTask'[t] = e
        /\ \A u \in Targeting : u # t => ptTask'[u] = ptTask[u]
    BY <1>1, <2>2
  <2> QED
    BY <1>2, <2>2, <2>3 DEF TargetsInv, RunsPrepared
<1>3. ASSUME NEW t \in Targeting, NEW at, Steps(t, at), UNCHANGED <<ptLock, ptFiles, ptAllowed, ptExposed>>
      PROVE  TargetsInv'
  <2>1. Settled
    BY <1>2, <1>3
  <2> QED
    BY <1>1, <1>3, <2>1, TargetsRest
<1>4. ASSUME NEW t \in Targeting
      PROVE  /\ HandlerBegins(t) => TargetsInv'
             /\ KeepTarget(t) => TargetsInv'
             /\ HandlerLeaves(t) => TargetsInv'
             /\ PauseRun(t) => TargetsInv'
  <2>1. CASE HandlerBegins(t)
    <3>1. Steps(t, "begun") /\ UNCHANGED <<ptLock, ptFiles, ptAllowed, ptExposed>>
      BY <2>1 DEF HandlerBegins, TaskPlaces
    <3> QED
      BY <1>3, <3>1
  <2>2. CASE KeepTarget(t)
    <3>1. PICK at \in {"ready", "idle"} : Moves(t, at)
      BY <2>2 DEF KeepTarget
    <3>2. Steps(t, at) /\ UNCHANGED <<ptLock, ptFiles, ptAllowed, ptExposed>>
      BY <2>2, <3>1 DEF KeepTarget, Moves, TaskPlaces
    <3> QED
      BY <1>3, <3>2
  <2>3. CASE HandlerLeaves(t)
    <3>1. Steps(t, "idle") /\ UNCHANGED <<ptLock, ptFiles, ptAllowed, ptExposed>>
      BY <2>3 DEF HandlerLeaves, Moves, TaskPlaces
    <3> QED
      BY <1>3, <3>1
  <2>4. CASE PauseRun(t)
    <3>1. UNCHANGED <<ptLock, ptFiles, ptAllowed, ptExposed>>
      BY <2>4 DEF PauseRun
    <3>2. ptTask[t].at \in TaskPlaces /\ InPlace(t, ptTask[t].at)
      BY <1>1 DEF TaskRecords, TargetsInv, RunsPrepared
    <3>3. Steps(t, ptTask[t].at) \/ Steps(t, "idle")
      BY <2>4, <3>2 DEF PauseRun, Moves, TaskPlaces
    <3> QED
      BY <1>3, <3>1, <3>3
  <2> QED
    BY <2>1, <2>2, <2>3, <2>4
<1>5. ASSUME NEW t \in Targeting, NEW at, Steps(t, at), Prepared(t), NEW stay \in SUBSET {t},
             UNCHANGED <<ptLock, ptAllowed>>,
             ptFiles' = [ptFiles EXCEPT ![ptTask[t].target] = stay],
             \/ ptExposed' = ptExposed \cup (At(ptTask[t].target) \ stay)
             \/ ptExposed' = Sheltered(t) \cup (At(ptTask[t].target) \ stay) /\ stay = {t}
      PROVE  TargetsInv'
  <2>1. Settled
    BY <1>2, <1>5
  <2> DEFINE f == ptTask[t].target
  <2>2. f \in Targets /\ stay \in SUBSET Targeting /\ \A u \in stay : ptTask[u].target = f
    BY <1>1, <1>5
  <2>3. ptFiles' = [ptFiles EXCEPT ![f] = stay]
    BY <1>5
  <2>4. Remembered(f, stay)
    BY <1>1, <1>5, ShelterMeans DEF TargetsTypeOK, At, Remembered
  <2>5. UNCHANGED <<ptLock, ptAllowed>>
    BY <1>5
  <2> HIDE DEF f
  <2> QED
    BY <2>1, <2>2, <2>3, <2>4, <2>5, FileGoes
<1>6. ASSUME NEW t \in Targeting, RunEnds(t) PROVE TargetsInv'
  <2>1. Steps(t, "done") /\ Prepared(t) /\ UNCHANGED <<ptLock, ptAllowed>>
    BY <1>6 DEF RunEnds, Moves, TaskPlaces, TargetsInv, RunsPrepared
  <2>2. CASE t \in Late
    <3> DEFINE stay == {t}
    <3>1. stay \in SUBSET {t} /\ ptFiles' = [ptFiles EXCEPT ![ptTask[t].target] = stay]
          /\ ptExposed' = Sheltered(t) \cup (At(ptTask[t].target) \ stay) /\ stay = {t}
      BY <1>6, <2>2 DEF RunEnds
    <3> HIDE DEF stay
    <3> QED
      BY <1>5, <2>1, <3>1
  <2>3. CASE t \notin Late
    BY <1>3, <1>6, <2>1, <2>3 DEF RunEnds
  <2> QED
    BY <2>2, <2>3
<1>7. ASSUME NEW t \in Targeting, NEW at, Steps(t, at), Prepared(t), UNCHANGED <<ptLock, ptAllowed>>,
             ptFiles' = [ptFiles EXCEPT ![ptTask[t].target] = {}],
             ptExposed' = ptExposed \cup At(ptTask[t].target)
      PROVE  TargetsInv'
  <2> DEFINE stay == {}
  <2>1. stay \in SUBSET {t} /\ ptFiles' = [ptFiles EXCEPT ![ptTask[t].target] = stay]
        /\ ptExposed' = ptExposed \cup (At(ptTask[t].target) \ stay)
    BY <1>7
  <2> HIDE DEF stay
  <2> QED
    BY <1>5, <1>7, <2>1
<1>8. ASSUME NEW t \in Targeting, ResetSource(t) PROVE TargetsInv'
  <2>1. Steps(t, "begun") /\ Prepared(t)
    BY <1>8 DEF ResetSource, TaskPlaces, TargetsInv, RunsPrepared
  <2> QED
    BY <1>7, <1>8, <2>1 DEF ResetSource
<1>9. ASSUME NEW t \in Targeting, DropTarget(t) PROVE TargetsInv'
  <2>1. Steps(t, "gone") /\ UNCHANGED <<ptLock, ptAllowed>>
    BY <1>9 DEF DropTarget, TaskPlaces
  <2>2. CASE UNCHANGED <<ptFiles, ptExposed>>
    BY <1>3, <2>1, <2>2
  <2>3. CASE ~UNCHANGED <<ptFiles, ptExposed>>
    BY <1>7, <1>9, <2>1, <2>3 DEF DropTarget
  <2> QED
    BY <2>2, <2>3
<1>10. CASE ChangeWhiteList
  BY <1>1, <1>10, TargetsRest DEF ChangeWhiteList, TargetsInv, RunsPrepared
<1>11. CASE UNCHANGED targetVars
  BY <1>1, <1>11, TargetsRest DEF targetVars, TargetsInv, RunsPrepared
<1> QED
  BY <1>4, <1>6, <1>8, <1>9, <1>10, <1>11, PrepareInv, HandlerInv DEF TargetsNext

\* The invariant of the targets holds.
THEOREM TargetsInvariant == TargetsSpec => []TargetsInv
  BY TargetsInitInv, TargetsNextInv, PTL DEF TargetsSpec

\* The variables of the targets have their types.
THEOREM TargetsTypeCorrect == TargetsSpec => []TargetsTypeOK
  BY TargetsInvariant, PTL DEF TargetsInv

\* Two tasks that are there have one target only where one of them was left
\* without its file (before its download made one, or by a deletion, a reset or a
\* merge) and has not made it again alone: no other order of any number of
\* preparations, pauses, failures, resets, deletions and settings leads there
\* (checkDuplicateLock, CheckDuplicateAndRename).
THEOREM TargetsStayApart == TargetsSpec => []TargetsApart
  BY TargetsInvariant, PTL DEF TargetsInv

-----------------------------------------------------------------------------
(* TaskGroups: the invariant *)

\* The members by what is true of them.
StoredOnes == {t \in Members : tgTask[t].stored}
MadeOnes == {t \in Members : tgTask[t].made}

\* The types of the callers too, and the groups in memory are those with a record.
MemberStates == [listed : BOOLEAN, stored : BOOLEAN, file : BOOLEAN, made : BOOLEAN]
BatchStates == [at : {"idle", "item", "held", "putback", "cleanup", "gone"}, item : Nat]
DeletionStates ==
    [at : {"idle", "files", "restore", "next", "cleanup"}, all : SUBSET Members, todo : SUBSET Members,
     now : SUBSET Members, groups : SUBSET Grouped, parents : SUBSET Grouped, force : BOOLEAN, setup : BOOLEAN]
GroupsTyped ==
    /\ GroupsTypeOK
    /\ tgBatch \in [Batches -> BatchStates] /\ tgDelete \in [GroupDeleters -> DeletionStates]
    /\ tgGroups = tgStoredGroups

\* A batch is at one of its items while it creates, one with a fetcher while it
\* holds that. A group has begun.
BatchesInOrder ==
    \A b \in Batches :
        /\ tgBatch[b].at = "item" => tgBatch[b].item >= 1
        /\ tgBatch[b].at \in {"held", "putback"} =>
             tgBatch[b].item \in 1..Len(BatchItems[b]) /\ RidOf[BatchItems[b][tgBatch[b].item]] \in Rids
        /\ b \in tgCreating => tgBatch[b].at \in {"item", "held", "putback"}
        /\ b \in tgGroups => tgBatch[b].at # "idle"

\* A deletion has the groups of its tasks to look at, and ends when it holds no
\* task any more. The record of a task is gone when its files are removed.
Held(x) == tgDelete[x].todo \cup tgDelete[x].now
DeletionsInOrder ==
    \A x \in GroupDeleters :
        /\ tgDelete[x].at = "idle" => tgDelete[x].parents = {}
        /\ Parents(tgDelete[x].all) \subseteq tgDelete[x].parents
        /\ Held(x) \subseteq tgDelete[x].all /\ tgDelete[x].todo \cap tgDelete[x].now = {}
        /\ tgDelete[x].at \in {"idle", "cleanup"} => Held(x) = {}
        /\ tgDelete[x].at = "next" => tgDelete[x].now = {}
        /\ tgDelete[x].at = "files" => tgDelete[x].now \cap StoredOnes = {}

\* A task was made by an item of a batch that is past it.
Past(t) ==
    \E b \in Batches : \E j \in 1..Len(BatchItems[b]) :
        /\ t = BatchItems[b][j]
        /\ \/ tgBatch[b].at \in {"cleanup", "gone"}
           \/ tgBatch[b].at \in {"item", "held", "putback"} /\ j < tgBatch[b].item
MadeOnce ==
    /\ Listed \cup tgDeleting \cup StoredOnes \subseteq MadeOnes
    /\ \A x \in GroupDeleters : tgDelete[x].all \subseteq MadeOnes
    /\ \A t \in MadeOnes : Past(t)

\* A task is listed, or held by one deletion, or it has no record.
HeldApart ==
    /\ \A x \in GroupDeleters : Held(x) \cap Listed = {}
    /\ \A x, y \in GroupDeleters : x # y => Held(x) \cap Held(y) = {}
    /\ \A t \in StoredOnes : t \in Listed \/ \E x \in GroupDeleters : t \in Held(x)

\* The tasks of a deletion under way are in deletingTasks, unless they were in
\* two deletions at once.
Active(x) == tgDelete[x].at \in {"files", "restore", "next"}
OverlapsKnown ==
    /\ \A x \in GroupDeleters : Active(x) => \A t \in tgDelete[x].all :
         HasParent(t) => t \in tgDeleting \/ BatchOf[t] \in tgOverlap
    /\ \A x, y \in GroupDeleters : Active(x) /\ Active(y) /\ x # y =>
         \A t \in tgDelete[x].all \cap tgDelete[y].all : HasParent(t) => BatchOf[t] \in tgOverlap

\* A resolved fetcher is in the cache, with one batch, or in one task.
Holding(b) == tgBatch[b].at \in {"held", "putback"}
RidsOnce ==
    \A r \in Rids :
        /\ \A t, u \in MadeOnes : RidOf[t] = r /\ RidOf[u] = r => t = u
        /\ \A b, c \in Batches :
             Holding(b) /\ RidOf[Current(b)] = r /\ Holding(c) /\ RidOf[Current(c)] = r => b = c
        /\ \A b \in Batches : Holding(b) /\ RidOf[Current(b)] = r => r \notin tgCache
        /\ (r \in tgCache \/ \E b \in Batches : Holding(b) /\ RidOf[Current(b)] = r) =>
             \A t \in MadeOnes : RidOf[t] # r

\* Two groups have two directories, and a directory is one that a batch was given.
PathsApart ==
    /\ \A g, h \in tgGroups : tgPath[g] = tgPath[h] => g = h
    /\ \A s \in tgDirs : \E b \in Batches : tgBatch[b].at # "idle" /\ tgPath[b] = s

\* The first part of MembersHaveGroups.
HaveGroups ==
    \A t \in Members : HasParent(t) /\ BatchOf[t] \notin tgOverlap =>
        /\ t \in Listed \cup tgDeleting => BatchOf[t] \in tgGroups
        /\ t \in StoredOnes => BatchOf[t] \in tgStoredGroups

GroupsInv ==
    /\ GroupsTyped /\ BatchesInOrder /\ DeletionsInOrder /\ MadeOnce /\ HeldApart
    /\ OverlapsKnown /\ RidsOnce /\ PathsApart /\ HaveGroups /\ EmptyGroupsGo

\* The initial states satisfy the invariant.
LEMMA GroupsInitInv == GroupsInit => GroupsInv
<1> SUFFICES ASSUME GroupsInit PROVE GroupsInv
  OBVIOUS
<1>1. /\ \A t \in Members : ~tgTask[t].listed /\ ~tgTask[t].stored /\ ~tgTask[t].made
      /\ tgTask \in [Members -> MemberStates]
      /\ tgDeleting = {} /\ tgGroups = {} /\ tgStoredGroups = {} /\ tgCreating = {} /\ tgDirs = {}
      /\ tgCache = Rids
  BY DEF GroupsInit, MemberStates
<1>2. /\ tgBatch \in [Batches -> BatchStates] /\ \A b \in Batches : tgBatch[b].at = "idle"
  BY DEF GroupsInit, BatchStates
<1>3. /\ \A x \in GroupDeleters : tgDelete[x] = NoDeletion
      /\ tgDelete \in [GroupDeleters -> DeletionStates]
  <2>1. NoDeletion \in DeletionStates
    BY DEF NoDeletion, DeletionStates
  <2> QED
    BY <2>1 DEF GroupsInit
<1>4. tgPath \in [Batches -> DirNames]
  <2>1. 0 \in DirNames
    BY FS_CardinalityType, GroupsAssumption DEF DirNames
  <2> QED
    BY <2>1 DEF GroupsInit
<1>5. Listed = {} /\ StoredOnes = {} /\ MadeOnes = {}
  BY <1>1 DEF Listed, StoredOnes, MadeOnes
<1>6. \A x \in GroupDeleters : /\ tgDelete[x].at = "idle" /\ tgDelete[x].all = {} /\ Held(x) = {}
                               /\ tgDelete[x].parents = {} /\ tgDelete[x].todo = {}
  BY <1>3 DEF NoDeletion, Held
<1>7. GroupsTyped
  <2>1. \A b \in Batches : tgBatch[b].at \in {"idle", "item", "held", "putback", "cleanup", "gone"}
    BY <1>2
  <2>2. \A x \in GroupDeleters : tgDelete[x].at \in {"idle", "files", "restore", "next", "cleanup"}
    BY <1>6
  <2>3. GroupsTypeOK
    BY <1>1, <1>4, <2>1, <2>2 DEF GroupsTypeOK, MemberStates
  <2> QED
    <3>1. tgGroups = tgStoredGroups
      BY <1>1
    <3>2. tgBatch \in [Batches -> BatchStates] /\ tgDelete \in [GroupDeleters -> DeletionStates]
      BY <1>2, <1>3
    <3> QED
      BY ONLY <2>3, <3>1, <3>2 DEF GroupsTyped
<1>8. DeletionsInOrder
  BY <1>5, <1>6 DEF DeletionsInOrder, Parents, Held
<1>9. BatchesInOrder
  BY <1>1, <1>2 DEF BatchesInOrder
<1>10. MadeOnce /\ HeldApart
  BY <1>1, <1>5, <1>6 DEF MadeOnce, HeldApart
<1>11. OverlapsKnown
  BY <1>6 DEF OverlapsKnown
<1>12. RidsOnce
  <2>1. \A b \in Batches : ~Holding(b)
    BY <1>2 DEF Holding
  <2>2. \A t : t \notin MadeOnes
    BY <1>5
  <2> QED
    BY <2>1, <2>2, Zenon DEF RidsOnce
<1>13. PathsApart /\ EmptyGroupsGo
  BY <1>1 DEF PathsApart, EmptyGroupsGo, EmptyGroup
<1>14. HaveGroups
  BY <1>1, <1>5 DEF HaveGroups
<1> QED
  BY <1>7, <1>8, <1>9, <1>10, <1>11, <1>12, <1>13, <1>14 DEF GroupsInv

-----------------------------------------------------------------------------
(* TaskGroups: what the steps rely on *)

\* The batch of an item is the one that has it.
LEMMA ItemsBatch ==
  ASSUME NEW b \in Batches, NEW j \in 1..Len(BatchItems[b])
  PROVE  BatchItems[b][j] \in Members /\ BatchOf[BatchItems[b][j]] = b
<1> DEFINE t == BatchItems[b][j]
<1>1. BatchItems[b] \in Seq(Members) /\ t \in Members
  BY GroupsAssumption
<1>2. \A c \in Batches : Contains(BatchItems[c], t) => c = b
  BY GroupsAssumption DEF Contains
<1>3. Contains(BatchItems[b], t)
  BY <1>1 DEF Contains
<1>4. (CHOOSE c \in Batches : Contains(BatchItems[c], t)) = b
  <2> HIDE DEF t
  <2> QED
    BY <1>2, <1>3
<1> QED
  BY <1>1, <1>4 DEF BatchOf

\* The member that a batch is about to create does not exist.
LEMMA CurrentIsNew ==
  ASSUME MadeOnce, NEW b \in Batches, tgBatch[b].at \in {"item", "held", "putback"},
         tgBatch[b].item \in 1..Len(BatchItems[b])
  PROVE  Current(b) \in Members /\ BatchOf[Current(b)] = b /\ Current(b) \notin MadeOnes
<1>1. Current(b) \in Members /\ BatchOf[Current(b)] = b
  BY ItemsBatch DEF Current
<1>2. ASSUME Current(b) \in MadeOnes PROVE FALSE
  <2>0. PICK c \in Batches : \E j \in 1..Len(BatchItems[c]) :
          /\ Current(b) = BatchItems[c][j]
          /\ \/ tgBatch[c].at \in {"cleanup", "gone"}
             \/ tgBatch[c].at \in {"item", "held", "putback"} /\ j < tgBatch[c].item
    BY <1>2 DEF MadeOnce, Past
  <2>1. PICK j \in 1..Len(BatchItems[c]) :
          /\ Current(b) = BatchItems[c][j]
          /\ \/ tgBatch[c].at \in {"cleanup", "gone"}
             \/ tgBatch[c].at \in {"item", "held", "putback"} /\ j < tgBatch[c].item
    BY <2>0
  <2>2. c = b /\ j = tgBatch[b].item
    BY <2>1, GroupsAssumption DEF Current
  <2>3. j \in Nat /\ BatchItems[c] \in Seq(Members)
    BY GroupsAssumption
  <2> QED
    BY <2>1, <2>2, <2>3
<1> QED
  BY <1>1, <1>2

\* The groups of tasks.
LEMMA ParentsFacts ==
  /\ \A S : Parents(S) \subseteq Grouped
  /\ \A S : \A t \in S : HasParent(t) => BatchOf[t] \in Parents(S)
  BY DEF Parents, HasParent

\* The directory of a new group is none that exists or is promised.
LEMMA FirstFreeIs ==
  ASSUME GroupsTyped, PathsApart
  PROVE  FirstFree \in DirNames /\ FirstFree \notin tgDirs /\ \A g \in tgGroups : tgPath[g] # FirstFree
<1> DEFINE Free == {s \in DirNames : s \notin tgDirs /\ \A g \in tgGroups : tgPath[g] # s}
<1>1. DirNames \subseteq Nat /\ Cardinality(Batches) \in Nat
  BY FS_CardinalityType, GroupsAssumption DEF DirNames
<1>2. Free # {}
  <2> SUFFICES ASSUME Free = {} PROVE FALSE
    OBVIOUS
  <2>1. \A s \in DirNames : \E b \in Batches : tgPath[b] = s
    BY GroupsAssumption DEF PathsApart, GroupsTyped, GroupsTypeOK
  <2> DEFINE w == [s \in DirNames |-> CHOOSE b \in Batches : tgPath[b] = s]
  <2>2. \A s \in DirNames : w[s] \in Batches /\ tgPath[w[s]] = s
    BY <2>1
  <2>3. w \in [0 .. Cardinality(Batches) -> Batches] /\ IsFiniteSet(Batches)
    BY <2>2, GroupsAssumption DEF DirNames
  <2> HIDE DEF w
  <2>4. PICK x, y \in DirNames : x # y /\ w[x] = w[y]
    <3>1. \E x, y \in 0 .. Cardinality(Batches) : x # y /\ w[x] = w[y]
      BY ONLY <2>3, OneMore
    <3> QED
      BY <3>1 DEF DirNames
  <2> QED
    BY <2>2, <2>4
<1>3. PICK s \in Free : \A r \in Free : s <= r
  BY <1>1, <1>2, LeastOf
<1>4. \A r \in 0..s - 1 : r \in tgDirs \/ \E g \in tgGroups : tgPath[g] = r
  <2> TAKE r \in 0..s - 1
  <2>1. r \in DirNames /\ ~(s <= r)
    BY <1>1 DEF DirNames
  <2> QED
    BY <1>3, <2>1
<1> QED
  BY <1>3, <1>4 DEF FirstFree

\* What the cleanup of groups changes: some groups that have no member go, those
\* it could not remove are remembered, and files go with the directories of the
\* groups that went.
LEMMA CleanUpFacts ==
  ASSUME GroupsInv, NEW ids, NEW forced, CleanUp(ids, forced),
         UNCHANGED <<tgDeleting, tgPath, tgCreating, tgOverlap>>
  PROVE  /\ tgTask' \in [Members -> MemberStates]
         /\ Listed' = Listed /\ StoredOnes' = StoredOnes /\ MadeOnes' = MadeOnes
         /\ tgGroups' \subseteq tgGroups /\ tgStoredGroups' = tgGroups' /\ tgDirs' \subseteq tgDirs
         /\ \A g \in tgGroups : g \in ids \ tgCreating /\ g \in tgGroups'
              /\ (\A t \in Members : BatchOf[t] = g => t \notin Listed \cup tgDeleting) => g \in tgStuck'
         /\ tgStuck \subseteq tgStuck'
         /\ HaveGroups'
         /\ \A t \in Members : /\ t \in Listed /\ tgTask[t].file /\ BatchOf[t] \notin tgOverlap
                               => tgTask'[t].file
<1> DEFINE chosen == MayGo(ids)
<1>1. PICK failed \in SUBSET chosen, emptied \in SUBSET {tgPath[g] : g \in chosen} :
        /\ tgGroups' = tgGroups \ (chosen \ failed)
        /\ tgStoredGroups' = tgStoredGroups \ (chosen \ failed)
        /\ tgDirs' \subseteq tgDirs
        /\ tgTask' = [t \in Members |->
                        IF HasParent(t) /\ tgPath[BatchOf[t]] \in emptied
                        THEN [tgTask[t] EXCEPT !.file = FALSE] ELSE tgTask[t]]
        /\ tgStuck' = tgStuck \cup failed
  <2>0. PICK failed \in SUBSET chosen : \E kept \in SUBSET (forced \cap failed) :
        LET emptied == {tgPath[g] : g \in (forced \cap chosen) \ kept}
            empty == {g \in chosen \ forced : \A t \in Members : InDir(t, tgPath[g]) => ~tgTask[t].file} IN
        /\ tgGroups' = tgGroups \ (chosen \ failed)
        /\ tgStoredGroups' = tgStoredGroups \ (chosen \ failed)
        /\ tgDirs' = tgDirs \ (emptied \cup {tgPath[g] : g \in empty})
        /\ tgTask' = [t \in Members |->
                        IF HasParent(t) /\ tgPath[BatchOf[t]] \in emptied
                        THEN [tgTask[t] EXCEPT !.file = FALSE] ELSE tgTask[t]]
        /\ tgStuck' = tgStuck \cup failed
    BY DEF CleanUp
  <2>1. PICK kept \in SUBSET (forced \cap failed) :
        LET emptied == {tgPath[g] : g \in (forced \cap chosen) \ kept}
            empty == {g \in chosen \ forced : \A t \in Members : InDir(t, tgPath[g]) => ~tgTask[t].file} IN
        /\ tgGroups' = tgGroups \ (chosen \ failed)
        /\ tgStoredGroups' = tgStoredGroups \ (chosen \ failed)
        /\ tgDirs' = tgDirs \ (emptied \cup {tgPath[g] : g \in empty})
        /\ tgTask' = [t \in Members |->
                        IF HasParent(t) /\ tgPath[BatchOf[t]] \in emptied
                        THEN [tgTask[t] EXCEPT !.file = FALSE] ELSE tgTask[t]]
        /\ tgStuck' = tgStuck \cup failed
    BY <2>0
  <2> DEFINE emptied == {tgPath[g] : g \in (forced \cap chosen) \ kept}
  <2>2. emptied \subseteq {tgPath[g] : g \in chosen}
    OBVIOUS
  <2> HIDE DEF chosen
  <2>3. tgDirs' \subseteq tgDirs
    BY <2>1
  <2> QED
    BY <2>1, <2>2, <2>3
<1>2. tgTask \in [Members -> MemberStates] /\ tgGroups = tgStoredGroups
  BY DEF GroupsInv, GroupsTyped, GroupsTypeOK, MemberStates
<1>3. /\ chosen \subseteq tgGroups /\ chosen \subseteq ids \ tgCreating
      /\ \A g \in chosen : \A t \in Listed \cup tgDeleting : HasParent(t) => BatchOf[t] # g
      /\ \A g \in (ids \cap tgGroups) \ tgCreating :
           (\A t \in Listed \cup tgDeleting : HasParent(t) => BatchOf[t] # g) => g \in chosen
  BY DEF MayGo
<1> HIDE DEF chosen
<1>4. /\ tgTask' \in [Members -> MemberStates]
      /\ \A t \in Members : /\ tgTask'[t].listed = tgTask[t].listed /\ tgTask'[t].stored = tgTask[t].stored
                            /\ tgTask'[t].made = tgTask[t].made
                            /\ (HasParent(t) /\ tgPath[BatchOf[t]] \in emptied) \/ tgTask'[t].file = tgTask[t].file
  <2>1. \A t \in Members : tgTask'[t] \in MemberStates /\ tgTask'[t] =
                        IF HasParent(t) /\ tgPath[BatchOf[t]] \in emptied
                        THEN [tgTask[t] EXCEPT !.file = FALSE] ELSE tgTask[t]
    BY <1>1, <1>2 DEF MemberStates
  <2>2. tgTask' \in [Members -> MemberStates]
    <3>1. tgTask' = [t \in Members |-> tgTask'[t]]
      BY <1>1
    <3> QED
      BY <2>1, <3>1
  <2> QED
    BY <1>2, <2>1, <2>2 DEF MemberStates
<1>5. Listed' = Listed /\ StoredOnes' = StoredOnes /\ MadeOnes' = MadeOnes
  BY <1>4 DEF Listed, StoredOnes, MadeOnes
<1>6. tgGroups' \subseteq tgGroups /\ tgStoredGroups' = tgGroups' /\ tgStuck \subseteq tgStuck'
  BY <1>1, <1>2
<1>7. ASSUME NEW g \in tgGroups, g \in ids \ tgCreating, g \in tgGroups',
             \A t \in Members : BatchOf[t] = g => t \notin Listed \cup tgDeleting
      PROVE  g \in tgStuck'
  <2>1. Listed \subseteq Members /\ tgDeleting \subseteq Members
    BY DEF Listed, GroupsInv, GroupsTyped, GroupsTypeOK
  <2>2. g \in chosen
    BY <1>3, <1>7, <2>1
  <2> QED
    BY <1>1, <1>7, <2>2
<1>8. \A t \in Members : HasParent(t) /\ BatchOf[t] \notin tgOverlap /\ t \in Listed \cup tgDeleting \cup StoredOnes
        => BatchOf[t] \in tgGroups /\ BatchOf[t] \notin chosen
  <2> SUFFICES ASSUME NEW t \in Members, HasParent(t), BatchOf[t] \notin tgOverlap,
                      t \in Listed \cup tgDeleting \cup StoredOnes
               PROVE  BatchOf[t] \in tgGroups /\ BatchOf[t] \notin chosen
    OBVIOUS
  <2>1. t \in Listed \cup tgDeleting
    <3>1. ASSUME t \in StoredOnes, t \notin Listed PROVE t \in tgDeleting
      <4>1. PICK x \in GroupDeleters : t \in Held(x)
        BY <3>1 DEF GroupsInv, HeldApart
      <4>2. Active(x) /\ t \in tgDelete[x].all
        BY <4>1 DEF GroupsInv, GroupsTyped, GroupsTypeOK, DeletionsInOrder, Active
      <4> QED
        BY <4>2 DEF GroupsInv, OverlapsKnown
    <3> QED
      BY <3>1
  <2> QED
    BY <1>3, <2>1 DEF GroupsInv, HaveGroups
<1>9. HaveGroups'
  <2>1. \A t : HasParent(t)' <=> HasParent(t)
    BY DEF HasParent
  <2> QED
    BY <1>1, <1>2, <1>5, <1>8, <2>1 DEF HaveGroups
<1>10. ASSUME NEW t \in Members, t \in Listed, tgTask[t].file, BatchOf[t] \notin tgOverlap
       PROVE  tgTask'[t].file
  <2>1. CASE HasParent(t)
    <3>1. BatchOf[t] \in tgGroups /\ BatchOf[t] \notin chosen
      BY <1>8, <1>10, <2>1
    <3>2. tgPath[BatchOf[t]] \notin emptied
      BY <1>1, <1>3, <3>1 DEF GroupsInv, PathsApart
    <3> QED
      BY <1>4, <1>10, <3>2
  <2>2. CASE ~HasParent(t)
    BY <1>4, <1>10, <2>2
  <2> QED
    BY <2>1, <2>2
<1> QED
  BY <1>1, <1>4, <1>5, <1>6, <1>7, <1>9, <1>10

-----------------------------------------------------------------------------
(* TaskGroups: the steps *)

\* One batch moves.
LEMMA BatchMoves ==
  ASSUME GroupsTyped, NEW b \in Batches, NEW at \in {"idle", "item", "held", "putback", "cleanup", "gone"},
         NEW item \in Nat, BatchAt(b, at, item)
  PROVE  /\ tgBatch' \in [Batches -> BatchStates]
         /\ tgBatch'[b].at = at /\ tgBatch'[b].item = item
         /\ \A c \in Batches : c # b => tgBatch'[c] = tgBatch[c]
         /\ \A c \in Batches : tgBatch'[c].at \in {"idle", "item", "held", "putback", "cleanup", "gone"}
<1> DEFINE e == [at |-> at, item |-> item]
<1>1. tgBatch \in [Batches -> BatchStates] /\ e \in BatchStates /\ tgBatch' = [tgBatch EXCEPT ![b] = e]
      /\ e.at = at /\ e.item = item
  BY DEF GroupsTyped, BatchStates, BatchAt
<1> HIDE DEF e
<1>2. /\ tgBatch' \in [Batches -> BatchStates] /\ tgBatch'[b] = e
      /\ \A c \in Batches : c # b => tgBatch'[c] = tgBatch[c]
  BY <1>1
<1>3. \A c \in Batches : tgBatch'[c].at \in {"idle", "item", "held", "putback", "cleanup", "gone"}
  BY <1>2 DEF BatchStates
<1> QED
  BY <1>1, <1>2, <1>3

\* The past of a batch does not change when it goes on to the next item, and a
\* batch that has not begun has none.
LEMMA PastStays ==
  ASSUME NEW b \in Batches, \A c \in Batches : c # b => tgBatch'[c] = tgBatch[c],
         tgBatch[b].at = "idle" \/ tgBatch'[b].at \in {"cleanup", "gone"}
           \/ (tgBatch'[b].at \in {"item", "held", "putback"} /\ tgBatch[b].at \in {"item", "held", "putback"}
               /\ tgBatch[b].item <= tgBatch'[b].item /\ tgBatch[b].item \in Nat /\ tgBatch'[b].item \in Nat),
         NEW t, Past(t)
  PROVE  Past(t)'
<1>1. PICK c \in Batches : \E j \in 1..Len(BatchItems[c]) :
        /\ t = BatchItems[c][j]
        /\ \/ tgBatch[c].at \in {"cleanup", "gone"}
           \/ tgBatch[c].at \in {"item", "held", "putback"} /\ j < tgBatch[c].item
  BY DEF Past
<1>2. PICK j \in 1..Len(BatchItems[c]) :
        /\ t = BatchItems[c][j]
        /\ \/ tgBatch[c].at \in {"cleanup", "gone"}
           \/ tgBatch[c].at \in {"item", "held", "putback"} /\ j < tgBatch[c].item
  BY <1>1
<1>3. /\ \/ tgBatch'[c].at \in {"cleanup", "gone"}
         \/ tgBatch'[c].at \in {"item", "held", "putback"} /\ j < tgBatch'[c].item
  <2>1. CASE c # b
    BY <1>2, <2>1
  <2>2. CASE c = b
    BY <1>2, <2>2
  <2> QED
    BY <2>1, <2>2
<1> QED
  BY <1>2, <1>3 DEF Past

\* What has its parent, holds tasks and is a group depends on nothing else.
LEMMA SameMembers ==
  ASSUME tgTask' = tgTask
  PROVE  Listed' = Listed /\ StoredOnes' = StoredOnes /\ MadeOnes' = MadeOnes
  BY DEF Listed, StoredOnes, MadeOnes

\* The deletions keep what they are as long as no one touches them, no record is
\* written for what they hold and what they took stays made.
LEMMA DeletionsRest ==
  ASSUME GroupsInv, UNCHANGED <<tgDelete, tgDeleting, tgOverlap>>,
         MadeOnes \subseteq MadeOnes', Listed \subseteq Listed',
         Listed' \ Listed \subseteq Members \ MadeOnes,
         StoredOnes' \ StoredOnes \subseteq Listed' \ MadeOnes
  PROVE  DeletionsInOrder' /\ HeldApart' /\ OverlapsKnown'
<1>1. \A x \in GroupDeleters : Held(x)' = Held(x) /\ Held(x) \subseteq tgDelete[x].all
        /\ tgDelete[x].all \subseteq MadeOnes
  BY DEF Held, GroupsInv, DeletionsInOrder, MadeOnce
<1>2. DeletionsInOrder'
  <2>1. \A S : Parents(S)' = Parents(S)
    BY DEF Parents, HasParent
  <2>2. \A x \in GroupDeleters : tgDelete[x].now \cap StoredOnes' \subseteq tgDelete[x].now \cap StoredOnes
    BY <1>1 DEF Held
  <2> QED
    BY <1>1, <2>1, <2>2 DEF GroupsInv, DeletionsInOrder
<1>3. HeldApart'
  BY <1>1 DEF GroupsInv, HeldApart
<1>4. OverlapsKnown'
  BY DEF GroupsInv, OverlapsKnown, Active, HasParent
<1> QED
  BY <1>2, <1>3, <1>4

\* The call that creates a batch, and its group.
LEMMA BatchBeginsInv ==
  ASSUME GroupsInv, NEW b \in Batches, BatchBegins(b)
  PROVE  GroupsInv'
<1>1. /\ GroupsTyped /\ BatchesInOrder /\ MadeOnce /\ RidsOnce /\ PathsApart /\ HaveGroups /\ EmptyGroupsGo
      /\ tgBatch[b].at = "idle" /\ b \notin tgGroups
      /\ UNCHANGED <<tgTask, tgDeleting, tgCache, tgDelete, tgOverlap, tgStuck>>
  BY DEF GroupsInv, BatchBegins, tgGhosts, BatchesInOrder
<1>2. Listed' = Listed /\ StoredOnes' = StoredOnes /\ MadeOnes' = MadeOnes
  BY <1>1, SameMembers
<1>3. DeletionsInOrder' /\ HeldApart' /\ OverlapsKnown'
  BY <1>1, <1>2, DeletionsRest
<1>4. PICK at \in {"item", "gone"}, item \in {0, 1} : BatchAt(b, at, item) /\ (at = "item" => item = 1)
  BY DEF BatchBegins
<1>5. /\ tgBatch' \in [Batches -> BatchStates]
      /\ tgBatch'[b].at = at /\ tgBatch'[b].item = item
      /\ \A c \in Batches : c # b => tgBatch'[c] = tgBatch[c]
      /\ \A c \in Batches : tgBatch'[c].at \in {"idle", "item", "held", "putback", "cleanup", "gone"}
  <2>1. at \in {"idle", "item", "held", "putback", "cleanup", "gone"} /\ item \in Nat
    OBVIOUS
  <2> QED
    BY <1>1, <1>4, <2>1, BatchMoves
<1>6. MadeOnce'
  <2>1. \A t \in MadeOnes : Past(t)'
    BY <1>1, <1>5, PastStays DEF MadeOnce
  <2> QED
    BY <1>1, <1>2, <2>1 DEF MadeOnce
<1>7. RidsOnce'
  <2>1. \A c \in Batches : Holding(c)' => Holding(c) /\ Current(c)' = Current(c)
    BY <1>5 DEF Holding, Current
  <2> QED
    BY <1>1, <1>2, <2>1 DEF RidsOnce
<1>8. CASE UNCHANGED <<groupsOnly, tgCreating, tgPath>>
  <2>1. GroupsTyped'
    BY <1>1, <1>5, <1>8 DEF GroupsTyped, GroupsTypeOK, groupsOnly
  <2>2. BatchesInOrder'
    BY <1>1, <1>4, <1>5, <1>8 DEF BatchesInOrder, groupsOnly
  <2>3. PathsApart'
    BY <1>1, <1>4, <1>5, <1>8 DEF PathsApart, groupsOnly
  <2>4. HaveGroups'
    BY <1>1, <1>2, <1>8 DEF HaveGroups, HasParent, groupsOnly
  <2>5. EmptyGroupsGo'
    BY <1>1, <1>2, <1>5, <1>8, GroupsAssumption DEF EmptyGroupsGo, EmptyGroup, groupsOnly
  <2> QED
    BY <1>3, <1>6, <1>7, <2>1, <2>2, <2>3, <2>4, <2>5 DEF GroupsInv
<1>9. CASE /\ b \in Grouped /\ at = "item"
           /\ tgPath' = [tgPath EXCEPT ![b] = FirstFree]
           /\ tgDirs' = tgDirs \cup {FirstFree}
           /\ tgStoredGroups' = tgStoredGroups \cup {b}
           /\ tgGroups' = tgGroups \cup {b} /\ tgCreating' = tgCreating \cup {b}
  <2>1. FirstFree \in DirNames /\ FirstFree \notin tgDirs /\ \A g \in tgGroups : tgPath[g] # FirstFree
    BY <1>1, FirstFreeIs
  <2>2. /\ tgPath' \in [Batches -> DirNames] /\ tgPath'[b] = FirstFree
        /\ \A c \in Batches : c # b => tgPath'[c] = tgPath[c]
    BY <1>1, <1>9, <2>1 DEF GroupsTyped, GroupsTypeOK
  <2>3. GroupsTyped'
    BY <1>1, <1>5, <1>9, <2>1, <2>2 DEF GroupsTyped, GroupsTypeOK
  <2>4. BatchesInOrder'
    BY <1>1, <1>4, <1>5, <1>9 DEF BatchesInOrder
  <2>5. PathsApart'
    <3>1. \A g, h \in tgGroups' : tgPath'[g] = tgPath'[h] => g = h
      BY <1>1, <1>9, <2>1, <2>2, GroupsAssumption DEF PathsApart, GroupsTyped, GroupsTypeOK
    <3>2. \A s \in tgDirs' : \E c \in Batches : tgBatch'[c].at # "idle" /\ tgPath'[c] = s
      <4> TAKE s \in tgDirs'
      <4>1. CASE s \in tgDirs
        <5>1. PICK c \in Batches : tgBatch[c].at # "idle" /\ tgPath[c] = s
          BY <1>1, <4>1 DEF PathsApart
        <5>2. c # b
          BY <1>1, <5>1
        <5> QED
          BY <1>5, <2>2, <5>1, <5>2
      <4>2. CASE s = FirstFree
        BY <1>5, <1>9, <2>2, <4>2
      <4> QED
        BY <1>9, <4>1, <4>2
    <3> QED
      BY <3>1, <3>2 DEF PathsApart
  <2>6. HaveGroups'
    BY <1>1, <1>2, <1>9 DEF HaveGroups, HasParent
  <2>7. EmptyGroupsGo'
    BY <1>1, <1>2, <1>5, <1>9, GroupsAssumption DEF EmptyGroupsGo, EmptyGroup
  <2> QED
    BY <1>3, <1>6, <1>7, <2>3, <2>4, <2>5, <2>6, <2>7 DEF GroupsInv
<1>10. UNCHANGED <<groupsOnly, tgCreating, tgPath>>
       \/ (/\ b \in Grouped /\ at = "item"
           /\ tgPath' = [tgPath EXCEPT ![b] = FirstFree]
           /\ tgDirs' = tgDirs \cup {FirstFree}
           /\ tgStoredGroups' = tgStoredGroups \cup {b}
           /\ tgGroups' = tgGroups \cup {b} /\ tgCreating' = tgCreating \cup {b})
  <2>1. BatchAt(b, "item", 1) => at = "item"
    <3>1. BatchAt(b, "item", 1) => tgBatch'[b].at = "item"
      BY <1>1 DEF BatchAt, GroupsTyped
    <3> QED
      BY <1>5, <3>1
  <2> QED
    BY <2>1 DEF BatchBegins
<1> QED
  BY <1>8, <1>9, <1>10

\* What one batch does to an item, apart from the cache and the task.
LEMMA ItemRest ==
  ASSUME GroupsInv, NEW b \in Batches, tgBatch[b].at \in {"item", "held", "putback"},
         NEW at \in {"item", "held", "putback"}, NEW item \in Nat, BatchAt(b, at, item),
         tgBatch[b].item <= item, item >= 1, at # "item" => item \in 1..Len(BatchItems[b]) /\ RidOf[BatchItems[b][item]] \in Rids,
         tgTask' \in [Members -> MemberStates], tgCache' \subseteq Rids,
         UNCHANGED <<tgDeleting, groupsOnly, tgCreating, tgPath, tgDelete, tgGhosts>>,
         Listed \subseteq Listed'
  PROVE  /\ GroupsTyped' /\ BatchesInOrder' /\ PathsApart' /\ EmptyGroupsGo'
         /\ \A t : Past(t) => Past(t)'
         /\ tgBatch'[b].at = at /\ tgBatch'[b].item = item
         /\ \A c \in Batches : c # b => tgBatch'[c] = tgBatch[c]
<1>1. /\ GroupsTyped /\ BatchesInOrder /\ PathsApart /\ EmptyGroupsGo
      /\ UNCHANGED <<tgDeleting, tgGroups, tgStoredGroups, tgDirs, tgCreating, tgPath, tgDelete, tgOverlap, tgStuck>>
      /\ tgBatch[b].item \in Nat
  BY DEF GroupsInv, groupsOnly, tgGhosts, GroupsTyped, BatchStates
<1>2. /\ tgBatch' \in [Batches -> BatchStates]
      /\ tgBatch'[b].at = at /\ tgBatch'[b].item = item
      /\ \A c \in Batches : c # b => tgBatch'[c] = tgBatch[c]
      /\ \A c \in Batches : tgBatch'[c].at \in {"idle", "item", "held", "putback", "cleanup", "gone"}
  <2>1. at \in {"idle", "item", "held", "putback", "cleanup", "gone"}
    OBVIOUS
  <2> QED
    BY <1>1, <2>1, BatchMoves
<1>3. GroupsTyped'
  BY <1>1, <1>2 DEF GroupsTyped, GroupsTypeOK, MemberStates
<1>4. BatchesInOrder'
  BY <1>1, <1>2 DEF BatchesInOrder
<1>5. PathsApart'
  <2>1. \A c \in Batches : tgBatch[c].at # "idle" => tgBatch'[c].at # "idle"
    BY <1>2
  <2> QED
    BY <1>1, <2>1 DEF PathsApart
<1>6. EmptyGroupsGo'
  <2>1. \A g \in Grouped : tgBatch[g].at \notin {"idle", "gone"} => tgBatch'[g].at \notin {"idle", "gone"}
    BY <1>2, GroupsAssumption
  <2> QED
    BY <1>1, <2>1 DEF EmptyGroupsGo, EmptyGroup
<1>7. \A t : Past(t) => Past(t)'
  BY <1>1, <1>2, PastStays
<1> QED
  BY <1>2, <1>3, <1>4, <1>5, <1>6, <1>7

\* A batch takes the fetcher of its item, or leaves the item.
LEMMA BeginItemInv ==
  ASSUME GroupsInv, NEW b \in Batches, BeginItem(b)
  PROVE  GroupsInv'
<1>1. /\ tgBatch[b].at = "item" /\ tgBatch[b].item \in Nat /\ tgBatch[b].item >= 1
      /\ tgBatch[b].item <= Len(BatchItems[b]) /\ Len(BatchItems[b]) \in Nat
      /\ MadeOnce /\ RidsOnce /\ HaveGroups /\ tgCache \subseteq Rids /\ tgTask \in [Members -> MemberStates]
      /\ UNCHANGED <<tgTask, tgDeleting, groupsOnly, tgCreating, tgPath, tgDelete, tgGhosts>>
  BY GroupsAssumption DEF BeginItem, GroupsInv, GroupsTyped, GroupsTypeOK, BatchStates, BatchesInOrder, MemberStates
<1>2. Listed' = Listed /\ StoredOnes' = StoredOnes /\ MadeOnes' = MadeOnes
  BY <1>1, SameMembers
<1>3. DeletionsInOrder' /\ HeldApart' /\ OverlapsKnown'
  BY <1>1, <1>2, DeletionsRest DEF tgGhosts
<1>4. HaveGroups'
  BY <1>1, <1>2 DEF HaveGroups, HasParent, groupsOnly, tgGhosts
<1>5. CASE NextItem(b) /\ UNCHANGED tgCache
  <2> DEFINE at == "item"
             item == tgBatch[b].item + 1
  <2>1. /\ at \in {"item", "held", "putback"} /\ item \in Nat /\ BatchAt(b, at, item)
        /\ tgBatch[b].item <= item /\ item >= 1 /\ at = "item"
    BY <1>1, <1>5 DEF NextItem
  <2> HIDE DEF at, item
  <2>2. /\ GroupsTyped' /\ BatchesInOrder' /\ PathsApart' /\ EmptyGroupsGo' /\ \A t : Past(t) => Past(t)'
    BY <1>1, <1>2, <1>5, <2>1, ItemRest
  <2>3. tgBatch'[b].at = at /\ \A c \in Batches : c # b => tgBatch'[c] = tgBatch[c]
    BY <1>1, <1>2, <1>5, <2>1, ItemRest
  <2>4. MadeOnce'
    BY <1>1, <1>2, <2>2 DEF MadeOnce
  <2>5. RidsOnce'
    <3>1. \A c \in Batches : Holding(c)' => Holding(c) /\ Current(c)' = Current(c)
      BY <2>1, <2>3 DEF Holding, Current
    <3> QED
      BY <1>1, <1>2, <1>5, <3>1 DEF RidsOnce
  <2> QED
    BY <1>3, <1>4, <2>2, <2>4, <2>5 DEF GroupsInv
<1>6. CASE TakeRid(b)
  <2> DEFINE at == "held"
             item == tgBatch[b].item
             rid == RidOf[Current(b)]
  <2>1. /\ at \in {"item", "held", "putback"} /\ item \in Nat /\ BatchAt(b, at, item)
        /\ tgBatch[b].item <= item /\ item >= 1 /\ item \in 1..Len(BatchItems[b]) /\ at = "held"
        /\ item = tgBatch[b].item /\ RidOf[BatchItems[b][item]] \in Rids
    BY <1>1, <1>6 DEF TakeRid, Current
  <2>2. rid \in tgCache /\ tgCache' = tgCache \ {rid}
    BY <1>6 DEF TakeRid
  <2> HIDE DEF at, item
  <2>3. /\ GroupsTyped' /\ BatchesInOrder' /\ PathsApart' /\ EmptyGroupsGo' /\ \A t : Past(t) => Past(t)'
    BY <1>1, <1>2, <2>1, <2>2, ItemRest
  <2>4. tgBatch'[b].item = tgBatch[b].item /\ \A c \in Batches : c # b => tgBatch'[c] = tgBatch[c]
    BY <1>1, <1>2, <2>1, <2>2, ItemRest
  <2>5. MadeOnce'
    BY <1>1, <1>2, <2>3 DEF MadeOnce
  <2>6. RidsOnce'
    <3>1. \A c \in Batches : /\ Current(c)' = Current(c)
                             /\ c # b => (Holding(c)' <=> Holding(c))
      BY <2>4 DEF Holding, Current
    <3> HIDE DEF rid
    <3>2. rid \in Rids /\ \A t \in MadeOnes : RidOf[t] # rid
      BY <1>1, <2>2 DEF RidsOnce
    <3>3. \A c \in Batches : Holding(c) => RidOf[Current(c)] # rid
      BY <1>1, <2>2, <3>2 DEF RidsOnce
    <3> SUFFICES ASSUME NEW r \in Rids
                 PROVE  /\ \A t, u \in MadeOnes : RidOf[t] = r /\ RidOf[u] = r => t = u
                        /\ \A c, d \in Batches :
                             Holding(c)' /\ RidOf[Current(c)] = r /\ Holding(d)' /\ RidOf[Current(d)] = r => c = d
                        /\ \A c \in Batches : Holding(c)' /\ RidOf[Current(c)] = r => r \notin tgCache'
                        /\ (r \in tgCache' \/ \E c \in Batches : Holding(c)' /\ RidOf[Current(c)] = r) =>
                             \A t \in MadeOnes : RidOf[t] # r
      BY <1>2, <3>1 DEF RidsOnce
    <3>4. CASE r = rid
      <4>1. \A c \in Batches : Holding(c)' /\ RidOf[Current(c)] = r => c = b
        BY <3>1, <3>3, <3>4
      <4> QED
        BY <2>2, <3>2, <3>4, <4>1
    <3>5. CASE r # rid
      <4>1. \A c \in Batches : Holding(c)' /\ RidOf[Current(c)] = r => c # b /\ Holding(c)
        BY <3>1, <3>5 DEF rid
      <4> QED
        BY <1>1, <2>2, <4>1 DEF RidsOnce
    <3> QED
      BY <3>4, <3>5
  <2> QED
    BY <1>3, <1>4, <2>3, <2>5, <2>6 DEF GroupsInv
<1> QED
  BY <1>5, <1>6 DEF BeginItem

\* The fetcher of an item that failed goes back.
LEMMA PutBackInv ==
  ASSUME GroupsInv, NEW b \in Batches, PutBackRid(b)
  PROVE  GroupsInv'
<1> DEFINE rid == RidOf[Current(b)]
<1>1. /\ tgBatch[b].at = "putback" /\ tgBatch[b].item \in 1..Len(BatchItems[b]) /\ Len(BatchItems[b]) \in Nat
      /\ MadeOnce /\ RidsOnce /\ HaveGroups /\ tgCache \subseteq Rids /\ tgTask \in [Members -> MemberStates]
      /\ UNCHANGED <<tgTask, tgDeleting, groupsOnly, tgCreating, tgPath, tgDelete, tgGhosts>>
      /\ NextItem(b) /\ tgCache' = tgCache \cup {rid} /\ rid \in Rids
  BY GroupsAssumption DEF PutBackRid, GroupsInv, GroupsTyped, GroupsTypeOK, BatchStates, BatchesInOrder, MemberStates,
     Current
<1>2. Listed' = Listed /\ StoredOnes' = StoredOnes /\ MadeOnes' = MadeOnes
  BY <1>1, SameMembers
<1>3. DeletionsInOrder' /\ HeldApart' /\ OverlapsKnown'
  BY <1>1, <1>2, DeletionsRest DEF tgGhosts
<1>4. HaveGroups'
  BY <1>1, <1>2 DEF HaveGroups, HasParent, groupsOnly, tgGhosts
<1> DEFINE at == "item"
           item == tgBatch[b].item + 1
<1>5. /\ at \in {"item", "held", "putback"} /\ item \in Nat /\ BatchAt(b, at, item)
      /\ tgBatch[b].item <= item /\ item >= 1 /\ at = "item" /\ tgCache' \subseteq Rids
  BY <1>1 DEF NextItem
<1> HIDE DEF at, item, rid
<1>6. /\ GroupsTyped' /\ BatchesInOrder' /\ PathsApart' /\ EmptyGroupsGo' /\ \A t : Past(t) => Past(t)'
  BY <1>1, <1>2, <1>5, ItemRest
<1>7. tgBatch'[b].at = at /\ \A c \in Batches : c # b => tgBatch'[c] = tgBatch[c]
  BY <1>1, <1>2, <1>5, ItemRest
<1>8. MadeOnce'
  BY <1>1, <1>2, <1>6 DEF MadeOnce
<1>9. RidsOnce'
  <2>1. \A c \in Batches : Holding(c)' => c # b /\ Holding(c) /\ Current(c)' = Current(c)
    BY <1>5, <1>7 DEF Holding, Current
  <2>2. Holding(b)
    BY <1>1 DEF Holding
  <2>3. /\ \A t \in MadeOnes : RidOf[t] # rid
        /\ \A c \in Batches : Holding(c) /\ RidOf[Current(c)] = rid => c = b
    BY <1>1, <2>2 DEF RidsOnce, rid
  <2> SUFFICES ASSUME NEW r \in Rids
               PROVE  /\ \A t, u \in MadeOnes : RidOf[t] = r /\ RidOf[u] = r => t = u
                      /\ \A c, d \in Batches :
                           Holding(c)' /\ RidOf[Current(c)'] = r /\ Holding(d)' /\ RidOf[Current(d)'] = r => c = d
                      /\ \A c \in Batches : Holding(c)' /\ RidOf[Current(c)'] = r => r \notin tgCache'
                      /\ (r \in tgCache' \/ \E c \in Batches : Holding(c)' /\ RidOf[Current(c)'] = r) =>
                           \A t \in MadeOnes : RidOf[t] # r
    BY <1>2 DEF RidsOnce
  <2>4. CASE r = rid
    BY <1>1, <2>1, <2>3, <2>4
  <2>5. CASE r # rid
    BY <1>1, <2>1, <2>5 DEF RidsOnce
  <2> QED
    BY <2>4, <2>5
<1> QED
  BY <1>3, <1>4, <1>6, <1>8, <1>9 DEF GroupsInv

\* A batch makes the task of its item, listed with its record, where its group
\* is still there, or keeps the fetcher of an item that fails.
LEMMA CreateMemberInv ==
  ASSUME GroupsInv, NEW b \in Batches, CreateMember(b)
  PROVE  GroupsInv'
<1>0. PICK t : t = Current(b)
  OBVIOUS
<1>1. /\ tgBatch[b].at \in {"item", "held"} /\ tgBatch[b].item \in 1..Len(BatchItems[b]) /\ Len(BatchItems[b]) \in Nat
      /\ tgBatch[b].at = "item" => RidOf[t] = NoRid
      /\ tgBatch[b].at = "held" => RidOf[t] \in Rids
      /\ MadeOnce /\ RidsOnce /\ HaveGroups /\ tgCache \subseteq Rids /\ tgTask \in [Members -> MemberStates]
      /\ UNCHANGED <<tgDeleting, groupsOnly, tgCreating, tgPath, tgCache, tgDelete, tgGhosts>>
  BY <1>0, GroupsAssumption DEF CreateMember, GroupsInv, GroupsTyped, GroupsTypeOK, BatchStates, BatchesInOrder, MemberStates,
     Current
<1>2. t \in Members /\ BatchOf[t] = b /\ t \notin MadeOnes
  BY <1>0, <1>1, CurrentIsNew
<1>3. CASE /\ b \in Grouped => b \in tgGroups
           /\ tgTask' = [tgTask EXCEPT ![t].listed = TRUE, ![t].stored = TRUE, ![t].made = TRUE]
           /\ NextItem(b)
  <2> DEFINE at == "item"
             item == tgBatch[b].item + 1
  <2>1. /\ at \in {"item", "held", "putback"} /\ item \in Nat /\ BatchAt(b, at, item)
        /\ tgBatch[b].item <= item /\ item >= 1 /\ at = "item" /\ tgCache' \subseteq Rids
        /\ item = tgBatch[b].item + 1
    BY <1>1, <1>3 DEF NextItem
  <2> DEFINE e == [tgTask[t] EXCEPT !.listed = TRUE, !.stored = TRUE, !.made = TRUE]
  <2> HIDE DEF at, item
  <2>2. e \in MemberStates /\ e.listed /\ e.stored /\ e.made /\ tgTask' = [tgTask EXCEPT ![t] = e]
    BY <1>1, <1>2, <1>3 DEF MemberStates
  <2> HIDE DEF e
  <2>3. /\ tgTask' \in [Members -> MemberStates] /\ tgTask'[t] = e
        /\ \A u \in Members : u # t => tgTask'[u] = tgTask[u]
    BY <1>1, <1>2, <2>2
  <2>4. /\ Listed' = Listed \cup {t} /\ StoredOnes' = StoredOnes \cup {t} /\ MadeOnes' = MadeOnes \cup {t}
    BY <1>2, <2>2, <2>3 DEF Listed, StoredOnes, MadeOnes
  <2>5. DeletionsInOrder' /\ HeldApart' /\ OverlapsKnown'
    BY <1>1, <1>2, <2>4, DeletionsRest DEF tgGhosts
  <2>6. /\ GroupsTyped' /\ BatchesInOrder' /\ PathsApart' /\ EmptyGroupsGo' /\ \A u : Past(u) => Past(u)'
    BY <1>1, <2>1, <2>3, <2>4, ItemRest
  <2>7. /\ tgBatch'[b].at = at /\ tgBatch'[b].item = item
        /\ \A c \in Batches : c # b => tgBatch'[c] = tgBatch[c]
    BY <1>1, <2>1, <2>3, <2>4, ItemRest
  <2>8. MadeOnce'
    <3>1. Past(t)'
      BY <1>0, <1>1, <2>1, <2>7 DEF Past, Current
    <3> QED
      BY <1>1, <2>4, <2>6, <3>1 DEF MadeOnce
  <2>9. RidsOnce'
    <3>1. \A c \in Batches : Holding(c)' => c # b /\ Holding(c) /\ Current(c)' = Current(c)
      BY <2>1, <2>7 DEF Holding, Current
    <3>2. /\ RidOf[t] \in Rids => /\ \A u \in MadeOnes : RidOf[u] # RidOf[t]
                                  /\ RidOf[t] \notin tgCache
                                  /\ \A c \in Batches : Holding(c) /\ RidOf[Current(c)] = RidOf[t] => c = b
      <4>1. RidOf[t] \in Rids => Holding(b)
        BY <1>1, GroupsAssumption DEF Holding
      <4> QED
        BY <1>0, <1>1, <4>1 DEF RidsOnce
    <3> SUFFICES ASSUME NEW r \in Rids
                 PROVE  /\ \A u, v \in MadeOnes \cup {t} : RidOf[u] = r /\ RidOf[v] = r => u = v
                        /\ \A c, d \in Batches :
                             Holding(c)' /\ RidOf[Current(c)'] = r /\ Holding(d)' /\ RidOf[Current(d)'] = r => c = d
                        /\ \A c \in Batches : Holding(c)' /\ RidOf[Current(c)'] = r => r \notin tgCache
                        /\ (r \in tgCache \/ \E c \in Batches : Holding(c)' /\ RidOf[Current(c)'] = r) =>
                             \A u \in MadeOnes \cup {t} : RidOf[u] # r
      BY <1>1, <2>4 DEF RidsOnce
    <3>3. CASE r = RidOf[t]
      BY <1>1, <3>1, <3>2, <3>3
    <3>4. CASE r # RidOf[t]
      BY <1>1, <3>1, <3>4 DEF RidsOnce
    <3> QED
      BY <3>3, <3>4
  <2>10. HaveGroups'
    <3>1. BatchOf[t] = b /\ (HasParent(t) => b \in tgGroups) /\ tgGroups = tgStoredGroups
      BY <1>2, <1>3 DEF HasParent, GroupsInv, GroupsTyped
    <3> QED
      BY <1>1, <2>4, <3>1 DEF HaveGroups, HasParent, groupsOnly, tgGhosts
  <2> QED
    BY <2>5, <2>6, <2>8, <2>9, <2>10 DEF GroupsInv
<1>4. CASE RidOf[t] # NoRid /\ BatchAt(b, "putback", tgBatch[b].item) /\ UNCHANGED tgTask
  <2>1. Listed' = Listed /\ StoredOnes' = StoredOnes /\ MadeOnes' = MadeOnes
    BY <1>4, SameMembers
  <2>2. DeletionsInOrder' /\ HeldApart' /\ OverlapsKnown'
    BY <1>1, <2>1, DeletionsRest DEF tgGhosts
  <2>3. HaveGroups'
    BY <1>1, <2>1 DEF HaveGroups, HasParent, groupsOnly, tgGhosts
  <2> DEFINE at == "putback"
             item == tgBatch[b].item
  <2>4. /\ at \in {"item", "held", "putback"} /\ item \in Nat /\ BatchAt(b, at, item)
        /\ tgBatch[b].item <= item /\ item >= 1 /\ at = "putback" /\ tgCache' \subseteq Rids
        /\ item = tgBatch[b].item /\ item \in 1..Len(BatchItems[b]) /\ RidOf[BatchItems[b][item]] \in Rids
        /\ tgBatch[b].at = "held"
    BY <1>0, <1>1, <1>4 DEF Current
  <2> HIDE DEF at, item
  <2>5. /\ GroupsTyped' /\ BatchesInOrder' /\ PathsApart' /\ EmptyGroupsGo' /\ \A u : Past(u) => Past(u)'
    BY <1>1, <1>4, <2>1, <2>4, ItemRest
  <2>6. /\ tgBatch'[b].at = at /\ tgBatch'[b].item = item
        /\ \A c \in Batches : c # b => tgBatch'[c] = tgBatch[c]
    BY <1>1, <1>4, <2>1, <2>4, ItemRest
  <2>7. MadeOnce'
    BY <1>1, <2>1, <2>5 DEF MadeOnce
  <2>8. RidsOnce'
    <3>1. \A c \in Batches : (Holding(c)' <=> Holding(c)) /\ Current(c)' = Current(c)
      BY <2>4, <2>6 DEF Holding, Current
    <3> QED
      BY <1>1, <2>1, <3>1 DEF RidsOnce
  <2> QED
    BY <2>2, <2>3, <2>5, <2>7, <2>8 DEF GroupsInv
<1> QED
  BY <1>0, <1>3, <1>4 DEF CreateMember

\* A task that downloads makes its file, and its directory where that is missing.
LEMMA MemberWritesInv ==
  ASSUME GroupsInv, NEW t \in Members, MemberWrites(t)
  PROVE  GroupsInv'
<1>1. /\ GroupsTyped /\ tgTask \in [Members -> MemberStates] /\ MadeOnce /\ PathsApart /\ t \in Listed
      /\ tgTask' = [tgTask EXCEPT ![t].file = TRUE]
      /\ tgDirs' = IF HasParent(t) THEN tgDirs \cup {tgPath[BatchOf[t]]} ELSE tgDirs
      /\ UNCHANGED <<tgDeleting, tgGroups, tgStoredGroups, tgCreating, tgPath, tgCache, tgBatch, tgDelete,
                     tgOverlap, tgStuck>>
  BY DEF MemberWrites, GroupsInv, GroupsTyped, GroupsTypeOK, MemberStates, tgGhosts
<1>2. /\ tgTask' \in [Members -> MemberStates]
      /\ \A u \in Members : /\ tgTask'[u].listed = tgTask[u].listed /\ tgTask'[u].stored = tgTask[u].stored
                            /\ tgTask'[u].made = tgTask[u].made
  <2> DEFINE e == [tgTask[t] EXCEPT !.file = TRUE]
  <2>1. /\ e \in MemberStates /\ e.listed = tgTask[t].listed /\ e.stored = tgTask[t].stored
        /\ e.made = tgTask[t].made /\ tgTask' = [tgTask EXCEPT ![t] = e]
    BY <1>1 DEF MemberStates
  <2> HIDE DEF e
  <2>2. tgTask' \in [Members -> MemberStates] /\ tgTask'[t] = e
        /\ \A u \in Members : u # t => tgTask'[u] = tgTask[u]
    BY <1>1, <2>1
  <2> QED
    BY <2>1, <2>2
<1>3. Listed' = Listed /\ StoredOnes' = StoredOnes /\ MadeOnes' = MadeOnes
  BY <1>2 DEF Listed, StoredOnes, MadeOnes
<1>4. DeletionsInOrder' /\ HeldApart' /\ OverlapsKnown'
  BY <1>1, <1>3, DeletionsRest
<1>5. PICK b \in Batches : BatchOf[t] = b /\ tgBatch[b].at # "idle"
  <2>1. t \in MadeOnes /\ Past(t)
    BY <1>1 DEF MadeOnce
  <2>2. PICK b \in Batches : \E j \in 1..Len(BatchItems[b]) : t = BatchItems[b][j] /\ tgBatch[b].at # "idle"
    BY <2>1 DEF Past
  <2> QED
    BY <2>2, ItemsBatch
<1>6. GroupsTyped' /\ PathsApart'
  <2>1. tgPath[b] \in DirNames
    BY <1>1 DEF GroupsTyped, GroupsTypeOK
  <2>2. tgDirs' \subseteq tgDirs \cup {tgPath[b]}
    BY <1>1, <1>5
  <2>3. tgDirs' \subseteq DirNames
    BY <1>1, <2>1, <2>2 DEF GroupsTyped, GroupsTypeOK
  <2>4. GroupsTyped'
    BY <1>1, <1>2, <2>3 DEF GroupsTyped, GroupsTypeOK, MemberStates
  <2>5. PathsApart'
    BY <1>1, <1>5, <2>2 DEF PathsApart
  <2> QED
    BY <2>4, <2>5
<1>7. MadeOnce' /\ RidsOnce'
  <2>1. \A u : Past(u)' <=> Past(u)
    BY <1>1 DEF Past
  <2>2. \A c : (Holding(c)' <=> Holding(c)) /\ Current(c)' = Current(c)
    BY <1>1 DEF Holding, Current
  <2>3. MadeOnce'
    BY <1>1, <1>3, <2>1 DEF MadeOnce
  <2>4. RidsOnce'
    BY <1>1, <1>3, <2>2 DEF RidsOnce, GroupsInv
  <2> QED
    BY <2>3, <2>4
<1>8. BatchesInOrder'
  BY <1>1 DEF GroupsInv, BatchesInOrder
<1>9. HaveGroups' /\ EmptyGroupsGo'
  BY <1>1, <1>3 DEF GroupsInv, HaveGroups, HasParent, EmptyGroupsGo, EmptyGroup
<1> QED
  BY <1>4, <1>6, <1>7, <1>8, <1>9 DEF GroupsInv

\* The end of a batch: it lets go of its group, and then looks whether that is
\* empty.
LEMMA BatchEndsInv ==
  ASSUME GroupsInv, NEW b \in Batches, BatchEnds(b)
  PROVE  GroupsInv'
<1>1. /\ GroupsTyped /\ BatchesInOrder /\ MadeOnce /\ RidsOnce /\ PathsApart /\ HaveGroups /\ EmptyGroupsGo
      /\ UNCHANGED <<tgDeleting, tgPath, tgCache, tgDelete, tgOverlap>>
      /\ tgBatch[b].at \in {"item", "cleanup"}
  BY DEF GroupsInv, BatchEnds
<1>2. ASSUME NEW at \in {"cleanup", "gone"}, BatchAt(b, at, 0), tgCreating' \subseteq tgCreating, b \notin tgCreating',
             tgTask' \in [Members -> MemberStates],
             Listed' = Listed /\ StoredOnes' = StoredOnes /\ MadeOnes' = MadeOnes,
             tgGroups' \subseteq tgGroups, tgStoredGroups' = tgGroups', tgDirs' \subseteq tgDirs, HaveGroups', EmptyGroupsGo'
      PROVE  GroupsInv'
  <2> DEFINE item == 0
  <2>1. /\ tgBatch' \in [Batches -> BatchStates]
        /\ tgBatch'[b].at = at
        /\ \A c \in Batches : c # b => tgBatch'[c] = tgBatch[c]
        /\ \A c \in Batches : tgBatch'[c].at \in {"idle", "item", "held", "putback", "cleanup", "gone"}
    <3>1. item \in Nat /\ BatchAt(b, at, item) /\ at \in {"idle", "item", "held", "putback", "cleanup", "gone"}
      BY <1>2
    <3> HIDE DEF item
    <3> QED
      BY <1>1, <3>1, BatchMoves
  <2>2. GroupsTyped'
    BY <1>1, <1>2, <2>1 DEF GroupsTyped, GroupsTypeOK, MemberStates
  <2>3. BatchesInOrder'
    BY <1>1, <1>2, <2>1 DEF BatchesInOrder
  <2>4. DeletionsInOrder' /\ HeldApart' /\ OverlapsKnown'
    BY <1>1, <1>2, DeletionsRest
  <2>5. MadeOnce'
    <3>1. \A t \in MadeOnes : Past(t)'
      BY <1>1, <2>1, PastStays DEF MadeOnce
    <3> QED
      BY <1>1, <1>2, <3>1 DEF MadeOnce
  <2>6. RidsOnce'
    <3>1. \A c \in Batches : Holding(c)' => Holding(c) /\ Current(c)' = Current(c)
      BY <2>1 DEF Holding, Current
    <3> QED
      BY <1>1, <1>2, <3>1 DEF RidsOnce
  <2>7. PathsApart'
    BY <1>1, <1>2, <2>1 DEF PathsApart
  <2> QED
    BY <1>2, <2>2, <2>3, <2>4, <2>5, <2>6, <2>7 DEF GroupsInv
<1>3. \A at : BatchAt(b, at, 0) => tgBatch'[b].at = at /\ \A c \in Batches : c # b => tgBatch'[c] = tgBatch[c]
  BY <1>1 DEF BatchAt, GroupsTyped
<1>4. CASE /\ tgBatch[b].at = "item" /\ tgCreating' = tgCreating \ {b}
           /\ BatchAt(b, IF b \in Grouped THEN "cleanup" ELSE "gone", 0)
           /\ UNCHANGED <<groupsOnly, tgTask, tgMishaps, tgStuck>>
  <2>1. Listed' = Listed /\ StoredOnes' = StoredOnes /\ MadeOnes' = MadeOnes
    BY <1>4, SameMembers
  <2>2. PICK at \in {"cleanup", "gone"} : BatchAt(b, at, 0) /\ (b \in Grouped => at = "cleanup")
    BY <1>4
  <2>3. tgTask' \in [Members -> MemberStates]
    BY <1>1, <1>4 DEF GroupsTyped, GroupsTypeOK, MemberStates
  <2>4. HaveGroups'
    BY <1>1, <1>4, <2>1 DEF HaveGroups, HasParent, groupsOnly
  <2>5. EmptyGroupsGo'
    BY <1>1, <1>3, <1>4, <2>1, <2>2, GroupsAssumption DEF EmptyGroupsGo, EmptyGroup, groupsOnly
  <2> QED
    BY <1>1, <1>2, <1>4, <2>1, <2>2, <2>3, <2>4, <2>5 DEF groupsOnly, GroupsTyped
<1>5. CASE /\ tgBatch[b].at = "cleanup" /\ CleanUp({b}, {}) /\ BatchAt(b, "gone", 0) /\ UNCHANGED tgCreating
  <2> DEFINE ids == {b}
             forced == {}
  <2>1. CleanUp(ids, forced)
    BY <1>5
  <2> HIDE DEF ids, forced
  <2>2. /\ tgTask' \in [Members -> MemberStates]
        /\ Listed' = Listed /\ StoredOnes' = StoredOnes /\ MadeOnes' = MadeOnes
        /\ tgGroups' \subseteq tgGroups /\ tgStoredGroups' = tgGroups' /\ tgDirs' \subseteq tgDirs
        /\ \A g \in tgGroups : g \in ids \ tgCreating /\ g \in tgGroups'
              /\ (\A t \in Members : BatchOf[t] = g => t \notin Listed \cup tgDeleting) => g \in tgStuck'
        /\ tgStuck \subseteq tgStuck'
        /\ HaveGroups'
    BY <1>1, <1>5, <2>1, CleanUpFacts
  <2>3. b \notin tgCreating
    BY <1>1, <1>5 DEF BatchesInOrder
  <2>4. EmptyGroupsGo'
    <3> SUFFICES ASSUME NEW g \in Grouped, EmptyGroup(g)', g \notin tgStuck',
                        \A x \in GroupDeleters : g \notin tgDelete'[x].parents
                 PROVE  tgBatch'[g].at \notin {"idle", "gone"}
      BY DEF EmptyGroupsGo
    <3>1. /\ EmptyGroup(g) /\ g \in tgGroups /\ g \in tgGroups'
          /\ \A t \in Members : BatchOf[t] = g => t \notin Listed \cup tgDeleting
      BY <1>1, <2>2 DEF EmptyGroup, MembersOf
    <3>2. g # b
      BY <2>2, <2>3, <3>1 DEF ids
    <3>3. tgBatch[g].at \notin {"idle", "gone"}
      BY <1>1, <2>2, <3>1 DEF EmptyGroupsGo
    <3> QED
      BY <1>3, <1>5, <3>2, <3>3, GroupsAssumption
  <2> QED
    BY <1>2, <1>5, <2>2, <2>3, <2>4
<1> QED
  BY <1>4, <1>5 DEF BatchEnds

\* A deletion is a new record.
LEMMA DeletionMovesTo ==
  ASSUME GroupsTyped, NEW x \in GroupDeleters, NEW e \in DeletionStates, Deletes(x, e)
  PROVE  /\ tgDelete' \in [GroupDeleters -> DeletionStates] /\ tgDelete'[x] = e
         /\ \A y \in GroupDeleters : y # x => tgDelete'[y] = tgDelete[y]
         /\ \A y \in GroupDeleters : tgDelete'[y].at \in {"idle", "files", "restore", "next", "cleanup"}
<1>1. tgDelete \in [GroupDeleters -> DeletionStates] /\ tgDelete' = [tgDelete EXCEPT ![x] = e]
  BY DEF GroupsTyped, Deletes
<1>2. tgDelete' \in [GroupDeleters -> DeletionStates] /\ tgDelete'[x] = e
      /\ \A y \in GroupDeleters : y # x => tgDelete'[y] = tgDelete[y]
  BY <1>1
<1> QED
  BY <1>2 DEF DeletionStates

\* The tasks of a deletion leave the list, and it holds them.
LEMMA DeleteBeginsInv ==
  ASSUME GroupsInv, NEW x \in GroupDeleters, DeleteBegins(x)
  PROVE  GroupsInv'
<1>1. PICK ids \in Filters, force \in BOOLEAN :
        LET groups == ids \cap tgGroups
            tasks == {t \in Listed : t \in ids \/ (HasParent(t) /\ BatchOf[t] \in ids)}
        IN
        /\ tgDelete[x].at = "idle"
        /\ tgDeleting' = tgDeleting \cup tasks
        /\ tgOverlap' = tgOverlap \cup Parents(tasks \cap tgDeleting)
        /\ tgTask' = Taken(tasks)
        /\ Deletes(x, Deletion(tasks, groups, force, FALSE))
        /\ UNCHANGED <<groupsOnly, tgCreating, tgPath, tgCache, tgBatch, tgMishaps, tgStuck>>
  BY DEF DeleteBegins
<1> DEFINE groups0 == ids \cap tgGroups
           tasks0 == {t \in Listed : t \in ids \/ (HasParent(t) /\ BatchOf[t] \in ids)}
<1>2. PICK tasks, groups : tasks = tasks0 /\ groups = groups0
  OBVIOUS
<1>3. /\ tgDelete[x].at = "idle" /\ tasks \subseteq Listed /\ groups \subseteq tgGroups
      /\ tgDeleting' = tgDeleting \cup tasks
      /\ tgOverlap' = tgOverlap \cup Parents(tasks \cap tgDeleting)
      /\ tgTask' = Taken(tasks)
      /\ Deletes(x, Deletion(tasks, groups, force, FALSE))
      /\ UNCHANGED <<tgGroups, tgStoredGroups, tgDirs, tgCreating, tgPath, tgCache, tgBatch, tgStuck>>
  BY <1>1, <1>2 DEF groupsOnly
<1> HIDE DEF tasks0, groups0
<1>4. /\ GroupsTyped /\ BatchesInOrder /\ DeletionsInOrder /\ MadeOnce /\ HeldApart /\ OverlapsKnown
      /\ RidsOnce /\ PathsApart /\ HaveGroups /\ EmptyGroupsGo
      /\ tgTask \in [Members -> MemberStates] /\ Listed \subseteq Members /\ tgGroups \subseteq Grouped
      /\ tgDeleting \subseteq Members
  BY DEF GroupsInv, GroupsTyped, GroupsTypeOK, MemberStates, Listed
<1> DEFINE e == Deletion(tasks, groups, force, FALSE)
<1>5. /\ e \in DeletionStates /\ e.at = "next" /\ e.all = tasks /\ e.todo = tasks /\ e.now = {}
      /\ e.parents = groups \cup Parents(tasks)
  BY <1>3, <1>4, ParentsFacts DEF Deletion, DeletionStates
<1> HIDE DEF e
<1>6. /\ tgDelete' \in [GroupDeleters -> DeletionStates] /\ tgDelete'[x] = e
      /\ \A y \in GroupDeleters : y # x => tgDelete'[y] = tgDelete[y]
      /\ \A y \in GroupDeleters : tgDelete'[y].at \in {"idle", "files", "restore", "next", "cleanup"}
  BY <1>3, <1>4, <1>5, DeletionMovesTo DEF e
<1>7. /\ tgTask' \in [Members -> MemberStates]
      /\ Listed' = Listed \ tasks /\ StoredOnes' = StoredOnes /\ MadeOnes' = MadeOnes
  <2>1. \A t \in Members : /\ tgTask'[t] \in MemberStates
                           /\ tgTask'[t].stored = tgTask[t].stored /\ tgTask'[t].made = tgTask[t].made
                           /\ tgTask'[t].listed = (tgTask[t].listed /\ t \notin tasks)
    BY <1>3, <1>4 DEF Taken, MemberStates
  <2>2. tgTask' \in [Members -> MemberStates]
    <3>1. tgTask' = [t \in Members |-> tgTask'[t]]
      BY <1>3 DEF Taken
    <3> QED
      BY <2>1, <3>1
  <2> QED
    BY <2>1, <2>2 DEF Listed, StoredOnes, MadeOnes
<1>8. GroupsTyped'
  BY <1>3, <1>4, <1>6, <1>7 DEF GroupsTyped, GroupsTypeOK, MemberStates
<1>9. BatchesInOrder' /\ PathsApart'
  BY <1>3, <1>4 DEF BatchesInOrder, PathsApart
<1>10. /\ \A y \in GroupDeleters : y # x => Held(y)' = Held(y) /\ (Active(y)' <=> Active(y))
       /\ Held(x)' = tasks /\ Held(x) = {} /\ Active(x)'
  BY <1>3, <1>4, <1>5, <1>6 DEF Held, Active, DeletionsInOrder
<1>11. DeletionsInOrder'
  <2>1. \A S : Parents(S)' = Parents(S)
    BY DEF Parents, HasParent
  <2>2. \A y \in GroupDeleters \ {x} :
          /\ tgDelete'[y].at = "idle" => tgDelete'[y].parents = {}
          /\ Parents(tgDelete'[y].all) \subseteq tgDelete'[y].parents
          /\ Held(y)' \subseteq tgDelete'[y].all /\ tgDelete'[y].todo \cap tgDelete'[y].now = {}
          /\ tgDelete'[y].at \in {"idle", "cleanup"} => Held(y)' = {}
          /\ tgDelete'[y].at = "next" => tgDelete'[y].now = {}
          /\ tgDelete'[y].at = "files" => tgDelete'[y].now \cap StoredOnes' = {}
    BY <1>4, <1>6, <1>7, <1>10 DEF DeletionsInOrder
  <2>3. /\ tgDelete'[x].at = "idle" => tgDelete'[x].parents = {}
        /\ Parents(tgDelete'[x].all) \subseteq tgDelete'[x].parents
        /\ Held(x)' \subseteq tgDelete'[x].all /\ tgDelete'[x].todo \cap tgDelete'[x].now = {}
        /\ tgDelete'[x].at \in {"idle", "cleanup"} => Held(x)' = {}
        /\ tgDelete'[x].at = "next" => tgDelete'[x].now = {}
        /\ tgDelete'[x].at = "files" => tgDelete'[x].now \cap StoredOnes' = {}
    BY <1>5, <1>6, <1>10
  <2> QED
    BY <2>1, <2>2, <2>3 DEF DeletionsInOrder
<1>12. MadeOnce'
  <2>1. \A t : Past(t)' <=> Past(t)
    BY <1>3 DEF Past
  <2>2. \A y \in GroupDeleters : tgDelete'[y].all \subseteq MadeOnes
    BY <1>3, <1>4, <1>5, <1>6 DEF MadeOnce
  <2> QED
    BY <1>3, <1>4, <1>7, <2>1, <2>2 DEF MadeOnce
<1>13. HeldApart'
  <2>1. \A y \in GroupDeleters : Held(y)' \cap Listed' = {}
    BY <1>4, <1>7, <1>10 DEF HeldApart
  <2>2. \A y, z \in GroupDeleters : y # z => Held(y)' \cap Held(z)' = {}
    BY <1>3, <1>4, <1>10 DEF HeldApart
  <2>3. \A t \in StoredOnes : t \in Listed' \/ \E y \in GroupDeleters : t \in Held(y)'
    BY <1>4, <1>7, <1>10 DEF HeldApart
  <2> QED
    BY <1>7, <2>1, <2>2, <2>3 DEF HeldApart
<1>14. OverlapsKnown'
  <2>1. ASSUME NEW y \in GroupDeleters, Active(y)', NEW t \in tgDelete'[y].all, HasParent(t)
        PROVE  t \in tgDeleting' \/ BatchOf[t] \in tgOverlap'
    BY <1>3, <1>4, <1>5, <1>6, <1>10, <2>1 DEF OverlapsKnown
  <2>2. ASSUME NEW y \in GroupDeleters, y # x, Active(y)', NEW t \in tasks \cap tgDelete'[y].all, HasParent(t)
        PROVE  BatchOf[t] \in tgOverlap'
    <3>1. t \in tgDeleting \/ BatchOf[t] \in tgOverlap
      BY <1>4, <1>6, <1>10, <2>2 DEF OverlapsKnown
    <3> QED
      BY <1>3, <2>2, <3>1, ParentsFacts
  <2>3. ASSUME NEW y \in GroupDeleters, NEW z \in GroupDeleters, Active(y)', Active(z)', y # z,
               NEW t \in tgDelete'[y].all \cap tgDelete'[z].all, HasParent(t)
        PROVE  BatchOf[t] \in tgOverlap'
    <3>1. CASE y = x
      BY <1>5, <1>6, <2>2, <2>3, <3>1
    <3>2. CASE z = x
      BY <1>5, <1>6, <2>2, <2>3, <3>2
    <3>3. CASE y # x /\ z # x
      BY <1>3, <1>4, <1>6, <1>10, <2>3, <3>3 DEF OverlapsKnown
    <3> QED
      BY <3>1, <3>2, <3>3
  <2>4. \A t : HasParent(t)' <=> HasParent(t)
    BY DEF HasParent
  <2> QED
    BY <2>1, <2>3, <2>4 DEF OverlapsKnown
<1>15. RidsOnce'
  <2>1. \A c : (Holding(c)' <=> Holding(c)) /\ Current(c)' = Current(c)
    BY <1>3 DEF Holding, Current
  <2> QED
    BY <1>3, <1>4, <1>7, <2>1 DEF RidsOnce
<1>16. HaveGroups'
  BY <1>3, <1>4, <1>7 DEF HaveGroups, HasParent
<1>17. EmptyGroupsGo'
  <2> SUFFICES ASSUME NEW g \in Grouped, EmptyGroup(g)', g \notin tgStuck', tgBatch'[g].at \in {"idle", "gone"}
               PROVE  \E y \in GroupDeleters : g \in tgDelete'[y].parents
    BY DEF EmptyGroupsGo
  <2>1. EmptyGroup(g)
    BY <1>3, <1>7 DEF EmptyGroup, MembersOf
  <2>2. PICK y \in GroupDeleters : g \in tgDelete[y].parents
    BY <1>3, <1>4, <2>1 DEF EmptyGroupsGo
  <2>3. y # x
    BY <1>3, <1>4, <2>2 DEF DeletionsInOrder
  <2> QED
    BY <1>6, <2>2, <2>3
<1> QED
  BY <1>8, <1>9, <1>11, <1>12, <1>13, <1>14, <1>15, <1>16, <1>17 DEF GroupsInv

\* A deletion that goes on with its tasks keeps the invariant: it takes no task
\* that it did not hold, puts back only what it held, and writes no other record.
LEMMA DeletionGoesOn ==
  ASSUME GroupsInv, NEW x \in GroupDeleters, Active(x),
         NEW e \in DeletionStates, Deletes(x, e), e.at \in {"files", "restore", "next"},
         e.all = tgDelete[x].all, e.parents = tgDelete[x].parents,
         UNCHANGED <<tgDeleting, groupsOnly, tgCreating, tgPath, tgCache, tgBatch, tgGhosts>>,
         tgTask' \in [Members -> MemberStates], MadeOnes' = MadeOnes,
         Listed \subseteq Listed', Listed' \ Listed \subseteq Held(x),
         e.todo \cup e.now \subseteq Held(x) \ Listed', e.todo \cap e.now = {},
         e.at = "next" => e.now = {}, e.at = "files" => e.now \cap StoredOnes' = {},
         StoredOnes' \subseteq StoredOnes \cup (Listed' \ Listed),
         StoredOnes' \cap Held(x) \subseteq e.todo \cup e.now \cup Listed'
  PROVE  GroupsInv'
<1>1. /\ GroupsTyped /\ BatchesInOrder /\ DeletionsInOrder /\ MadeOnce /\ HeldApart /\ OverlapsKnown
      /\ RidsOnce /\ PathsApart /\ HaveGroups /\ EmptyGroupsGo
      /\ UNCHANGED <<tgDeleting, tgGroups, tgStoredGroups, tgDirs, tgCreating, tgPath, tgCache, tgBatch,
                     tgOverlap, tgStuck>>
  BY DEF GroupsInv, groupsOnly, tgGhosts
<1>2. /\ tgDelete' \in [GroupDeleters -> DeletionStates] /\ tgDelete'[x] = e
      /\ \A y \in GroupDeleters : y # x => tgDelete'[y] = tgDelete[y]
      /\ \A y \in GroupDeleters : tgDelete'[y].at \in {"idle", "files", "restore", "next", "cleanup"}
  BY <1>1, DeletionMovesTo
<1>3. /\ \A y \in GroupDeleters : y # x => Held(y)' = Held(y) /\ Held(y) \cap Held(x) = {}
      /\ \A y \in GroupDeleters : /\ Active(y)' <=> Active(y)
                                  /\ tgDelete'[y].all = tgDelete[y].all /\ tgDelete'[y].parents = tgDelete[y].parents
      /\ Held(x)' = e.todo \cup e.now /\ Held(x)' \subseteq Held(x) /\ Held(x) \subseteq tgDelete[x].all
      /\ \A y \in GroupDeleters : Held(y) \cap Listed = {}
  <2>1. Held(x)' = e.todo \cup e.now /\ \A y \in GroupDeleters : y # x => Held(y)' = Held(y)
    BY <1>2 DEF Held
  <2>2. \A y \in GroupDeleters : /\ Active(y)' <=> Active(y)
                                 /\ tgDelete'[y].all = tgDelete[y].all /\ tgDelete'[y].parents = tgDelete[y].parents
    BY <1>2 DEF Active
  <2>3. Held(x) \subseteq tgDelete[x].all
    BY <1>1 DEF DeletionsInOrder
  <2> QED
    BY <1>1, <2>1, <2>2, <2>3 DEF HeldApart
<1>4. GroupsTyped'
  BY <1>1, <1>2 DEF GroupsTyped, GroupsTypeOK, MemberStates
<1>5. BatchesInOrder' /\ PathsApart'
  BY <1>1 DEF BatchesInOrder, PathsApart
<1>6. DeletionsInOrder'
  <2>1. \A S : Parents(S)' = Parents(S)
    BY DEF Parents, HasParent
  <2>2. ASSUME NEW y \in GroupDeleters, y # x
        PROVE  /\ tgDelete'[y].at = "idle" => tgDelete'[y].parents = {}
               /\ Parents(tgDelete'[y].all) \subseteq tgDelete'[y].parents
               /\ Held(y)' \subseteq tgDelete'[y].all /\ tgDelete'[y].todo \cap tgDelete'[y].now = {}
               /\ tgDelete'[y].at \in {"idle", "cleanup"} => Held(y)' = {}
               /\ tgDelete'[y].at = "next" => tgDelete'[y].now = {}
               /\ tgDelete'[y].at = "files" => tgDelete'[y].now \cap StoredOnes' = {}
    <3>1. tgDelete[y].now \subseteq Held(y)
      BY DEF Held
    <3>2. tgDelete[y].now \cap StoredOnes' \subseteq StoredOnes
      BY <1>3, <2>2, <3>1
    <3> QED
      BY <1>1, <1>2, <1>3, <2>2, <3>2 DEF DeletionsInOrder
  <2>3. /\ tgDelete'[x].at = "idle" => tgDelete'[x].parents = {}
        /\ Parents(tgDelete'[x].all) \subseteq tgDelete'[x].parents
        /\ Held(x)' \subseteq tgDelete'[x].all /\ tgDelete'[x].todo \cap tgDelete'[x].now = {}
        /\ tgDelete'[x].at \in {"idle", "cleanup"} => Held(x)' = {}
        /\ tgDelete'[x].at = "next" => tgDelete'[x].now = {}
        /\ tgDelete'[x].at = "files" => tgDelete'[x].now \cap StoredOnes' = {}
    BY <1>1, <1>2, <1>3 DEF DeletionsInOrder
  <2> QED
    BY <2>1, <2>2, <2>3 DEF DeletionsInOrder
<1>7. MadeOnce'
  <2>1. \A t : Past(t)' <=> Past(t)
    BY <1>1 DEF Past
  <2>2. Listed' \cup tgDeleting' \cup StoredOnes' \subseteq MadeOnes
    BY <1>1, <1>3 DEF MadeOnce
  <2> QED
    BY <1>1, <1>3, <2>1, <2>2 DEF MadeOnce
<1>8. HeldApart'
  <2>1. \A y \in GroupDeleters : Held(y)' \cap Listed' = {}
    BY <1>3
  <2>2. \A y, z \in GroupDeleters : y # z => Held(y)' \cap Held(z)' = {}
    BY <1>1, <1>3 DEF HeldApart
  <2>3. ASSUME NEW t \in StoredOnes', t \notin Listed'
        PROVE  \E y \in GroupDeleters : t \in Held(y)'
    <3>1. PICK y \in GroupDeleters : t \in Held(y)
      BY <1>1, <2>3 DEF HeldApart
    <3> QED
      BY <1>3, <2>3, <3>1
  <2> QED
    BY <2>1, <2>2, <2>3 DEF HeldApart
<1>9. OverlapsKnown'
  <2>1. \A t : HasParent(t)' <=> HasParent(t)
    BY DEF HasParent
  <2> QED
    BY <1>1, <1>3, <2>1 DEF OverlapsKnown
<1>10. RidsOnce'
  <2>1. \A c : (Holding(c)' <=> Holding(c)) /\ Current(c)' = Current(c)
    BY <1>1 DEF Holding, Current
  <2> QED
    BY <1>1, <2>1 DEF RidsOnce
<1>11. HaveGroups'
  <2>1. \A t \in Held(x) : HasParent(t) => t \in tgDeleting \/ BatchOf[t] \in tgOverlap
    BY <1>1, <1>3 DEF OverlapsKnown
  <2>2. ASSUME NEW t \in Members, HasParent(t), BatchOf[t] \notin tgOverlap, t \in Listed' \cup tgDeleting \cup StoredOnes'
        PROVE  BatchOf[t] \in tgGroups /\ BatchOf[t] \in tgStoredGroups
    <3>1. t \in Listed \cup tgDeleting \cup StoredOnes
      BY <2>1, <2>2
    <3> QED
      BY <1>1, <2>2, <3>1 DEF HaveGroups, GroupsTyped
  <2> QED
    BY <1>1, <2>2 DEF HaveGroups, HasParent
<1>12. EmptyGroupsGo'
  BY <1>1, <1>3 DEF EmptyGroupsGo, EmptyGroup
<1> QED
  BY <1>4, <1>5, <1>6, <1>7, <1>8, <1>9, <1>10, <1>11, <1>12 DEF GroupsInv

\* The next task of a deletion, its files, and what becomes of it where it fails.
LEMMA DeleteOneInv ==
  ASSUME GroupsInv, NEW x \in GroupDeleters, DeleteOne(x)
  PROVE  GroupsInv'
<1> DEFINE d == tgDelete[x]
<1>1. /\ Active(x) /\ d \in DeletionStates /\ d.at \in {"files", "restore", "next"}
      /\ tgTask \in [Members -> MemberStates]
      /\ UNCHANGED <<tgDeleting, groupsOnly, tgCreating, tgPath, tgCache, tgBatch, tgGhosts>>
      /\ Held(x) = d.todo \cup d.now /\ Held(x) \cap Listed = {} /\ d.todo \cap d.now = {}
      /\ d.at = "next" => d.now = {}
      /\ d.at = "files" => d.now \cap StoredOnes = {}
      /\ Held(x) \subseteq Members
  <2>1. Active(x) /\ d.at \in {"files", "restore", "next"}
    BY DEF DeleteOne, Active
  <2>2. d \in DeletionStates /\ tgTask \in [Members -> MemberStates]
    BY DEF GroupsInv, GroupsTyped, GroupsTypeOK, MemberStates
  <2>3. d.todo \subseteq Members /\ d.now \subseteq Members
    BY <2>2 DEF DeletionStates
  <2> QED
    BY <2>1, <2>2, <2>3 DEF DeleteOne, GroupsInv, DeletionsInOrder, HeldApart, Held
<1>2. ASSUME NEW at \in {"files", "restore", "next"}, NEW now \in SUBSET Members, NEW todo \in SUBSET Members,
             Deletes(x, [d EXCEPT !.at = at, !.now = now, !.todo = todo]),
             tgTask' \in [Members -> MemberStates], MadeOnes' = MadeOnes,
             Listed \subseteq Listed', Listed' \ Listed \subseteq Held(x),
             todo \cup now \subseteq Held(x) \ Listed', todo \cap now = {},
             at = "next" => now = {}, at = "files" => now \cap StoredOnes' = {},
             StoredOnes' \subseteq StoredOnes \cup (Listed' \ Listed),
             StoredOnes' \cap Held(x) \subseteq todo \cup now \cup Listed'
      PROVE  GroupsInv'
  <2> DEFINE e == [d EXCEPT !.at = at, !.now = now, !.todo = todo]
  <2>1. /\ e \in DeletionStates /\ e.at = at /\ e.now = now /\ e.todo = todo
        /\ e.all = d.all /\ e.parents = d.parents /\ Deletes(x, e)
    BY <1>1, <1>2 DEF DeletionStates
  <2> HIDE DEF e
  <2> QED
    BY <1>1, <1>2, <2>1, DeletionGoesOn
<1>3. CASE /\ d.at = "next" /\ d.todo # {}
           /\ \E fails \in BOOLEAN :
               LET t == NextOf(d.todo) IN
               /\ IF fails THEN MayFail ELSE UNCHANGED tgMishaps
               /\ tgTask' = [tgTask EXCEPT ![t].stored = @ /\ fails]
               /\ Deletes(x, [d EXCEPT !.at = IF fails THEN "restore" ELSE "files",
                                       !.now = {t}, !.todo = @ \ {t}])
  <2>0. PICK t : t = NextOf(d.todo)
    OBVIOUS
  <2>1. PICK fails \in BOOLEAN :
               /\ tgTask' = [tgTask EXCEPT ![t].stored = @ /\ fails]
               /\ Deletes(x, [d EXCEPT !.at = IF fails THEN "restore" ELSE "files",
                                       !.now = {t}, !.todo = @ \ {t}])
    BY <1>3, <2>0
  <2>2. t \in d.todo /\ t \in Members /\ t \in Held(x)
    BY <1>1, <1>3, <2>0 DEF NextOf
  <2>3. /\ tgTask' \in [Members -> MemberStates]
        /\ \A u \in Members : tgTask'[u].listed = tgTask[u].listed /\ tgTask'[u].made = tgTask[u].made
        /\ \A u \in Members : u # t => tgTask'[u] = tgTask[u]
        /\ tgTask'[t].stored = (tgTask[t].stored /\ fails)
    <3> DEFINE m == [tgTask[t] EXCEPT !.stored = @ /\ fails]
    <3>1. /\ m \in MemberStates /\ m.listed = tgTask[t].listed /\ m.made = tgTask[t].made
          /\ m.stored = (tgTask[t].stored /\ fails) /\ tgTask' = [tgTask EXCEPT ![t] = m]
      BY <1>1, <2>1, <2>2 DEF MemberStates
    <3> HIDE DEF m
    <3>2. tgTask' \in [Members -> MemberStates] /\ tgTask'[t] = m
          /\ \A u \in Members : u # t => tgTask'[u] = tgTask[u]
      BY <1>1, <2>2, <3>1
    <3> QED
      BY <3>1, <3>2
  <2>4. Listed' = Listed /\ MadeOnes' = MadeOnes /\ StoredOnes' \subseteq StoredOnes
    <3>1. Listed' = Listed /\ MadeOnes' = MadeOnes
      BY <2>3 DEF Listed, MadeOnes
    <3> QED
      BY <2>3, <3>1 DEF StoredOnes
  <2>5. ~fails => t \notin StoredOnes'
    BY <2>3 DEF StoredOnes
  <2> DEFINE at == IF fails THEN "restore" ELSE "files"
             now == {t}
             todo == d.todo \ {t}
  <2>6. /\ at \in {"files", "restore", "next"} /\ now \in SUBSET Members /\ todo \in SUBSET Members
        /\ Deletes(x, [d EXCEPT !.at = at, !.now = now, !.todo = todo])
        /\ todo \cup now \subseteq Held(x) \ Listed' /\ todo \cap now = {}
        /\ at = "next" => now = {}
        /\ at = "files" => now \cap StoredOnes' = {}
        /\ StoredOnes' \cap Held(x) \subseteq todo \cup now
    <3>1. at \in {"files", "restore"} /\ (at = "files" => ~fails)
      BY <2>1
    <3>2. Held(x) = d.todo
      BY <1>1, <1>3
    <3>3. Deletes(x, [d EXCEPT !.at = at, !.now = now, !.todo = todo])
      BY <2>1
    <3>4. todo \cup now \subseteq Held(x) \ Listed' /\ Held(x) = todo \cup now /\ todo \cap now = {}
      BY <1>1, <2>2, <2>4, <3>2
    <3> QED
      BY <1>1, <2>2, <2>5, <3>1, <3>3, <3>4
  <2> HIDE DEF at, now, todo
  <2> QED
    BY <1>2, <2>3, <2>4, <2>6
<1>4. CASE d.at = "files" /\ Deletes(x, [d EXCEPT !.at = "restore"]) /\ UNCHANGED tgTask
  <2>1. Listed' = Listed /\ StoredOnes' = StoredOnes /\ MadeOnes' = MadeOnes
    BY <1>4, SameMembers
  <2> DEFINE at == "restore"
             now == d.now
             todo == d.todo
  <2>2. /\ at \in {"files", "restore", "next"} /\ now \in SUBSET Members /\ todo \in SUBSET Members
        /\ at # "next" /\ at # "files" /\ now \cup todo = Held(x) /\ todo \cap now = {}
    BY <1>1
  <2>3. Deletes(x, [d EXCEPT !.at = at, !.now = now, !.todo = todo])
    <3>1. [d EXCEPT !.at = at, !.now = now, !.todo = todo] = [d EXCEPT !.at = at]
      BY <1>1 DEF DeletionStates
    <3> QED
      BY <1>4, <3>1
  <2> HIDE DEF at, now, todo
  <2> QED
    BY <1>1, <1>2, <1>4, <2>1, <2>2, <2>3
<1>5. CASE /\ d.at = "files"
           /\ tgTask' = [t \in Members |-> IF t \in d.now /\ d.force THEN [tgTask[t] EXCEPT !.file = FALSE]
                                           ELSE tgTask[t]]
           /\ Deletes(x, [d EXCEPT !.at = "next", !.now = {}])
  <2>1. \A t \in Members : /\ tgTask'[t] \in MemberStates
                           /\ tgTask'[t].listed = tgTask[t].listed /\ tgTask'[t].stored = tgTask[t].stored
                           /\ tgTask'[t].made = tgTask[t].made
    BY <1>1, <1>5 DEF MemberStates
  <2>2. tgTask' \in [Members -> MemberStates]
    <3>1. tgTask' = [t \in Members |-> tgTask'[t]]
      BY <1>5
    <3> QED
      BY <2>1, <3>1
  <2>3. Listed' = Listed /\ StoredOnes' = StoredOnes /\ MadeOnes' = MadeOnes
    BY <2>1 DEF Listed, StoredOnes, MadeOnes
  <2> DEFINE at == "next"
             now == {}
             todo == d.todo
  <2>4. /\ at \in {"files", "restore", "next"} /\ now \in SUBSET Members /\ todo \in SUBSET Members
        /\ at # "files" /\ now = {} /\ todo \cup now \subseteq Held(x) /\ todo \cap now = {}
        /\ StoredOnes \cap Held(x) \subseteq todo \cup now
    BY <1>1, <1>5
  <2>5. Deletes(x, [d EXCEPT !.at = at, !.now = now, !.todo = todo])
    <3>1. [d EXCEPT !.at = at, !.now = now, !.todo = todo] = [d EXCEPT !.at = at, !.now = now]
      BY <1>1 DEF DeletionStates
    <3> QED
      BY <1>5, <3>1
  <2> HIDE DEF at, now, todo
  <2> QED
    BY <1>1, <1>2, <2>2, <2>3, <2>4, <2>5
<1>6. CASE /\ d.at = "restore"
           /\ \E stored \in BOOLEAN :
               /\ IF stored THEN UNCHANGED tgMishaps ELSE MayFail
               /\ tgTask' = [t \in Members |->
                    IF t \in d.now THEN [tgTask[t] EXCEPT !.listed = TRUE, !.stored = @ \/ stored]
                    ELSE tgTask[t]]
           /\ Deletes(x, [d EXCEPT !.at = "next", !.now = {}])
  <2>0. PICK stored \in BOOLEAN :
               tgTask' = [t \in Members |->
                    IF t \in d.now THEN [tgTask[t] EXCEPT !.listed = TRUE, !.stored = @ \/ stored]
                    ELSE tgTask[t]]
    BY <1>6
  <2>1. \A t \in Members : /\ tgTask'[t] \in MemberStates
                           /\ tgTask'[t].listed = (tgTask[t].listed \/ t \in d.now)
                           /\ tgTask'[t].made = tgTask[t].made
                           /\ tgTask[t].stored => tgTask'[t].stored
                           /\ t \notin d.now => tgTask'[t] = tgTask[t]
    <3> TAKE t \in Members
    <3>1. CASE t \in d.now
      BY <1>1, <2>0, <3>1 DEF MemberStates
    <3>2. CASE t \notin d.now
      BY <1>1, <2>0, <3>2 DEF MemberStates
    <3> QED
      BY <3>1, <3>2
  <2>2. tgTask' \in [Members -> MemberStates]
    <3>1. tgTask' = [t \in Members |-> tgTask'[t]]
      BY <2>0
    <3> QED
      BY <2>1, <3>1
  <2>3. /\ Listed' = Listed \cup d.now /\ MadeOnes' = MadeOnes
        /\ StoredOnes' \subseteq StoredOnes \cup d.now
    <3>1. d.now \subseteq Members
      BY <1>1
    <3>2. Listed' = Listed \cup d.now
      BY <2>1, <3>1 DEF Listed
    <3>3. MadeOnes' = MadeOnes
      BY <2>1 DEF MadeOnes
    <3>4. StoredOnes' \subseteq StoredOnes \cup d.now
      BY <2>1 DEF StoredOnes
    <3> QED
      BY <3>2, <3>3, <3>4
  <2> DEFINE at == "next"
             now == {}
             todo == d.todo
  <2>4. /\ at \in {"files", "restore", "next"} /\ now \in SUBSET Members /\ todo \in SUBSET Members
        /\ at # "files" /\ now = {} /\ todo \cup now \subseteq Held(x) \ Listed' /\ todo \cap now = {}
        /\ Held(x) \subseteq todo \cup now \cup Listed'
        /\ StoredOnes' \subseteq StoredOnes \cup (Listed' \ Listed)
        /\ Listed' \ Listed \subseteq Held(x) /\ Listed \subseteq Listed'
    BY <1>1, <2>3
  <2>5. Deletes(x, [d EXCEPT !.at = at, !.now = now, !.todo = todo])
    <3>1. [d EXCEPT !.at = at, !.now = now, !.todo = todo] = [d EXCEPT !.at = at, !.now = now]
      BY <1>1 DEF DeletionStates
    <3> QED
      BY <1>6, <3>1
  <2> HIDE DEF at, now, todo
  <2> QED
    BY <1>2, <2>2, <2>3, <2>4, <2>5
<1> QED
  BY <1>3, <1>4, <1>5, <1>6, Zenon DEF DeleteOne

\* A deletion that holds no task any more moves on, to what it has to look at or
\* to its end.
LEMMA DeletionLetsGo ==
  ASSUME GroupsInv, NEW x \in GroupDeleters, NEW e \in DeletionStates, Deletes(x, e),
         Held(x) = {}, e.todo = {} /\ e.now = {}, e.at \in {"idle", "cleanup"}, e.at = "idle" => e.parents = {},
         e.all \subseteq tgDelete[x].all, Parents(e.all) \subseteq e.parents,
         UNCHANGED <<tgCreating, tgPath, tgCache, tgBatch, tgOverlap>>,
         tgTask' \in [Members -> MemberStates],
         Listed' = Listed /\ StoredOnes' = StoredOnes /\ MadeOnes' = MadeOnes,
         tgDeleting' \subseteq tgDeleting,
         \A y \in GroupDeleters : y # x /\ Active(y) => \A t \in tgDelete[y].all :
            HasParent(t) /\ t \in tgDeleting \ tgDeleting' => BatchOf[t] \in tgOverlap,
         tgGroups' \subseteq tgGroups, tgStoredGroups' = tgGroups', tgDirs' \subseteq tgDirs,
         HaveGroups', EmptyGroupsGo'
  PROVE  GroupsInv'
<1>1. /\ GroupsTyped /\ BatchesInOrder /\ DeletionsInOrder /\ MadeOnce /\ HeldApart /\ OverlapsKnown
      /\ RidsOnce /\ PathsApart
  BY DEF GroupsInv
<1>2. /\ tgDelete' \in [GroupDeleters -> DeletionStates] /\ tgDelete'[x] = e
      /\ \A y \in GroupDeleters : y # x => tgDelete'[y] = tgDelete[y]
      /\ \A y \in GroupDeleters : tgDelete'[y].at \in {"idle", "files", "restore", "next", "cleanup"}
  BY <1>1, DeletionMovesTo
<1>3. /\ \A y \in GroupDeleters : Held(y)' = Held(y)
      /\ \A y \in GroupDeleters : Active(y)' => y # x /\ Active(y)
      /\ \A y \in GroupDeleters : tgDelete'[y].all \subseteq tgDelete[y].all
  BY <1>2 DEF Held, Active
<1>4. GroupsTyped'
  BY <1>1, <1>2 DEF GroupsTyped, GroupsTypeOK, MemberStates
<1>5. BatchesInOrder' /\ PathsApart'
  BY <1>1 DEF BatchesInOrder, PathsApart
<1>6. DeletionsInOrder'
  <2>1. \A S : Parents(S)' = Parents(S)
    BY DEF Parents, HasParent
  <2>2. ASSUME NEW y \in GroupDeleters
        PROVE  /\ tgDelete'[y].at = "idle" => tgDelete'[y].parents = {}
               /\ Parents(tgDelete'[y].all) \subseteq tgDelete'[y].parents
               /\ Held(y)' \subseteq tgDelete'[y].all /\ tgDelete'[y].todo \cap tgDelete'[y].now = {}
               /\ tgDelete'[y].at \in {"idle", "cleanup"} => Held(y)' = {}
               /\ tgDelete'[y].at = "next" => tgDelete'[y].now = {}
               /\ tgDelete'[y].at = "files" => tgDelete'[y].now \cap StoredOnes' = {}
    <3>1. CASE y = x
      BY <1>2, <1>3, <3>1
    <3>2. CASE y # x
      BY <1>1, <1>2, <1>3, <3>2 DEF DeletionsInOrder
    <3> QED
      BY <3>1, <3>2
  <2> QED
    BY <2>1, <2>2 DEF DeletionsInOrder
<1>7. MadeOnce'
  <2>1. \A t : Past(t)' <=> Past(t)
    BY DEF Past
  <2> QED
    BY <1>1, <1>3, <2>1 DEF MadeOnce
<1>8. HeldApart'
  BY <1>1, <1>3 DEF HeldApart
<1>9. OverlapsKnown'
  <2>1. \A t : HasParent(t)' <=> HasParent(t)
    BY DEF HasParent
  <2>2. ASSUME NEW y \in GroupDeleters, Active(y)', NEW t \in tgDelete'[y].all, HasParent(t)
        PROVE  t \in tgDeleting' \/ BatchOf[t] \in tgOverlap'
    BY <1>1, <1>3, <2>2 DEF OverlapsKnown
  <2>3. ASSUME NEW y \in GroupDeleters, NEW z \in GroupDeleters, Active(y)', Active(z)', y # z,
               NEW t \in tgDelete'[y].all \cap tgDelete'[z].all, HasParent(t)
        PROVE  BatchOf[t] \in tgOverlap'
    BY <1>1, <1>3, <2>3 DEF OverlapsKnown
  <2> QED
    BY <2>1, <2>2, <2>3 DEF OverlapsKnown
<1>10. RidsOnce'
  <2>1. \A c : (Holding(c)' <=> Holding(c)) /\ Current(c)' = Current(c)
    BY DEF Holding, Current
  <2> QED
    BY <1>1, <2>1 DEF RidsOnce
<1> QED
  BY <1>4, <1>5, <1>6, <1>7, <1>8, <1>9, <1>10 DEF GroupsInv

\* The end of a deletion: its tasks leave deletingTasks, and then the groups they
\* belonged to are looked at.
LEMMA DeleteEndsInv ==
  ASSUME GroupsInv, NEW x \in GroupDeleters, DeleteEnds(x)
  PROVE  GroupsInv'
<1> DEFINE d == tgDelete[x]
<1>1. /\ GroupsTyped /\ BatchesInOrder /\ DeletionsInOrder /\ OverlapsKnown /\ HaveGroups /\ EmptyGroupsGo
      /\ d \in DeletionStates /\ tgTask \in [Members -> MemberStates]
      /\ Held(x) = d.todo \cup d.now /\ Parents(d.all) \subseteq d.parents
      /\ d.at = "next" => d.now = {}
      /\ d.at = "cleanup" => Held(x) = {}
      /\ UNCHANGED <<tgCreating, tgPath, tgCache, tgBatch, tgOverlap>>
  <2>1. d \in DeletionStates /\ tgTask \in [Members -> MemberStates]
    BY DEF GroupsInv, GroupsTyped, GroupsTypeOK, MemberStates
  <2> QED
    BY <2>1 DEF DeleteEnds, GroupsInv, DeletionsInOrder, Held
<1>2. CASE /\ d.at = "next" /\ d.todo = {}
           /\ tgDeleting' = tgDeleting \ d.all
           /\ Deletes(x, [d EXCEPT !.at = "cleanup"])
           /\ UNCHANGED <<tgTask, groupsOnly, tgMishaps, tgStuck>>
  <2> DEFINE e == [d EXCEPT !.at = "cleanup"]
  <2>1. /\ e \in DeletionStates /\ e.at = "cleanup" /\ e.todo = {} /\ e.now = {} /\ e.all = d.all
        /\ e.parents = d.parents /\ Deletes(x, e)
    BY <1>1, <1>2 DEF DeletionStates
  <2> HIDE DEF e
  <2>2. Listed' = Listed /\ StoredOnes' = StoredOnes /\ MadeOnes' = MadeOnes
    BY <1>2, SameMembers
  <2>3. /\ tgDelete'[x] = e /\ \A y \in GroupDeleters : y # x => tgDelete'[y] = tgDelete[y]
    BY <1>1, <2>1, DeletionMovesTo
  <2>4. ASSUME NEW y \in GroupDeleters, y # x, Active(y), NEW t \in tgDelete[y].all, HasParent(t),
               t \in tgDeleting \ tgDeleting'
        PROVE  BatchOf[t] \in tgOverlap
    <3>1. t \in d.all /\ Active(x)
      BY <1>2, <2>4 DEF Active
    <3> QED
      BY <1>1, <2>4, <3>1 DEF OverlapsKnown
  <2>5. HaveGroups'
    BY <1>1, <1>2, <2>2 DEF HaveGroups, HasParent, groupsOnly
  <2>6. EmptyGroupsGo'
    <3> SUFFICES ASSUME NEW g \in Grouped, EmptyGroup(g)', g \notin tgStuck', tgBatch'[g].at \in {"idle", "gone"}
                 PROVE  \E y \in GroupDeleters : g \in tgDelete'[y].parents
      BY DEF EmptyGroupsGo
    <3>1. CASE EmptyGroup(g)
      <4>1. PICK y \in GroupDeleters : g \in tgDelete[y].parents
        BY <1>1, <1>2, <3>1 DEF EmptyGroupsGo
      <4> QED
        BY <2>1, <2>3, <4>1
    <3>2. CASE ~EmptyGroup(g)
      <4>1. PICK t \in MembersOf(g) : t \in Listed \cup tgDeleting /\ t \notin Listed \cup tgDeleting'
        BY <1>2, <2>2, <3>2 DEF EmptyGroup, MembersOf, groupsOnly
      <4>2. t \in d.all /\ BatchOf[t] = g /\ HasParent(t)
        BY <1>2, <4>1 DEF MembersOf, HasParent
      <4>3. g \in d.parents
        BY <1>1, <4>2, ParentsFacts
      <4> QED
        BY <2>1, <2>3, <4>3
    <3> QED
      BY <3>1, <3>2
  <2>7. /\ tgDeleting' \subseteq tgDeleting /\ tgGroups' = tgGroups /\ tgStoredGroups' = tgGroups' /\ tgDirs' = tgDirs
        /\ tgTask' = tgTask
    BY <1>1, <1>2 DEF groupsOnly, GroupsTyped
  <2>8. Held(x) = {}
    BY <1>1, <1>2
  <2> QED
    BY <1>1, <2>1, <2>2, <2>4, <2>5, <2>6, <2>7, <2>8, DeletionLetsGo
<1>3. CASE /\ d.at = "cleanup"
           /\ CleanUp(d.parents, IF d.force THEN d.groups ELSE {})
           /\ Deletes(x, NoDeletion)
           /\ UNCHANGED tgDeleting
  <2> DEFINE ids == d.parents
             forced == IF d.force THEN d.groups ELSE {}
  <2>1. CleanUp(ids, forced)
    BY <1>3
  <2> HIDE DEF ids, forced
  <2>2. /\ tgTask' \in [Members -> MemberStates]
        /\ Listed' = Listed /\ StoredOnes' = StoredOnes /\ MadeOnes' = MadeOnes
        /\ tgGroups' \subseteq tgGroups /\ tgStoredGroups' = tgGroups' /\ tgDirs' \subseteq tgDirs
        /\ \A g \in tgGroups : g \in ids \ tgCreating /\ g \in tgGroups'
              /\ (\A t \in Members : BatchOf[t] = g => t \notin Listed \cup tgDeleting) => g \in tgStuck'
        /\ tgStuck \subseteq tgStuck'
        /\ HaveGroups'
    BY <1>1, <1>3, <2>1, CleanUpFacts
  <2> DEFINE e == NoDeletion
  <2>3. /\ e \in DeletionStates /\ e.at = "idle" /\ e.todo = {} /\ e.now = {} /\ e.all = {}
        /\ e.parents = {} /\ Deletes(x, e)
    BY <1>3 DEF NoDeletion, DeletionStates
  <2> HIDE DEF e
  <2>4. /\ tgDelete'[x] = e /\ \A y \in GroupDeleters : y # x => tgDelete'[y] = tgDelete[y]
    BY <1>1, <2>3, DeletionMovesTo
  <2>5. EmptyGroupsGo'
    <3> SUFFICES ASSUME NEW g \in Grouped, EmptyGroup(g)', g \notin tgStuck', tgBatch'[g].at \in {"idle", "gone"}
                 PROVE  \E y \in GroupDeleters : g \in tgDelete'[y].parents
      BY DEF EmptyGroupsGo
    <3>1. /\ EmptyGroup(g) /\ g \in tgGroups /\ g \in tgGroups' /\ g \notin tgStuck
          /\ \A t \in Members : BatchOf[t] = g => t \notin Listed \cup tgDeleting
      BY <1>3, <2>2 DEF EmptyGroup, MembersOf
    <3>2. PICK y \in GroupDeleters : g \in tgDelete[y].parents
      BY <1>1, <3>1 DEF EmptyGroupsGo
    <3>3. g \notin tgCreating
      BY <1>1, GroupsAssumption DEF BatchesInOrder
    <3>4. y # x
      BY <2>2, <3>1, <3>2, <3>3 DEF ids
    <3> QED
      BY <2>4, <3>2, <3>4
  <2>6. Parents(e.all) \subseteq e.parents /\ e.all \subseteq d.all
    BY <2>3 DEF Parents
  <2> QED
    BY <1>1, <1>3, <2>2, <2>3, <2>5, <2>6, DeletionLetsGo
<1> QED
  BY <1>2, <1>3, Zenon DEF DeleteEnds

\* A crash, and what Setup makes of the records: a task is listed or in the one
\* deletion of Setup, and the groups that stay have one of them.
LEMMA CrashInv ==
  ASSUME GroupsInv, CrashAndSetup
  PROVE  GroupsInv'
<1> DEFINE gone == {g \in tgStoredGroups : \A t \in StoredOnes : HasParent(t) => BatchOf[t] # g}
<1>1. PICK missing \in SUBSET StoredOnes : \E x \in GroupDeleters :
         /\ tgDeleting' = missing
         /\ tgTask' = [t \in Members |-> [tgTask[t] EXCEPT !.listed = t \in StoredOnes \ missing]]
         /\ tgDelete' = [y \in GroupDeleters |->
                           IF y = x /\ missing # {} THEN Deletion(missing, {}, FALSE, TRUE)
                           ELSE NoDeletion]
  BY DEF CrashAndSetup, FilesMissing, StoredOnes
<1>2. PICK x \in GroupDeleters :
         /\ tgDeleting' = missing
         /\ tgTask' = [t \in Members |-> [tgTask[t] EXCEPT !.listed = t \in StoredOnes \ missing]]
         /\ tgDelete' = [y \in GroupDeleters |->
                           IF y = x /\ missing # {} THEN Deletion(missing, {}, FALSE, TRUE)
                           ELSE NoDeletion]
  BY <1>1
<1>3. /\ tgGroups' = tgStoredGroups \ gone /\ tgStoredGroups' = tgStoredGroups \ gone
      /\ tgDirs' \subseteq tgDirs
      /\ tgCreating' = {} /\ tgCache' = {} /\ tgStuck' = {}
      /\ tgBatch' = [b \in Batches |-> IF tgBatch[b].at = "idle" THEN tgBatch[b]
                                       ELSE [at |-> "gone", item |-> 0]]
      /\ UNCHANGED <<tgPath, tgOverlap>>
  BY DEF CrashAndSetup, StoredOnes
<1>4. gone \subseteq tgStoredGroups /\ \A g \in tgStoredGroups \ gone : \E t \in StoredOnes : HasParent(t) /\ BatchOf[t] = g
  OBVIOUS
<1>5. \A t \in StoredOnes : HasParent(t) => BatchOf[t] \notin gone
  OBVIOUS
<1> HIDE DEF gone
<1>6. /\ GroupsTyped /\ BatchesInOrder /\ MadeOnce /\ RidsOnce /\ PathsApart /\ HaveGroups
      /\ tgTask \in [Members -> MemberStates] /\ tgBatch \in [Batches -> BatchStates]
      /\ tgGroups = tgStoredGroups /\ StoredOnes \subseteq Members
  BY DEF GroupsInv, GroupsTyped, GroupsTypeOK, MemberStates, StoredOnes
<1>7. /\ tgTask' \in [Members -> MemberStates]
      /\ Listed' = StoredOnes \ missing /\ StoredOnes' = StoredOnes /\ MadeOnes' = MadeOnes
  <2>1. \A t \in Members : /\ tgTask'[t] \in MemberStates
                           /\ tgTask'[t].listed = (t \in StoredOnes \ missing)
                           /\ tgTask'[t].stored = tgTask[t].stored /\ tgTask'[t].made = tgTask[t].made
    <3> TAKE t \in Members
    <3> DEFINE l == t \in StoredOnes \ missing
    <3>1. tgTask'[t] = [tgTask[t] EXCEPT !.listed = l]
      BY <1>2, Zenon
    <3>2. l \in BOOLEAN
      <4>1. t \in StoredOnes \ missing => l = TRUE
        BY Zenon
      <4>2. t \notin StoredOnes \ missing => l = FALSE
        BY SMT
      <4> QED
        BY <4>1, <4>2
    <3>3. tgTask[t] \in MemberStates
      BY <1>6
    <3> HIDE DEF l
    <3>4. /\ tgTask'[t] \in MemberStates /\ tgTask'[t].listed = l
          /\ tgTask'[t].stored = tgTask[t].stored /\ tgTask'[t].made = tgTask[t].made
      BY ONLY <3>1, <3>2, <3>3 DEF MemberStates
    <3> QED
      BY <3>4, Zenon DEF l
  <2>2. tgTask' \in [Members -> MemberStates]
    <3>1. tgTask' = [t \in Members |-> tgTask'[t]]
      BY <1>2
    <3> QED
      BY <2>1, <3>1
  <2>3. Listed' = StoredOnes \ missing
    BY <1>6, <2>1 DEF Listed
  <2> QED
    BY <2>1, <2>2, <2>3 DEF StoredOnes, MadeOnes
<1>8. /\ tgBatch' \in [Batches -> BatchStates]
      /\ \A b \in Batches : IF tgBatch[b].at = "idle" THEN tgBatch'[b].at = "idle" ELSE tgBatch'[b].at = "gone"
  BY <1>3, <1>6 DEF BatchStates
<1> DEFINE e == Deletion(missing, {}, FALSE, TRUE)
           n == NoDeletion
<1>9. /\ e \in DeletionStates /\ e.at = "next" /\ e.all = missing /\ e.todo = missing /\ e.now = {}
      /\ e.parents = Parents(missing)
  BY <1>6, ParentsFacts DEF Deletion, DeletionStates
<1>10. /\ n \in DeletionStates /\ n.at = "idle" /\ n.all = {} /\ n.todo = {} /\ n.now = {} /\ n.parents = {}
  BY DEF NoDeletion, DeletionStates
<1>11. tgDelete' = [y \in GroupDeleters |-> IF y = x /\ missing # {} THEN e ELSE n]
  BY <1>2
<1> HIDE DEF e, n
<1>12. /\ tgDelete' \in [GroupDeleters -> DeletionStates]
       /\ \A y \in GroupDeleters : IF y = x /\ missing # {} THEN tgDelete'[y] = e ELSE tgDelete'[y] = n
  BY <1>9, <1>10, <1>11
<1>13. \A y \in GroupDeleters :
         /\ tgDelete'[y].at \in {"next", "idle"} /\ tgDelete'[y].all = Held(y)' /\ Held(y)' \subseteq missing
         /\ Held(y)' = tgDelete'[y].todo /\ tgDelete'[y].now = {} /\ tgDelete'[y].parents = Parents(Held(y)')
         /\ tgDelete'[y].at = "idle" => tgDelete'[y].parents = {} /\ Held(y)' = {}
         /\ y # x => Held(y)' = {} /\ tgDelete'[y].at = "idle"
         /\ y = x => Held(y)' = missing
  <2> TAKE y \in GroupDeleters
  <2>1. CASE y = x /\ missing # {}
    BY <1>9, <1>12, <2>1 DEF Held
  <2>2. CASE ~(y = x /\ missing # {})
    <3>1. Parents({}) = {}
      BY DEF Parents
    <3>2. tgDelete'[y] = n /\ Held(y)' = {}
      BY <1>10, <1>12, <2>2 DEF Held
    <3> QED
      BY <1>10, <2>2, <3>1, <3>2
  <2> QED
    BY <2>1, <2>2
<1>14. GroupsTyped'
  <2>1. \A b \in Batches : tgBatch'[b].at \in {"idle", "item", "held", "putback", "cleanup", "gone"}
    BY <1>8
  <2>2. \A y \in GroupDeleters : tgDelete'[y].at \in {"idle", "files", "restore", "next", "cleanup"}
    BY <1>13
  <2>3. GroupsTypeOK'
    BY <1>2, <1>3, <1>6, <1>7, <2>1, <2>2 DEF GroupsTyped, GroupsTypeOK, MemberStates
  <2> QED
    BY <1>3, <1>8, <1>12, <2>3 DEF GroupsTyped
<1>15. BatchesInOrder'
  BY <1>3, <1>6, <1>8 DEF BatchesInOrder
<1>16. DeletionsInOrder'
  <2>1. \A S : Parents(S)' = Parents(S)
    BY DEF Parents, HasParent
  <2> QED
    BY <1>13, <2>1 DEF DeletionsInOrder
<1>17. MadeOnce'
  <2>1. \A t \in MadeOnes : Past(t)'
    <3> TAKE t \in MadeOnes
    <3>1. PICK b \in Batches : \E j \in 1..Len(BatchItems[b]) : t = BatchItems[b][j] /\ tgBatch[b].at # "idle"
      BY <1>6 DEF MadeOnce, Past
    <3> QED
      BY <1>8, <3>1 DEF Past
  <2>2. Listed' \cup tgDeleting' \cup StoredOnes' \subseteq MadeOnes
    BY <1>2, <1>6, <1>7 DEF MadeOnce
  <2>3. \A y \in GroupDeleters : tgDelete'[y].all \subseteq MadeOnes
    BY <1>13, <2>2, <1>2
  <2> QED
    BY <1>7, <2>1, <2>2, <2>3 DEF MadeOnce
<1>18. HeldApart'
  BY <1>7, <1>13 DEF HeldApart
<1>19. OverlapsKnown'
  BY <1>2, <1>13 DEF OverlapsKnown, Active
<1>20. RidsOnce'
  <2>1. \A b \in Batches : ~Holding(b)'
    BY <1>8 DEF Holding
  <2> QED
    BY <1>3, <1>6, <1>7, <2>1 DEF RidsOnce
<1>21. PathsApart'
  BY <1>3, <1>6, <1>8 DEF PathsApart
<1>22. HaveGroups'
  <2>1. \A t : HasParent(t)' <=> HasParent(t)
    BY DEF HasParent
  <2>2. Listed' \cup tgDeleting' \cup StoredOnes' \subseteq StoredOnes
    BY <1>2, <1>7
  <2> QED
    BY <1>3, <1>5, <1>6, <2>1, <2>2 DEF HaveGroups
<1>23. EmptyGroupsGo'
  <2>1. ASSUME NEW g \in Grouped, EmptyGroup(g)' PROVE FALSE
    <3>1. PICK t \in StoredOnes : HasParent(t) /\ BatchOf[t] = g
      BY <1>3, <1>4, <2>1 DEF EmptyGroup
    <3>2. t \in Listed' \cup tgDeleting' /\ t \in MembersOf(g)
      BY <1>2, <1>6, <1>7, <3>1 DEF MembersOf
    <3> QED
      BY <2>1, <3>2 DEF EmptyGroup, MembersOf
  <2> QED
    BY <2>1 DEF EmptyGroupsGo
<1> QED
  BY <1>14, <1>15, <1>16, <1>17, <1>18, <1>19, <1>20, <1>21, <1>22, <1>23 DEF GroupsInv

\* Every step keeps the invariant.
LEMMA GroupsNextInv == GroupsInv /\ [GroupsNext]_groupVars => GroupsInv'
<1> SUFFICES ASSUME GroupsInv, [GroupsNext]_groupVars PROVE GroupsInv'
  OBVIOUS
<1>1. ASSUME NEW b \in Batches, BatchNext(b) PROVE GroupsInv'
  BY <1>1, BatchBeginsInv, BeginItemInv, CreateMemberInv, PutBackInv, BatchEndsInv DEF BatchNext
<1>2. ASSUME NEW t \in Members, MemberWrites(t) PROVE GroupsInv'
  BY <1>2, MemberWritesInv
<1>3. ASSUME NEW x \in GroupDeleters, DeleteNext(x) PROVE GroupsInv'
  BY <1>3, DeleteBeginsInv, DeleteOneInv, DeleteEndsInv DEF DeleteNext
<1>4. CASE UNCHANGED groupVars
  <2>1. UNCHANGED <<tgTask, tgDeleting, tgGroups, tgStoredGroups, tgDirs, tgCreating, tgPath, tgCache, tgBatch,
                    tgDelete, tgOverlap, tgStuck>>
    BY <1>4 DEF groupVars, groupsOnly, tgGhosts
  <2>2. Listed' = Listed /\ StoredOnes' = StoredOnes /\ MadeOnes' = MadeOnes
    BY <2>1, SameMembers
  <2>3. DeletionsInOrder' /\ HeldApart' /\ OverlapsKnown'
    BY <2>1, <2>2, DeletionsRest
  <2>4. GroupsTyped' /\ BatchesInOrder' /\ PathsApart'
    BY <2>1 DEF GroupsInv, GroupsTyped, GroupsTypeOK, BatchesInOrder, PathsApart
  <2>5. MadeOnce'
    <3>1. \A u : Past(u)' <=> Past(u)
      BY <2>1 DEF Past
    <3> QED
      BY <2>1, <2>2, <3>1 DEF GroupsInv, MadeOnce
  <2>6. RidsOnce'
    <3>1. \A c : (Holding(c)' <=> Holding(c)) /\ Current(c)' = Current(c)
      BY <2>1 DEF Holding, Current
    <3> QED
      BY <2>1, <2>2, <3>1 DEF GroupsInv, RidsOnce
  <2>7. HaveGroups' /\ EmptyGroupsGo'
    BY <2>1, <2>2 DEF GroupsInv, HaveGroups, HasParent, EmptyGroupsGo, EmptyGroup
  <2> QED
    BY <2>3, <2>4, <2>5, <2>6, <2>7 DEF GroupsInv
<1> QED
  BY <1>1, <1>2, <1>3, <1>4, CrashInv DEF GroupsNext

-----------------------------------------------------------------------------
(* TaskGroups: the theorems *)

\* The invariant holds in every state of every behaviour of batches, groups and
\* deletions, crashes among them.
THEOREM GroupsInvariant == GroupsSpec => []GroupsInv
<1>1. GroupsInit => GroupsInv
  BY GroupsInitInv
<1>2. GroupsInv /\ [GroupsNext]_groupVars => GroupsInv'
  BY GroupsNextInv
<1> QED
  BY <1>1, <1>2, PTL DEF GroupsSpec

\* Every variable of batches and groups keeps its type.
THEOREM GroupsTypeCorrect == GroupsSpec => []GroupsTypeOK
<1>1. GroupsInv => GroupsTypeOK
  BY DEF GroupsInv, GroupsTyped
<1> QED
  BY <1>1, GroupsInvariant, PTL

\* No task loses its group while it is listed, in a deletion that may still fail,
\* or on disk, in whatever order deletions, batches and crashes come, and a
\* resolved fetcher becomes one task at most (cleanupTaskGroups, createResolved).
THEOREM MembersInGroups == GroupsSpec => []MembersHaveGroups
<1>1. GroupsInv => MembersHaveGroups
  <2> SUFFICES ASSUME GroupsInv PROVE MembersHaveGroups
    OBVIOUS
  <2>1. \A t \in Members : HasParent(t) /\ BatchOf[t] \notin tgOverlap =>
         /\ t \in Listed \cup tgDeleting => BatchOf[t] \in tgGroups
         /\ tgTask[t].stored => BatchOf[t] \in tgStoredGroups
    BY DEF GroupsInv, HaveGroups, StoredOnes
  <2>2. ASSUME NEW r \in Rids
        PROVE  Cardinality({t \in Members : RidOf[t] = r /\ tgTask[t].made}) <= 1
    <3> DEFINE S == {t \in Members : RidOf[t] = r /\ tgTask[t].made}
    <3>1. \A t, u \in S : t = u
      BY DEF GroupsInv, RidsOnce, MadeOnes
    <3> HIDE DEF S
    <3>2. S = {} \/ \E t : S = {t}
      BY <3>1
    <3>3. Cardinality(S) <= 1
      <4>1. CASE S = {}
        BY <4>1, FS_EmptySet
      <4>2. ASSUME NEW t, S = {t} PROVE Cardinality(S) <= 1
        BY <4>2, FS_Singleton
      <4> QED
        BY <3>2, <4>1, <4>2
    <3> QED
      BY <3>3 DEF S
  <2> QED
    BY <2>1, <2>2 DEF MembersHaveGroups
<1> QED
  BY <1>1, GroupsInvariant, PTL

\* A group that is empty still has someone who cleans it up: the batch that
\* creates in it, or a deletion that took one of its tasks (cleanupEmptyGroups).
THEOREM EmptyGroupsLeave == GroupsSpec => []EmptyGroupsGo
<1>1. GroupsInv => EmptyGroupsGo
  BY DEF GroupsInv
<1> QED
  BY <1>1, GroupsInvariant, PTL

\* A task that is in the list before and after a step keeps its file.
LEMMA FilesStayStep ==
  ASSUME GroupsInv, [GroupsNext]_groupVars, NEW t \in Members,
         tgTask[t].listed, tgTask'[t].listed, tgTask[t].file, BatchOf[t] \notin tgOverlap
  PROVE  tgTask'[t].file
<1>1. t \in Listed /\ tgTask \in [Members -> MemberStates]
  BY DEF Listed, GroupsInv, GroupsTyped, GroupsTypeOK, MemberStates
<1>2. ASSUME NEW b \in Batches, BatchNext(b) PROVE tgTask'[t].file
  <2>1. CASE UNCHANGED tgTask
    BY <2>1
  <2>2. CASE CreateMember(b)
    <3>1. CASE UNCHANGED tgTask
      BY <3>1
    <3>2. CASE tgTask' = [tgTask EXCEPT ![Current(b)].listed = TRUE, ![Current(b)].stored = TRUE,
                                        ![Current(b)].made = TRUE]
      BY <1>1, <3>2 DEF MemberStates
    <3> QED
      BY <2>2, <3>1, <3>2 DEF CreateMember
  <2>3. CASE tgBatch[b].at = "cleanup" /\ CleanUp({b}, {})
             /\ UNCHANGED <<tgDeleting, tgPath, tgCreating, tgOverlap>>
    <3> DEFINE ids == {b}
               forced == {}
    <3>1. CleanUp(ids, forced)
      BY <2>3
    <3> HIDE DEF ids, forced
    <3> QED
      BY <1>1, <2>3, <3>1, CleanUpFacts
  <2> QED
    BY <1>2, <2>1, <2>2, <2>3 DEF BatchNext, BatchBegins, BeginItem, PutBackRid, BatchEnds
<1>3. ASSUME NEW u \in Members, MemberWrites(u) PROVE tgTask'[t].file
  BY <1>1, <1>3 DEF MemberWrites, MemberStates
<1>4. ASSUME NEW x \in GroupDeleters, DeleteBegins(x) PROVE tgTask'[t].file
  <2>1. PICK tasks : tgTask' = Taken(tasks)
    BY <1>4 DEF DeleteBegins
  <2> QED
    BY <1>1, <2>1 DEF Taken, MemberStates
<1>5. ASSUME NEW x \in GroupDeleters, DeleteOne(x) PROVE tgTask'[t].file
  <2>1. t \notin tgDelete[x].now
    BY <1>1 DEF GroupsInv, HeldApart, Held
  <2>2. \/ \E u, fails : tgTask' = [tgTask EXCEPT ![u].stored = @ /\ fails]
        \/ tgTask' = tgTask
        \/ tgTask' = [u \in Members |-> IF u \in tgDelete[x].now /\ tgDelete[x].force
                                        THEN [tgTask[u] EXCEPT !.file = FALSE] ELSE tgTask[u]]
        \/ \E stored : tgTask' = [u \in Members |->
                         IF u \in tgDelete[x].now THEN [tgTask[u] EXCEPT !.listed = TRUE, !.stored = @ \/ stored]
                         ELSE tgTask[u]]
    BY <1>5 DEF DeleteOne
  <2>3. ASSUME NEW u, NEW fails, tgTask' = [tgTask EXCEPT ![u].stored = @ /\ fails] PROVE tgTask'[t].file
    BY <1>1, <2>3 DEF MemberStates
  <2> QED
    BY <2>1, <2>2, <2>3
<1>6. ASSUME NEW x \in GroupDeleters, DeleteEnds(x) PROVE tgTask'[t].file
  <2>1. CASE UNCHANGED tgTask
    BY <2>1
  <2>2. ASSUME NEW forced, CleanUp(tgDelete[x].parents, forced),
               UNCHANGED <<tgDeleting, tgPath, tgCreating, tgOverlap>>
        PROVE  tgTask'[t].file
    <3> DEFINE ids == tgDelete[x].parents
    <3>1. CleanUp(ids, forced)
      BY <2>2
    <3> HIDE DEF ids
    <3> QED
      BY <1>1, <2>2, <3>1, CleanUpFacts
  <2> QED
    BY <1>6, <2>1, <2>2 DEF DeleteEnds
<1>7. CASE CrashAndSetup
  <2>1. PICK missing :
          tgTask' = [u \in Members |-> [tgTask[u] EXCEPT !.listed = u \in StoredOnes \ missing]]
    BY <1>7 DEF CrashAndSetup, StoredOnes
  <2> QED
    BY <1>1, <2>1 DEF MemberStates
<1>8. CASE UNCHANGED groupVars
  BY <1>8 DEF groupVars
<1> QED
  BY <1>2, <1>3, <1>4, <1>5, <1>6, <1>7, <1>8 DEF GroupsNext, DeleteNext

\* No step takes the file of a task that stays in the list: what a forced
\* deletion of a group removes with its directory belongs to no other
\* (createTaskGroup, cleanupTaskGroups).
THEOREM FilesStay == GroupsSpec => KeptTasksKeepFiles
<1>1. GroupsInv /\ [GroupsNext]_groupVars =>
        [\A t \in Members : /\ tgTask[t].listed /\ tgTask'[t].listed /\ tgTask[t].file
                            /\ BatchOf[t] \notin tgOverlap
                            => tgTask'[t].file]_groupVars
  BY FilesStayStep
<1> QED
  BY <1>1, GroupsInvariant, PTL DEF GroupsSpec, KeptTasksKeepFiles

-----------------------------------------------------------------------------
(* FtpFetcher: the invariant *)

Segments == [file : FtpFiles, begin : Nat, end : Int, downloaded : Nat]
WorkerPlaces == {"take", "dial", "transfer", "delay", "left"}

\* The sequences of segments that plans are made of: what a segment counts lies
\* within it, and it lies within its file.
Plans == {p \in Seq(Segments) :
            \A i \in 1 .. Len(p) : /\ p[i].begin + p[i].downloaded <= p[i].end + 1
                                   /\ p[i].end < FileSizes[p[i].file]}

FtpTyped ==
  /\ segs \in Plans /\ noRest \in BOOLEAN /\ maxConns \in 0 .. Connections /\ ftpDone \in BOOLEAN
  /\ ftpQueue \in Seq(Nat) /\ firstErr \in {"none", "rest", "failed"}
  /\ ftpWorker \in [FtpWorkers -> [at : WorkerPlaces, seg : Nat, failures : 0 .. MaxFtpRetries]]
  /\ ftpRun \in {"none", "workers", "end"} /\ outcomeOfRun \in {"ok", "err"}
  /\ ftpCancelled \in BOOLEAN /\ pausing \in BOOLEAN
  /\ ftpResult \in [kind : {"empty", "ok", "err"}, start : 0 .. MaxFtpStarts]
  /\ written \in [FtpFiles -> [gone : BOOLEAN, units : SUBSET Nat]]
  /\ \A f \in FtpFiles : written[f].units \subseteq 0 .. FileSizes[f]
  /\ ftpStored \in [segs : Plans, noRest : BOOLEAN, maxConns : 0 .. Connections]
  /\ reborn \in [FtpFiles -> {"no", "unsaved", "hole"}]
  /\ ftpStarts \in 0 .. MaxFtpStarts

\* The segments of a plan leave no unit of a file out.
CoversFiles(p) ==
  \A f \in FtpFiles : \A u \in 0 .. (FileSizes[f] - 1) :
    \E i \in 1 .. Len(p) : p[i].file = f /\ p[i].begin <= u /\ u <= p[i].end

PlansCover ==
  /\ segs # <<>> \/ ftpRun # "none" => CoversFiles(segs)
  /\ ftpStored.segs # <<>> => CoversFiles(ftpStored.segs) /\ segs # <<>>

\* Workers and the queue name segments of the plan; outside runWorkers no
\* worker is left.
Handed ==
  /\ \A k \in 1 .. Len(ftpQueue) : ftpQueue[k] \in 1 .. Len(segs)
  /\ \A w \in FtpWorkers : /\ ftpWorker[w].at \in {"dial", "transfer"} => ftpWorker[w].seg \in 1 .. Len(segs)
                           /\ ftpRun # "workers" => ftpWorker[w].at = "left"

AtWork == {w \in FtpWorkers : ftpWorker[w].at # "left"}

\* pool.running is the number of workers that have not left.
PoolCounted == poolRunning = Cardinality(AtWork)

\* What a plan counts of a file is on disk.
TrueOf(p, f) ==
  \A i \in 1 .. Len(p) : p[i].file = f =>
    \A u \in p[i].begin .. (p[i].begin + p[i].downloaded - 1) : u \in written[f].units

\* A run has all its files; of a file that exists the plan counts what is there,
\* but for a hole, and the record does unless the file was created after it.
CountsTrue ==
  \A f \in FtpFiles :
    /\ ftpRun # "none" => ~ written[f].gone
    /\ ~ written[f].gone /\ reborn[f] # "hole" => TrueOf(segs, f)
    /\ ~ written[f].gone /\ reborn[f] = "no" => TrueOf(ftpStored.segs, f)

\* A download that returned without an error left nothing out.
EndIsWhole == ftpRun = "end" /\ outcomeOfRun = "ok" => ~ Missing

FtpInv ==
  /\ FtpTyped /\ PlansCover /\ Handed /\ PoolCounted /\ CountsTrue /\ EndIsWhole
  /\ FtpDoneWhole /\ PutBackHasWorker /\ FtpResultFresh

-----------------------------------------------------------------------------
(* FtpFetcher: plans *)

\* The quotient of a natural number is one.
LEMMA QuotientIs ==
  ASSUME NEW a \in Nat, NEW n \in Nat \ {0}
  PROVE  a \div n \in Nat
BY Z3

\* It grows with the number.
LEMMA QuotientGrows ==
  ASSUME NEW a \in Nat, NEW b \in Nat, NEW n \in Nat \ {0}, a <= b
  PROVE  a \div n <= b \div n
BY Z3

\* Division undoes multiplication.
LEMMA QuotientOfProduct ==
  ASSUME NEW z \in Nat, NEW n \in Nat \ {0}
  PROVE  (n * z) \div n = z
BY Z3

\* A product grows with its factor.
LEMMA ProductGrows ==
  ASSUME NEW z \in Nat, NEW i \in Nat, NEW n \in Nat, i <= n
  PROVE  i * z \in Nat /\ n * z \in Nat /\ i * z <= n * z
BY Z3

\* The values of a function over a finite set are finitely many.
LEMMA ValuesFinite ==
  ASSUME NEW S, IsFiniteSet(S), NEW f, f \in [S -> {f[x] : x \in S}]
  PROVE  IsFiniteSet({f[x] : x \in S})
<1>1. f \in Surjection(S, {f[x] : x \in S})
  BY DEF Surjection
<1> QED
  BY <1>1, FS_Surjection

\* Where the i-th of n parts begins.
Cut(z, n, i) == (i * z) \div n

\* The cuts start at 0, grow, and end at the size.
LEMMA Cuts ==
  ASSUME NEW z \in Nat, NEW n \in Nat \ {0}, NEW i \in 1 .. n
  PROVE  /\ Cut(z, n, i - 1) \in Nat /\ Cut(z, n, i) \in Nat
         /\ Cut(z, n, i - 1) <= Cut(z, n, i) /\ Cut(z, n, i) <= z
<1>1. i - 1 \in Nat /\ i \in Nat /\ n \in Nat /\ i - 1 <= i /\ i <= n
  OBVIOUS
<1>2. /\ (i - 1) * z \in Nat /\ i * z \in Nat /\ n * z \in Nat
      /\ (i - 1) * z <= i * z /\ i * z <= n * z
  BY <1>1, ProductGrows
<1>3. Cut(z, n, i - 1) \in Nat /\ Cut(z, n, i) \in Nat /\ Cut(z, n, i - 1) <= Cut(z, n, i)
  BY <1>2, QuotientIs, QuotientGrows DEF Cut
<1>4. Cut(z, n, i) <= (n * z) \div n
  BY <1>2, QuotientGrows DEF Cut
<1> QED
  BY <1>3, <1>4, QuotientOfProduct

\* Every unit lies between two cuts.
LEMMA CutAround ==
  ASSUME NEW z \in Nat, NEW n \in Nat \ {0}, NEW u \in 0 .. (z - 1)
  PROVE  \E i \in 1 .. n : Cut(z, n, i - 1) <= u /\ u < Cut(z, n, i)
<1> DEFINE S == {i \in 1 .. n : u < Cut(z, n, i)}
<1>1. S \subseteq Nat
  OBVIOUS
<1>2. n \in S
  BY QuotientOfProduct DEF Cut
<1>3. PICK i \in S : \A m \in S : i <= m
  <2> HIDE DEF S
  <2> QED
    BY <1>1, <1>2, LeastOf
<1>4. i \in 1 .. n /\ u < Cut(z, n, i)
  OBVIOUS
<1>5. CASE i = 1
  <2>1. Cut(z, n, i - 1) = 0
    <3>1. (i - 1) * z = 0
      BY <1>5
    <3>2. 0 \div n = 0
      BY Z3
    <3> QED
      BY <3>1, <3>2 DEF Cut
  <2> QED
    BY <1>4, <2>1
<1>6. CASE i # 1
  <2>1. i - 1 \in 1 .. n /\ i - 1 < i
    BY <1>4, <1>6
  <2>2. i - 1 \notin S
    <3>1. \A m \in S : i <= m
      BY <1>3
    <3> HIDE DEF S
    <3> QED
      BY <1>4, <2>1, <3>1
  <2>3. ~ (u < Cut(z, n, i - 1))
    BY <2>1, <2>2
  <2>4. Cut(z, n, i - 1) \in Nat
    BY <1>4, Cuts
  <2> QED
    BY <1>4, <2>3, <2>4
<1> QED
  BY <1>5, <1>6

\* The sizes and the number of files.
LEMMA Sizes == Len(FileSizes) \in Nat /\ \A f \in FtpFiles : FileSizes[f] \in Nat /\ f \in Nat
BY FtpAssumption DEF FtpFiles

\* The parts of a file are at least one.
LEMMA PartsFacts ==
  ASSUME NEW f \in FtpFiles, NEW rest \in BOOLEAN, NEW ceiling \in 0 .. Connections
  PROVE  Parts(f, rest, ceiling) \in Nat \ {0} /\ Logins(rest, ceiling) \in 1 .. Connections
<1>1. Logins(rest, ceiling) \in 1 .. Connections
  BY FtpAssumption DEF Logins, Smaller
<1> QED
  BY <1>1, Sizes DEF Parts, Smaller

\* A segment of a fresh plan, and the parts of a file as segments of one.
NewSegment(f, s) ==
  /\ s \in Segments /\ s.file = f /\ s.downloaded = 0
  /\ s.begin <= s.end + 1 /\ s.end < FileSizes[f]

\* The parts of a file are finitely many new segments, and leave no unit out.
LEMMA SplitFacts ==
  ASSUME NEW f \in FtpFiles, NEW n \in Nat \ {0}
  PROVE  /\ IsFiniteSet(SplitFile(f, n))
         /\ \A s \in SplitFile(f, n) : NewSegment(f, s)
         /\ \A u \in 0 .. (FileSizes[f] - 1) : \E s \in SplitFile(f, n) : s.begin <= u /\ u <= s.end
<1> DEFINE z == FileSizes[f]
           part(i) == Segment(f, Cut(z, n, i - 1), Cut(z, n, i) - 1, 0)
<1>1. z \in Nat
  BY Sizes
<1>2. SplitFile(f, n) = {part(i) : i \in 1 .. n}
  BY DEF SplitFile, Cut
<1>3. IsFiniteSet(SplitFile(f, n))
  <2>1. IsFiniteSet(1 .. n)
    BY FS_Interval
  <2> DEFINE g == [i \in 1 .. n |-> part(i)]
  <2>2. g \in [1 .. n -> {g[i] : i \in 1 .. n}]
    OBVIOUS
  <2>3. SplitFile(f, n) = {g[i] : i \in 1 .. n}
    BY <1>2
  <2> HIDE DEF g
  <2> QED
    BY <2>1, <2>2, <2>3, ValuesFinite
<1>4. ASSUME NEW i \in 1 .. n PROVE NewSegment(f, part(i))
  <2>1. /\ Cut(z, n, i - 1) \in Nat /\ Cut(z, n, i) \in Nat
        /\ Cut(z, n, i - 1) <= Cut(z, n, i) /\ Cut(z, n, i) <= z
    BY <1>1, <1>4, Cuts
  <2> HIDE DEF z
  <2>2. Cut(z, n, i) - 1 \in Int /\ Cut(z, n, i) - 1 < z
    BY <1>1, <2>1
  <2> QED
    BY <2>1, <2>2 DEF NewSegment, Segments, Segment, z
<1>5. ASSUME NEW u \in 0 .. (FileSizes[f] - 1)
      PROVE  \E s \in SplitFile(f, n) : s.begin <= u /\ u <= s.end
  <2>1. PICK i \in 1 .. n : Cut(z, n, i - 1) <= u /\ u < Cut(z, n, i)
    BY <1>1, <1>5, CutAround
  <2>2. Cut(z, n, i) \in Nat
    BY <1>1, Cuts
  <2>3. part(i).begin = Cut(z, n, i - 1) /\ part(i).end = Cut(z, n, i) - 1
    BY DEF Segment
  <2>4. part(i) \in SplitFile(f, n)
    BY <1>2
  <2> HIDE DEF part
  <2>5. u <= part(i).end
    BY <2>1, <2>2, <2>3, <1>5
  <2> QED
    BY <2>1, <2>3, <2>4, <2>5
<1> QED
  BY <1>2, <1>3, <1>4, <1>5

\* A plan of finitely many segments that are all new
LEMMA FreshFacts ==
  ASSUME NEW plan \in FreshPlans, noRest \in BOOLEAN, maxConns \in 0 .. Connections
  PROVE  /\ plan \in Plans /\ CoversFiles(plan)
         /\ \A i \in 1 .. Len(plan) : plan[i].downloaded = 0
<1> DEFINE split(f) == SplitFile(f, Parts(f, noRest, maxConns))
           S == UNION {split(f) : f \in FtpFiles}
<1>1. /\ plan \in [1 .. Cardinality(S) -> S]
      /\ \A s \in S : \E i \in DOMAIN plan : plan[i] = s
  BY DEF FreshPlans
<1>2. \A f \in FtpFiles : /\ IsFiniteSet(split(f))
                          /\ \A s \in split(f) : NewSegment(f, s)
                          /\ \A u \in 0 .. (FileSizes[f] - 1) : \E s \in split(f) : s.begin <= u /\ u <= s.end
  BY PartsFacts, SplitFacts
<1> HIDE DEF split
<1>3. IsFiniteSet(S)
  <2>1. IsFiniteSet(FtpFiles)
    BY Sizes, FS_Interval DEF FtpFiles
  <2>2. IsFiniteSet({split(f) : f \in FtpFiles})
    <3> DEFINE g == [f \in FtpFiles |-> split(f)]
    <3>1. g \in [FtpFiles -> {g[f] : f \in FtpFiles}]
      OBVIOUS
    <3>2. {split(f) : f \in FtpFiles} = {g[f] : f \in FtpFiles}
      OBVIOUS
    <3> HIDE DEF g
    <3>3. IsFiniteSet({g[f] : f \in FtpFiles})
      BY <2>1, <3>1, ValuesFinite
    <3> QED
      BY <3>2, <3>3
  <2> QED
    BY <1>2, <2>2, FS_UNION
<1>4. Cardinality(S) \in Nat
  BY <1>3, FS_CardinalityType
<1>5. \A s \in S : \E f \in FtpFiles : NewSegment(f, s)
  BY <1>2
<1>6. \A s \in S : s \in Segments /\ s.downloaded = 0 /\ s.begin + s.downloaded <= s.end + 1
                   /\ s.end < FileSizes[s.file]
  BY <1>5 DEF NewSegment, Segments
<1>7. CoversFiles(plan)
  <2> SUFFICES ASSUME NEW f \in FtpFiles, NEW u \in 0 .. (FileSizes[f] - 1)
               PROVE  \E i \in 1 .. Len(plan) : plan[i].file = f /\ plan[i].begin <= u /\ u <= plan[i].end
    BY DEF CoversFiles
  <2>1. PICK s \in split(f) : s.begin <= u /\ u <= s.end
    BY <1>2
  <2>2. s \in S /\ s.file = f
    BY <1>2 DEF NewSegment
  <2> HIDE DEF S
  <2>3. PICK i \in DOMAIN plan : plan[i] = s
    BY <1>1, <2>2
  <2>4. i \in 1 .. Len(plan)
    BY <1>1, <1>4, <2>3
  <2> QED
    BY <2>1, <2>2, <2>3, <2>4
<1> HIDE DEF S
<1>8. Len(plan) = Cardinality(S) /\ plan \in Seq(S)
  BY <1>1, <1>4
<1>9. \A i \in 1 .. Len(plan) : plan[i] \in S
  BY <1>1, <1>8
<1>10. plan \in Seq(Segments)
  BY <1>6, <1>8, <1>9
<1> QED
  BY <1>6, <1>7, <1>9, <1>10 DEF Plans

-----------------------------------------------------------------------------
(* FtpFetcher: what a Start and the fall back launch *)

\* A sequential plan counts a file that is complete, and nothing of the others.
LEMMA SequentialFacts ==
  ASSUME segs \in Plans
  PROVE  /\ SequentialPlan \in Plans /\ CoversFiles(SequentialPlan)
         /\ Len(SequentialPlan) = Len(FileSizes)
         /\ \A f \in FtpFiles : CoversFiles(segs) /\ TrueOf(segs, f) => TrueOf(SequentialPlan, f)
<1> DEFINE d(f) == IF Complete(f) THEN FileSizes[f] ELSE 0
           part(f) == Segment(f, 0, FileSizes[f] - 1, d(f))
<1>1. \A f \in FtpFiles : d(f) \in 0 .. FileSizes[f]
  BY Sizes
<1>2. SequentialPlan = [f \in FtpFiles |-> part(f)]
  BY DEF SequentialPlan
<1>3. \A f \in FtpFiles : /\ part(f).file = f /\ part(f).begin = 0 /\ part(f).downloaded = d(f)
                          /\ part(f).end = FileSizes[f] - 1 /\ part(f) \in Segments
  BY <1>1, Sizes DEF Segment, Segments
<1> HIDE DEF part
<1>4. SequentialPlan \in Seq(Segments) /\ Len(SequentialPlan) = Len(FileSizes)
  BY <1>2, <1>3, Sizes DEF FtpFiles
<1>5. \A f \in FtpFiles : SequentialPlan[f] = part(f)
  BY <1>2
<1> HIDE DEF d
<1>6. SequentialPlan \in Plans
  BY <1>1, <1>3, <1>4, <1>5, Sizes DEF Plans, FtpFiles
<1>7. CoversFiles(SequentialPlan)
  BY <1>3, <1>4, <1>5, Sizes DEF CoversFiles, FtpFiles
<1>8. ASSUME NEW f \in FtpFiles, CoversFiles(segs), TrueOf(segs, f)
      PROVE  TrueOf(SequentialPlan, f)
  <2> SUFFICES ASSUME NEW u \in 0 .. (d(f) - 1) PROVE u \in written[f].units
    <3>1. ASSUME NEW i \in 1 .. Len(SequentialPlan), SequentialPlan[i].file = f
          PROVE  i = f /\ SequentialPlan[i].begin = 0 /\ SequentialPlan[i].downloaded = d(f)
      <4>1. i \in FtpFiles
        BY <1>4 DEF FtpFiles
      <4> QED
        BY <1>3, <1>5, <3>1, <4>1
    <3> QED
      BY <3>1, Sizes, <1>1 DEF TrueOf
  <2>1. Complete(f) /\ u \in 0 .. (FileSizes[f] - 1)
    BY Sizes DEF d
  <2>2. PICK i \in 1 .. Len(segs) : segs[i].file = f /\ segs[i].begin <= u /\ u <= segs[i].end
    BY <1>8, <2>1 DEF CoversFiles
  <2>3. Remain(segs[i]) = 0
    BY <2>1, <2>2 DEF Complete
  <2>4. segs[i] \in Segments
    BY <2>2 DEF Plans
  <2>5. u \in segs[i].begin .. (segs[i].begin + segs[i].downloaded - 1)
    BY <2>1, <2>2, <2>3, <2>4 DEF Remain, Segments
  <2> QED
    BY <1>8, <2>2, <2>5 DEF TrueOf
<1> QED
  BY <1>4, <1>6, <1>7, <1>8

\* Opening the files clears the segments of those that were gone.
LEMMA OpenedFacts ==
  ASSUME FtpTyped, NEW plan \in Plans, NEW fresh \in BOOLEAN
  PROVE  /\ Opened(plan, fresh) \in Plans /\ Len(Opened(plan, fresh)) = Len(plan)
         /\ \A i \in 1 .. Len(plan) :
              /\ Opened(plan, fresh)[i].file = plan[i].file
              /\ Opened(plan, fresh)[i].begin = plan[i].begin
              /\ Opened(plan, fresh)[i].end = plan[i].end
              /\ Opened(plan, fresh)[i].downloaded =
                   IF ~ fresh /\ written[plan[i].file].gone THEN 0 ELSE plan[i].downloaded
         /\ CoversFiles(plan) => CoversFiles(Opened(plan, fresh))
<1> DEFINE p == Opened(plan, fresh)
           cleared(i) == ~ fresh /\ written[plan[i].file].gone
           zero == 0
           blank(i) == [plan[i] EXCEPT !.downloaded = zero]
<1>1. \A i \in 1 .. Len(plan) : plan[i] \in Segments /\ plan[i].begin + plan[i].downloaded <= plan[i].end + 1
                                  /\ plan[i].end < FileSizes[plan[i].file]
  BY DEF Plans
<1>2. Len(plan) \in Nat
  BY DEF Plans
<1>3. p = [i \in 1 .. Len(plan) |-> IF cleared(i) THEN blank(i) ELSE plan[i]]
  BY DEF Opened
<1>4. zero \in Nat /\ zero = 0
  OBVIOUS
<1> HIDE DEF zero
<1>5. ASSUME NEW i \in 1 .. Len(plan)
      PROVE  /\ blank(i) \in Segments /\ blank(i).file = plan[i].file /\ blank(i).begin = plan[i].begin
             /\ blank(i).end = plan[i].end /\ blank(i).downloaded = zero
  BY <1>1, <1>4 DEF Segments
<1> HIDE DEF blank, p, cleared
<1>6. \A i \in 1 .. Len(plan) :
        /\ p[i] \in Segments /\ p[i].file = plan[i].file /\ p[i].begin = plan[i].begin
        /\ p[i].end = plan[i].end
        /\ p[i].downloaded = IF cleared(i) THEN 0 ELSE plan[i].downloaded
  BY <1>1, <1>3, <1>4, <1>5
<1>7. p \in Seq(Segments) /\ Len(p) = Len(plan)
  BY <1>2, <1>3, <1>6
<1>8. \A i \in 1 .. Len(plan) : p[i].begin + p[i].downloaded <= p[i].end + 1
                                  /\ p[i].end < FileSizes[p[i].file]
  <2> SUFFICES ASSUME NEW i \in 1 .. Len(plan)
               PROVE  p[i].begin + p[i].downloaded <= p[i].end + 1 /\ p[i].end < FileSizes[p[i].file]
    OBVIOUS
  <2>1. /\ plan[i].begin \in Nat /\ plan[i].end \in Int /\ plan[i].downloaded \in Nat
        /\ plan[i].begin + plan[i].downloaded <= plan[i].end + 1
    BY <1>1 DEF Segments
  <2>2. /\ p[i].file = plan[i].file /\ p[i].begin = plan[i].begin /\ p[i].end = plan[i].end
        /\ p[i].downloaded = 0 \/ p[i].downloaded = plan[i].downloaded
    BY <1>6
  <2>3. p[i].end < FileSizes[p[i].file]
    BY <1>1, <2>2
  <2> QED
    BY <2>1, <2>2, <2>3
<1>9. p \in Plans
  BY <1>7, <1>8 DEF Plans
<1>10. CoversFiles(plan) => CoversFiles(p)
  BY <1>6, <1>7 DEF CoversFiles
<1> QED
  BY <1>6, <1>7, <1>9, <1>10 DEF p, cleared

\* The workers that take part after a launch, and the queue they find.
LEMMA Launched ==
  ASSUME NEW plan \in Plans, NEW rest \in BOOLEAN, maxConns \in 0 .. Connections, Launch(plan, rest)
  PROVE  /\ ftpQueue' \in Seq(Nat) /\ \A k \in 1 .. Len(ftpQueue') : ftpQueue'[k] \in 1 .. Len(plan)
         /\ ftpWorker' \in [FtpWorkers -> [at : WorkerPlaces, seg : Nat, failures : 0 .. MaxFtpRetries]]
         /\ \A w \in FtpWorkers : ftpWorker'[w].at \in {"take", "left"}
         /\ firstErr' = "none" /\ PoolCounted'
         /\ ftpQueue' # <<>> => \E w \in FtpWorkers : ftpWorker'[w].at # "left"
<1> DEFINE open == Unfinished(plan)
           n == Smaller(Logins(rest, maxConns), Cardinality(open))
           take == [Out EXCEPT !.at = "take"]
<1>1. /\ ftpQueue' \in [1 .. Cardinality(open) -> open]
      /\ poolRunning' = n /\ firstErr' = "none"
  BY DEF Launch
<1>2. PICK W \in {V \in SUBSET FtpWorkers : Cardinality(V) = n} :
        ftpWorker' = [w \in FtpWorkers |-> IF w \in W THEN take ELSE Out]
  BY DEF Launch
<1>3. open \subseteq 1 .. Len(plan) /\ Len(plan) \in Nat
  BY DEF Unfinished, Plans
<1>4. IsFiniteSet(open) /\ Cardinality(open) \in Nat
  <2>1. IsFiniteSet(1 .. Len(plan))
    BY <1>3, FS_Interval
  <2> HIDE DEF open
  <2> QED
    BY <1>3, <2>1, FS_Subset, FS_CardinalityType
<1>5. Logins(rest, maxConns) \in 1 .. Connections
  BY FtpAssumption DEF Logins, Smaller
<1> HIDE DEF open
<1>6. ftpQueue' \in Seq(Nat) /\ Len(ftpQueue') = Cardinality(open)
      /\ \A k \in 1 .. Len(ftpQueue') : ftpQueue'[k] \in 1 .. Len(plan)
  <2>1. \A k \in 1 .. Cardinality(open) : ftpQueue'[k] \in 1 .. Len(plan)
    BY <1>1, <1>3
  <2> QED
    BY <1>1, <1>3, <1>4, <2>1
<1>7. take.at = "take" /\ Out.at = "left" /\ {take, Out} \subseteq [at : WorkerPlaces, seg : Nat, failures : 0 .. MaxFtpRetries]
  BY FtpAssumption DEF Out, WorkerPlaces
<1> HIDE DEF take
<1>8. /\ ftpWorker' \in [FtpWorkers -> [at : WorkerPlaces, seg : Nat, failures : 0 .. MaxFtpRetries]]
      /\ \A w \in FtpWorkers : ftpWorker'[w].at = IF w \in W THEN "take" ELSE "left"
  BY <1>2, <1>7
<1>9. AtWork' = W
  BY <1>2, <1>8 DEF AtWork
<1>10. PoolCounted'
  BY <1>1, <1>2, <1>9 DEF PoolCounted
<1>11. ASSUME ftpQueue' # <<>> PROVE \E w \in FtpWorkers : ftpWorker'[w].at # "left"
  <2>1. Cardinality(open) # 0
    BY <1>4, <1>6, <1>11
  <2>2. n # 0
    BY <1>4, <1>5, <2>1 DEF Smaller
  <2>3. W # {}
    BY <1>2, <2>2, FS_EmptySet
  <2> QED
    BY <1>2, <1>8, <2>3
<1> QED
  BY <1>1, <1>6, <1>8, <1>10, <1>11

-----------------------------------------------------------------------------
(* FtpFetcher: the steps of workers *)

Places == [at : WorkerPlaces, seg : Nat, failures : 0 .. MaxFtpRetries]

\* What all steps of a worker have in common: it moves on to r, or leaves; it
\* leaves with an error, a cancelled run, nothing queued, or others at work.
WorkerStep(w, r) ==
  /\ r \in Places /\ ftpWorker' = [ftpWorker EXCEPT ![w] = r]
  /\ poolRunning' = IF r.at = "left" THEN poolRunning - 1 ELSE poolRunning
  /\ ftpQueue' \in Seq(Nat) /\ \A k \in 1 .. Len(ftpQueue') : ftpQueue'[k] \in 1 .. Len(segs)
  /\ r.at \in {"dial", "transfer"} => r.seg \in 1 .. Len(segs)
  /\ firstErr' \in {"none", "rest", "failed"} /\ (firstErr # "none" => firstErr' # "none")
  /\ maxConns' \in 0 .. Connections
  /\ r.at = "left" => firstErr' # "none" \/ ftpCancelled \/ ftpQueue' = <<>> \/ poolRunning > 1
  /\ UNCHANGED <<noRest, ftpDone, ftpRun, outcomeOfRun, ftpCancelled, pausing, ftpResult, ftpStored,
                 reborn, boundVars>>

\* The workers that have not left are finitely many.
LEMMA WorkersFinite ==
  ASSUME FtpTyped
  PROVE  IsFiniteSet(AtWork) /\ Cardinality(AtWork) \in Nat
         /\ \A w \in AtWork : /\ Cardinality(AtWork \ {w}) = Cardinality(AtWork) - 1
                             /\ IsFiniteSet(AtWork \ {w})
<1>1. IsFiniteSet(FtpWorkers)
  BY FtpAssumption
<1>2. IsFiniteSet(AtWork)
  BY <1>1, FS_Subset DEF AtWork
<1> QED
  BY <1>2, FS_CardinalityType, FS_RemoveElement

\* A step of a worker that is at work keeps everything about the pool.
LEMMA PoolStep ==
  ASSUME FtpInv, NEW w \in FtpWorkers, NEW r, ftpWorker[w].at # "left", WorkerStep(w, r),
         Len(segs') = Len(segs)
  PROVE  ftpRun = "workers" /\ Handed' /\ PoolCounted' /\ EndIsWhole' /\ PutBackHasWorker'
         /\ FtpResultFresh' /\ ftpWorker' \in [FtpWorkers -> Places]
<1>1. FtpTyped /\ Handed /\ PoolCounted /\ FtpResultFresh
  BY DEF FtpInv
<1>2. ftpWorker \in [FtpWorkers -> Places] /\ r \in Places
  BY <1>1 DEF FtpTyped, Places, WorkerStep
<1>3. ftpRun = "workers"
  BY <1>1 DEF Handed
<1>4. ftpRun' = ftpRun /\ ftpResult' = ftpResult /\ ftpStarts' = ftpStarts /\ ftpCancelled' = ftpCancelled
  BY DEF WorkerStep, boundVars
<1>5. /\ ftpWorker' \in [FtpWorkers -> Places] /\ ftpWorker'[w] = r
      /\ \A v \in FtpWorkers \ {w} : ftpWorker'[v] = ftpWorker[v]
  BY <1>2 DEF WorkerStep
<1>6. Handed'
  BY <1>1, <1>3, <1>4, <1>5 DEF Handed, WorkerStep
<1>7. AtWork' = IF r.at = "left" THEN AtWork \ {w} ELSE AtWork
  BY <1>5 DEF AtWork
<1>8. w \in AtWork
  BY DEF AtWork
<1>9. PoolCounted'
  BY <1>1, <1>7, <1>8, WorkersFinite DEF PoolCounted, WorkerStep
<1>10. PutBackHasWorker'
  <2> SUFFICES ASSUME ~ CtxOver', ftpQueue' # <<>> PROVE \E v \in FtpWorkers : ftpWorker'[v].at # "left"
    BY DEF PutBackHasWorker
  <2>1. CASE r.at # "left"
    BY <1>5, <2>1
  <2>2. CASE r.at = "left"
    <3>1. poolRunning > 1
      BY <1>4, <2>2 DEF WorkerStep, CtxOver
    <3>2. Cardinality(AtWork \ {w}) # 0 /\ IsFiniteSet(AtWork \ {w})
      BY <1>1, <1>8, <3>1, WorkersFinite DEF PoolCounted
    <3>3. PICK v : v \in AtWork \ {w}
      BY <3>2, FS_EmptySet
    <3> QED
      BY <1>5, <3>3 DEF AtWork
  <2> QED
    BY <2>1, <2>2
<1>11. EndIsWhole' /\ FtpResultFresh'
  BY <1>1, <1>3, <1>4 DEF EndIsWhole, FtpResultFresh
<1> QED
  BY <1>3, <1>5, <1>6, <1>9, <1>10, <1>11

\* What holds of plan and disk, and stays while neither changes.
LEMMA DiskRests ==
  ASSUME FtpInv, UNCHANGED <<segs, diskVars>>, ftpRun' # "none" => ftpRun # "none"
  PROVE  PlansCover' /\ CountsTrue' /\ (ftpDone' = ftpDone => FtpDoneWhole')
BY DEF FtpInv, diskVars, PlansCover, CountsTrue, FtpDoneWhole, CoversFiles, TrueOf

\* The types after a step of a worker.
LEMMA TypedStep ==
  ASSUME FtpInv, NEW w \in FtpWorkers, NEW r, WorkerStep(w, r), segs' \in Plans,
         ftpWorker' \in [FtpWorkers -> Places],
         written' \in [FtpFiles -> [gone : BOOLEAN, units : SUBSET Nat]],
         \A f \in FtpFiles : written'[f].units \subseteq 0 .. FileSizes[f]
  PROVE  FtpTyped'
BY DEF FtpInv, FtpTyped, WorkerStep, Places, boundVars

\* Putting a segment back, and taking the first one.
LEMMA QueueFacts ==
  ASSUME FtpTyped, Handed, NEW w \in FtpWorkers
  PROVE  /\ ftpWorker[w].at \in {"dial", "transfer"} =>
              LET q == <<ftpWorker[w].seg>> \o ftpQueue IN
                q \in Seq(Nat) /\ \A k \in 1 .. Len(q) : q[k] \in 1 .. Len(segs)
         /\ ftpQueue # <<>> =>
              /\ Head(ftpQueue) \in 1 .. Len(segs) /\ Head(ftpQueue) \in Nat
              /\ Tail(ftpQueue) \in Seq(Nat)
              /\ \A k \in 1 .. Len(Tail(ftpQueue)) : Tail(ftpQueue)[k] \in 1 .. Len(segs)
<1>1. ftpQueue \in Seq(Nat) /\ \A k \in 1 .. Len(ftpQueue) : ftpQueue[k] \in 1 .. Len(segs)
  BY DEF FtpTyped, Handed
<1>2. Len(segs) \in Nat
  BY DEF FtpTyped, Plans
<1>3. ASSUME ftpQueue # <<>>
      PROVE  /\ Head(ftpQueue) \in 1 .. Len(segs) /\ Head(ftpQueue) \in Nat
             /\ Tail(ftpQueue) \in Seq(Nat)
             /\ \A k \in 1 .. Len(Tail(ftpQueue)) : Tail(ftpQueue)[k] \in 1 .. Len(segs)
  <2>1. /\ Head(ftpQueue) = ftpQueue[1] /\ Tail(ftpQueue) \in Seq(Nat) /\ 1 \in 1 .. Len(ftpQueue)
        /\ Len(Tail(ftpQueue)) = Len(ftpQueue) - 1
        /\ \A k \in 1 .. Len(Tail(ftpQueue)) : Tail(ftpQueue)[k] = ftpQueue[k + 1]
    BY <1>1, <1>3
  <2> QED
    BY <1>1, <1>2, <2>1
<1>4. ASSUME ftpWorker[w].at \in {"dial", "transfer"}
      PROVE  LET q == <<ftpWorker[w].seg>> \o ftpQueue IN
                q \in Seq(Nat) /\ \A k \in 1 .. Len(q) : q[k] \in 1 .. Len(segs)
  <2> DEFINE x == ftpWorker[w].seg
             q == <<x>> \o ftpQueue
  <2>1. x \in 1 .. Len(segs) /\ x \in Nat
    BY <1>2, <1>4 DEF Handed
  <2> HIDE DEF x
  <2>2. q \in Seq(Nat) /\ Len(q) = Len(ftpQueue) + 1 /\ q[1] = x
        /\ \A k \in 2 .. Len(q) : q[k] = ftpQueue[k - 1]
    BY <1>1, <2>1
  <2> HIDE DEF q
  <2>3. ASSUME NEW k \in 1 .. Len(q) PROVE q[k] \in 1 .. Len(segs)
    <3>1. CASE k = 1
      BY <2>1, <2>2, <3>1
    <3>2. CASE k # 1
      <4>1. k \in 2 .. Len(q) /\ k - 1 \in 1 .. Len(ftpQueue)
        BY <1>1, <2>2, <3>2
      <4> QED
        BY <1>1, <2>2, <4>1
    <3> QED
      BY <3>1, <3>2
  <2> QED
    BY <2>2, <2>3 DEF q, x
<1> QED
  BY <1>3, <1>4

\* Where a worker goes: the records its steps leave.
LEMMA Records ==
  ASSUME FtpTyped, NEW w \in FtpWorkers
  PROVE  /\ Out \in Places /\ Out.at = "left"
         /\ \A place \in WorkerPlaces : \E r \in Places :
              /\ Place(w, place) = [ftpWorker EXCEPT ![w] = r]
              /\ r.at = place /\ r.seg = ftpWorker[w].seg
         /\ \A x \in Nat : \E r \in Places :
              /\ [ftpWorker EXCEPT ![w].at = "dial", ![w].seg = x] = [ftpWorker EXCEPT ![w] = r]
              /\ r.at = "dial" /\ r.seg = x
<1>1. ftpWorker[w] \in Places /\ ftpWorker \in [FtpWorkers -> Places]
  BY DEF FtpTyped, Places
<1>2. Out \in Places /\ Out.at = "left"
  BY FtpAssumption DEF Out, Places, WorkerPlaces
<1>3. ASSUME NEW place \in WorkerPlaces
      PROVE  \E r \in Places : /\ Place(w, place) = [ftpWorker EXCEPT ![w] = r]
                               /\ r.at = place /\ r.seg = ftpWorker[w].seg
  <2> DEFINE r == [ftpWorker[w] EXCEPT !.at = place]
  <2>1. r \in Places /\ r.at = place /\ r.seg = ftpWorker[w].seg
    BY <1>1 DEF Places
  <2>2. Place(w, place) = [ftpWorker EXCEPT ![w] = r]
    BY DEF Place
  <2> QED
    BY <2>1, <2>2
<1>4. ASSUME NEW x \in Nat
      PROVE  \E r \in Places : /\ [ftpWorker EXCEPT ![w].at = "dial", ![w].seg = x] = [ftpWorker EXCEPT ![w] = r]
                               /\ r.at = "dial" /\ r.seg = x
  <2> DEFINE dial == "dial"
             r == [[ftpWorker[w] EXCEPT !.at = dial] EXCEPT !.seg = x]
  <2>1. dial \in WorkerPlaces
    BY DEF WorkerPlaces
  <2>2. [ftpWorker EXCEPT ![w].at = "dial", ![w].seg = x] = [ftpWorker EXCEPT ![w] = r]
    BY <1>1 DEF Places
  <2> HIDE DEF dial
  <2>3. r \in Places /\ r.at = dial /\ r.seg = x
    BY <1>1, <2>1 DEF Places
  <2> QED
    BY <2>2, <2>3 DEF dial
<1> QED
  BY <1>2, <1>3, <1>4

\* A failure sends the worker into a delay, or out with an error.
LEMMA RetriesFacts ==
  ASSUME FtpTyped, NEW w \in FtpWorkers, Retries(w)
  PROVE  /\ firstErr' \in {"none", "rest", "failed"} /\ (firstErr # "none" => firstErr' # "none")
         /\ \E r \in Places : /\ ftpWorker' = [ftpWorker EXCEPT ![w] = r] /\ r.at \in {"left", "delay"}
                              /\ poolRunning' = IF r.at = "left" THEN poolRunning - 1 ELSE poolRunning
                              /\ r.at = "left" => firstErr' # "none"
<1>1. firstErr \in {"none", "rest", "failed"} /\ ftpWorker[w].failures \in 0 .. MaxFtpRetries
  BY DEF FtpTyped
<1>2. CASE ftpWorker[w].failures = MaxFtpRetries
  <2>1. ftpWorker' = [ftpWorker EXCEPT ![w] = Out] /\ poolRunning' = poolRunning - 1
        /\ firstErr' = IF firstErr = "none" THEN "failed" ELSE firstErr
    BY <1>2 DEF Retries, Leave, Fails
  <2> QED
    BY <1>1, <2>1, Records
<1>3. CASE ftpWorker[w].failures # MaxFtpRetries
  <2> DEFINE more == ftpWorker[w].failures + 1
             zero == 0
             r == [at |-> "delay", seg |-> zero, failures |-> more]
  <2>1. more \in 0 .. MaxFtpRetries /\ zero \in Nat
    BY <1>1, <1>3, FtpAssumption
  <2>2. ftpWorker' = [ftpWorker EXCEPT ![w] = [at |-> "delay", seg |-> zero, failures |-> more]]
        /\ UNCHANGED <<poolRunning, firstErr>>
    BY <1>3 DEF Retries
  <2> HIDE DEF more, zero
  <2>3. r \in Places /\ r.at = "delay"
    BY <2>1 DEF Places, WorkerPlaces
  <2> QED
    BY <1>1, <2>2, <2>3
<1> QED
  BY <1>2, <1>3

\* The steps of a worker that touch neither the plan nor the disk
QuietWorker(w) ==
  \/ TakeSegment(w) \/ LoginRefused(w) \/ TransferFails(w) \/ GivesUp(w)
  \/ SegmentFetched(w) \/ WorkerCancelled(w) \/ DelayEnds(w)

\* They are steps in this sense.
LEMMA QuietStep ==
  ASSUME FtpInv, NEW w \in FtpWorkers, QuietWorker(w)
  PROVE  ftpWorker[w].at # "left" /\ UNCHANGED <<segs, diskVars>> /\ \E r : WorkerStep(w, r)
<1>1. FtpTyped /\ Handed /\ PoolCounted
  BY DEF FtpInv
<1>2. /\ ftpQueue \in Seq(Nat) /\ \A k \in 1 .. Len(ftpQueue) : ftpQueue[k] \in 1 .. Len(segs)
      /\ firstErr \in {"none", "rest", "failed"} /\ maxConns \in 0 .. Connections
  BY <1>1 DEF FtpTyped, Handed
<1>3. ftpWorker[w].at # "left"
  BY DEF QuietWorker, TakeSegment, LoginRefused, TransferFails, GivesUp, SegmentFetched,
         WorkerCancelled, DelayEnds
<1>4. UNCHANGED <<segs, diskVars>>
  BY DEF QuietWorker, TakeSegment, LoginRefused, TransferFails, GivesUp, SegmentFetched,
         WorkerCancelled, DelayEnds, planVars
<1>5. UNCHANGED <<noRest, ftpDone, ftpRun, outcomeOfRun, ftpCancelled, pausing, ftpResult, ftpStored,
                  reborn, boundVars>>
  BY DEF QuietWorker, TakeSegment, LoginRefused, TransferFails, GivesUp, SegmentFetched,
         WorkerCancelled, DelayEnds, planVars, diskVars
<1>6. \E r : WorkerStep(w, r)
  <2>1. CASE TakeSegment(w)
    <3>1. UNCHANGED <<maxConns, firstErr>>
      BY <2>1 DEF TakeSegment, planVars
    <3>2. CASE ftpQueue = <<>>
      <4>1. WorkerStep(w, Out)
        BY <1>2, <1>5, <2>1, <3>1, <3>2, <1>1, Records DEF TakeSegment, Leave, WorkerStep
      <4> QED
        BY <4>1
    <3>3. CASE ftpQueue # <<>>
      <4> DEFINE x == Head(ftpQueue)
      <4>5. x \in Nat
        BY <1>1, <3>3, QueueFacts
      <4>4. ftpWorker' = [ftpWorker EXCEPT ![w].at = "dial", ![w].seg = x]
        BY <2>1, <3>3 DEF TakeSegment
      <4>1. PICK r \in Places : /\ ftpWorker' = [ftpWorker EXCEPT ![w] = r]
                               /\ r.at = "dial" /\ r.seg = x
        <5> HIDE DEF x
        <5>1. \A y \in Nat : \E r \in Places :
                /\ [ftpWorker EXCEPT ![w].at = "dial", ![w].seg = y] = [ftpWorker EXCEPT ![w] = r]
                /\ r.at = "dial" /\ r.seg = y
          BY <1>1, Records
        <5> QED
          BY <4>5, <4>4, <5>1
      <4>2. WorkerStep(w, r)
        BY <1>1, <1>2, <1>5, <2>1, <3>1, <3>3, <4>1, QueueFacts DEF TakeSegment, WorkerStep
      <4> QED
        BY <4>2
    <3> QED
      BY <3>2, <3>3
  <2>2. CASE LoginRefused(w)
    <3>1. /\ ftpQueue' \in Seq(Nat) /\ \A k \in 1 .. Len(ftpQueue') : ftpQueue'[k] \in 1 .. Len(segs)
      BY <1>1, <2>2, QueueFacts DEF LoginRefused, PutBack
    <3>2. CASE poolRunning > 1
      <4>1. poolRunning \in 1 .. Connections
        <5>1. AtWork \subseteq FtpWorkers /\ IsFiniteSet(FtpWorkers) /\ Cardinality(FtpWorkers) = Connections
          BY FtpAssumption DEF AtWork
        <5>2. Cardinality(AtWork) \in Nat /\ Cardinality(AtWork) <= Connections
          BY <5>1, FS_Subset, FS_CardinalityType
        <5> QED
          BY <1>1, <3>2, <5>2, FtpAssumption DEF PoolCounted
      <4>2. maxConns' \in 0 .. Connections
        BY <1>2, <2>2, <3>2, <4>1, FtpAssumption DEF LoginRefused, Smaller
      <4>3. /\ ftpWorker' = [ftpWorker EXCEPT ![w] = Out] /\ poolRunning' = poolRunning - 1
            /\ firstErr' = firstErr
        BY <2>2, <3>2 DEF LoginRefused, Leave
      <4>4. WorkerStep(w, Out)
        BY <1>1, <1>2, <1>5, <3>1, <3>2, <4>2, <4>3, Records DEF WorkerStep
      <4> QED
        BY <4>4
    <3>3. CASE ~ (poolRunning > 1)
      <4>1. Retries(w) /\ maxConns' = maxConns
        BY <2>2, <3>3 DEF LoginRefused
      <4>2. PICK r \in Places :
              /\ ftpWorker' = [ftpWorker EXCEPT ![w] = r] /\ r.at \in {"left", "delay"}
              /\ poolRunning' = IF r.at = "left" THEN poolRunning - 1 ELSE poolRunning
              /\ r.at = "left" => firstErr' # "none"
        BY <1>1, <4>1, RetriesFacts
      <4>3. WorkerStep(w, r)
        BY <1>1, <1>2, <1>5, <3>1, <4>1, <4>2, RetriesFacts DEF WorkerStep
      <4> QED
        BY <4>3
    <3> QED
      BY <3>2, <3>3
  <2>3. CASE TransferFails(w)
    <3>1. /\ ftpQueue' \in Seq(Nat) /\ \A k \in 1 .. Len(ftpQueue') : ftpQueue'[k] \in 1 .. Len(segs)
      BY <1>1, <2>3, QueueFacts DEF TransferFails, PutBack
    <3>2. Retries(w) /\ maxConns' = maxConns
      BY <2>3 DEF TransferFails, planVars
    <3>3. PICK r \in Places :
            /\ ftpWorker' = [ftpWorker EXCEPT ![w] = r] /\ r.at \in {"left", "delay"}
            /\ poolRunning' = IF r.at = "left" THEN poolRunning - 1 ELSE poolRunning
            /\ r.at = "left" => firstErr' # "none"
      BY <1>1, <3>2, RetriesFacts
    <3>4. WorkerStep(w, r)
      BY <1>1, <1>2, <1>5, <3>1, <3>2, <3>3, RetriesFacts DEF WorkerStep
    <3> QED
      BY <3>4
  <2>4. CASE GivesUp(w)
    <3>1. /\ ftpQueue' \in Seq(Nat) /\ \A k \in 1 .. Len(ftpQueue') : ftpQueue'[k] \in 1 .. Len(segs)
      BY <1>1, <2>4, QueueFacts DEF GivesUp, PutBack
    <3>2. /\ firstErr' \in {"none", "rest", "failed"} /\ firstErr' # "none" /\ maxConns' = maxConns
      BY <1>2, <2>4 DEF GivesUp, Fails, planVars
    <3>3. WorkerStep(w, Out)
      BY <1>1, <1>2, <1>5, <2>4, <3>1, <3>2, Records DEF GivesUp, Leave, WorkerStep
    <3> QED
      BY <3>3
  <2>5. CASE SegmentFetched(w)
    <3> DEFINE take == "take"
               r == [Out EXCEPT !.at = take]
    <3>1. ftpWorker' = [ftpWorker EXCEPT ![w] = r]
      BY <2>5 DEF SegmentFetched
    <3>2. r \in Places /\ r.at = "take"
      <4>1. take \in WorkerPlaces
        BY DEF WorkerPlaces
      <4> HIDE DEF take
      <4>2. r \in Places /\ r.at = take
        BY <1>1, <4>1, Records DEF Places
      <4> QED
        BY <4>2 DEF take
    <3>3. UNCHANGED <<maxConns, ftpQueue, poolRunning, firstErr>>
      BY <2>5 DEF SegmentFetched, planVars
    <3> HIDE DEF r
    <3>4. WorkerStep(w, r)
      BY <1>2, <1>5, <3>1, <3>2, <3>3 DEF WorkerStep
    <3> QED
      BY <3>4
  <2>6. CASE WorkerCancelled(w)
    <3>1. /\ ftpQueue' \in Seq(Nat) /\ \A k \in 1 .. Len(ftpQueue') : ftpQueue'[k] \in 1 .. Len(segs)
      BY <1>1, <1>2, <2>6, QueueFacts DEF WorkerCancelled, PutBack
    <3>2. UNCHANGED <<maxConns, firstErr>> /\ CtxOver
      BY <2>6 DEF WorkerCancelled, planVars
    <3>3. WorkerStep(w, Out)
      BY <1>1, <1>2, <1>5, <2>6, <3>1, <3>2, Records DEF WorkerCancelled, Leave, WorkerStep, CtxOver
    <3> QED
      BY <3>3
  <2>7. CASE DelayEnds(w)
    <3>1. UNCHANGED <<maxConns, ftpQueue, poolRunning, firstErr>> /\ ftpWorker' = Place(w, "take")
      BY <2>7 DEF DelayEnds, planVars
    <3>2. PICK r \in Places : ftpWorker' = [ftpWorker EXCEPT ![w] = r] /\ r.at = "take"
      BY <1>1, <3>1, Records DEF WorkerPlaces
    <3>3. WorkerStep(w, r)
      BY <1>2, <1>5, <3>1, <3>2 DEF WorkerStep
    <3> QED
      BY <3>3
  <2> QED
    BY <2>1, <2>2, <2>3, <2>4, <2>5, <2>6, <2>7 DEF QuietWorker
<1> QED
  BY <1>3, <1>4, <1>6

\* They keep the invariant.
LEMMA QuietInv ==
  ASSUME FtpInv, NEW w \in FtpWorkers, QuietWorker(w)
  PROVE  FtpInv'
<1>1. ftpWorker[w].at # "left" /\ UNCHANGED <<segs, diskVars>>
  BY QuietStep
<1>2. PICK r : WorkerStep(w, r)
  BY QuietStep
<1>3. Len(segs') = Len(segs)
  BY <1>1
<1>4. ftpRun = "workers" /\ Handed' /\ PoolCounted' /\ EndIsWhole' /\ PutBackHasWorker'
         /\ FtpResultFresh' /\ ftpWorker' \in [FtpWorkers -> Places]
  BY <1>1, <1>2, <1>3, PoolStep
<1>5. FtpTyped'
  BY <1>1, <1>2, <1>4 DEF FtpInv, FtpTyped, WorkerStep, Places, boundVars, diskVars
<1>6. PlansCover' /\ CountsTrue' /\ FtpDoneWhole'
  BY <1>1, <1>2, <1>4, DiskRests DEF WorkerStep
<1> QED
  BY <1>4, <1>5, <1>6 DEF FtpInv

\* A plan in which one segment counts d.
LEMMA SegmentCounts ==
  ASSUME segs \in Plans, NEW i \in 1 .. Len(segs), NEW d \in Nat,
         segs[i].begin + d <= segs[i].end + 1,
         NEW p, p = [segs EXCEPT ![i].downloaded = d]
  PROVE  /\ p \in Plans /\ Len(p) = Len(segs)
         /\ p[i].downloaded = d /\ p[i].file = segs[i].file /\ p[i].begin = segs[i].begin
         /\ \A j \in 1 .. Len(segs) : j # i => p[j] = segs[j]
         /\ CoversFiles(segs) => CoversFiles(p)
<1>1. segs \in Seq(Segments) /\ Len(segs) \in Nat /\ segs[i] \in Segments
  BY DEF Plans
<1> DEFINE r == [segs[i] EXCEPT !.downloaded = d]
<1>2. r \in Segments /\ r.file = segs[i].file /\ r.begin = segs[i].begin /\ r.end = segs[i].end
      /\ r.downloaded = d
  BY <1>1 DEF Segments
<1>3. p = [segs EXCEPT ![i] = r]
  OBVIOUS
<1> HIDE DEF r
<1>4. p \in Seq(Segments) /\ Len(p) = Len(segs) /\ p[i] = r
      /\ \A j \in 1 .. Len(segs) : j # i => p[j] = segs[j]
  BY <1>1, <1>2, <1>3
<1>5. p \in Plans
  BY <1>2, <1>4 DEF Plans
<1>6. CoversFiles(segs) => CoversFiles(p)
  <2>1. \A j \in 1 .. Len(segs) : p[j].file = segs[j].file /\ p[j].begin = segs[j].begin /\ p[j].end = segs[j].end
    BY <1>2, <1>4
  <2> QED
    BY <1>4, <2>1 DEF CoversFiles
<1> QED
  BY <1>2, <1>4, <1>5, <1>6

\* A login leaves a segment as it is, or lets it start over without REST.
LEMMA LogInInv ==
  ASSUME FtpInv, NEW w \in FtpWorkers, LogIn(w)
  PROVE  FtpInv'
<1>1. FtpTyped /\ Handed /\ PlansCover /\ CountsTrue /\ FtpDoneWhole
  BY DEF FtpInv
<1>2. ftpWorker[w].at = "dial" /\ ftpWorker' = Place(w, "transfer")
      /\ UNCHANGED <<noRest, maxConns, ftpDone, ftpQueue, poolRunning, firstErr, ftpRun, outcomeOfRun,
                     ftpCancelled, pausing, ftpResult, diskVars, boundVars>>
  BY DEF LogIn
<1> DEFINE i == ftpWorker[w].seg
           zero == 0
           p == [segs EXCEPT ![i].downloaded = zero]
<1>3. segs' = (IF noRest THEN p ELSE segs) /\ i \in 1 .. Len(segs)
  BY <1>1, <1>2 DEF LogIn, Handed
<1>4. segs[i] \in Segments /\ segs[i].begin + segs[i].downloaded <= segs[i].end + 1
  BY <1>1, <1>3 DEF FtpTyped, Plans
<1>5. zero \in Nat /\ segs[i].begin + zero <= segs[i].end + 1 /\ zero = 0
  BY <1>4 DEF Segments
<1> HIDE DEF zero, i
<1>6. /\ p \in Plans /\ Len(p) = Len(segs)
      /\ p[i].downloaded = zero /\ p[i].file = segs[i].file /\ p[i].begin = segs[i].begin
      /\ \A j \in 1 .. Len(segs) : j # i => p[j] = segs[j]
      /\ CoversFiles(segs) => CoversFiles(p)
  <2>1. segs \in Plans
    BY <1>1 DEF FtpTyped
  <2> QED
    BY <1>3, <1>5, <2>1, SegmentCounts
<1> HIDE DEF p
<1>7. segs' \in Plans /\ Len(segs') = Len(segs) /\ (CoversFiles(segs) => CoversFiles(segs'))
  BY <1>1, <1>3, <1>6 DEF FtpTyped
<1>8. PICK r : r \in Places /\ ftpWorker' = [ftpWorker EXCEPT ![w] = r] /\ r.at = "transfer" /\ r.seg = i
  <2>1. "transfer" \in WorkerPlaces
    BY DEF WorkerPlaces
  <2>2. \E r \in Places : /\ Place(w, "transfer") = [ftpWorker EXCEPT ![w] = r]
                         /\ r.at = "transfer" /\ r.seg = ftpWorker[w].seg
    <3>1. \A place \in WorkerPlaces : \E r \in Places :
              /\ Place(w, place) = [ftpWorker EXCEPT ![w] = r]
              /\ r.at = place /\ r.seg = ftpWorker[w].seg
      BY <1>1, Records
    <3> QED
      BY <2>1, <3>1, Zenon
  <2> QED
    BY <1>2, <2>2 DEF i
<1>9. WorkerStep(w, r)
  BY <1>1, <1>2, <1>3, <1>8 DEF WorkerStep, FtpTyped, Handed, diskVars
<1>10. ftpRun = "workers" /\ Handed' /\ PoolCounted' /\ EndIsWhole' /\ PutBackHasWorker'
         /\ FtpResultFresh' /\ ftpWorker' \in [FtpWorkers -> Places]
  <2>1. ftpWorker[w].at # "left"
    BY <1>2
  <2> QED
    BY <1>7, <1>9, <2>1, PoolStep
<1>11. FtpTyped'
  BY <1>1, <1>2, <1>7, <1>10 DEF FtpTyped, Places, diskVars, boundVars
<1>12. ASSUME NEW f \in FtpFiles, TrueOf(segs, f) PROVE TrueOf(segs, f)'
  <2>1. written' = written
    BY <1>2 DEF diskVars
  <2>2. CASE noRest
    <3>1. segs' = p
      BY <1>3, <2>2
    <3>2. \A u \in p[i].begin .. (p[i].begin + p[i].downloaded - 1) : FALSE
      BY <1>4, <1>5, <1>6 DEF Segments
    <3>3. \A j \in 1 .. Len(p) : p[j].file = f =>
            \A u \in p[j].begin .. (p[j].begin + p[j].downloaded - 1) : u \in written[f].units
      BY <1>6, <1>12, <3>2 DEF TrueOf
    <3> QED
      BY <2>1, <3>1, <3>3 DEF TrueOf
  <2>3. CASE ~ noRest
    BY <1>3, <1>12, <2>1, <2>3 DEF TrueOf
  <2> QED
    BY <2>2, <2>3
<1>13. CountsTrue' /\ PlansCover' /\ FtpDoneWhole'
  <2>1. ftpRun' = ftpRun /\ written' = written /\ reborn' = reborn /\ ftpStored' = ftpStored /\ ftpDone' = ftpDone
    BY <1>2 DEF diskVars
  <2>2. FtpDoneWhole'
    BY <1>1, <2>1 DEF FtpDoneWhole
  <2>3. segs' # <<>> /\ segs # <<>>
    BY <1>3, <1>7
  <2>4. PlansCover'
    BY <1>1, <1>7, <1>10, <2>1, <2>3 DEF PlansCover, CoversFiles
  <2>5. CountsTrue'
    BY <1>1, <1>12, <2>1 DEF CountsTrue, TrueOf
  <2> QED
    BY <2>2, <2>4, <2>5
<1> QED
  BY <1>10, <1>11, <1>13 DEF FtpInv

\* A unit is written before it is counted.
LEMMA ReadUnitInv ==
  ASSUME FtpInv, NEW w \in FtpWorkers, ReadUnit(w)
  PROVE  FtpInv'
<1>1. FtpTyped /\ Handed /\ PlansCover /\ CountsTrue /\ FtpDoneWhole
  BY DEF FtpInv
<1> DEFINE i == ftpWorker[w].seg
           file == segs[i].file
           x == segs[i].begin + segs[i].downloaded
           d == segs[i].downloaded + 1
           p == [segs EXCEPT ![i].downloaded = d]
<1>2. /\ ftpWorker[w].at = "transfer" /\ Remain(segs[i]) > 0
      /\ written' = [written EXCEPT ![file].units = @ \cup {x}]
      /\ segs' = [segs EXCEPT ![i].downloaded = @ + 1]
      /\ UNCHANGED <<noRest, maxConns, ftpDone, runVars, pausing, ftpResult, ftpStored, reborn, boundVars>>
  BY DEF ReadUnit
<1>3. i \in 1 .. Len(segs)
  BY <1>1, <1>2 DEF Handed
<1>4. segs \in Plans /\ segs[i] \in Segments /\ segs[i].end < FileSizes[file]
      /\ file \in FtpFiles /\ segs[i].begin \in Nat /\ segs[i].downloaded \in Nat /\ segs[i].end \in Int
  <2>1. segs \in Plans
    BY <1>1 DEF FtpTyped
  <2>2. segs[i] \in Segments /\ segs[i].end < FileSizes[file]
    BY <1>3, <2>1 DEF Plans
  <2> QED
    BY <2>1, <2>2 DEF Segments
<1>5. d \in Nat /\ segs[i].begin + d <= segs[i].end + 1 /\ x \in Nat /\ x <= FileSizes[file]
      /\ segs[i].begin + d = x + 1
  <2>1. FileSizes[file] \in Nat
    BY <1>4, Sizes
  <2>2. segs[i].end + 1 - segs[i].begin - segs[i].downloaded > 0
    BY <1>2 DEF Remain
  <2> HIDE DEF i, file
  <2> QED
    BY <1>4, <2>1, <2>2
<1>6. segs' = p
  BY <1>2, <1>3, <1>4 DEF Plans
<1> HIDE DEF d, x, file, i
<1>7. /\ p \in Plans /\ Len(p) = Len(segs)
      /\ p[i].downloaded = d /\ p[i].file = segs[i].file /\ p[i].begin = segs[i].begin
      /\ \A j \in 1 .. Len(segs) : j # i => p[j] = segs[j]
      /\ CoversFiles(segs) => CoversFiles(p)
  BY <1>3, <1>4, <1>5, SegmentCounts
<1> HIDE DEF p
<1>8. /\ written' \in [FtpFiles -> [gone : BOOLEAN, units : SUBSET Nat]]
      /\ \A f \in FtpFiles : /\ written'[f].gone = written[f].gone
                             /\ written'[f].units = written[f].units \cup (IF f = file THEN {x} ELSE {})
  <2>1. written \in [FtpFiles -> [gone : BOOLEAN, units : SUBSET Nat]]
    BY <1>1 DEF FtpTyped
  <2> DEFINE more == written[file].units \cup {x}
             r == [written[file] EXCEPT !.units = more]
  <2>2. written[file] \in [gone : BOOLEAN, units : SUBSET Nat]
    BY <1>4, <2>1
  <2>3. more \in SUBSET Nat
    BY <1>5, <2>2
  <2>4. written' = [written EXCEPT ![file] = r]
    BY <1>2, <1>4, <2>1
  <2> HIDE DEF more
  <2>5. r \in [gone : BOOLEAN, units : SUBSET Nat] /\ r.gone = written[file].gone /\ r.units = more
    BY <2>2, <2>3
  <2> HIDE DEF r
  <2>6. \A f \in FtpFiles : written'[f] = IF f = file THEN r ELSE written[f]
    BY <2>1, <2>4
  <2>7. written' \in [FtpFiles -> [gone : BOOLEAN, units : SUBSET Nat]]
    BY <1>4, <2>1, <2>4, <2>5
  <2> QED
    BY <2>5, <2>6, <2>7 DEF more
<1>9. \A f \in FtpFiles : written'[f].units \subseteq 0 .. FileSizes[f]
  BY <1>1, <1>5, <1>8, Sizes DEF FtpTyped
<1>10. ftpWorker[w] \in Places /\ ftpWorker \in [FtpWorkers -> Places]
  BY <1>1 DEF FtpTyped, Places
<1>11. WorkerStep(w, ftpWorker[w])
  BY <1>1, <1>2, <1>3, <1>10 DEF WorkerStep, FtpTyped, Handed, runVars, i
<1>12. ftpRun = "workers" /\ Handed' /\ PoolCounted' /\ EndIsWhole' /\ PutBackHasWorker'
         /\ FtpResultFresh' /\ ftpWorker' \in [FtpWorkers -> Places]
  <2>1. ftpWorker[w].at # "left" /\ Len(segs') = Len(segs)
    BY <1>2, <1>6, <1>7
  <2> QED
    BY <1>11, <2>1, PoolStep
<1>13. FtpTyped'
  BY <1>1, <1>2, <1>6, <1>7, <1>8, <1>9 DEF FtpTyped, runVars, boundVars
<1>14. ASSUME NEW f \in FtpFiles, TrueOf(segs, f) PROVE TrueOf(segs, f)'
  <2> SUFFICES ASSUME NEW j \in 1 .. Len(p), p[j].file = f,
                      NEW u \in p[j].begin .. (p[j].begin + p[j].downloaded - 1)
               PROVE  u \in written'[f].units
    BY <1>6 DEF TrueOf
  <2>1. CASE j # i
    <3>1. p[j] = segs[j]
      BY <1>7, <2>1
    <3> QED
      BY <1>7, <1>8, <1>14, <3>1 DEF TrueOf
  <2>2. CASE j = i
    <3>1. f = file
      BY <1>7, <2>2 DEF file
    <3>2. u \in segs[i].begin .. x
      BY <1>4, <1>5, <1>7, <2>2
    <3>3. CASE u = x
      BY <1>8, <3>1, <3>3
    <3>4. CASE u # x
      <4>1. u \in segs[i].begin .. (segs[i].begin + segs[i].downloaded - 1)
        BY <1>4, <3>2, <3>4 DEF x
      <4>2. u \in written[f].units
        BY <1>3, <1>14, <3>1, <4>1 DEF TrueOf, file
      <4> QED
        BY <1>8, <4>2
    <3> QED
      BY <3>3, <3>4
  <2> QED
    BY <2>1, <2>2
<1>15. CountsTrue' /\ PlansCover' /\ FtpDoneWhole'
  <2>1. ftpRun' = ftpRun /\ reborn' = reborn /\ ftpStored' = ftpStored /\ ftpDone' = ftpDone
    BY <1>2 DEF runVars
  <2>2. FtpDoneWhole'
    BY <1>1, <1>8, <2>1 DEF FtpDoneWhole
  <2>3. segs' # <<>> /\ segs # <<>>
    BY <1>3, <1>6, <1>7
  <2>4. PlansCover'
    BY <1>1, <1>6, <1>7, <1>12, <2>1, <2>3 DEF PlansCover, CoversFiles
  <2>5. CountsTrue'
    <3> SUFFICES ASSUME NEW f \in FtpFiles
                 PROVE  /\ ftpRun' # "none" => ~ written'[f].gone
                        /\ ~ written'[f].gone /\ reborn'[f] # "hole" => TrueOf(segs, f)'
                        /\ ~ written'[f].gone /\ reborn'[f] = "no" => TrueOf(ftpStored.segs, f)'
      BY DEF CountsTrue
    <3>1. TrueOf(ftpStored.segs, f) => TrueOf(ftpStored.segs, f)'
      BY <1>8, <2>1 DEF TrueOf
    <3> QED
      BY <1>1, <1>8, <1>14, <2>1, <3>1 DEF CountsTrue
  <2> QED
    BY <2>2, <2>4, <2>5
<1> QED
  BY <1>12, <1>13, <1>15 DEF FtpInv

-----------------------------------------------------------------------------
(* FtpFetcher: the steps of runs, of Start and Pause, and of the world *)

\* In the beginning nothing is planned, counted or on disk.
LEMMA FtpInitInv == FtpInit => FtpInv
<1> SUFFICES ASSUME FtpInit PROVE FtpInv
  OBVIOUS
<1>1. segs = <<>> /\ ftpStored = [segs |-> <<>>, noRest |-> FALSE, maxConns |-> 0] /\ ftpQueue = <<>>
      /\ ftpRun = "none" /\ ftpDone = FALSE /\ ftpWorker = [w \in FtpWorkers |-> Out] /\ poolRunning = 0
      /\ written = [f \in FtpFiles |-> Absent]
  BY DEF FtpInit
<1>2. segs \in Plans /\ ftpStored.segs = <<>>
  BY <1>1 DEF Plans
<1>3. ftpStored \in [segs : Plans, noRest : BOOLEAN, maxConns : 0 .. Connections]
  BY <1>1, <1>2, FtpAssumption
<1>4. /\ ftpWorker \in [FtpWorkers -> [at : WorkerPlaces, seg : Nat, failures : 0 .. MaxFtpRetries]]
      /\ \A w \in FtpWorkers : ftpWorker[w].at = "left"
  BY <1>1, FtpAssumption DEF Out, WorkerPlaces
<1>5. /\ written \in [FtpFiles -> [gone : BOOLEAN, units : SUBSET Nat]]
      /\ \A f \in FtpFiles : written[f].gone /\ written[f].units = {}
  BY <1>1 DEF Absent
<1>6. FtpTyped
  <2>1. /\ noRest \in BOOLEAN /\ maxConns \in 0 .. Connections /\ ftpDone \in BOOLEAN
        /\ ftpQueue \in Seq(Nat) /\ firstErr \in {"none", "rest", "failed"}
        /\ ftpRun \in {"none", "workers", "end"} /\ outcomeOfRun \in {"ok", "err"}
        /\ ftpCancelled \in BOOLEAN /\ pausing \in BOOLEAN /\ ftpStarts \in 0 .. MaxFtpStarts
    <3>1. /\ noRest = FALSE /\ maxConns = 0 /\ ftpDone = FALSE /\ ftpQueue = <<>> /\ firstErr = "none"
          /\ ftpRun = "none" /\ outcomeOfRun = "ok" /\ ftpCancelled = FALSE /\ pausing = FALSE /\ ftpStarts = 0
      BY DEF FtpInit
    <3>2. Connections \in Nat /\ MaxFtpStarts \in Nat
      BY FtpAssumption
    <3>3. /\ noRest \in BOOLEAN /\ ftpDone \in BOOLEAN /\ ftpCancelled \in BOOLEAN /\ pausing \in BOOLEAN
          /\ ftpRun \in {"none", "workers", "end"} /\ outcomeOfRun \in {"ok", "err"}
          /\ firstErr \in {"none", "rest", "failed"}
      BY <3>1, Zenon
    <3>4. ftpQueue \in Seq(Nat) /\ ftpStarts \in 0 .. MaxFtpStarts /\ maxConns \in 0 .. Connections
      BY <3>1, <3>2
    <3> QED
      BY <3>3, <3>4
  <2>2. ftpResult \in [kind : {"empty", "ok", "err"}, start : 0 .. MaxFtpStarts]
    BY FtpAssumption DEF FtpInit, Empty
  <2>3. reborn \in [FtpFiles -> {"no", "unsaved", "hole"}]
    BY DEF FtpInit
  <2> QED
    BY <1>2, <1>3, <1>4, <1>5, <2>1, <2>2, <2>3 DEF FtpTyped
<1>7. PlansCover /\ Handed /\ CountsTrue /\ EndIsWhole /\ FtpDoneWhole /\ PutBackHasWorker /\ FtpResultFresh
  BY <1>1, <1>2, <1>4, <1>5 DEF PlansCover, Handed, CountsTrue, EndIsWhole, FtpDoneWhole, PutBackHasWorker,
     FtpResultFresh, FtpInit
<1>8. PoolCounted
  <2>1. AtWork = {}
    BY <1>4 DEF AtWork
  <2> QED
    BY <1>1, <2>1, FS_EmptySet DEF PoolCounted
<1> QED
  BY <1>6, <1>7, <1>8 DEF FtpInv

\* Steps that touch neither plan, disk nor workers
LEMMA CallInv ==
  ASSUME FtpInv, FtpPause \/ FtpPauseEnds \/ FtpWait \/ DownloadReturns \/ RunReturns
  PROVE  FtpInv'
<1>1. FtpTyped /\ Handed /\ PoolCounted /\ PlansCover /\ CountsTrue /\ EndIsWhole /\ FtpDoneWhole
      /\ PutBackHasWorker /\ FtpResultFresh
  BY DEF FtpInv
<1>2. UNCHANGED <<planVars, diskVars, ftpQueue, poolRunning, ftpWorker, firstErr, boundVars>>
      /\ (ftpRun' # "none" => ftpRun # "none") /\ ftpRun' \in {ftpRun, "end", "none"}
      /\ (ftpCancelled => ftpCancelled')
  <2>1. CASE FtpPause
    BY <2>1 DEF FtpPause
  <2>2. CASE FtpPauseEnds
    BY <2>2 DEF FtpPauseEnds, runVars
  <2>3. CASE FtpWait
    BY <2>3 DEF FtpWait, runVars
  <2>4. CASE DownloadReturns
    BY <2>4 DEF DownloadReturns, WorkersGone
  <2>5. CASE RunReturns
    BY <2>5 DEF RunReturns
  <2> QED
    BY <2>1, <2>2, <2>3, <2>4, <2>5
<1>3. UNCHANGED <<segs, noRest, maxConns, written, ftpStored, reborn, ftpStarts>>
  BY <1>2 DEF planVars, diskVars, boundVars
<1>4. FtpTyped'
  <2>1. ftpResult' \in [kind : {"empty", "ok", "err"}, start : 0 .. MaxFtpStarts]
    <3>1. ASSUME RunReturns PROVE ftpResult' = ftpResult \/ ftpResult' = [kind |-> outcomeOfRun, start |-> ftpStarts]
      BY <3>1 DEF RunReturns
    <3>2. [kind |-> outcomeOfRun, start |-> ftpStarts] \in [kind : {"empty", "ok", "err"}, start : 0 .. MaxFtpStarts]
      BY <1>1 DEF FtpTyped
    <3>3. Empty \in [kind : {"empty", "ok", "err"}, start : 0 .. MaxFtpStarts]
      BY FtpAssumption DEF Empty
    <3> QED
      BY <1>1, <3>1, <3>2, <3>3 DEF FtpTyped, FtpPause, FtpPauseEnds, FtpWait, DownloadReturns
  <2>2. ftpDone' \in BOOLEAN /\ ftpCancelled' \in BOOLEAN /\ pausing' \in BOOLEAN
        /\ ftpRun' \in {"none", "workers", "end"} /\ outcomeOfRun' \in {"ok", "err"}
    BY <1>1 DEF FtpTyped, FtpPause, FtpPauseEnds, FtpWait, DownloadReturns, RunReturns, runVars
  <2> QED
    BY <1>1, <1>2, <1>3, <2>1, <2>2 DEF FtpTyped
<1>5. PlansCover' /\ CountsTrue' /\ (ftpDone' = ftpDone => FtpDoneWhole')
  BY <1>2, <1>3, DiskRests
<1>6. \A w \in FtpWorkers : ftpRun' # "workers" => ftpWorker[w].at = "left"
  BY <1>1 DEF Handed, WorkersGone, FtpPause, FtpPauseEnds, FtpWait, DownloadReturns, RunReturns, runVars
<1>7. Handed' /\ PoolCounted' /\ AtWork' = AtWork
  BY <1>1, <1>2, <1>3, <1>6 DEF Handed, PoolCounted, AtWork
<1>8. EndIsWhole'
  BY <1>1, <1>3 DEF EndIsWhole, Missing, FtpPause, FtpPauseEnds, FtpWait, DownloadReturns, RunReturns, runVars
<1>9. PutBackHasWorker'
  BY <1>1, <1>2 DEF PutBackHasWorker, CtxOver
<1>10. FtpResultFresh'
  BY <1>1, <1>3 DEF FtpResultFresh, FtpPause, FtpPauseEnds, FtpWait, DownloadReturns, RunReturns
<1>11. FtpDoneWhole'
  <2>1. CASE ftpDone' = ftpDone
    BY <1>5, <2>1
  <2>2. CASE ftpDone' # ftpDone
    <3>1. ftpRun = "end" /\ outcomeOfRun = "ok"
      <4>1. RunReturns
        BY <2>2 DEF FtpPause, FtpPauseEnds, FtpWait, DownloadReturns
      <4>2. ftpDone \in BOOLEAN /\ outcomeOfRun \in {"ok", "err"}
        BY <1>1 DEF FtpTyped
      <4> QED
        BY <2>2, <4>1, <4>2 DEF RunReturns
    <3>2. ~ Missing /\ CoversFiles(segs)
      BY <1>1, <3>1 DEF EndIsWhole, PlansCover
    <3>3. ASSUME NEW f \in FtpFiles, NEW u \in 0 .. (FileSizes[f] - 1), reborn[f] # "hole"
          PROVE  u \in written[f].units
      <4>1. PICK i \in 1 .. Len(segs) : segs[i].file = f /\ segs[i].begin <= u /\ u <= segs[i].end
        BY <3>2, <3>3 DEF CoversFiles
      <4>2. ~ (Remain(segs[i]) > 0) /\ segs[i] \in Segments
        BY <1>1, <3>2, <4>1 DEF Missing, FtpTyped, Plans
      <4>3. u \in segs[i].begin .. (segs[i].begin + segs[i].downloaded - 1)
        BY <3>3, <4>1, <4>2, Sizes DEF Remain, Segments
      <4>4. TrueOf(segs, f)
        BY <1>1, <3>1, <3>3 DEF CountsTrue
      <4> QED
        BY <4>1, <4>3, <4>4 DEF TrueOf
    <3> QED
      BY <1>3, <3>3 DEF FtpDoneWhole
  <2> QED
    BY <2>1, <2>2
<1> QED
  BY <1>4, <1>5, <1>7, <1>8, <1>9, <1>10, <1>11 DEF FtpInv

\* The fall back counts complete files only, which are on disk.
LEMMA FallBackInv ==
  ASSUME FtpInv, FallBack
  PROVE  FtpInv'
<1>1. FtpTyped /\ PlansCover /\ CountsTrue /\ FtpDoneWhole /\ FtpResultFresh
  BY DEF FtpInv
<1>2. /\ ftpRun = "workers" /\ noRest' = TRUE /\ Launch(SequentialPlan, TRUE)
      /\ UNCHANGED <<maxConns, ftpDone, ftpRun, outcomeOfRun, ftpCancelled, pausing, ftpResult, written,
                     ftpStored, reborn, ftpStarts>>
  BY DEF FallBack, WorkersGone, diskVars, boundVars
<1> DEFINE p == SequentialPlan
<1>3. segs' = p
  BY DEF FallBack
<1>4. /\ p \in Plans /\ CoversFiles(p) /\ Len(p) = Len(FileSizes)
      /\ \A f \in FtpFiles : CoversFiles(segs) /\ TrueOf(segs, f) => TrueOf(p, f)
  BY <1>1, SequentialFacts DEF FtpTyped
<1>5. CoversFiles(segs) /\ (ftpStored.segs # <<>> => segs # <<>>)
  BY <1>1, <1>2 DEF PlansCover
<1> HIDE DEF p
<1>6. /\ ftpQueue' \in Seq(Nat) /\ \A k \in 1 .. Len(ftpQueue') : ftpQueue'[k] \in 1 .. Len(p)
      /\ ftpWorker' \in [FtpWorkers -> [at : WorkerPlaces, seg : Nat, failures : 0 .. MaxFtpRetries]]
      /\ \A w \in FtpWorkers : ftpWorker'[w].at \in {"take", "left"}
      /\ firstErr' = "none" /\ PoolCounted'
      /\ ftpQueue' # <<>> => \E w \in FtpWorkers : ftpWorker'[w].at # "left"
  BY <1>1, <1>2, <1>4, Launched DEF FtpTyped, p
<1>7. FtpTyped'
  BY <1>1, <1>2, <1>3, <1>4, <1>6 DEF FtpTyped
<1>8. Handed' /\ PutBackHasWorker'
  BY <1>2, <1>3, <1>6 DEF Handed, PutBackHasWorker
<1>9. EndIsWhole' /\ FtpDoneWhole' /\ FtpResultFresh'
  BY <1>1, <1>2 DEF EndIsWhole, FtpDoneWhole, FtpResultFresh
<1>10. PlansCover'
  <2>1. ASSUME segs # <<>> PROVE p # <<>>
    <3>1. 1 \in 1 .. Len(segs)
      BY <1>1, <2>1 DEF FtpTyped, Plans
    <3>2. segs[1].file \in FtpFiles
      <4>1. segs[1] \in Segments
        BY <1>1, <3>1 DEF FtpTyped, Plans
      <4> QED
        BY <4>1 DEF Segments
    <3> QED
      BY <1>4, <3>2, Sizes DEF FtpFiles
  <2> QED
    BY <1>1, <1>2, <1>3, <1>4, <1>5, <2>1 DEF PlansCover, CoversFiles
<1>11. CountsTrue'
  <2>1. \A f \in FtpFiles : (TrueOf(p, f) => TrueOf(segs, f)') /\ (TrueOf(ftpStored.segs, f) => TrueOf(ftpStored.segs, f)')
    BY <1>2, <1>3 DEF TrueOf
  <2> QED
    BY <1>1, <1>2, <1>4, <1>5, <2>1 DEF CountsTrue
<1> QED
  BY <1>6, <1>7, <1>8, <1>9, <1>10, <1>11 DEF FtpInv

\* A Start plans anew or opens what there is; the files it creates count nothing,
\* and their record may count what they no longer hold.
LEMMA StartInv ==
  ASSUME FtpInv, FtpStart
  PROVE  FtpInv'
<1>1. FtpTyped /\ Handed /\ PoolCounted /\ PlansCover /\ CountsTrue /\ EndIsWhole /\ FtpDoneWhole
      /\ PutBackHasWorker /\ FtpResultFresh
  BY DEF FtpInv
<1>2. /\ ftpRun = "none" /\ ftpStarts < MaxFtpStarts /\ ftpStarts' = ftpStarts + 1
      /\ UNCHANGED <<noRest, maxConns, ftpDone, outcomeOfRun, pausing, ftpStored>>
  BY DEF FtpStart
<1>3. ftpStarts' \in 0 .. MaxFtpStarts
  BY <1>1, <1>2, FtpAssumption DEF FtpTyped
<1>4. CASE ftpDone
  <2>1. /\ ftpResult' = [kind |-> "ok", start |-> ftpStarts']
        /\ UNCHANGED <<segs, written, reborn, ftpQueue, poolRunning, ftpWorker, firstErr, ftpRun, ftpCancelled>>
    BY <1>4 DEF FtpStart
  <2> DEFINE k == ftpStarts'
  <2>2. k \in 0 .. MaxFtpStarts
    BY <1>3
  <2> HIDE DEF k
  <2>3. [kind |-> "ok", start |-> k] \in [kind : {"empty", "ok", "err"}, start : 0 .. MaxFtpStarts]
    BY <2>2
  <2>4. ftpResult' \in [kind : {"empty", "ok", "err"}, start : 0 .. MaxFtpStarts] /\ ftpResult'.start = ftpStarts'
    BY <2>1, <2>3 DEF k
  <2>5. FtpTyped'
    BY <1>1, <1>2, <1>3, <2>1, <2>4 DEF FtpTyped
  <2>6. PlansCover' /\ CountsTrue' /\ FtpDoneWhole'
    BY <1>2, <2>1, DiskRests DEF diskVars
  <2>7. Handed' /\ PoolCounted' /\ EndIsWhole' /\ PutBackHasWorker' /\ FtpResultFresh'
    <3>1. AtWork' = AtWork
      BY <2>1 DEF AtWork
    <3> QED
      BY <1>1, <1>2, <2>1, <2>4, <3>1 DEF Handed, PoolCounted, EndIsWhole, PutBackHasWorker, FtpResultFresh
  <2> QED
    BY <2>5, <2>6, <2>7 DEF FtpInv
<1>5. CASE ~ ftpDone
  <2> DEFINE fresh == segs = <<>>
  <2>1. /\ ftpResult' = Empty /\ ftpRun' = "workers" /\ ftpCancelled' = FALSE
        /\ written' = FilesAfterOpen(fresh)
        /\ reborn' = [f \in FtpFiles |-> IF ~fresh /\ written[f].gone THEN "unsaved" ELSE reborn[f]]
    BY <1>5 DEF FtpStart
  <2>2. PICK plan \in (IF fresh THEN FreshPlans ELSE {IF noRest THEN SequentialPlan ELSE segs}) :
          segs' = Opened(plan, fresh) /\ Launch(Opened(plan, fresh), noRest)
    BY <1>5 DEF FtpStart
  <2>3. segs \in Plans /\ noRest \in BOOLEAN /\ maxConns \in 0 .. Connections
    BY <1>1 DEF FtpTyped
  <2>4. ~ fresh => CoversFiles(segs)
    BY <1>1 DEF PlansCover
  <2>5. fresh => ftpStored.segs = <<>>
    BY <1>1 DEF PlansCover
  <2>6. fresh \in BOOLEAN
    OBVIOUS
  <2> HIDE DEF fresh
  <2>7. plan \in Plans /\ CoversFiles(plan)
        /\ (fresh => \A i \in 1 .. Len(plan) : plan[i].downloaded = 0)
        /\ (~ fresh => \A f \in FtpFiles : TrueOf(segs, f) => TrueOf(plan, f))
    BY <2>2, <2>3, <2>4, <2>6, FreshFacts, SequentialFacts
  <2> DEFINE p == Opened(plan, fresh)
  <2>8. /\ p \in Plans /\ Len(p) = Len(plan) /\ CoversFiles(p)
        /\ \A i \in 1 .. Len(plan) :
             /\ p[i].file = plan[i].file /\ p[i].begin = plan[i].begin
             /\ p[i].downloaded = IF ~ fresh /\ written[plan[i].file].gone THEN 0 ELSE plan[i].downloaded
    BY <1>1, <2>6, <2>7, OpenedFacts
  <2>9. segs' = p /\ Launch(p, noRest)
    BY <2>2
  <2> HIDE DEF p
  <2>10. /\ ftpQueue' \in Seq(Nat) /\ \A k \in 1 .. Len(ftpQueue') : ftpQueue'[k] \in 1 .. Len(p)
         /\ ftpWorker' \in [FtpWorkers -> [at : WorkerPlaces, seg : Nat, failures : 0 .. MaxFtpRetries]]
         /\ \A w \in FtpWorkers : ftpWorker'[w].at \in {"take", "left"}
         /\ firstErr' = "none" /\ PoolCounted'
         /\ ftpQueue' # <<>> => \E w \in FtpWorkers : ftpWorker'[w].at # "left"
    BY <2>3, <2>8, <2>9, Launched
  <2>11. /\ written' \in [FtpFiles -> [gone : BOOLEAN, units : SUBSET Nat]]
         /\ \A f \in FtpFiles : /\ written'[f].units \subseteq 0 .. FileSizes[f] /\ ~ written'[f].gone
                                /\ ~ fresh /\ ~ written[f].gone => written'[f] = written[f]
    <3> DEFINE blank == [gone |-> FALSE, units |-> {}]
    <3>1. written \in [FtpFiles -> [gone : BOOLEAN, units : SUBSET Nat]]
          /\ \A f \in FtpFiles : written[f].units \subseteq 0 .. FileSizes[f]
      BY <1>1 DEF FtpTyped
    <3>2. blank \in [gone : BOOLEAN, units : SUBSET Nat] /\ ~ blank.gone /\ blank.units = {}
      OBVIOUS
    <3>3. written' = [f \in FtpFiles |-> IF fresh \/ written[f].gone THEN blank ELSE written[f]]
      BY <2>1 DEF FilesAfterOpen
    <3> HIDE DEF blank
    <3> QED
      BY <3>1, <3>2, <3>3
  <2>12. reborn' \in [FtpFiles -> {"no", "unsaved", "hole"}]
         /\ \A f \in FtpFiles : reborn'[f] = IF ~fresh /\ written[f].gone THEN "unsaved" ELSE reborn[f]
    BY <1>1, <2>1 DEF FtpTyped
  <2>13. Empty \in [kind : {"empty", "ok", "err"}, start : 0 .. MaxFtpStarts]
    BY FtpAssumption DEF Empty
  <2>14. FtpTyped'
    BY <1>1, <1>2, <1>3, <2>1, <2>8, <2>9, <2>10, <2>11, <2>12, <2>13 DEF FtpTyped
  <2>15. PlansCover'
    <3>1. ftpStored.segs # <<>> => p # <<>>
      <4>1. ASSUME ftpStored.segs # <<>> PROVE \E f \in FtpFiles : TRUE
        <5>1. segs \in Seq(Segments) /\ segs # <<>>
          BY <1>1, <2>3, <4>1 DEF PlansCover, Plans
        <5>2. segs[1] \in Segments
          BY <5>1
        <5> QED
          BY <5>2 DEF Segments
      <4>2. ASSUME ftpStored.segs # <<>> PROVE Len(plan) # 0
        <5>1. ~ fresh
          BY <2>5, <4>2
        <5>2. plan = segs \/ plan = SequentialPlan
          BY <2>2, <5>1
        <5>3. Len(SequentialPlan) # 0
          <6>1. PICK f \in FtpFiles : TRUE
            BY <4>1, <4>2
          <6> QED
            BY <2>3, <6>1, SequentialFacts, Sizes DEF FtpFiles
        <5>4. Len(segs) # 0
          BY <1>1, <2>3, <4>2 DEF PlansCover, Plans
        <5> QED
          BY <5>2, <5>3, <5>4
      <4> QED
        BY <2>8, <4>2
    <3> QED
      BY <1>1, <1>2, <2>8, <2>9, <3>1 DEF PlansCover, CoversFiles
  <2>16. CountsTrue'
    <3> SUFFICES ASSUME NEW f \in FtpFiles
                 PROVE  /\ ftpRun' # "none" => ~ written'[f].gone
                        /\ ~ written'[f].gone /\ reborn'[f] # "hole" => TrueOf(segs, f)'
                        /\ ~ written'[f].gone /\ reborn'[f] = "no" => TrueOf(ftpStored.segs, f)'
      BY DEF CountsTrue
    <3>1. ASSUME fresh \/ written[f].gone PROVE TrueOf(segs, f)'
      <4>1. ASSUME NEW i \in 1 .. Len(p), p[i].file = f
            PROVE  p[i].downloaded = 0 /\ p[i].begin \in Nat
        <5>1. i \in 1 .. Len(plan) /\ p[i] \in Segments
          BY <2>8, <4>1 DEF Plans
        <5> QED
          BY <2>7, <2>8, <3>1, <4>1, <5>1 DEF Segments
      <4>2. ASSUME NEW i \in 1 .. Len(p), p[i].file = f
            PROVE  \A u \in p[i].begin .. (p[i].begin + p[i].downloaded - 1) : u \in written'[f].units
        BY <4>1, <4>2
      <4> QED
        BY <2>9, <4>2 DEF TrueOf
    <3>2. ASSUME ~ fresh, ~ written[f].gone, TrueOf(segs, f) PROVE TrueOf(segs, f)'
      <4>1. TrueOf(plan, f)
        BY <2>7, <3>2
      <4>2. \A i \in 1 .. Len(p) : p[i].file = f =>
              \A u \in p[i].begin .. (p[i].begin + p[i].downloaded - 1) : u \in written[f].units
        BY <2>8, <3>2, <4>1 DEF TrueOf
      <4> QED
        BY <2>9, <2>11, <3>2, <4>2 DEF TrueOf
    <3>3. ASSUME ~ fresh, ~ written[f].gone, TrueOf(ftpStored.segs, f) PROVE TrueOf(ftpStored.segs, f)'
      BY <1>2, <2>11, <3>3 DEF TrueOf
    <3>4. ASSUME fresh PROVE TrueOf(ftpStored.segs, f)'
      <4>1. ftpStored'.segs = <<>>
        BY <1>2, <2>5, <3>4
      <4> QED
        BY <4>1 DEF TrueOf
    <3> QED
      BY <1>1, <2>11, <2>12, <3>1, <3>2, <3>3, <3>4 DEF CountsTrue
  <2>17. Handed' /\ PutBackHasWorker' /\ EndIsWhole' /\ FtpDoneWhole' /\ FtpResultFresh'
    BY <1>2, <1>5, <2>1, <2>9, <2>10 DEF Handed, PutBackHasWorker, EndIsWhole, FtpDoneWhole, FtpResultFresh
  <2> QED
    BY <2>10, <2>14, <2>15, <2>16, <2>17 DEF FtpInv
<1> QED
  BY <1>4, <1>5

\* A checkpoint takes over what the plan counts.
LEMMA CheckpointInv ==
  ASSUME FtpInv, FtpCheckpoint
  PROVE  FtpInv'
<1>1. FtpTyped /\ Handed /\ PoolCounted /\ PlansCover /\ CountsTrue /\ EndIsWhole /\ FtpDoneWhole
      /\ PutBackHasWorker /\ FtpResultFresh
  BY DEF FtpInv
<1>2. /\ ftpStored' = [segs |-> segs, noRest |-> noRest, maxConns |-> maxConns]
      /\ reborn' = [f \in FtpFiles |-> IF reborn[f] = "unsaved" THEN "no" ELSE reborn[f]]
      /\ UNCHANGED <<segs, noRest, maxConns, ftpDone, ftpQueue, poolRunning, ftpWorker, firstErr, ftpRun,
                     outcomeOfRun, ftpCancelled, pausing, ftpResult, written, ftpStarts>>
  BY DEF FtpCheckpoint, planVars, runVars, boundVars
<1>3. /\ ftpStored' \in [segs : Plans, noRest : BOOLEAN, maxConns : 0 .. Connections]
      /\ ftpStored'.segs = segs
  BY <1>1, <1>2 DEF FtpTyped
<1>4. reborn' \in [FtpFiles -> {"no", "unsaved", "hole"}]
      /\ \A f \in FtpFiles : (reborn'[f] = "hole" <=> reborn[f] = "hole") /\ (reborn'[f] = "no" => reborn[f] # "hole")
  BY <1>1, <1>2 DEF FtpTyped
<1>5. FtpTyped'
  BY <1>1, <1>2, <1>3, <1>4 DEF FtpTyped
<1>6. Handed' /\ PoolCounted' /\ EndIsWhole' /\ PutBackHasWorker' /\ FtpResultFresh'
  <2>1. AtWork' = AtWork
    BY <1>2 DEF AtWork
  <2> QED
    BY <1>1, <1>2, <2>1 DEF Handed, PoolCounted, EndIsWhole, Missing, PutBackHasWorker, CtxOver, FtpResultFresh
<1>7. PlansCover' /\ FtpDoneWhole'
  BY <1>1, <1>2, <1>3, <1>4 DEF PlansCover, CoversFiles, FtpDoneWhole
<1>8. CountsTrue'
  <2>1. \A f \in FtpFiles : TrueOf(segs, f) => TrueOf(segs, f)' /\ TrueOf(ftpStored.segs, f)'
    BY <1>2, <1>3 DEF TrueOf
  <2> QED
    BY <1>1, <1>2, <1>4, <2>1 DEF CountsTrue
<1> QED
  BY <1>5, <1>6, <1>7, <1>8 DEF FtpInv

\* A crash falls back to the record; what was created since then may be a hole.
LEMMA FtpCrashInv ==
  ASSUME FtpInv, FtpCrash
  PROVE  FtpInv'
<1>1. FtpTyped /\ PlansCover /\ CountsTrue
  BY DEF FtpInv
<1>2. /\ segs' = ftpStored.segs /\ noRest' = ftpStored.noRest /\ maxConns' = ftpStored.maxConns
      /\ ftpQueue' = <<>> /\ poolRunning' = 0 /\ firstErr' = "none" /\ ftpRun' = "none"
      /\ ftpWorker' = [w \in FtpWorkers |-> Out] /\ outcomeOfRun' = "ok" /\ ftpCancelled' = FALSE
      /\ pausing' = FALSE /\ ftpDone' = FALSE /\ ftpResult' = Empty
      /\ UNCHANGED <<written, ftpStored, ftpStarts>>
      /\ reborn' = [f \in FtpFiles |-> IF reborn[f] = "unsaved" THEN "hole" ELSE reborn[f]]
  BY DEF FtpCrash
<1>3. segs' \in Plans /\ noRest' \in BOOLEAN /\ maxConns' \in 0 .. Connections
  BY <1>1, <1>2 DEF FtpTyped
<1>4. /\ ftpWorker' \in [FtpWorkers -> [at : WorkerPlaces, seg : Nat, failures : 0 .. MaxFtpRetries]]
      /\ \A w \in FtpWorkers : ftpWorker'[w].at = "left"
  BY <1>2, FtpAssumption DEF Out, WorkerPlaces
<1>5. reborn' \in [FtpFiles -> {"no", "unsaved", "hole"}]
      /\ \A f \in FtpFiles : (reborn'[f] # "hole" => reborn[f] = "no") /\ (reborn'[f] = "no" => reborn[f] = "no")
  BY <1>1, <1>2 DEF FtpTyped
<1>6. Empty \in [kind : {"empty", "ok", "err"}, start : 0 .. MaxFtpStarts] /\ <<>> \in Seq(Nat)
  BY FtpAssumption DEF Empty
<1>7. FtpTyped'
  BY <1>1, <1>2, <1>3, <1>4, <1>5, <1>6 DEF FtpTyped
<1>8. PoolCounted'
  <2>1. AtWork' = {}
    BY <1>4 DEF AtWork
  <2> QED
    BY <1>2, <2>1, FS_EmptySet DEF PoolCounted
<1>9. Handed' /\ EndIsWhole' /\ PutBackHasWorker' /\ FtpResultFresh' /\ FtpDoneWhole'
  BY <1>2, <1>4 DEF Handed, EndIsWhole, PutBackHasWorker, FtpResultFresh, FtpDoneWhole
<1>10. PlansCover'
  BY <1>1, <1>2 DEF PlansCover, CoversFiles
<1>11. CountsTrue'
  <2>1. \A f \in FtpFiles : TrueOf(ftpStored.segs, f) => TrueOf(segs, f)' /\ TrueOf(ftpStored.segs, f)'
    BY <1>2 DEF TrueOf
  <2> QED
    BY <1>1, <1>2, <1>5, <2>1 DEF CountsTrue
<1> QED
  BY <1>7, <1>8, <1>9, <1>10, <1>11 DEF FtpInv

\* A file that is gone is counted by nobody's run.
LEMMA FileLostInv ==
  ASSUME FtpInv, NEW f \in FtpFiles, FileLost(f)
  PROVE  FtpInv'
<1>1. FtpTyped /\ Handed /\ PoolCounted /\ PlansCover /\ CountsTrue /\ EndIsWhole /\ FtpDoneWhole
      /\ PutBackHasWorker /\ FtpResultFresh
  BY DEF FtpInv
<1>2. /\ ftpRun = "none" /\ ~ ftpDone /\ written' = [written EXCEPT ![f] = Absent]
      /\ UNCHANGED <<segs, noRest, maxConns, ftpDone, ftpQueue, poolRunning, ftpWorker, firstErr, ftpRun,
                     outcomeOfRun, ftpCancelled, pausing, ftpResult, ftpStored, reborn, ftpStarts>>
  BY DEF FileLost, planVars, runVars
<1>3. Absent \in [gone : BOOLEAN, units : SUBSET Nat] /\ Absent.gone /\ Absent.units = {}
  BY DEF Absent
<1>4. /\ written' \in [FtpFiles -> [gone : BOOLEAN, units : SUBSET Nat]]
      /\ written'[f].gone /\ written'[f].units = {}
      /\ \A g \in FtpFiles : g # f => written'[g] = written[g]
  BY <1>1, <1>2, <1>3 DEF FtpTyped
<1>5. FtpTyped'
  BY <1>1, <1>2, <1>4 DEF FtpTyped
<1>6. Handed' /\ PoolCounted' /\ EndIsWhole' /\ PutBackHasWorker' /\ FtpResultFresh' /\ FtpDoneWhole'
  <2>1. AtWork' = AtWork
    BY <1>2 DEF AtWork
  <2> QED
    BY <1>1, <1>2, <2>1 DEF Handed, PoolCounted, EndIsWhole, PutBackHasWorker, FtpResultFresh, FtpDoneWhole
<1>7. PlansCover'
  BY <1>1, <1>2 DEF PlansCover, CoversFiles
<1>8. CountsTrue'
  <2>1. \A g \in FtpFiles : g # f => /\ (TrueOf(segs, g) => TrueOf(segs, g)')
                                     /\ (TrueOf(ftpStored.segs, g) => TrueOf(ftpStored.segs, g)')
    BY <1>2, <1>4 DEF TrueOf
  <2> QED
    BY <1>1, <1>2, <1>4, <2>1 DEF CountsTrue
<1> QED
  BY <1>5, <1>6, <1>7, <1>8 DEF FtpInv

\* Every step keeps the invariant.
LEMMA FtpNextInv == FtpInv /\ [FtpNext]_ftpVars => FtpInv'
<1> SUFFICES ASSUME FtpInv, [FtpNext]_ftpVars PROVE FtpInv'
  OBVIOUS
<1>1. CASE FtpStart
  BY <1>1, StartInv
<1>2. CASE FtpPause \/ FtpPauseEnds \/ FtpWait \/ DownloadReturns \/ RunReturns
  BY <1>2, CallInv
<1>3. CASE FallBack
  BY <1>3, FallBackInv
<1>4. CASE \E w \in FtpWorkers : WorkerMoves(w)
  <2>1. PICK w \in FtpWorkers : WorkerMoves(w)
    BY <1>4
  <2> QED
    BY <2>1, QuietInv, LogInInv, ReadUnitInv DEF WorkerMoves, QuietWorker
<1>5. CASE FtpCheckpoint
  BY <1>5, CheckpointInv
<1>6. CASE FtpCrash
  BY <1>6, FtpCrashInv
<1>7. CASE \E f \in FtpFiles : FileLost(f)
  BY <1>7, FileLostInv
<1>8. CASE UNCHANGED ftpVars
  <2>1. UNCHANGED <<segs, noRest, maxConns, ftpDone, ftpQueue, poolRunning, ftpWorker, firstErr, ftpRun,
                    outcomeOfRun, ftpCancelled, pausing, ftpResult, written, ftpStored, reborn, ftpStarts>>
    BY <1>8 DEF ftpVars, planVars, runVars, diskVars, boundVars
  <2>2. FtpTyped' /\ PlansCover' /\ Handed' /\ PoolCounted' /\ CountsTrue' /\ EndIsWhole'
    BY <2>1 DEF FtpInv, FtpTyped, PlansCover, CoversFiles, Handed, PoolCounted, AtWork, CountsTrue, TrueOf,
       EndIsWhole, Missing
  <2>3. FtpDoneWhole' /\ PutBackHasWorker' /\ FtpResultFresh'
    BY <2>1 DEF FtpInv, FtpDoneWhole, PutBackHasWorker, CtxOver, FtpResultFresh
  <2> QED
    BY <2>2, <2>3 DEF FtpInv
<1> QED
  BY <1>1, <1>2, <1>3, <1>4, <1>5, <1>6, <1>7, <1>8 DEF FtpNext, RunMoves

\* The invariant holds in every reachable state, for any files, workers and
\* bounds.
THEOREM FtpInvariant == FtpSpec => []FtpInv
BY FtpInitInv, FtpNextInv, PTL DEF FtpSpec

\* The variables have their types.
THEOREM FtpTypeCorrect == FtpSpec => []FtpTypeOK
<1>1. FtpInv => FtpTypeOK
  <2> SUFFICES ASSUME FtpInv PROVE FtpTypeOK
    OBVIOUS
  <2>1. FtpTyped /\ PoolCounted
    BY DEF FtpInv
  <2>2. \A i \in 1 .. Len(segs) : segs[i].file \in FtpFiles /\ segs[i].begin \in Nat
                                  /\ segs[i].downloaded \in 0 .. FileSizes[segs[i].file]
    <3> SUFFICES ASSUME NEW i \in 1 .. Len(segs)
                 PROVE  /\ segs[i].file \in FtpFiles /\ segs[i].begin \in Nat
                        /\ segs[i].downloaded \in 0 .. FileSizes[segs[i].file]
      OBVIOUS
    <3>1. /\ segs[i] \in Segments /\ segs[i].begin + segs[i].downloaded <= segs[i].end + 1
          /\ segs[i].end < FileSizes[segs[i].file]
      <4>1. segs \in Plans
        BY <2>1 DEF FtpTyped
      <4> QED
        BY <4>1 DEF Plans
    <3>2. /\ segs[i].file \in FtpFiles /\ segs[i].begin \in Nat /\ segs[i].end \in Int
          /\ segs[i].downloaded \in Nat
      BY <3>1 DEF Segments
    <3>3. FileSizes[segs[i].file] \in Nat
      BY <3>2, Sizes
    <3> QED
      BY <3>1, <3>2, <3>3
  <2>3. poolRunning \in 0 .. Connections
    <3>1. AtWork \subseteq FtpWorkers /\ IsFiniteSet(FtpWorkers) /\ Cardinality(FtpWorkers) = Connections
      BY FtpAssumption DEF AtWork
    <3>2. Cardinality(AtWork) \in Nat /\ Cardinality(AtWork) <= Connections
      BY <3>1, FS_Subset, FS_CardinalityType
    <3> QED
      BY <2>1, <3>2, FtpAssumption DEF PoolCounted
  <2> QED
    BY <2>1, <2>2, <2>3 DEF FtpTypeOK, FtpTyped, WorkerPlaces
<1> QED
  BY <1>1, FtpInvariant, PTL

\* A file that is done is whole on disk, unless a crash came between the Start
\* that created it anew and the save after it.
THEOREM FtpDoneIsWhole == FtpSpec => []FtpDoneWhole
<1>1. FtpInv => FtpDoneWhole
  BY DEF FtpInv
<1> QED
  BY <1>1, FtpInvariant, PTL

\* A segment put back is never left without a worker, and what Wait returns was
\* said by the run of the latest Start.
THEOREM FtpPoolServes == FtpSpec => [](PutBackHasWorker /\ FtpResultFresh)
<1>1. FtpInv => PutBackHasWorker /\ FtpResultFresh
  BY DEF FtpInv
<1> QED
  BY <1>1, FtpInvariant, PTL
=============================================================================
