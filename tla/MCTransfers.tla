----------------------------- MODULE MCTransfers -----------------------------
(***************************************************************************)
(* Small instances of the components whose properties are all safety: the  *)
(* FTP fetcher, the HTTP fetcher from Resolve to the takeover, the targets *)
(* and the groups of tasks, and the host of the extensions. A behaviour    *)
(* has a focus, and only the component in focus takes steps. The groups    *)
(* have two: two batches that share a resolved fetcher against one         *)
(* deletion ("groups"), and one batch against two deletions ("siblings").  *)
(***************************************************************************)
EXTENDS FtpFetcher, HttpTakeover, TaskTargets, TaskGroups, ExtensionHost, TLC

CONSTANTS w1, w2, t1, t2, t3, b1, b2, x1, x2, rid, i1, i2, d1, r1, r2

VARIABLE focus

TwoFiles == <<2, 1>>
TwoVersions == <<2, 1>>
Items == b1 :> <<t1, t2>> @@ b2 :> <<t3>>
Resolved == t1 :> rid @@ t2 :> NoRid @@ t3 :> rid
TheFilters == {{t1}, {t2}, {b1}, {t3, b2}}

\* The workers of the FTP pool are alike.
WorkerSymmetry == Permutations(FtpWorkers)

transferVars == <<focus, ftpVars, htVars, targetVars, groupVars, hostVars>>

TransfersInit ==
    /\ focus \in {"ftp", "http", "targets", "groups", "siblings", "extensions"}
    /\ FtpInit /\ HtInit /\ TargetsInit /\ GroupsInit /\ HostInit
    /\ focus # "http" => ~htServer.validator /\ ~htServer.lengths /\ ~htServer.ranges /\ htServer.checksum = 0
    /\ focus # "targets" => ptAllowed = Dirs

TransfersNext ==
    /\ UNCHANGED focus
    /\ \/ focus = "ftp" /\ FtpNext /\ UNCHANGED <<htVars, targetVars, groupVars, hostVars>>
       \/ focus = "http" /\ HtNext /\ UNCHANGED <<ftpVars, targetVars, groupVars, hostVars>>
       \/ focus = "targets" /\ TargetsNext /\ UNCHANGED <<ftpVars, htVars, groupVars, hostVars>>
       \/ /\ focus \in {"groups", "siblings"} /\ GroupsNext
          /\ IF focus = "groups" THEN tgDelete'[x2].at = "idle" ELSE tgBatch'[b2].at = "idle"
          /\ UNCHANGED <<ftpVars, htVars, targetVars, hostVars>>
       \/ focus = "extensions" /\ HostNext /\ UNCHANGED <<ftpVars, htVars, targetVars, groupVars>>

TransfersSpec == TransfersInit /\ [][TransfersNext]_transferVars

\* The variables of all five components have their types.
TransfersTypeOK == FtpTypeOK /\ HtTypeOK /\ TargetsTypeOK /\ GroupsTypeOK /\ HostTypeOK
=============================================================================
