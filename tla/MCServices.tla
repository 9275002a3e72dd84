----------------------------- MODULE MCServices -----------------------------
(***************************************************************************)
(* Small instances of the services around the tasks: the extraction queue, *)
(* the multi-part archives that use it, the protocol jobs and the blob     *)
(* registry. They share no state and no lock, so that an interleaving of   *)
(* two of them shows nothing that each one alone does not: a behaviour     *)
(* has a focus, and only the component in focus takes steps.               *)
(***************************************************************************)
EXTENDS MultiPart, ProtocolJobs, BlobRegistry

CONSTANTS p1, p2

VARIABLE focus

PartNumbers == <<p1, p2>>

serviceVars == <<focus, multiVars, jobVars, blobVars>>

ServicesInit ==
    /\ focus \in {"queue", "multipart", "jobs", "blobs"}
    /\ IF focus = "multipart" THEN QueueStarted ELSE QueueInit
    /\ PartsInit
    /\ JobsInit /\ (focus # "jobs" => config = [urls |-> {}, auto |-> FALSE, sources |-> {}])
    /\ BlobInit

ServicesNext ==
    /\ UNCHANGED focus
    /\ \/ focus = "queue" /\ QueueNext /\ UNCHANGED <<partVars, jobVars, blobVars>>
       \/ focus = "multipart" /\ MultiNext /\ UNCHANGED <<jobVars, blobVars>>
       \/ focus = "jobs" /\ JobsNext /\ UNCHANGED <<multiVars, blobVars>>
       \/ focus = "blobs" /\ BlobNext /\ UNCHANGED <<multiVars, jobVars>>

\* Each component keeps the fairness of its own specification: outside the
\* focus none of the actions it speaks of is enabled.
ServicesSpec ==
    /\ ServicesInit /\ [][ServicesNext]_serviceVars
    /\ QueueFairness /\ MultiFairness /\ JobsFairness /\ BlobFairness

\* The variables of every service have their types.
ServicesTypeOK == MultiTypeOK /\ JobsTypeOK /\ BlobTypeOK
=============================================================================
