----------------------------- MODULE MCPlatform -----------------------------
(***************************************************************************)
(* Small instances of what the script engines offer: the spool of a media  *)
(* input, the page of a webview and the body of a blob source. A behaviour *)
(* has a focus, and only the component in focus takes steps.               *)
(***************************************************************************)
EXTENDS MediaSpool, WebViewPage, BlobPipe

CONSTANTS e1, g1, c1, c2, b1, b2

VARIABLE focus

platformVars == <<focus, spoolVars, pageVars, pipeVars>>

PlatformInit ==
    /\ focus \in {"spool", "page", "pipe", "pipes"}
    /\ SpoolInit /\ PageInit /\ PipeInit
    /\ focus # "spool" => ~msRanged
    /\ focus # "page" => wpLinux
    /\ focus \in {"spool", "page"} => ~bpSource.sized /\ ~bpSource.produces
    /\ focus = "pipes" => bpSource.ranged

\* Bounds: one request of a source of any kind, whose client may leave, or two of
\* a source with ranges, whose clients stay.
PlatformNext ==
    /\ UNCHANGED focus
    /\ \/ focus = "spool" /\ SpoolNext /\ UNCHANGED <<pageVars, pipeVars>>
       \/ focus = "page" /\ PageNext /\ UNCHANGED <<spoolVars, pipeVars>>
       \/ focus \in {"pipe", "pipes"} /\ PipeNext /\ UNCHANGED <<spoolVars, pageVars>>
             /\ IF focus = "pipes" THEN bpLeft' = {} ELSE bpHandler'[b2].at = "idle"

\* Each component keeps the fairness of its own specification: outside the focus
\* none of the actions it speaks of is enabled, since nothing was called yet.
PlatformSpec ==
    /\ PlatformInit /\ [][PlatformNext]_platformVars
    /\ SpoolFairness /\ PageFairness /\ PipeFairness

\* The variables of the components have their types.
PlatformTypeOK == SpoolTypeOK /\ PageTypeOK /\ PipeTypeOK
=============================================================================
