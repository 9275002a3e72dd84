---------------------------- MODULE MCProtocols -----------------------------
(***************************************************************************)
(* Small instances of the HLS, BitTorrent and ED2K fetchers. They share    *)
(* nothing (each task has a fetcher of its own protocol), so that a        *)
(* behaviour has a focus, and only the fetcher in focus takes steps.       *)
(***************************************************************************)
EXTENDS HlsFetcher, BtFetcher, Ed2kFetcher

CONSTANTS m1, m2, w1, t1, t2, f1, f2

VARIABLE focus

protocolVars == <<focus, hlsVars, btVars, edVars>>

ProtocolsInit ==
    /\ focus \in {"hls", "bt", "ed2k"}
    /\ HlsInit /\ EdInit
    /\ BtInit /\ (focus # "bt" => metadata = FALSE)

ProtocolsNext ==
    /\ UNCHANGED focus
    /\ \/ focus = "hls" /\ HlsNext /\ UNCHANGED <<btVars, edVars>>
       \/ focus = "bt" /\ BtNext /\ UNCHANGED <<hlsVars, edVars>>
       \/ focus = "ed2k" /\ EdNext /\ UNCHANGED <<hlsVars, btVars>>

\* Each fetcher keeps the fairness of its own specification: outside the focus
\* none of the actions it speaks of is enabled, since nothing was called yet.
ProtocolsSpec ==
    ProtocolsInit /\ [][ProtocolsNext]_protocolVars /\ HlsFairness /\ BtFairness

\* The variables of every fetcher have their types.
ProtocolsTypeOK == HlsTypeOK /\ BtTypeOK /\ EdTypeOK
=============================================================================
