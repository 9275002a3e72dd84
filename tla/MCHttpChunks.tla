--------------------------- MODULE MCHttpChunks ---------------------------
(* Small instances of HttpChunks for TLC. *)
EXTENDS HttpChunks

\* the file of an instance starts with at most one prefetched byte
MCInit == Init /\ prefetched \in {0, 1}
MCSpec == MCInit /\ [][Next]_vars
=============================================================================
