-------------------------- MODULE MCHttpSlowStart --------------------------
(* Small instances of HttpSlowStart for TLC. *)
EXTENDS HttpSlowStart
=============================================================================
