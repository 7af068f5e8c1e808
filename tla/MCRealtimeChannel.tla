-------------------------- MODULE MCRealtimeChannel --------------------------
(* Small instances of RealtimeChannel for TLC. *)
EXTENDS RealtimeChannel

CONSTANTS s1, s2
=============================================================================
