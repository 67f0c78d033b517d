------------------------- MODULE MCRealtimeChannel -------------------------
(* A small instance of RealtimeChannel for TLC. *)
EXTENDS RealtimeChannel

=============================================================================
