------------------------------ MODULE MCTimers ------------------------------
(* Small instances of Timers for TLC. *)
EXTENDS Timers, TLC

\* Ids are interchangeable; used only where no liveness is checked.
Symmetry == Permutations(Requests) \cup Permutations(Entries)

=============================================================================
