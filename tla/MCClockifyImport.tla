-------------------------- MODULE MCClockifyImport --------------------------
(* A small instance of ClockifyImport for TLC. *)
EXTENDS ClockifyImport, TLC

\* Ids are interchangeable; no liveness is checked.
Symmetry == Permutations(Requests) \cup Permutations(Entries) \cup Permutations(Imports) \cup Permutations(ClockifyEntries)

=============================================================================
