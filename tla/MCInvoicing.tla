---------------------------- MODULE MCInvoicing ----------------------------
(* Small instances of Invoicing for TLC. *)
EXTENDS Invoicing, TLC

\* Ids are interchangeable; used only where no liveness is checked.
Symmetry == Permutations(Requests) \cup Permutations(Entries)
            \cup Permutations(Invoices) \cup Permutations(Items)

=============================================================================
