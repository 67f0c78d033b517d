----------------------------- MODULE MCAccounts -----------------------------
(* A small instance of Accounts for TLC. *)
EXTENDS Accounts, TLC

\* Ids are interchangeable; no liveness is checked.
Symmetry == Permutations(Requests) \cup Permutations(Browsers)
            \cup Permutations(Tokens) \cup Permutations(Codes)
            \cup Permutations(Secrets) \cup Permutations(ResetTokens)

=============================================================================
