--------------------------- MODULE MCAcmeAccounts ---------------------------
(* A small instance of AcmeAccounts.                                       *)
EXTENDS AcmeAccounts, TLC

\* Accounts, handlers, keys and nonces are interchangeable.
Symmetry ==
    Permutations(Accounts) \cup Permutations(Procs) \cup Permutations(Keys) \cup Permutations(Nonces)
=============================================================================
