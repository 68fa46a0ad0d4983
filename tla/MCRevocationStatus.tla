------------------------- MODULE MCRevocationStatus -------------------------
(* Small instances of RevocationStatus for TLC. *)
EXTENDS RevocationStatus, TLC

Symmetry == Permutations(Publishers) \cup Permutations(Clients)
                \cup Permutations(Serials) \cup Permutations(Points)
=============================================================================
