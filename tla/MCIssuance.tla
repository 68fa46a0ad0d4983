----------------------------- MODULE MCIssuance -----------------------------
(* Small instances of Issuance for TLC. *)
EXTENDS Issuance, TLC

CONSTANTS p1, p2, e1, e2, ca

OneIssuer == [e \in Enrollments |-> ca]

Symmetry == Permutations(Procs) \cup Permutations(Enrollments)
=============================================================================
