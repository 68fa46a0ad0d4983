--------------------------- MODULE MCCertificates ---------------------------
(* Small instances of Certificates for TLC. *)
EXTENDS Certificates, TLC

CONSTANTS o1, o2, s1, s2, c1, c2, c3

\* c1 ends before c2; c3 stays in the warning window when the clock stops.
Ends == [c \in Certificates |-> IF c = c1 THEN 2 ELSE IF c = c2 THEN 3 ELSE MaxTime + 1]

Symmetry == Permutations(Operators) \cup Permutations(Scanners)
=============================================================================
