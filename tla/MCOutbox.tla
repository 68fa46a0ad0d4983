------------------------------ MODULE MCOutbox ------------------------------
(* Small instances of Outbox for TLC. *)
EXTENDS Outbox, TLC

CONSTANTS w1, w2, m1, m2, n1, n2

Everyone == [m \in Messages |-> Endpoints]
OneTick == <<1>>

Symmetry == Permutations(Workers)
=============================================================================
