------------------------------ MODULE MCApiKeys -----------------------------
(* A small instance of ApiKeys and Responders.                             *)
EXTENDS ApiKeys, TLC

\* Clients manage the keys in one behaviour, and the responders in another.
MCWorkloads == {KeyOps, ResponderOps}

\* Handlers, keys and responders are interchangeable.
Symmetry == Permutations(Procs) \cup Permutations(KeyIds) \cup Permutations(ResponderIds)
=============================================================================
