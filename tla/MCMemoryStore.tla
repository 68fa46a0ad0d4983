---------------------------- MODULE MCMemoryStore ---------------------------
(* A small instance of MemoryStore: three certificates, two of which share *)
(* an attribute and two of which expire together.                          *)
EXTENDS MemoryStore, TLC

MCNotAfter == 1 :> 2 @@ 2 :> 1 @@ 3 :> 2

MCAttr == 1 :> "a" @@ 2 :> "b" @@ 3 :> "a"

MCWorkloads ==
    {{"issue", "revoke", "replace"}, {"issue", "suspend", "resume", "warn"},
     {"issue", "warn", "walk"}, {"issue", "prune", "list"}}

Symmetry == Permutations(Procs)
=============================================================================
