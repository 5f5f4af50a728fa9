---------------------------- MODULE MCRepository ----------------------------
(* Symmetries of the runs of Repository. *)
EXTENDS Repository, TLC

Symmetry == Permutations(Block) \cup Permutations(Vol) \cup Permutations(Client)
=============================================================================
