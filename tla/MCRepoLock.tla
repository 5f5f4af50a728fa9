----------------------------- MODULE MCRepoLock -----------------------------
(* Model values and clocks for the runs of RepoLock. *)
EXTENDS RepoLockProofs, TLC

CONSTANTS c1, c2, c3

Exact    == [c \in Client |-> 0]
OneAhead == [c \in Client |-> IF c = c1 THEN 1 ELSE 0]

IdSymmetry == Permutations(Id)
=============================================================================
