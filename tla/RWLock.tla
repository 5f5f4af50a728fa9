------------------------------- MODULE RWLock -------------------------------
(***************************************************************************)
(* What the repository lock promises its callers, as one atomic object: a  *)
(* client holds it exclusively and alone, or shared next to other readers. *)
(* RepoLock implements it with files and leases; Repository relies on it.  *)
(***************************************************************************)
CONSTANT Client

VARIABLE mode   \* what each client holds

Modes == {"none", "shared", "exclusive"}

TypeOK == mode \in [Client -> Modes]

Init == mode = [c \in Client |-> "none"]

Compatible(k, other) == other = "none" \/ (k = "shared" /\ other = "shared")

Acquire(c, k) ==
    /\ mode[c] = "none" /\ k # "none"
    /\ \A d \in Client : Compatible(k, mode[d])
    /\ mode' = [mode EXCEPT ![c] = k]

(* The end of the operation, or a crash of its program. *)
Release(c) ==
    /\ mode[c] # "none"
    /\ mode' = [mode EXCEPT ![c] = "none"]

Next == \E c \in Client : Release(c) \/ \E k \in Modes : Acquire(c, k)

Spec == Init /\ [][Next]_mode
=============================================================================
