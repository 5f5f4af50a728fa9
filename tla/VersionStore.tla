----------------------------- MODULE VersionStore -----------------------------
(***************************************************************************)
(* What a backup repository promises: a store of versions, each whole from *)
(* the moment it appears, that only their own source removes, and only     *)
(* while it works alone on the repository.  Repository implements it with  *)
(* block volumes, file lists and local databases.                          *)
(***************************************************************************)
CONSTANTS Client, Time, Nobody

VARIABLES
    source,   \* whose version there is of each time, or Nobody's
    worker    \* the client that works on the repository, or Nobody

vars == <<source, worker>>

Init ==
    /\ source = [t \in Time |-> Nobody]
    /\ worker = Nobody

Open(c) ==
    /\ worker = Nobody
    /\ worker' = c
    /\ UNCHANGED source

Commit(t) ==
    /\ worker # Nobody /\ source[t] = Nobody
    /\ source' = [source EXCEPT ![t] = worker]
    /\ UNCHANGED worker

Remove(t) ==
    /\ worker # Nobody /\ source[t] = worker
    /\ source' = [source EXCEPT ![t] = Nobody]
    /\ UNCHANGED worker

(* A repair, a step of its own, brings versions of its source back. *)
Restore(c, lost) ==
    /\ worker = Nobody
    /\ \A t \in lost : source[t] = Nobody
    /\ source' = [t \in Time |-> IF t \in lost THEN c ELSE source[t]]
    /\ UNCHANGED worker

(* The operation ended, or its program did. *)
Close ==
    /\ worker # Nobody
    /\ worker' = Nobody
    /\ UNCHANGED source

Next ==
    \/ \E c \in Client : Open(c) \/ \E lost \in SUBSET Time : Restore(c, lost)
    \/ \E t \in Time : Commit(t) \/ Remove(t)
    \/ Close

Spec == Init /\ [][Next]_vars
=============================================================================
