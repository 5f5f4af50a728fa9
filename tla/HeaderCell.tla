----------------------------- MODULE HeaderCell -----------------------------
(***************************************************************************)
(* What the header of a backup repository promises: a single cell that     *)
(* each operation replaces at once, whose key never changes, and which at  *)
(* all times can read every volume of the repository.                      *)
(***************************************************************************)
EXTENDS Integers

CONSTANTS Volume, Key, Passphrase, Layout, NoHeader, Nothing

Header == [format : {1, 2}, key : Key, pass : Passphrase, rollback : BOOLEAN, layout : Layout]
Seal   == [key : Key, format : {1, 2}]

VARIABLES
    cell,    \* the header, or NoHeader
    sealed   \* how each volume is sealed: key and format, or Nothing

Init == cell = NoHeader /\ sealed = [v \in Volume |-> Nothing]

Create ==
    /\ cell = NoHeader
    /\ \E h \in Header : ~h.rollback /\ cell' = h
    /\ UNCHANGED sealed

Become(h) == cell # NoHeader /\ cell' = h /\ UNCHANGED sealed

Upgrade       == cell.format = 1 /\ Become([cell EXCEPT !.format = 2, !.rollback = TRUE])
RollBack      == cell.rollback /\ \E l \in Layout : Become([cell EXCEPT !.format = 1, !.rollback = FALSE, !.layout = l])
ClearRollback == cell.rollback /\ Become([cell EXCEPT !.rollback = FALSE])
Reshard       == \E l \in Layout : Become([cell EXCEPT !.layout = l])
ChangePassword ==
    cell.format = 2 /\ \E p \in Passphrase : Become([cell EXCEPT !.pass = p, !.rollback = FALSE])

\* Data is written only in a format that no rollback can take back.
Write ==
    /\ cell # NoHeader /\ ~cell.rollback
    /\ \E v \in Volume :
         /\ sealed[v] = Nothing
         /\ sealed' = [sealed EXCEPT ![v] = [key |-> cell.key, format |-> cell.format]]
    /\ UNCHANGED cell

Next == \/ Create \/ Write
        \/ cell # NoHeader /\ (Upgrade \/ RollBack \/ ClearRollback \/ Reshard \/ ChangePassword)
Spec == Init /\ [][Next]_<<cell, sealed>>

\* Whether header h can read volume v.
Reads(h, v) == h # NoHeader /\ h.key = sealed[v].key /\ sealed[v].format <= h.format

\* Every volume can be read with the header.
AllReadable == \A v \in Volume : sealed[v] # Nothing => Reads(cell, v)
=============================================================================
