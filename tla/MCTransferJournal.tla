-------------------------- MODULE MCTransferJournal --------------------------
(* Constants of the runs of TransferJournal. *)
EXTENDS TransferJournal

Partial == {<<Old>>, <<Old, Blank>>, <<Old, Old>>}
=============================================================================
