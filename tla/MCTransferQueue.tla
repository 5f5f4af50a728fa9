--------------------------- MODULE MCTransferQueue ---------------------------
(* Connections and jobs for the runs of TransferQueue. *)
EXTENDS TransferQueueProofs, TLC

Both   == {1, 2}
Relays == [j \in Job |-> Both]          \* between two connections
=============================================================================
