---------------------------- MODULE MCTwoWaySync ----------------------------
(* Contents for the runs of TwoWaySync. *)
EXTENDS TwoWaySync, TLC

\* Some edits change the size of a file and some do not.
Sizes == [i \in 0..MaxClock |-> IF i % 3 = 0 THEN 1 ELSE 2]
=============================================================================
