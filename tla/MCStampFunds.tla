---------------------------- MODULE MCStampFunds ----------------------------
(* Small batches for TLC. *)
EXTENDS StampFunds

\* Half full and full, with a life below the threshold.
SmallBatches == {[expiry |-> 6, depth |-> 1, fill |-> f] : f \in {1, 2}}
=============================================================================
