------------------------- MODULE MCConcurrentShardex -------------------------
(* Bounds for checking ConcurrentShardex with TLC.                         *)
EXTENDS ConcurrentShardex
=============================================================================
