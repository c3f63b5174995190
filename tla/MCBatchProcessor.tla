-------------------------- MODULE MCBatchProcessor --------------------------
(* Bounds for checking BatchProcessor with TLC: operation sizes by number. *)
EXTENDS BatchProcessor

\* Three operations; the second is a big one, so that a batch can overflow the
\* size limit, fill a segment exactly, and not fit in what is left of one.
Sizes == [op \in 1..MaxOps |-> IF op = 2 THEN 2 ELSE 1]
=============================================================================
