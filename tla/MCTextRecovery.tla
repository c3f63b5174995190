--------------------------- MODULE MCTextRecovery ---------------------------
(* Bounds for checking TextStore and TextRecovery with TLC.                *)
EXTENDS TextRecovery, TLC

CONSTANTS d1, d2

\* Small enough that files in a run pass each of them.
Limits == [entries |-> 2, total |-> 4, space |-> 3, average |-> 1, many |-> 1, few |-> 2]

Symmetry == Permutations({d1, d2})
=============================================================================
