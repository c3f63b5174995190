------------------------------ MODULE MCShard ------------------------------
(* Bounds for checking Shard with TLC.                                     *)
EXTENDS Shard, Sequences, Functions, TLC

CONSTANTS d1, d2

\* Two documents; a posting is a document and a start position.  The filter
\* takes the second document for present when only the first was inserted.
Keys == {d1, d2} \X {0, 1}
DocOfKey == [k \in Keys |-> k[1]]
Hashes == (d1 :> {1, 2}) @@ (d2 :> {2})

\* Filled is what Insert makes of each document in turn.
ASSUME \A docs \in UNION {[1..n -> {d1, d2}] : n \in 0..3} :
         B!Filled(Range(docs), Len(docs)) = FoldFunction(LAMBDA d, f : B!Insert(f, d), B!Empty, docs)
=============================================================================
