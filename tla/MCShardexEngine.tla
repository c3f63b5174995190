--------------------------- MODULE MCShardexEngine ---------------------------
(* Bounds for checking ShardexEngine with TLC.                             *)
EXTENDS ShardexEngine

CONSTANTS d1, d2

\* Two postings of one document, one of another.
Keys == {<<d1, 0>>, <<d1, 1>>, <<d2, 0>>}
DocOfKey == [k \in Keys |-> k[1]]

\* Two postings in one call; one call that is only a removal.
Batches == { <<AddPosting(<<d1, 0>>), AddPosting(<<d2, 0>>)>>,
             <<RemoveDocument(d1)>> }
OneReplacement == {[doc |-> d1, keys |-> <<<<d1, 1>>>>]}
=============================================================================
