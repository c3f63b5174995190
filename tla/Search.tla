------------------------------- MODULE Search -------------------------------
(***************************************************************************)
(* A search over several shards beside the process that writes them        *)
(* (ShardFiles.tla): ShardexImpl::search_impl, find_nearest_shards and     *)
(* parallel_search_with_metric of shardex_index.rs, search_with_metric of  *)
(* shard.rs, deduplication.rs and distance.rs.                             *)
(*                                                                         *)
(* A search takes the nearest shards of the index, opens the files of each *)
(* one again, read-only, and walks their slots from the newest to the      *)
(* oldest; the pages are shared with the writer, so a slot is read as it   *)
(* is then.  What every shard answers is cut to a limit, joined, cleared   *)
(* of duplicates and cut to k.  A vector is the score it gets under the    *)
(* metric; a removed one is NaN and scores Neutral, 0.5 in the code.       *)
(***************************************************************************)
EXTENDS ShardFiles, Integers, FiniteSets, SequencesExt

CONSTANTS
  Order,      \* the shards in the order of the index
  Ks, Slops,  \* bounds: how many results and how many shards are asked for
  MinLimit, MaxLimit, \* 50 and 1000 in the code
  Neutral,    \* the score of a vector no metric can compare
  NoAnswer

SearchAssumption ==
  /\ Order \in Seq(Shard) /\ Ks \subseteq Nat /\ Slops \subseteq Nat
  /\ MinLimit \in Nat \ {0} /\ MaxLimit \in Nat /\ MinLimit <= MaxLimit
  /\ Neutral \in Nat /\ Vector \subseteq Nat
  /\ Posting \subseteq [doc : STRING, start : Nat, len : Nat]

Policy == {"none", "document", "position", "exact"}

VARIABLES
  search,  \* the search running, [k, of, hits], or Idle
  answer,  \* what the last one answered, [ok, k, of, policy, results], until
           \* the next step of the writer; or NoAnswer
  quiet    \* ghost: no file changed since the last search began

vars == <<disk, search, answer, quiet>>

Init == FilesInit /\ search = Idle /\ answer = NoAnswer /\ quiet = FALSE
-----------------------------------------------------------------------------
(***************************************************************************)
(* Ranking.                                                                *)
(***************************************************************************)
\* calculate_cosine_similarity, as the other metrics, answers the neutral score
\* for a vector that is not finite.
Comparable(v) == v # Nan

\* DistanceMetric::similarity
Similarity(v) == IF Comparable(v) THEN v ELSE Neutral

\* A stable sort by rank: of what is equal, the first stays first.
Sorted(s, rank) ==
  LET before(i, j) == rank[i] < rank[j] \/ (rank[i] = rank[j] /\ i < j)
      at == SortSeq([i \in DOMAIN s |-> i], before)
  IN [n \in DOMAIN s |-> s[at[n]]]
Ranked(s) == Sorted(s, [i \in DOMAIN s |-> -s[i].score])
Truncated(s, n) == SubSeq(s, 1, IF n < Len(s) THEN n ELSE Len(s))

\* The places that the distances from a query to the centroids put the shards in.
Distances == [Shard -> 1..Cardinality(Shard)]

\* find_nearest_shards
Nearest(distance, slop) ==
  LET known == SelectSeq(Order, LAMBDA s : s \in opened)
  IN Truncated(Sorted(known, [i \in DOMAIN known |-> distance[known[i]]]), slop)

\* parallel_search_with_metric
PerShard(k) ==
  CASE 2 * k < MinLimit -> MinLimit
    [] 2 * k > MaxLimit -> MaxLimit
    [] OTHER -> 2 * k

Identity(p, r) ==
  CASE p = "document" -> r.says.doc
    [] p = "position" -> <<r.says.doc, r.says.start>>
    [] OTHER -> <<r.says, r.vec>>

\* The first met of each identity.
Firsts(p, s) ==
  LET first == {i \in DOMAIN s : \A j \in 1..(i - 1) : Identity(p, s[j]) # Identity(p, s[i])}
  IN [n \in 1..Cardinality(first) |-> s[SetToSortSeq(first, <)[n]]]

\* deduplicate_by_document_id: the best of each document, then sorted; those
\* that score the same come in the order of a hash map.
ByDocument(s) ==
  LET best == ToSet(Firsts("document", Ranked(s)))
  IN {t \in SetToSeqs(best) : Ranked(t) = t}

\* Mutant of ByPosition: left in the order of the shards.
ByPositionUnsorted(s) == Firsts("position", s)
\* deduplicate_by_position: the first met, whatever it scores.
ByPosition(s) == Ranked(Firsts("position", s))

\* deduplicate_exact
Exactly(s) == Ranked(Firsts("exact", s))

Deduplicated(p, s) ==
  CASE p = "none"     -> {s}
    [] p = "document" -> ByDocument(s)
    [] p = "position" -> {ByPosition(s)}
    [] p = "exact"    -> {Exactly(s)}

\* merge_results_with_policy
Merged(p, found, k) == {Truncated(s, k) : s \in Deduplicated(p, FlattenSeq(found))}
-----------------------------------------------------------------------------
(***************************************************************************)
(* Searching.                                                              *)
(***************************************************************************)
\* search_impl.  k = 0 and no candidates are answered at once.
Begin(k, slop, distance) ==
  /\ search = Idle
  /\ LET of == Nearest(distance, slop)
     IN IF k = 0 \/ of = <<>>
        THEN answer' = [ok |-> TRUE, k |-> k, of |-> <<>>, policy |-> "none", results |-> <<>>]
             /\ UNCHANGED search
        ELSE /\ search' = [k |-> k, of |-> of, hits |-> [s \in ToSet(of) |-> Idle]]
             /\ answer' = NoAnswer
  /\ quiet' = TRUE
  /\ UNCHANGED disk

\* Mutant of NewestOf: the range ends one slot early.
NewestButOne(n) == IF n = 0 THEN 0 ELSE n - 1
\* iter_postings_backward: the slot a walk of n postings begins at.
NewestOf(n) == n

\* Shard::open_read_only: the counts are those of this moment.
OpenShard(s) ==
  /\ search # Idle /\ s \in ToSet(search.of) /\ search.hits[s] = Idle /\ Opens(s)
  /\ search' = [search EXCEPT !.hits[s] = [at |-> NewestOf(Count(file[s]["vectors"])), found |-> <<>>]]
  /\ UNCHANGED <<disk, answer, quiet>>

\* One shard that does not open fails the whole search.
OpenFails(s) ==
  /\ search # Idle /\ s \in ToSet(search.of) /\ search.hits[s] = Idle /\ ~Opens(s)
  /\ answer' = [ok |-> FALSE]
  /\ search' = Idle
  /\ UNCHANGED <<disk, quiet>>

\* iter_unique_postings_backward, get_posting, get_vector: one slot, whether it
\* was removed or not.
Walk(s) ==
  /\ search # Idle /\ s \in ToSet(search.of) /\ search.hits[s] # Idle
  /\ LET i == search.hits[s].at
         found == search.hits[s].found
         says == file[s]["postings"].rows[i].says
         vec == file[s]["vectors"].rows[i]
         hit == [says |-> says, vec |-> vec, score |-> Similarity(vec), from |-> <<s, i>>]
     IN /\ i > 0
        /\ search' = [search EXCEPT !.hits[s] =
             [at |-> i - 1,
              found |-> IF \E f \in ToSet(found) : f.says = says THEN found ELSE Append(found, hit)]]
  /\ UNCHANGED <<disk, answer, quiet>>

\* Shard::search: what a walk to the end found, the best first, cut to a limit.
Best(s, limit) == Truncated(Ranked(search.hits[s].found), limit)

\* The policy is the index's, for all its searches: nothing else reads it.
Answer ==
  /\ search # Idle /\ \A s \in ToSet(search.of) : search.hits[s] # Idle /\ search.hits[s].at = 0
  /\ LET found == [n \in DOMAIN search.of |-> Best(search.of[n], PerShard(search.k))]
     IN \E policy \in Policy : \E results \in Merged(policy, found, search.k) :
          answer' = [ok |-> TRUE, k |-> search.k, of |-> search.of, policy |-> policy,
                     results |-> results]
  /\ search' = Idle
  /\ UNCHANGED <<disk, quiet>>

Writes ==
  /\ \/ \E s \in Shard : Create(s)
     \/ \E s \in Shard, v \in Vector, p \in Posting : BeginAdd(s, v, p)
     \/ \E s \in Shard, i \in 1..Capacity : BeginRemove(s, i)
     \/ WriteData \/ WriteHeader
  /\ quiet' = (quiet /\ file' = file)
  /\ answer' = NoAnswer
  /\ UNCHANGED search

Next ==
  \/ Writes
  \/ \E k \in Ks, slop \in Slops, distance \in Distances :
       Begin(k, slop, distance)
  \/ \E s \in Shard : OpenShard(s) \/ OpenFails(s) \/ Walk(s)
  \/ Answer

Spec == Init /\ [][Next]_vars
-----------------------------------------------------------------------------
(***************************************************************************)
(* Properties.                                                             *)
(***************************************************************************)
Answered == answer # NoAnswer /\ answer.ok
Descending(s) == \A i, j \in DOMAIN s : i < j => s[i].score >= s[j].score

\* Whatever the writer does meanwhile, a search with one of the deduplicating
\* policies answers at most k results, the best first, and no two of them are
\* the same by that policy.
AnswersAreRanked ==
  Answered /\ answer.policy # "none" =>
    LET r == answer.results
    IN /\ Len(r) <= answer.k /\ Descending(r)
       /\ \A i, j \in DOMAIN r : i # j => Identity(answer.policy, r[i]) # Identity(answer.policy, r[j])

\* The newest slot of each posting a shard holds.
Newest(s) ==
  LET rows == file[s]["postings"].rows
  IN {i \in DOMAIN rows : \A j \in DOMAIN rows : j > i => rows[j].says # rows[i].says}
Hit(s, i) ==
  LET vec == file[s]["vectors"].rows[i]
  IN [says |-> file[s]["postings"].rows[i].says, vec |-> vec, score |-> Similarity(vec)]

\* When no file changed during the search, whatever the searched shards hold is
\* answered, or something the same by the policy is, or the answer is full of
\* what scores no less: so the limit per shard and the early cuts lose nothing,
\* for shards of no more postings than the least limit.
NothingBetterMissed ==
  Answered /\ quiet /\ answer.policy # "none" =>
    \A s \in ToSet(answer.of) : Cardinality(Newest(s)) <= MinLimit =>
      \A i \in Newest(s) :
        \/ \E r \in ToSet(answer.results) : Identity(answer.policy, r) = Identity(answer.policy, Hit(s, i))
        \/ /\ Len(answer.results) = answer.k
           /\ \A r \in ToSet(answer.results) : r.score >= Hit(s, i).score

\* The answer of a search is the best there is, in order and without repeats.
AnswersAreBest == AnswersAreRanked /\ NothingBetterMissed

\* "Removes all postings for the specified documents" (docs/api-reference.md,
\* remove_documents): a search that begins and ends with no write between does
\* not answer a removed posting.  It does: the walk does not ask whether a slot
\* was removed.
RemovedIsUnanswered ==
  Answered /\ quiet /\ job = Idle =>
    \A r \in ToSet(answer.results) : ~file[r.from[1]]["postings"].rows[r.from[2]].gone
=============================================================================
