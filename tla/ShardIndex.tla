----------------------------- MODULE ShardIndex -----------------------------
(***************************************************************************)
(* The shard index (src/src/shardex_index.rs) under its copy-on-write      *)
(* wrapper (src/src/cow_index.rs).  An index lists shards with what it     *)
(* remembers of each and caches some of them open; readers hold a version, *)
(* one writer at a time (ConcurrentShardex has several) changes a deep     *)
(* clone, which has an empty cache, and publishes or discards it.          *)
(*                                                                         *)
(* All versions share the files of the shards.  An open shard keeps its    *)
(* own count of slots and writes it to the header with every change, so a  *)
(* shard that was opened before another instance wrote would cut off what  *)
(* that one added.  Searches and bloom filter look-ups open the files anew.*)
(*                                                                         *)
(* A shard is its slots (module Shard looks inside); which shard is nearest*)
(* is left open; texts are in TextStore.                                   *)
(***************************************************************************)
EXTENDS Naturals, Sequences, FiniteSets, SequencesExt

CONSTANTS
  ShardId, Doc, Key,
  DocOf,       \* document of each posting
  Capacity,    \* slots of a shard
  Limit,       \* cache_limit of a created or opened index (100)
  Limits,      \* other limits given to set_cache_limit
  MaxChanges   \* bound: operations of writers

ASSUME ShardIndexAssumption ==
  /\ DocOf \in [Key -> Doc] /\ Capacity \in Nat \ {0} /\ Limit \in Nat /\ Limits \subseteq Nat
  /\ MaxChanges \in Nat /\ IsFiniteSet(ShardId)

VARIABLES
  slots,      \* files: the slots of each shard that exists, [key, deleted]
  current,    \* the published version: [list, cache, limit]
  writer,     \* the version of the open writer, or Closed
  job,        \* a deletion going from shard to shard: [op, docs, todo, skipped]
  changes,    \* operations of writers so far
  reader,     \* a reader's version: [list, seen], or Closed
  mine,       \* ghost: postings the open writer added and nobody removed since
  committed,  \* ghost: postings of committed writers that nobody removed since
  dropped,    \* ghost: shards remove_shard took off a list
  gone        \* ghost: for each document, the shards it was deleted from

vars == <<slots, current, writer, job, changes, reader, mine, committed, dropped, gone>>

Closed == [list |-> <<>>]
NoJob  == [op |-> "none", docs |-> {}, todo |-> {}, skipped |-> {}]
Nothing == [k \in {} |-> 0]

Live(s, i)   == ~slots[s][i].deleted
LiveKeys(ss) == UNION {{slots[s][i].key : i \in {j \in DOMAIN slots[s] : Live(s, j)}} : s \in ss \cap DOMAIN slots}
LiveOf(s, ds) == {i \in DOMAIN slots[s] : Live(s, i) /\ DocOf[slots[s][i].key] \in ds}
DocsIn(s)    == {DocOf[slots[s][i].key] : i \in DOMAIN slots[s]}
UniqueIn(s)  == Cardinality(LiveKeys({s}))                   \* Shard::active_count
ActiveIn(s)  == Cardinality({i \in DOMAIN slots[s] : Live(s, i)})  \* the header's active_count
Listed(v)    == {v.list[i].id : i \in DOMAIN v.list}

Init ==   \* ShardexIndex::create and, from a layout, create_new
  /\ slots = Nothing /\ current = [list |-> <<>>, cache |-> Nothing, limit |-> Limit]
  /\ writer = Closed /\ job = NoJob /\ changes = 0 /\ reader = Closed
  /\ mine = {} /\ committed = {} /\ dropped = {} /\ gone = [d \in Doc |-> {}]
-----------------------------------------------------------------------------
(***************************************************************************)
(* The cache of open shards.                                               *)
(***************************************************************************)
OpenedByActive(s, ro) == [ro |-> ro, count |-> ActiveIn(s), known |-> DocsIn(s)]
Opened(s, ro) == [ro |-> ro, count |-> Len(slots[s]), known |-> DocsIn(s)]
Without(c, ss) == [s \in DOMAIN c \ ss |-> c[s]]
With(c, s, shard) == [t \in DOMAIN c \cup {s} |-> IF t = s THEN shard ELSE c[t]]

\* get_shard, and refresh_shard_metadata which opens the shard read-only: one
\* cached shard, any, makes room.
Loaded(v, s, ro) ==
  IF s \in DOMAIN v.cache THEN {v.cache}
  ELSE LET out == IF Cardinality(DOMAIN v.cache) >= v.limit /\ v.cache # Nothing
                  THEN {{x} : x \in DOMAIN v.cache} ELSE {{}}
       IN {With(Without(v.cache, x), s, Opened(s, ro)) : x \in out}

\* The header goes with every write: the file ends where its writer thinks.
Written(c, s, tail) == SubSeq(slots[s], 1, c[s].count) \o tail

Idle == writer # Closed /\ job = NoJob
Change == Idle /\ changes < MaxChanges /\ changes' = changes + 1
Entry(s, writable) == [id |-> s, count |-> Len(slots[s]), active |-> ActiveIn(s), writable |-> writable]
IndexOf(v, s) == CHOOSE i \in DOMAIN v.list : v.list[i].id = s
-----------------------------------------------------------------------------
(***************************************************************************)
(* The shards of an index.                                                 *)
(***************************************************************************)
\* add_shard, of shards just created, one after the other: each is cached while
\* there is room.
Added(v, ss) ==
  LET room == {ss[i] : i \in {j \in DOMAIN ss : Cardinality(DOMAIN v.cache) + j <= v.limit}}
  IN [v EXCEPT
        !.list = @ \o [i \in DOMAIN ss |-> [id |-> ss[i], count |-> 0, active |-> 0, writable |-> TRUE]],
        !.cache = [s \in DOMAIN @ \cup room |->
                     IF s \in room THEN [ro |-> FALSE, count |-> 0, known |-> {}] ELSE @[s]]]

AddShard(s) ==
  /\ Change /\ s \notin DOMAIN slots
  /\ slots' = With(slots, s, <<>>)
  /\ writer' = Added(writer, <<s>>)
  /\ UNCHANGED <<current, job, reader, mine, committed, dropped, gone>>

\* bulk_add_shards stops at one that is listed already; those before it stay,
\* and those behind it have files that the next opening discovers.
BulkAddShards(ss, n) ==
  /\ Change /\ ToSet(ss) \cap DOMAIN slots = {}
  /\ n < Len(ss) => Listed(writer) # {}
  /\ ~(n = 1 /\ Len(ss) = 1)                               \* that is add_shard
  /\ slots' = [t \in DOMAIN slots \cup ToSet(ss) |-> IF t \in DOMAIN slots THEN slots[t] ELSE <<>>]
  /\ writer' = Added(writer, SubSeq(ss, 1, n))
  /\ UNCHANGED <<current, job, reader, mine, committed, dropped, gone>>

\* remove_shard: the files stay.  An index lists a shard once.
RemoveShard(s) ==
  /\ Change /\ s \in Listed(writer)
  /\ writer' = [writer EXCEPT !.list = RemoveAt(@, IndexOf(writer, s)), !.cache = Without(@, {s})]
  /\ dropped' = dropped \cup {s}
  /\ UNCHANGED <<slots, current, job, reader, mine, committed, gone>>

\* set_cache_limit, which trims; clear_cache is the limit 0 without the limit.
SetCacheLimit(n) ==
  /\ Change /\ n # writer.limit
  /\ \E keep \in SUBSET DOMAIN writer.cache :
       /\ IF Cardinality(DOMAIN writer.cache) <= n THEN keep = DOMAIN writer.cache
          ELSE Cardinality(keep) = n
       /\ writer' = [writer EXCEPT !.limit = n, !.cache = [s \in keep |-> @[s]]]
  /\ UNCHANGED <<slots, current, job, reader, mine, committed, dropped, gone>>

\* flush writes the header of every cached shard that is not read-only; close
\* also clears the cache.
Flushed(c) == [s \in DOMAIN slots |-> IF s \in DOMAIN c /\ ~c[s].ro THEN Written(c, s, <<>>) ELSE slots[s]]

Flush(close) ==
  /\ Change /\ writer.cache # Nothing
  /\ slots' = Flushed(writer.cache)
  /\ writer' = IF close THEN [writer EXCEPT !.cache = Nothing] ELSE writer
  /\ UNCHANGED <<current, job, reader, mine, committed, dropped, gone>>

\* refresh_shard_metadata: a shard it had to open stays cached read-only, and
\* the list has it as not writable from then on.
Refreshed(v, s) ==
  {[v EXCEPT
      !.list[IndexOf(v, s)] = [id |-> s, count |-> c[s].count, active |-> UniqueIn(s), writable |-> ~c[s].ro],
      !.cache = c] : c \in Loaded(v, s, TRUE)}

RefreshMetadata(s) ==
  /\ Change /\ s \in Listed(writer)
  /\ writer' \in Refreshed(writer, s)
  /\ UNCHANGED <<slots, current, job, reader, mine, committed, dropped, gone>>

\* refresh_all_metadata, whose later shards may put earlier ones out: what the
\* index can be when the first n of its shards were refreshed.
RefreshedUpTo ==
  LET after[n \in 0..Len(writer.list)] ==
        IF n = 0 THEN {writer} ELSE UNION {Refreshed(v, writer.list[n].id) : v \in after[n - 1]}
  IN after

RefreshAllMetadata ==
  /\ Change /\ writer.list # <<>>
  /\ writer' \in RefreshedUpTo[Len(writer.list)]
  /\ UNCHANGED <<slots, current, job, reader, mine, committed, dropped, gone>>

\* statistics: sums over what the list says, the average in postings.
Statistics(v) ==
  [shards |-> Len(v.list), cached |-> Cardinality(DOMAIN v.cache),
   postings |-> FoldLeft(LAMBDA n, e : n + e.count, 0, v.list),
   used |-> FoldLeft(LAMBDA n, e : n + e.active, 0, v.list)]

\* calculate_posting_counts: a cached shard is asked, of any other the list
\* knows how full it was.
ActiveOf(v, e)  == IF e.id \in DOMAIN v.cache THEN UniqueIn(e.id) ELSE e.active
SlotsOf(v, e)   == IF e.id \in DOMAIN v.cache THEN v.cache[e.id].count ELSE e.count
Deleted(v, e)   == IF SlotsOf(v, e) > ActiveOf(v, e) THEN SlotsOf(v, e) - ActiveOf(v, e) ELSE 0
PostingCounts(v) ==
  [active  |-> FoldLeft(LAMBDA n, e : n + ActiveOf(v, e), 0, v.list),
   deleted |-> FoldLeft(LAMBDA n, e : n + Deleted(v, e), 0, v.list)]

\* get_shards_to_split (0.9 full and more) and get_underutilized_shards, each
\* in one of the orders its sort can give.
ToSplit(v) ==
  {order \in SetToSeqs({e \in ToSet(v.list) : 10 * e.active >= 9 * Capacity}) :
     \A i, j \in DOMAIN order : i < j => order[i].active >= order[j].active}
Underutilized(v, below) ==
  {order \in SetToSeqs({e \in ToSet(v.list) : e.active < below /\ e.count > 0}) :
     \A i, j \in DOMAIN order : i < j => order[i].active <= order[j].active}

\* validate_index compares the list's count of slots with the number of live
\* postings in the file.
Warnings(v) == {e.id : e \in {x \in ToSet(v.list) : x.count # UniqueIn(x.id)}}
-----------------------------------------------------------------------------
(***************************************************************************)
(* Postings.                                                               *)
(***************************************************************************)
\* determine_shard_for_posting: the first shard, writable or not, or another
\* that the list has as writable and not full.
Targets ==
  {writer.list[i].id : i \in {j \in DOMAIN writer.list :
     j = 1 \/ (writer.list[j].writable /\ writer.list[j].active < Capacity)}}

\* add_posting and apply_wal_operation: a read-only or full shard refuses, but
\* is cached all the same; the list is not brought up to date.
AddPosting(k) ==
  /\ Change
  /\ \E s \in Targets, c \in UNION {Loaded(writer, t, FALSE) : t \in Targets} :
       /\ c \in Loaded(writer, s, FALSE)
       /\ IF c[s].ro \/ c[s].count >= Capacity
          THEN writer' = [writer EXCEPT !.cache = c] /\ UNCHANGED <<slots, mine, gone>>
          ELSE /\ slots' = [slots EXCEPT ![s] = Written(c, s, <<[key |-> k, deleted |-> FALSE]>>)]
               /\ writer' = [writer EXCEPT !.cache =
                    [c EXCEPT ![s].count = @ + 1, ![s].known = @ \cup {DocOf[k]}]]
               /\ mine' = mine \cup {k} /\ gone' = [gone EXCEPT ![DocOf[k]] = @ \ {s}]
  /\ UNCHANGED <<current, job, reader, committed, dropped>>

\* find_candidate_shards_for_deletion opens every listed shard anew; its bloom
\* filter knows the documents of deleted postings too.
CandidatesByCount(ds) == {s \in Listed(writer) : writer.list[IndexOf(writer, s)].count > 0 /\ ds \cap DocsIn(s) # {}}
Candidates(ds) == {s \in Listed(writer) : ds \cap DocsIn(s) # {}}

\* delete_document and delete_documents skip a shard that answers an error,
\* which only a read-only one does; remove_document and the RemoveDocument of
\* apply_wal_operation go to every shard and stop at an error.
StartDeletion(op, ds) ==
  /\ Change /\ (op = "remove" => Cardinality(ds) = 1)
  /\ job' = [op |-> op, docs |-> ds, skipped |-> {},
             todo |-> IF op = "delete" THEN Candidates(ds) ELSE Listed(writer)]
  /\ UNCHANGED <<slots, current, writer, reader, mine, committed, dropped, gone>>

\* One shard.  It asks the filter of its cached instance, flags the slots that
\* it knows of, and a deletion brings its entry up to date from the files.
DeleteFrom(s) ==
  /\ s \in job.todo
  /\ \E c \in Loaded(writer, s, FALSE) :
       LET hit == {i \in LiveOf(s, job.docs \cap c[s].known) : i <= c[s].count}
           keys == {slots[s][i].key : i \in hit}
           flagged == [i \in DOMAIN slots[s] |-> [slots[s][i] EXCEPT !.deleted = @ \/ i \in hit]]
       IN IF c[s].ro
          THEN /\ writer' = [writer EXCEPT !.cache = c] /\ UNCHANGED <<slots, mine, committed>>
               /\ job' = IF job.op = "remove" THEN NoJob
                         ELSE [job EXCEPT !.todo = @ \ {s}, !.skipped = @ \cup {s}]
          ELSE /\ slots' = IF hit = {} THEN slots
                           ELSE [slots EXCEPT ![s] = SubSeq(flagged, 1, c[s].count)]
               /\ mine' = mine \ keys /\ committed' = committed \ keys
               /\ job' = [job EXCEPT !.todo = @ \ {s}]
               /\ writer' = IF hit = {} \/ job.op = "remove" THEN [writer EXCEPT !.cache = c]
                            ELSE [writer EXCEPT !.cache = c, !.list[IndexOf(writer, s)] =
                                    [@ EXCEPT !.count = Len(slots'[s]), !.active = ActiveIn(s)']]
  /\ UNCHANGED <<changes, current, reader, dropped, gone>>

DeletionDone ==
  /\ job.op # "none" /\ job.todo = {} /\ job' = NoJob
  /\ gone' = [d \in Doc |-> IF d \in job.docs THEN gone[d] \cup (Listed(writer) \ job.skipped) ELSE gone[d]]
  /\ UNCHANGED <<changes, slots, current, writer, reader, mine, committed, dropped>>
-----------------------------------------------------------------------------
(***************************************************************************)
(* Versions.                                                               *)
(***************************************************************************)
CacheShared(v) == v.cache
CacheOf(v) == Nothing

\* clone_for_write, and clone_for_lazy_write: a lazy writer has no operation
\* that modifies anything, and its commit without modifications does nothing.
CloneForWrite ==
  /\ writer = Closed /\ writer' = [current EXCEPT !.cache = CacheOf(current)]
  /\ UNCHANGED <<changes, slots, current, job, reader, mine, committed, dropped, gone>>

Commit ==
  /\ Idle /\ current' = writer /\ writer' = Closed
  /\ committed' = committed \cup mine /\ mine' = {}
  /\ UNCHANGED <<changes, slots, job, reader, dropped, gone>>

Discard ==
  /\ Idle /\ writer' = Closed /\ mine' = {}
  /\ UNCHANGED <<changes, slots, current, job, reader, committed, dropped, gone>>

\* CowShardexIndex::read, then searches: parallel_search and
\* parallel_search_with_metric open the shards of the version anew.
Read ==
  /\ reader = Closed /\ current.list # <<>>
  /\ reader' = [list |-> current.list, seen |-> LiveKeys(Listed(current))]
  /\ UNCHANGED <<changes, slots, current, writer, job, mine, committed, dropped, gone>>

ReadDone ==
  /\ reader # Closed /\ reader' = Closed
  /\ UNCHANGED <<changes, slots, current, writer, job, mine, committed, dropped, gone>>

\* The process ends; open discovers every shard with its two files, and as it
\* opens them read-only the list has none as writable.
Discovered == {[i \in DOMAIN order |-> Entry(order[i], FALSE)] : order \in SetToSeqs(DOMAIN slots)}

Reopen ==
  /\ \E list \in Discovered : current' = [list |-> list, cache |-> Nothing, limit |-> Limit]
  /\ writer' = Closed /\ job' = NoJob /\ reader' = Closed /\ mine' = {}
  /\ UNCHANGED <<changes, slots, committed, dropped, gone>>

Next ==
  \/ \E s \in ShardId : AddShard(s) \/ RemoveShard(s) \/ RefreshMetadata(s) \/ DeleteFrom(s)
  \/ \E ss \in UNION {SetToSeqs(ss) : ss \in (SUBSET ShardId) \ {{}}} : \E n \in 0..Len(ss) : BulkAddShards(ss, n)
  \/ RefreshAllMetadata
  \/ \E n \in Limits : SetCacheLimit(n)
  \/ \E close \in BOOLEAN : Flush(close)
  \/ \E k \in Key : AddPosting(k)
  \/ \E op \in {"delete", "remove"}, ds \in (SUBSET Doc) \ {{}} : StartDeletion(op, ds)
  \/ DeletionDone
  \/ CloneForWrite \/ Commit \/ Discard \/ Read \/ ReadDone \/ Reopen

Spec == Init /\ [][Next]_vars
-----------------------------------------------------------------------------
\* The writer's cached shards know every slot of their files, those included
\* that a discarded writer or an earlier version wrote: none cuts off another's.
CacheIsFresh ==
  writer # Closed =>
    \A s \in DOMAIN writer.cache :
      writer.cache[s].count = Len(slots[s]) /\ DocsIn(s) \subseteq writer.cache[s].known

\* A posting of a committed writer is live in a shard the published version
\* lists until it is removed, through discarded writers, evictions and reopening.
CommittedIsListed ==
  committed \subseteq LiveKeys(Listed(current) \cup dropped)

\* A document has no live posting in a shard it was deleted from, unless it was
\* added there again: no stale count, filter or cached instance hides one.
DeletedIsGone ==
  \A d \in Doc : \A s \in gone[d] : LiveOf(s, {d}) = {}

\* What writers commit, adds and deletions, holds from then on.
ChangesHold == CommittedIsListed /\ DeletedIsGone

\* refresh_all_metadata makes the list exact for every shard, those included
\* that lost their place in the cache to a later one: the totals are those of
\* the files, whoever wrote them, a split is proposed for the shards that are
\* full of live postings, one whose postings are all deleted is the first to be
\* retired, and validate_index warns of a shard only if postings
\* of it were deleted or replaced.
Exact(v) ==
  LET all(f) == FoldLeft(LAMBDA n, e : n + f[e.id], 0, v.list)
      lens == [s \in DOMAIN slots |-> Len(slots[s])]
      live == [s \in DOMAIN slots |-> UniqueIn(s)]
  IN /\ Statistics(v).postings = all(lens) /\ Statistics(v).used = all(live)
     /\ PostingCounts(v).active = all(live) /\ PostingCounts(v).deleted = all(lens) - all(live)
     /\ \A order \in ToSplit(v) : {e.id : e \in ToSet(order)} = {s \in Listed(v) : 10 * live[s] >= 9 * Capacity}
     /\ \A order \in Underutilized(v, 1) : {e.id : e \in ToSet(order)} = {s \in Listed(v) : live[s] = 0 /\ lens[s] > 0}
     /\ \A s \in Warnings(v) : \E i \in DOMAIN slots[s] :
          ~Live(s, i) \/ \E j \in DOMAIN slots[s] : j # i /\ slots[s][i].key = slots[s][j].key

\* So after every call of refresh_all_metadata.
RefreshIsExact == [][RefreshAllMetadata => Exact(writer)']_vars

\* What a reader's version finds does not change under it.
SnapshotIsolated ==
  reader # Closed => LiveKeys({reader.list[i].id : i \in DOMAIN reader.list}) = reader.seen
=============================================================================
