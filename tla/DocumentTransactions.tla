------------------------ MODULE DocumentTransactions ------------------------
(***************************************************************************)
(* DocumentTransactionCoordinator (document_transaction_coordinator.rs):   *)
(* transactions are collected in memory, logged as one record when they    *)
(* commit and then applied to the index operation by operation; opening    *)
(* the index replays the log (wal_replay.rs).                              *)
(*                                                                         *)
(* The index is the text and the live postings of each document and one    *)
(* shard with Cap slots, which may be missing.  The coordinator is used    *)
(* through &mut self, one call at a time; kills fall between any two steps.*)
(***************************************************************************)
EXTENDS Naturals, Sequences, SequencesExt, FiniteSets

CONSTANTS
  Tx, Doc,
  NoText,     \* a document without a text
  Ops,        \* operations that clients add to transactions
  Cap,        \* slots of the shard
  MaxActive,  \* max_active_transactions
  MaxOps,     \* bound: operations of a transaction
  LogCap,     \* operations the segment has room for
  MaxOpens    \* bound: reopenings

DocumentTransactionsAssumption ==
  /\ {Cap, MaxActive, MaxOps, LogCap, MaxOpens} \subseteq Nat
  /\ \A op \in Ops : op.doc \in Doc /\ op.do \in {"store", "delete", "add", "remove"}

VARIABLES
  active,  \* transactions begun and not settled: [ops, old]
  work,    \* what runs: [do |-> "idle" | "commit" | "replay" | "dead", tx, left, tally]
  log,     \* records of the segment: [tx, ops]
  index,   \* [text, posts, used, shard, limit], limit of the text storage, if any
  deviant, \* documents with a logged operation the index could not take
  answer,  \* ghost: how each transaction was settled
  opens    \* reopenings so far

vars == <<active, work, log, index, deviant, answer, opens>>

NoShardOr(s) == IF s THEN "listed" ELSE "none"
Idle   == [do |-> "idle"]
Dead   == [do |-> "dead"]

Init ==
  /\ active = [t \in {} |-> 0] /\ work = Idle /\ log = <<>> /\ deviant = {} /\ opens = 0
  /\ \E s \in BOOLEAN, l \in {"configured", "no storage"} :
       index = [text |-> [d \in Doc |-> NoText], posts |-> [d \in Doc |-> {}], used |-> 0,
                shard |-> NoShardOr(s), limit |-> l]
  /\ answer = [t \in Tx |-> "none"]
-----------------------------------------------------------------------------
(***************************************************************************)
(* Operations on the index.                                                *)
(***************************************************************************)
\* The storage that create made has the configured limit, one that was opened
\* has 10 MB: a "big" text is between the two, a "huge" one beyond both.
HasStorage(ix) == ix.limit # "no storage"
TextFits(ix, text) == HasStorage(ix) /\ (text = "big" => ix.limit = "default")

HasRoom(ix) == ix.shard # "none" /\ ix.used < Cap

Stored(ix, op)  == [ix EXCEPT !.text[op.doc] = op.text]
Added(ix, op)   == [ix EXCEPT !.posts[op.doc] = @ \cup {op.post}, !.used = @ + 1]
Removed(ix, op) == [ix EXCEPT !.posts[op.doc] = {}]

Takes(ix, op) ==
  CASE op.do = "store" -> TextFits(ix, op.text)
    [] op.do = "add"   -> HasRoom(ix)
    [] OTHER -> TRUE

Applied(ix, op) ==
  CASE op.do = "store"  -> Stored(ix, op)
    [] op.do = "add"    -> Added(ix, op)
    [] op.do = "remove" -> Removed(ix, op)
    [] op.do = "delete" -> ix     \* delete_document_text does nothing yet

\* Replay makes a shard for the first posting of an index without one, outside
\* the directory where the next open looks for shards.
ReplayShard(ix, op) ==
  IF op.do = "add" /\ ix.shard = "none" THEN [ix EXCEPT !.shard = "stray", !.used = 0] ELSE ix
-----------------------------------------------------------------------------
(***************************************************************************)
(* Transactions.                                                           *)
(***************************************************************************)
Open == work = Idle
Without(f, ts) == [t \in DOMAIN f \ ts |-> f[t]]
DocsOf(ops) == {op.doc : op \in Range(ops)}

Begin(t) ==
  /\ Open /\ Cardinality(DOMAIN active) < MaxActive
  /\ t \notin DOMAIN active /\ answer[t] = "none"
  /\ active' = [u \in DOMAIN active \cup {t} |-> IF u = t THEN [ops |-> <<>>, old |-> FALSE] ELSE active[u]]
  /\ UNCHANGED <<work, log, index, deviant, answer, opens>>

\* validate_operation.  A range is not empty and ends below 2^32 and a vector has
\* components, all finite; whether they are as many as the shard's is asked when
\* the transaction commits.
ValidText(text) == text # "empty"
ValidRange(post) == post \notin {"no length", "past u32"}
ValidVector(post) == post \notin {"no vector", "not finite"}
Acceptable(op) ==
  /\ op.do = "store" => ValidText(op.text)
  /\ op.do = "add" => ValidRange(op.post) /\ ValidVector(op.post)

Add(t, op) ==
  /\ Open /\ t \in DOMAIN active /\ Len(active[t].ops) < MaxOps
  /\ Acceptable(op)
  /\ active' = [active EXCEPT ![t].ops = Append(@, op)]
  /\ UNCHANGED <<work, log, index, deviant, answer, opens>>

\* Time passes; abort gives the transaction up, cleanup_expired_transactions
\* every one that is too old.
Age(t) ==
  /\ Open /\ t \in DOMAIN active /\ ~active[t].old /\ active' = [active EXCEPT ![t].old = TRUE]
  /\ UNCHANGED <<work, log, index, deviant, answer, opens>>

Settle(ts, how) == answer' = [t \in Tx |-> IF t \in ts THEN how ELSE answer[t]]
GiveUp(ts) == active' = Without(active, ts) /\ Settle(ts, "aborted")

Abort(t) ==
  /\ Open /\ t \in DOMAIN active /\ GiveUp({t})
  /\ UNCHANGED <<work, log, index, deviant, opens>>

Expired == {t \in DOMAIN active : active[t].old}
CleanupExpired ==
  /\ Open /\ Expired # {} /\ GiveUp(Expired)
  /\ UNCHANGED <<work, log, index, deviant, opens>>

\* validate_operation_for_commit, and WalTransaction::with_id_and_timestamp.
Commitable(op) ==
  /\ op.do = "store" => op.text # "huge"
  /\ op.do = "add" => op.post # "misfit"
WellFormed(ops) == ops # <<>>

Taken(t) == Without(active, {t})

CommitRefused(t) ==
  /\ Open /\ t \in DOMAIN active
  /\ \/ ~WellFormed(active[t].ops) \/ \E op \in Range(active[t].ops) : ~Commitable(op)
     \/ FoldLeft(LAMBDA n, r : n + Len(r.ops), 0, log) + Len(active[t].ops) > LogCap
  /\ active' = Taken(t) /\ Settle({t}, "refused")
  /\ UNCHANGED <<work, log, index, deviant, opens>>

\* append_transaction; sync may fail after it.
CommitLogged(t) ==
  /\ Open /\ t \in DOMAIN active
  /\ WellFormed(active[t].ops) /\ \A op \in Range(active[t].ops) : Commitable(op)
  /\ FoldLeft(LAMBDA n, r : n + Len(r.ops), 0, log) + Len(active[t].ops) <= LogCap
  /\ log' = Append(log, [tx |-> t, ops |-> active[t].ops])
  /\ active' = Taken(t)
  /\ \/ /\ work' = [do |-> "commit", tx |-> t, left |-> active[t].ops]
        /\ UNCHANGED <<answer, deviant>>
     \/ /\ Settle({t}, "failed") /\ deviant' = deviant \cup DocsOf(active[t].ops) /\ UNCHANGED work
  /\ UNCHANGED <<index, opens>>

StopsAt(ops) == ~Takes(index, Head(ops))

ApplyNext ==
  /\ work.do = "commit" /\ work.left # <<>>
  /\ IF StopsAt(work.left)
     THEN /\ work' = Idle /\ Settle({work.tx}, "failed")
          /\ deviant' = deviant \cup DocsOf(work.left) /\ UNCHANGED index
     ELSE /\ index' = Applied(index, Head(work.left)) /\ work' = [work EXCEPT !.left = Tail(@)]
          /\ UNCHANGED <<answer, deviant>>
  /\ UNCHANGED <<active, log, opens>>

CommitReturns ==
  /\ work.do = "commit" /\ work.left = <<>>
  /\ work' = Idle /\ Settle({work.tx}, "ok")
  /\ UNCHANGED <<active, log, index, deviant, opens>>
-----------------------------------------------------------------------------
(***************************************************************************)
(* Kills and reopenings.                                                   *)
(***************************************************************************)
Kill ==
  /\ work # Dead /\ opens < MaxOpens
  /\ work' = Dead /\ active' = [t \in {} |-> 0]
  /\ answer' = [t \in Tx |-> IF t \in DOMAIN active THEN "aborted"
                             ELSE IF work.do = "commit" /\ work.tx = t THEN "failed" ELSE answer[t]]
  /\ UNCHANGED <<log, index, deviant, opens>>

\* ShardexIndex::open, then replay_all_segments from the first record.
AllOps(records) == FlattenSeq([i \in DOMAIN records |-> records[i].ops])

\* Mutant of ReplayOrder: the newest record first.
ReplayNewestFirst(records) == AllOps(Reverse(records))
ReplayOrder(records) == AllOps(records)

\* RecoveryStats; from is the slots in use when the replay began.
NewTally(ix) == [adds |-> 0, removes |-> 0, stores |-> 0, deletes |-> 0, applied |-> 0,
                 errors |-> 0, textErrors |-> 0, from |-> ix.used]

\* A text that is refused is noted as an error, and yet counts as replayed; so
\* does a deletion in an index without texts.
StoreTally(t, ok) ==
  LET one == [t EXCEPT !.stores = @ + 1]
  IN IF ok THEN one ELSE [one EXCEPT !.errors = @ + 1, !.textErrors = @ + 1]
DeleteTally(t, ok) ==
  LET one == [t EXCEPT !.deletes = @ + 1] IN IF ok THEN one ELSE [one EXCEPT !.errors = @ + 1]

\* Mutant of Tallied: refused postings count.
TalliedOnTry(t, op, ok) ==
  IF op.do = "add" THEN [t EXCEPT !.adds = @ + 1, !.applied = @ + 1] ELSE [t EXCEPT !.applied = @ + 1]
\* Operations on texts are counted by what applies them and here once more.
Tallied(t, op, ok) ==
  CASE op.do = "add" -> IF ok THEN [t EXCEPT !.adds = @ + 1, !.applied = @ + 1] ELSE [t EXCEPT !.errors = @ + 1]
    [] op.do = "remove" -> [t EXCEPT !.removes = @ + 1, !.applied = @ + 1]
    [] op.do = "store"  -> [StoreTally(t, ok) EXCEPT !.stores = @ + 1, !.applied = @ + 1]
    [] op.do = "delete" -> [DeleteTally(t, ok) EXCEPT !.deletes = @ + 1, !.applied = @ + 1]

Reopen ==
  /\ work = Dead
  /\ opens' = opens + 1 /\ deviant' = {}
  /\ index' = [(IF index.shard = "stray"
                THEN [index EXCEPT !.shard = "none", !.posts = [d \in Doc |-> {}], !.used = 0] ELSE index)
               EXCEPT !.limit = IF HasStorage(index) THEN "default" ELSE @]
  /\ work' = [do |-> "replay", left |-> ReplayOrder(log), tally |-> NewTally(index')]
  /\ UNCHANGED <<active, log, answer>>

Refusal(ix, op) ==
  CASE op.do = "add" -> "shard full"
    [] op.do = "store" /\ HasStorage(ix) -> "too large"
    [] OTHER -> "no storage"

\* handle_text_storage_error answers Ok whatever the error is, and so does what
\* replays the other operations.
PassesOver(why) == why \in {"index size", "data offset", "corrupt", "too large", "no storage", "shard full"}

\* An operation the index does not take is noted, and the replay goes on.
ReplayNext ==
  /\ work.do = "replay" /\ work.left # <<>>
  /\ LET op == Head(work.left)
         ix == ReplayShard(index, op)
         ok == Takes(ix, op)
     IN /\ index' = IF ok THEN Applied(ix, op) ELSE ix
        /\ deviant' = IF ok THEN deviant ELSE deviant \cup {op.doc}
        /\ work' = [work EXCEPT !.left = IF ok \/ PassesOver(Refusal(ix, op)) THEN Tail(@) ELSE <<>>,
                                !.tally = Tallied(@, op, IF op.do = "delete" THEN HasStorage(ix) ELSE ok)]
  /\ UNCHANGED <<active, log, answer, opens>>

ReplayDone ==
  /\ work.do = "replay" /\ work.left = <<>> /\ work' = Idle
  /\ UNCHANGED <<active, log, index, deviant, answer, opens>>
-----------------------------------------------------------------------------
Next ==
  \/ \E t \in Tx : Begin(t) \/ Age(t) \/ Abort(t) \/ CommitRefused(t) \/ CommitLogged(t)
  \/ \E t \in Tx, op \in Ops : Add(t, op)
  \/ CleanupExpired \/ ApplyNext \/ CommitReturns \/ Kill \/ Reopen \/ ReplayNext \/ ReplayDone

Spec == Init /\ [][Next]_vars
-----------------------------------------------------------------------------
\* Whenever no call runs, each document is what the log leaves of it: the last
\* logged text and the postings since the last logged removal, unless the index
\* refused a logged operation on it.  So what was committed survives kills in
\* the middle of a commit or of a replay, and a commit cut short is whole after
\* the next open.
LoggedText(d) ==
  FoldLeft(LAMBDA t, op : IF op.do = "store" /\ op.doc = d THEN op.text ELSE t, NoText, AllOps(log))
LoggedPosts(d) ==
  FoldLeft(LAMBDA ps, op : IF op.doc # d THEN ps
                          ELSE IF op.do = "add" THEN ps \cup {op.post}
                          ELSE IF op.do = "remove" THEN {} ELSE ps, {}, AllOps(log))
CommittedAsLogged ==
  Open => \A d \in Doc \ deviant : index.text[d] = LoggedText(d) /\ index.posts[d] = LoggedPosts(d)

\* When a replay is done its statistics account for every logged operation as
\* applied or as an error other than a text's, but a deletion as both in an
\* index without texts; the postings they count are the slots that were filled,
\* and they count each operation on a text twice.
TallyAgrees ==
  work.do = "replay" /\ work.left = <<>> =>
    LET t == work.tally
        ops == AllOps(log)
        Texts == {i \in DOMAIN ops : ops[i].do \in {"store", "delete"}}
        Both  == {i \in Texts : ops[i].do = "delete" /\ ~HasStorage(index)}
    IN /\ t.adds = index.used - t.from
       /\ t.applied + t.errors - t.textErrors = Len(ops) + Cardinality(Both)
       /\ t.stores + t.deletes = 2 * Cardinality(Texts)

=============================================================================
