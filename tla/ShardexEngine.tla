---------------------------- MODULE ShardexEngine ----------------------------
(***************************************************************************)
(* The engine (src/src/shardex.rs) on top of the write-ahead log: calls    *)
(* that put operations in the log and in pending_shard_operations, flush,  *)
(* which applies the pending ones to the shards, crashes, and open, which  *)
(* replays the whole log over the shards it finds (wal_replay.rs).         *)
(*                                                                         *)
(* The path to the log is module OpLog.  The calls take &mut self: one at  *)
(* a time, interleaved only with the background task that writes the log   *)
(* and with a crash, which may come between any two operations applied.    *)
(* A shard is its slots (module Shard looks inside); which of the shards   *)
(* with a usable centroid is nearest depends on the vectors and is left    *)
(* open.  Document texts are not modelled here.                            *)
(***************************************************************************)
EXTENDS Naturals, Sequences, FiniteSets, Functions

CONSTANTS
  Doc, Key,       \* documents; postings by (document_id, start, length)
  DocOf,          \* document of each posting
  Calls,          \* the batches of operations that calls are made with
  Replacements,   \* arguments of replace_document_with_postings
  MaxOps,         \* bound: operations given to the log
  MaxReplaced,    \* bound: how often a document is replaced
  MaxOpens,       \* bound: how often the index is opened again
  ShardSize,      \* config.shard_size
  RecoverySize,   \* capacity of a shard made during replay (1000)
  Failures        \* may calls fail and may the log lose operations?

AddPosting(k)     == [kind |-> "add", key |-> k, doc |-> DocOf[k]]
RemoveDocument(d) == [kind |-> "remove", key |-> "none", doc |-> d]
Operation == {AddPosting(k) : k \in Key} \cup {RemoveDocument(d) : d \in Doc}

ASSUME EngineAssumption ==
  /\ DocOf \in [Key -> Doc]
  /\ Calls \subseteq Seq(Operation) \ {<<>>}
  /\ Replacements \subseteq [doc : Doc, keys : Seq(Key)]
  /\ MaxOps \in Nat /\ MaxReplaced \in Nat /\ MaxOpens \in Nat
  /\ ShardSize \in Nat \ {0} /\ RecoverySize \in Nat \ {0}
  /\ Failures \in BOOLEAN

VARIABLES
  last, waiting, logged,   \* the write path, as in OpLog
  ops,         \* the operation of each number
  processor,   \* batch_processor.is_some()
  phase,       \* what the engine is doing; "idle" between calls
  todo,        \* rest of the operations of the call or flush in progress
  made,        \* entries of the call in progress already accepted
  pending,     \* pending_shard_operations: entries not applied yet
  shards,      \* the shards the index knows, by their ids
  at,          \* number of the last operation the replay in progress has read
  opens,       \* how often the index was opened again
  replaced,    \* how often a document was replaced
  done,        \* ghost: numbers of the operations applied or replayed since the open
  kept,        \* ghost: live postings after the last flush; off once more was asked for
  faults       \* ghost: what happened that the engine does not make up for

opLogVars  == <<last, waiting, logged>>
logVars    == <<opLogVars, ops>>
callVars   == <<processor, phase, todo, made, pending>>
indexVars  == <<shards, at, opens, replaced>>
ghostVars  == <<done, kept, faults>>
vars == <<logVars, callVars, indexVars, ghostVars>>

Log == INSTANCE OpLog

\* An operation not in the log (as those of a replacement) has number 0.
Entry(n, o) == [n |-> n, op |-> o]
Entries == [n : 0..MaxOps, op : Operation]
\* Operations the log lost were applied all the same; a full shard refused a
\* posting; operations were applied that never went to the log; a call that
\* failed had some of its operations accepted.
Faults == {"lost", "full", "unlogged", "failedCall"}
Off == [on |-> FALSE, live |-> {}]

Init ==   \* Shardex::create
  /\ Log!Init /\ ops = <<>>
  /\ processor = FALSE /\ phase = "idle" /\ todo = <<>> /\ made = <<>> /\ pending = <<>>
  /\ shards = [i \in {} |-> <<>>] /\ at = 0 /\ opens = 0 /\ replaced = 0
  /\ done = {} /\ kept = Off /\ faults = {}
-----------------------------------------------------------------------------
(***************************************************************************)
(* The shards.                                                             *)
(***************************************************************************)
Latest(slots) == {i \in DOMAIN slots : \A j \in DOMAIN slots :
                    j > i => slots[j].key # slots[i].key}
Live(slots)   == {i \in DOMAIN slots : ~slots[i].deleted}
LiveKeys == UNION {{shards[s].slots[i].key : i \in Live(shards[s].slots)} : s \in DOMAIN shards}

\* The centroid read back from the files averages the latest slots, the NaN of
\* a deleted one included, unless no posting is live.
CentroidIsNaN(slots) ==
  Live(slots) # {} /\ \E i \in Latest(slots) : slots[i].deleted

\* Shard::open_read_only looks in the shards directory only.
Reload(s) == IF s.home = "shards" THEN [s EXCEPT !.nan = CentroidIsNaN(s.slots)] ELSE s

HasRoom(s) == Len(s.slots) < s.cap

\* find_nearest_shard: a distance that is NaN is never the smallest.
Usable == {i \in DOMAIN shards : ~shards[i].nan}
Slot(k) == [key |-> k, deleted |-> FALSE]

\* ShardId::new: an id that no shard has.
NewId == CHOOSE i \in 1..(Cardinality(DOMAIN shards) + 1) : i \notin DOMAIN shards
NewShard(k, home, size) == [home |-> home, cap |-> size, nan |-> FALSE, slots |-> <<Slot(k)>>]

\* Mutant of SlotsOf: an older copy of a posting stays.
LatestSlotsOf(slots, d) == {i \in Latest(slots) : DocOf[slots[i].key] = d}
SlotsOf(slots, d) == {i \in DOMAIN slots : DocOf[slots[i].key] = d}

\* Shard::remove_document
WithoutDoc(slots, d) ==
  [i \in DOMAIN slots |-> [slots[i] EXCEPT !.deleted = @ \/ i \in SlotsOf(slots, d)]]

\* apply_operation_to_shards and WalReplayer::apply_operation.  A shard made
\* here goes to directory `home` with `size` slots.  The error of a full shard
\* is logged and forgotten; `known` are the faults so far.
Apply(o, home, size, known) ==
  CASE o.kind = "remove" ->
         /\ shards' = [s \in DOMAIN shards |->
              [shards[s] EXCEPT !.slots = WithoutDoc(@, o.doc)]]
         /\ faults' = known
    [] o.kind = "add" /\ Usable = {} ->
         /\ shards' = [s \in DOMAIN shards \cup {NewId} |->
              IF s = NewId THEN NewShard(o.key, home, size) ELSE shards[s]]
         /\ faults' = known
    [] OTHER ->
         \E s \in Usable :
           IF HasRoom(shards[s])
           THEN shards' = [shards EXCEPT ![s].slots = Append(@, Slot(o.key))] /\ faults' = known
           ELSE faults' = known \cup {"full"} /\ UNCHANGED shards
-----------------------------------------------------------------------------
(***************************************************************************)
(* The background task.                                                    *)
(***************************************************************************)
WriteLog ==
  /\ phase # "closed" /\ Log!Write /\ waiting' # waiting
  /\ UNCHANGED <<ops, callVars, indexVars, ghostVars>>

LoseOps ==
  /\ Failures /\ phase # "closed" /\ Log!Lose /\ waiting' # waiting /\ last' = last
  /\ faults' = faults \cup {"lost"}
  /\ UNCHANGED <<ops, callVars, indexVars, done, kept>>
-----------------------------------------------------------------------------
(***************************************************************************)
(* add_postings and remove_documents.                                      *)
(***************************************************************************)
\* add_postings shuts the old processor down and starts a new one;
\* remove_documents keeps the one there is.
Call(batch) ==
  /\ phase = "idle" /\ last + Len(batch) <= MaxOps
  /\ phase' = IF Head(batch).kind = "remove" /\ processor THEN "adding" ELSE "starting"
  /\ todo' = batch /\ made' = <<>>
  /\ UNCHANGED <<logVars, processor, pending, indexVars, ghostVars>>

\* The old task was joined and the new processor started, or not.
StartProcessor ==
  /\ phase = "starting" /\ waiting = {}
  /\ \/ processor' = TRUE /\ phase' = "adding" /\ UNCHANGED todo
     \/ Failures /\ processor' = FALSE /\ phase' = "idle" /\ todo' = <<>>
  /\ UNCHANGED <<logVars, made, pending, indexVars, ghostVars>>

\* processor.add_operation for the next operation of the call.
AddOperation ==
  /\ phase = "adding" /\ todo # <<>>
  /\ Log!Accept
  /\ ops' = Append(ops, Head(todo))
  /\ made' = Append(made, Entry(last + 1, Head(todo))) /\ todo' = Tail(todo)
  /\ kept' = Off
  /\ UNCHANGED <<processor, phase, pending, indexVars, done, faults>>

\* add_operation failed: what was accepted before goes to the log, but never
\* to pending_shard_operations.
CallFails ==
  /\ Failures /\ phase = "adding" /\ todo # <<>>
  /\ phase' = "idle" /\ todo' = <<>> /\ made' = <<>>
  /\ faults' = IF made = <<>> THEN faults ELSE faults \cup {"failedCall"}
  /\ UNCHANGED <<logVars, processor, pending, indexVars, done, kept>>

CallReturns ==
  /\ phase = "adding" /\ todo = <<>>
  /\ phase' = "idle" /\ pending' = pending \o made /\ made' = <<>>
  /\ UNCHANGED <<logVars, processor, todo, indexVars, ghostVars>>
-----------------------------------------------------------------------------
(***************************************************************************)
(* replace_document_with_postings, flush and shutdown.                     *)
(***************************************************************************)
\* The replacement is only staged for the shards, then flushed.
Replace(r) ==
  /\ phase = "idle" /\ replaced < MaxReplaced
  /\ replaced' = replaced + 1
  /\ pending' = pending \o <<Entry(0, RemoveDocument(r.doc))>>
                        \o [i \in DOMAIN r.keys |-> Entry(0, AddPosting(r.keys[i]))]
  /\ phase' = "flushing" /\ kept' = Off
  /\ UNCHANGED <<logVars, processor, todo, made, shards, at, opens, done, faults>>

CallFlush ==
  /\ phase = "idle"
  /\ phase' = "flushing"
  /\ UNCHANGED <<logVars, processor, todo, made, pending, indexVars, ghostVars>>

\* Mutant of LogSettled: the flush does not wait for the log.
LogNotAwaited == TRUE
\* flush_now's answer: the task has written everything accepted before.
LogSettled == waiting = {}

\* Step 1 of flush_internal done, step 2 takes the pending operations.  The
\* error of a segment that could not be made is dropped by flush_now.
LogFlushed ==
  /\ phase = "flushing"
  /\ IF LogSettled THEN UNCHANGED faults ELSE Failures /\ faults' = faults \cup {"lost"}
  /\ phase' = "applying" /\ todo' = pending /\ pending' = <<>>
  /\ UNCHANGED <<logVars, processor, made, indexVars, done, kept>>

\* flush_now fails: the pending operations stay.
FlushFails ==
  /\ Failures /\ phase = "flushing" /\ processor
  /\ phase' = "idle"
  /\ UNCHANGED <<logVars, processor, todo, made, pending, indexVars, ghostVars>>

\* One operation of apply_pending_operations_to_shards.
ApplyNext ==
  LET e == Head(todo)
  IN /\ phase = "applying" /\ todo # <<>>
     /\ Apply(e.op, "shards", ShardSize, IF e.n = 0 THEN faults \cup {"unlogged"} ELSE faults)
     /\ done' = done \cup ({e.n} \ {0})
     /\ todo' = Tail(todo)
     /\ UNCHANGED <<logVars, processor, phase, made, pending, at, opens, replaced, kept>>

\* Steps 3 and 4: sync, and validate_consistency, which fails on a shard whose
\* capacity is not shard_size.
FlushReturns ==
  /\ phase = "applying" /\ todo = <<>>
  /\ phase' = "idle"
  /\ kept' = IF \A s \in Range(shards) : s.cap = ShardSize
             THEN [on |-> TRUE, live |-> LiveKeys] ELSE kept
  /\ UNCHANGED <<logVars, processor, todo, made, pending, indexVars, done, faults>>

\* Shardex::shutdown takes the processor and joins its task; what is pending
\* for the shards stays.
Shutdown ==
  /\ phase = "idle" /\ processor
  /\ phase' = "stopping" /\ processor' = FALSE
  /\ UNCHANGED <<logVars, todo, made, pending, indexVars, ghostVars>>

ShutdownReturns ==
  /\ phase = "stopping" /\ waiting = {}
  /\ phase' = "idle"
  /\ UNCHANGED <<logVars, processor, todo, made, pending, indexVars, ghostVars>>
-----------------------------------------------------------------------------
(***************************************************************************)
(* Crashes and recovery.                                                   *)
(***************************************************************************)
\* The process dies, or drops the engine: the operations that are not in the
\* log are gone, what was applied to a shard is in its files.
Crash ==
  /\ phase # "closed" /\ opens < MaxOpens
  /\ Log!Lose /\ waiting' = {} /\ last' = last
  /\ phase' = "closed" /\ processor' = FALSE
  /\ todo' = <<>> /\ made' = <<>> /\ pending' = <<>>
  /\ UNCHANGED <<ops, indexVars, ghostVars>>

\* discover_shards: a shard made during a replay is not found again.
Discovered == {s \in DOMAIN shards : shards[s].home = "shards"}

Open ==
  /\ phase = "closed"
  /\ opens' = opens + 1 /\ phase' = "replaying" /\ at' = 0
  /\ shards' = [s \in Discovered |-> Reload(shards[s])]
  /\ done' = {}
  /\ UNCHANGED <<logVars, processor, todo, made, pending, replaced, kept, faults>>

\* Mutant of ToReplay: the last record is taken for one cut short.
ToReplayButLast(n) == n \in logged /\ n > at /\ (\E m \in logged : m > n) /\ \A m \in logged : m > at => n <= m
\* The next record of the segments in their order, whatever the shards hold.
ToReplay(n) == n \in logged /\ n > at /\ \A m \in logged : m > at => n <= m

\* One operation of the replay; a shard it has to make goes to the directory
\* above the WAL's.
ReplayNext(n) ==
  /\ phase = "replaying" /\ ToReplay(n)
  /\ Apply(ops[n], "index", RecoverySize, faults)
  /\ at' = n /\ done' = done \cup {n}
  /\ UNCHANGED <<logVars, callVars, opens, replaced, kept>>

\* update_shard_metadata_from_disk for every shard; its error is only logged.
ReplayReturns ==
  /\ phase = "replaying" /\ ~ \E n \in logged : ToReplay(n)
  /\ phase' = "idle"
  /\ shards' = [s \in DOMAIN shards |-> Reload(shards[s])]
  /\ UNCHANGED <<logVars, processor, todo, made, pending, at, opens, replaced, ghostVars>>

Next == \/ WriteLog \/ LoseOps
        \/ \E batch \in Calls : Call(batch)
        \/ StartProcessor \/ AddOperation \/ CallFails \/ CallReturns
        \/ \E r \in Replacements : Replace(r)
        \/ CallFlush \/ LogFlushed \/ FlushFails \/ ApplyNext \/ FlushReturns
        \/ Shutdown \/ ShutdownReturns
        \/ Crash \/ Open \/ (\E n \in logged : ReplayNext(n)) \/ ReplayReturns

Spec == Init /\ [][Next]_vars
-----------------------------------------------------------------------------
(***************************************************************************)
(* Properties.                                                             *)
(***************************************************************************)
ShardOK(s) ==
  /\ s = [home |-> s.home, cap |-> s.cap, nan |-> s.nan, slots |-> s.slots]
  /\ s.home \in {"shards", "index"} /\ s.cap \in Nat /\ s.nan \in BOOLEAN
  /\ s.slots \in Seq([key : Key, deleted : BOOLEAN]) /\ Len(s.slots) <= s.cap

ShardsOK ==
  /\ DOMAIN shards \subseteq Nat /\ IsFiniteSet(DOMAIN shards)
  /\ \A s \in DOMAIN shards : ShardOK(shards[s])

TypeOK ==
  /\ last \in 0..MaxOps /\ waiting \subseteq 1..last /\ logged \subseteq 1..last
  /\ ops \in Seq(Operation) /\ Len(ops) = last
  /\ processor \in BOOLEAN
  /\ phase \in {"idle", "starting", "adding", "flushing", "applying", "stopping",
               "closed", "replaying"}
  /\ \/ phase \in {"starting", "adding"} /\ todo \in Seq(Operation)
     \/ phase = "applying" /\ todo \in Seq(Entries)
     \/ todo = <<>>
  /\ made \in Seq(Entries) /\ pending \in Seq(Entries)
  /\ ShardsOK
  /\ at \in 0..last
  /\ opens \in 0..MaxOpens /\ replaced \in 0..MaxReplaced
  /\ done \subseteq 1..last
  /\ kept \in [on : BOOLEAN, live : SUBSET Key] /\ faults \subseteq Faults

\* The postings that the operations ns, in the order of their numbers, leave.
LeftBy(ns) ==
  {k \in Key : \E n \in ns : /\ ops[n] = AddPosting(k)
                             /\ \A m \in ns : m > n => ops[m] # RemoveDocument(DocOf[k])}

\* An operation that reached a shard is in the log, whatever crash or replay
\* came between: the shards never run ahead of it, so that every opening finds
\* in the log all that it finds in the shards.  Operations that were lost on
\* their way, with an error nobody passed on, are the exception.
LogFirst == "lost" \notin faults => done \subseteq logged

\* Between calls, after any number of crashes, some inside a flush or a replay,
\* and although every opening applies the whole log over shards that already
\* hold it: the live postings are the ones that the applied operations, each
\* applied once in the order of the calls, would leave.
ConvergesToLog ==
  phase \notin {"closed", "replaying"} /\ faults \subseteq {"failedCall"} =>
    LiveKeys = LeftBy(done)

\* A reopened index holds what the last successful flush left, unless more was
\* asked for since: nothing comes back and nothing gets lost.
FlushedSurvives ==
  phase = "idle" /\ faults = {} /\ kept.on => LiveKeys = kept.live

\* The same for a document replacement (docs/architecture.md:172-195, where a
\* replacement is logged as one transaction and is durable).
ReplacementSurvives ==
  phase = "idle" /\ faults \subseteq {"unlogged"} /\ kept.on => LiveKeys = kept.live

\* A search opens its candidates in the shards directory and fails if one is
\* not there; an opened index can be searched (docs/architecture.md:509-510).
RecoveredIsSearchable == phase = "idle" => \A s \in Range(shards) : s.home = "shards"
=============================================================================
