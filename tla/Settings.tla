------------------------------ MODULE Settings ------------------------------
(***************************************************************************)
(* What the settings of an index do (config.rs, api/parameters.rs,         *)
(* shardex.rs): what is accepted at creation and later, what the batches   *)
(* of the log are limited to, and what happens to the log when compatible  *)
(* settings change under it.                                               *)
(*                                                                         *)
(* Sizes are the real numbers of bytes.  The task takes a call's           *)
(* operations before it does anything else (BatchProcessor.tla has the     *)
(* other orders), and of the log's segments the latest one matters.        *)
(***************************************************************************)
EXTENDS Naturals

CONSTANTS
  Params,     \* bound: parameters given to CreateIndex
  Configs,    \* bound: configurations given to update_config
  Bulks,      \* bound: how many operations a call has
  MaxCalls,   \* bound: calls of add_postings and remove_documents
  MaxOpens, MaxUpdates,  \* bounds
  Nil

SettingsAssumption ==
  /\ \A p \in Params : p.dim \in Nat /\ p.segment \in Nat
  /\ Bulks \subseteq Nat /\ MaxCalls \in Nat /\ MaxOpens \in Nat /\ MaxUpdates \in Nat

VARIABLES
  config,     \* the engine's configuration, or Nil: no engine
  meta,       \* the one in the index's metadata, which open reads
  saved, backup,  \* those in the configuration file and its backup
  segment,    \* the latest segment of the log, [size, room], or Nil
  processor,  \* the batch processor's limits, [ops, bytes, size, floored], or Nil
  batch,      \* its batch, [ops, estimate, bytes]
  queue,      \* operations sent to the task, [cost, left]
  answer,     \* how the last call of the client ended, [call, ok]
  closed,     \* ghost: the last batch a limit closed, [bytes, room, floored], or Nil
  calls, opens, updates

settings == <<config, meta, saved, backup>>
logging  == <<segment, processor, batch, queue, closed>>
bounds   == <<calls, opens, updates>>
vars == <<settings, logging, answer, bounds>>

Lower(a, b)  == IF a < b THEN a ELSE b
Higher(a, b) == IF a > b THEN a ELSE b
-----------------------------------------------------------------------------
(***************************************************************************)
(* What is accepted.  The safety margin is counted in quarters.            *)
(***************************************************************************)
Slop == [default |-> 3, min |-> 1, max |-> 100]

DefaultConfig ==
  [dim |-> 384, shard |-> 10000, segment |-> 1048576, margin |-> 2, interval |-> 100,
   slop |-> Slop, bloom |-> 1024, text |-> 10485760]

\* Mutant of SlopValid: the default may be anything positive.
SlopValidUnbounded(s) == s.default > 0 /\ s.min > 0 /\ s.max > 0 /\ s.min <= s.max
SlopValid(s) ==
  /\ s.default > 0 /\ s.min > 0 /\ s.max > 0 /\ s.min <= s.max
  /\ s.default \in s.min..s.max

Valid(c) ==
  /\ c.dim \in 1..10000 /\ c.shard \in 1..1000000
  /\ c.segment >= 1024 /\ c.segment <= 1073741824
  /\ c.margin \in 0..4 /\ c.interval \in 1..30000
  /\ SlopValid(c.slop) /\ c.bloom > 0
  /\ c.text = 0 \/ c.text \in 1024..1073741824

ParamsValid(p) ==
  /\ p.dim \in 1..100000 /\ p.shard \in 1..10000000
  /\ p.interval > 0 /\ p.segment >= 1024 /\ p.bloom > 0 /\ p.slop \in 1..1000

\* What the builder fills in.
DefaultParams ==
  [dim |-> 384, shard |-> 10000, interval |-> 100, segment |-> 1048576, bloom |-> 1024, slop |-> 3]
HighPerformance ==
  [dim |-> 256, shard |-> 15000, interval |-> 75, segment |-> 2097152, bloom |-> 2048, slop |-> 4]
MemoryOptimized ==
  [dim |-> 128, shard |-> 5000, interval |-> 200, segment |-> 262144, bloom |-> 512, slop |-> 2]

Presets == {DefaultParams, HighPerformance, MemoryOptimized}

\* CreateIndex::execute: the slop factor asked for goes nowhere.
ConfigOf(p) ==
  [DefaultConfig EXCEPT !.dim = p.dim, !.shard = p.shard, !.interval = p.interval,
                        !.segment = p.segment, !.bloom = p.bloom]
\* CreateIndexParams::from
ParamsOf(c) ==
  [dim |-> c.dim, shard |-> c.shard, interval |-> c.interval, segment |-> c.segment,
   bloom |-> c.bloom, slop |-> c.slop.default]

\* A search names its k and perhaps a slop factor (0: none).
SearchParams(s) == s.k \in 1..10000 /\ s.slop \in 0..1000
SearchInput(s)  == s.k \in 1..10000 /\ (s.slop # 0 => s.slop \in config.slop.min..config.slop.max)
SlopUsed(s)     == IF s.slop # 0 THEN s.slop ELSE config.slop.default

\* ShardexIndex::calculate_optimal_slop, which nothing calls.
ShardFactor(shards) ==
  CASE shards <= 5             -> shards
    [] shards \in 6..20        -> 5 + (shards - 5) \div 3
    [] shards \in 21..100      -> 10 + (shards - 20) \div 8
    [] OTHER                   -> 20
OptimalSlop(dim, shards) ==
  LET base == IF dim > 512 THEN 5 ELSE IF dim > 256 THEN 4 ELSE 3
  IN IF shards <= 1 THEN 1 ELSE Lower(Lower(base, ShardFactor(shards)), shards)
-----------------------------------------------------------------------------
(***************************************************************************)
(* Batches.  What an operation is estimated to take and what it takes.     *)
(***************************************************************************)
AddCost(dim) == [estimate |-> 29 + 4 * dim, bytes |-> 36 + 4 * dim]
RemoveCost   == [estimate |-> 17, bytes |-> 20]
Record(b)    == b.bytes + 8 + 40 + 8   \* vector length, transaction and record headers
Start        == 80 + 9                 \* initial_write_position

\* Mutant of OpsBySize: the overhead of a record is left out.
OpsBySizeBare(target, dim) == target \div (29 + 4 * dim)
OpsBySize(target, dim) == target \div (29 + 4 * dim + 50)

\* calculate_batch_config: at least ten operations, whatever their size.
Limits(c) ==
  LET target == (c.segment * (4 - c.margin)) \div 4
      most   == OpsBySize(target, c.dim)
  IN [ops |-> Higher(Lower(most, 1000), 10), bytes |-> target, size |-> c.segment, floored |-> most < 10]

NoBatch == [ops |-> 0, estimate |-> 0, bytes |-> 0]
Empty   == [cost |-> RemoveCost, left |-> 0]

\* current_segment: the latest one, or a new one when there is none or not one
\* byte is left in it.
Current(seg, size) ==
  IF seg = Nil THEN [size |-> size, room |-> size - Start]
  ELSE IF seg.room = 0 THEN [size |-> size, room |-> size - Start] ELSE seg

\* flush_batch: a record that does not fit is lost, and the estimate stays.
Written(state, p) ==
  LET seg == Current(state.segment, p.size)
      fits == Record(state.batch) <= seg.room
  IN IF state.batch.ops = 0 THEN state
     ELSE [state EXCEPT !.segment = IF fits THEN [seg EXCEPT !.room = @ - Record(state.batch)] ELSE seg,
                        !.batch = IF fits THEN NoBatch ELSE [NoBatch EXCEPT !.estimate = state.batch.estimate]]

\* add_operation, with the flush a limit asks for.
Joined(state, p, cost) ==
  LET b == [ops |-> state.batch.ops + 1, estimate |-> state.batch.estimate + cost.estimate,
            bytes |-> state.batch.bytes + cost.bytes]
      next == [state EXCEPT !.batch = b]
  IN IF b.ops >= p.ops \/ b.estimate > p.bytes
     THEN [Written(next, p) EXCEPT !.closed = [bytes |-> Record(b), room |-> p.size - Start, floored |-> p.floored]]
     ELSE next

State == [segment |-> segment, batch |-> batch, closed |-> closed]
Logs(state) == /\ segment' = state.segment /\ batch' = state.batch /\ closed' = state.closed

\* shutdown of the processor flushes its batch.
Stopped == IF processor = Nil THEN State ELSE Written(State, processor)

\* Mutant of Starts: what is left of the segment is compared, not its size.
StartsWithRoom(seg) == seg # Nil => seg.room + Start = config.segment
\* WalManager::initialize accepts the latest segment only in the configured size.
Starts(seg) == seg # Nil => seg.size = config.segment
-----------------------------------------------------------------------------
(***************************************************************************)
(* The calls.                                                              *)
(***************************************************************************)
Init ==
  /\ config = Nil /\ meta = Nil /\ saved = Nil /\ backup = Nil
  /\ segment = Nil /\ processor = Nil /\ batch = NoBatch
  /\ queue = Empty /\ closed = Nil
  /\ answer = [call |-> "none", ok |-> TRUE]
  /\ calls = 0 /\ opens = 0 /\ updates = 0

Answers(call, ok) == answer' = [call |-> call, ok |-> ok]

\* CreateIndex::execute, ShardexImpl::create
Create(p) ==
  /\ config = Nil /\ meta = Nil
  /\ LET c == ConfigOf(p) IN
     IF ParamsValid(p) /\ Valid(c)
     THEN config' = c /\ meta' = c /\ saved' = c /\ Answers("create", TRUE)
     ELSE UNCHANGED <<config, meta, saved>> /\ Answers("create", FALSE)
  /\ UNCHANGED <<backup, logging, bounds>>

\* ShardexImpl::open reads the configuration of the metadata.
Open ==
  /\ config = Nil /\ meta # Nil /\ opens < MaxOpens /\ opens' = opens + 1
  /\ config' = meta /\ Answers("open", TRUE)
  /\ UNCHANGED <<meta, saved, backup, logging, calls, updates>>

\* validate_compatibility: the vector size stays; so does the directory here.
Compatible(old, c) == c.dim = old.dim

\* merge_compatible_changes: neither the margin nor the text size.
Merged(old, c) == [c EXCEPT !.margin = old.margin, !.text = old.text]

UpdateConfig(c) ==
  /\ config # Nil /\ updates < MaxUpdates /\ updates' = updates + 1
  /\ IF Valid(c) /\ Compatible(saved, c) /\ Valid(Merged(saved, c))
     THEN config' = c /\ saved' = Merged(saved, c) /\ backup' = saved /\ Answers("update", TRUE)
     ELSE UNCHANGED <<config, saved, backup>> /\ Answers("update", FALSE)
  /\ UNCHANGED <<meta, logging, calls, opens>>

\* restore_config_from_backup
Restore ==
  /\ config # Nil /\ backup # Nil /\ updates < MaxUpdates /\ updates' = updates + 1
  /\ config' = backup /\ saved' = backup /\ Answers("restore", TRUE)
  /\ UNCHANGED <<meta, backup, logging, calls, opens>>

\* A call is made when the task has taken what the one before it sent.
Called == config # Nil /\ queue.left = 0 /\ calls < MaxCalls /\ calls' = calls + 1
Sends(cost, n) == queue' = [cost |-> cost, left |-> n]

\* initialize_batch_processor, then the operations: a start that fails leaves
\* the engine without a processor.
Starting(state, cost, n, call) ==
  /\ Logs([state EXCEPT !.batch = NoBatch])
  /\ IF Starts(state.segment)
     THEN processor' = Limits(config) /\ Sends(cost, n) /\ Answers(call, TRUE)
     ELSE processor' = Nil /\ UNCHANGED queue /\ Answers(call, FALSE)

\* add_postings stops the processor and starts a new one, each time.
AddPostings(n) ==
  /\ Called /\ Starting(Stopped, AddCost(config.dim), n, "add")
  /\ UNCHANGED <<settings, opens, updates>>

\* remove_documents keeps the processor there is, with the limits it has.
RemoveDocuments(n) ==
  /\ Called
  /\ IF processor = Nil THEN Starting(State, RemoveCost, n, "remove")
     ELSE /\ Sends(RemoveCost, n) /\ Answers("remove", TRUE)
          /\ UNCHANGED <<segment, batch, closed, processor>>
  /\ UNCHANGED <<settings, opens, updates>>

\* The task takes an operation.
TaskAdd ==
  /\ processor # Nil /\ queue.left > 0
  /\ Logs(Joined(State, processor, queue.cost)) /\ queue' = [queue EXCEPT !.left = @ - 1]
  /\ UNCHANGED <<settings, processor, answer, bounds>>

\* A tick of the timer, or flush_now.
Flush ==
  /\ processor # Nil /\ queue.left = 0 /\ batch.ops # 0 /\ Logs(Written(State, processor))
  /\ UNCHANGED <<settings, processor, queue, answer, bounds>>

\* shutdown, and a process that ends without one.
Shutdown ==
  /\ config # Nil /\ queue.left = 0 /\ Logs([Stopped EXCEPT !.batch = NoBatch])
  /\ config' = Nil /\ processor' = Nil /\ Answers("shutdown", TRUE)
  /\ UNCHANGED <<meta, saved, backup, queue, bounds>>

Exit ==
  /\ config # Nil /\ config' = Nil /\ processor' = Nil /\ batch' = NoBatch
  /\ queue' = Empty /\ Answers("exit", TRUE)
  /\ UNCHANGED <<meta, saved, backup, segment, closed, bounds>>

Next ==
  \/ \E p \in Params \cup Presets : Create(p)
  \/ Open \/ Restore \/ TaskAdd \/ Flush \/ Shutdown \/ Exit
  \/ \E c \in Configs : UpdateConfig(c)
  \/ \E n \in Bulks : AddPostings(n) \/ RemoveDocuments(n)

Spec == Init /\ [][Next]_vars
-----------------------------------------------------------------------------
(***************************************************************************)
(* Properties.                                                             *)
(***************************************************************************)
\* A batch that its limits close has room in an empty segment, whatever
\* settings were accepted, unless ten operations were allowed although they do
\* not fit: the limits count in estimates, which are not what is written.
BatchesFit == closed # Nil => closed.floored \/ closed.bytes <= closed.room

\* A valid call that changes the index is refused only after settings were
\* updated, be it in an earlier life of the index: a segment made in a new size
\* is refused once the index is reopened with the old one, or that is restored.
RefusedOnlyIfUpdated == answer.call \in {"add", "remove"} /\ ~answer.ok => updates > 0

\* A search within the limits of both checks looks at as many shards as the
\* settings in force allow, and one that names no factor is never refused.
SearchesServed ==
  config # Nil =>
    \A s \in [k : {1, 10000}, slop : {0, 1, 100, 1000}] :
      SearchParams(s) =>
        /\ s.slop = 0 => SearchInput(s)
        /\ SearchInput(s) => SlopUsed(s) \in config.slop.min..config.slop.max

\* More shards, or more dimensions, never make the heuristic search fewer.
SlopGrows ==
  \A dim \in {128, 256, 257, 512, 513}, n \in 0..120 :
    /\ OptimalSlop(dim, n) \in 1..Higher(n, 1)
    /\ OptimalSlop(dim, n) <= OptimalSlop(dim, n + 1)
    /\ OptimalSlop(dim, n) <= OptimalSlop(dim + 1, n)

\* Settings that create, update_config or a search's parameters accept can be
\* worked with: batches fit, nothing valid is refused, searches are served.
SettingsHold == BatchesFit /\ RefusedOnlyIfUpdated /\ SearchesServed

\* Settings that were accepted leave an engine that can still log
\* (shardex.rs:414, "Update configuration with new compatible settings").
UpdateKeepsLogging == answer.call \in {"add", "remove"} => answer.ok
=============================================================================
