----------------------------- MODULE Maintenance -----------------------------
(***************************************************************************)
(* The engine looking after itself (src/src/shardex.rs): ShardexImpl's     *)
(* attempt_index_recovery, repair_shard, handle_resource_exhaustion, the   *)
(* flush they call, and retry_transient_operation.  What goes wrong on the *)
(* disk goes wrong between calls; reading, writing and the log may fail in *)
(* any call.  What a replay applies is told by ShardexEngine.tla.          *)
(***************************************************************************)
EXTENDS Naturals, Sequences, SequencesExt, FiniteSets

CONSTANTS
  Shard,
  MaxRetries, FirstWait, LongestWait,  \* MAX_RETRIES, INITIAL_BACKOFF_MS, MAX_BACKOFF_MS
  MaxOps, MaxFaults, MaxCalls, MaxTemp \* bounds: operations, faults, calls, files in temp

MaintenanceAssumption ==
  {MaxRetries, FirstWait, LongestWait, MaxOps, MaxFaults, MaxCalls, MaxTemp} \subseteq Nat

VARIABLES
  shards,   \* of the index the engine has: per shard listed, what the engine finds of it
  layout,   \* layout.meta: "fine", "needs" (recovery) or "unreadable"
  walDir,   \* the directory of the log exists
  temp,     \* files in "temp"
  pending,  \* pending_shard_operations, numbers
  applied,  \* operations applied to the shards, in that order
  skipped,  \* ghost: operations that no shard took
  ops, faults, calls,
  astray,   \* ghost: the engine has the temporary index of a replay that failed
  call,     \* the running call, [name, at, todo, issues, tries, wait, waited]
  answer    \* of the last call, [name, ok, seen, tries, waited], until something happens

vars == <<shards, layout, walDir, temp, pending, applied, skipped, ops, faults, calls, astray, call, answer>>

Idle == [name |-> "none", at |-> "idle", todo |-> <<>>, issues |-> {}, tries |-> 0, wait |-> 0, waited |-> 0]
NoReply == [name |-> "none", ok |-> TRUE, seen |-> {}, tries |-> 0, waited |-> 0]

Init ==
  /\ shards = [s \in Shard |-> "sound"] /\ layout = "fine" /\ walDir = TRUE /\ temp = 0
  /\ pending = <<>> /\ applied = <<>> /\ skipped = {} /\ ops = 0 /\ faults = 0 /\ calls = 0
  /\ astray = FALSE /\ call = Idle /\ answer = NoReply
-----------------------------------------------------------------------------
Begin(name, at) ==
  /\ call = Idle /\ calls < MaxCalls /\ calls' = calls + 1
  /\ call' = [Idle EXCEPT !.name = name, !.at = at, !.wait = FirstWait] /\ answer' = NoReply

Reply(ok, seen) ==
  /\ call' = Idle
  /\ answer' = [name |-> call.name, ok |-> ok, seen |-> seen, tries |-> call.tries, waited |-> call.waited]

At(name, at) == call.name = name /\ call.at = at

\* The state of shards, files and operations.
disk == <<shards, layout, walDir, temp, pending, applied, skipped, ops, faults, astray>>

Write ==
  /\ call = Idle /\ ops < MaxOps /\ ops' = ops + 1 /\ pending' = Append(pending, ops + 1)
  /\ answer' = NoReply
  /\ UNCHANGED <<shards, layout, walDir, temp, applied, skipped, faults, calls, astray, call>>

\* A shard's files are damaged, cannot be opened or have another capacity; or
\* the directory suffers.
Fault ==
  /\ call = Idle /\ faults < MaxFaults /\ faults' = faults + 1
  /\ \/ /\ \E s \in DOMAIN shards, harm \in {"damaged", "unopenable", "resized"} : shards' = [shards EXCEPT ![s] = harm]
        /\ UNCHANGED <<layout, walDir, temp>>
     \/ /\ layout' \in {"needs", "unreadable"} \ {layout} /\ UNCHANGED <<shards, walDir, temp>>
     \/ walDir /\ walDir' = FALSE /\ UNCHANGED <<shards, layout, temp>>
     \/ temp < MaxTemp /\ temp' = temp + 1 /\ UNCHANGED <<shards, layout, walDir>>
  /\ answer' = NoReply /\ UNCHANGED <<pending, applied, skipped, ops, calls, astray, call>>
-----------------------------------------------------------------------------
(***************************************************************************)
(* Consistency and flush.                                                  *)
(***************************************************************************)
Open(s) == shards[s] # "unopenable"

\* validate_consistency
Consistent(left) == left = <<>> /\ \A s \in DOMAIN shards : Open(s) /\ shards[s] # "resized"

\* Mutant of LeftBy: what was applied is kept for the next flush.
LeftByKept(stage) == pending
\* What a flush that comes to this stage leaves: the log is written first.
LeftBy(stage) == IF stage = "log" THEN pending ELSE <<>>

\* flush: an operation that no shard takes is left out; the flush goes on to
\* sync every shard, each of which it has to open, and to validate.
Flush(stage, refused) ==
  /\ stage = "log" \/ stage = "sync" \/ (stage = "checked" /\ \A s \in DOMAIN shards : Open(s))
  /\ pending' = LeftBy(stage)
  /\ IF stage = "log" THEN refused = {} /\ UNCHANGED <<applied, skipped>>
     ELSE /\ applied' = applied \o SelectSeq(pending, LAMBDA o : o \notin refused)
          /\ skipped' = skipped \cup refused

FlushOk(stage) == stage = "checked" /\ Consistent(<<>>)
Stages == {"log", "sync", "checked"}
-----------------------------------------------------------------------------
(***************************************************************************)
(* attempt_index_recovery: consistency, layout.meta, then shard by shard.  *)
(***************************************************************************)
AttemptRecovery ==
  /\ call = Idle /\ calls < MaxCalls /\ calls' = calls + 1
  /\ call' = [Idle EXCEPT !.name = "recovery", !.at = "layout",
                          !.issues = IF Consistent(pending) THEN {} ELSE {"inconsistent"}]
  /\ answer' = NoReply /\ UNCHANGED disk

\* The shards to look at are listed when the replay is over.
Listed(index, issues) ==
  \E order \in SetToSeqs(DOMAIN index) :
    call' = [call EXCEPT !.at = "shards", !.todo = order, !.issues = issues]

\* A replay that fails loses the index to the replayer: an empty one is left.
LoadLayout(replays) ==
  /\ At("recovery", "layout")
  /\ IF layout = "needs" /\ ~replays
     THEN shards' = [s \in {} |-> "sound"] /\ astray' = TRUE /\ Listed(shards', call.issues \cup {"replay"})
     ELSE /\ Listed(shards, call.issues \cup IF layout = "unreadable" THEN {"layout"} ELSE {})
          /\ UNCHANGED <<shards, astray>>
  /\ UNCHANGED <<layout, walDir, temp, pending, applied, skipped, ops, faults, calls, answer>>

\* A shard that cannot be opened is passed over: consistency told of it.
CheckShard ==
  /\ At("recovery", "shards") /\ call.todo # <<>>
  /\ LET s == Head(call.todo) IN
     call' = IF Open(s) /\ shards[s] = "damaged"
             THEN [call EXCEPT !.at = "repair"] ELSE [call EXCEPT !.todo = Tail(@)]
  /\ UNCHANGED <<disk, calls, answer>>

\* Mutant of Rebuilt: a repair is believed.
RebuiltBelieved(s) == {}
\* What is said of a shard that was repaired: it is validated again, and no
\* strategy has changed it.
Rebuilt(s) == IF shards[s] = "damaged" THEN {"still damaged"} ELSE {}

\* repair_shard: what every failed validation says has the word "corruption" in
\* it, so a shard counts as rebuilt when the log's directory exists.
RebuildFromWal ==
  /\ At("recovery", "repair") /\ walDir
  /\ call' = [call EXCEPT !.at = "shards", !.todo = Tail(@), !.issues = @ \cup Rebuilt(Head(call.todo))]
  /\ UNCHANGED <<disk, calls, answer>>

\* The last resort flushes.
ResetShard(stage, refused) ==
  /\ At("recovery", "repair") /\ ~walDir /\ Flush(stage, refused)
  /\ call' = [call EXCEPT !.at = "shards", !.todo = Tail(@),
                !.issues = @ \cup IF FlushOk(stage) THEN Rebuilt(Head(call.todo)) ELSE {"not reset"}]
  /\ UNCHANGED <<shards, layout, walDir, temp, ops, faults, calls, astray, answer>>

Report ==
  /\ At("recovery", "shards") /\ call.todo = <<>>
  /\ Reply(call.issues = {}, {}) /\ UNCHANGED <<disk, calls>>
-----------------------------------------------------------------------------
(***************************************************************************)
(* handle_resource_exhaustion.                                             *)
(***************************************************************************)
Exhaustion(resource) == Begin(resource, "begun") /\ UNCHANGED disk

\* With the disk full, each temporary file may or may not go.
CleanTemp ==
  /\ At("disk_space", "begun") /\ \E n \in 0..temp : temp' = n
  /\ call' = [call EXCEPT !.at = "cleaned", !.tries = temp - temp']
  /\ UNCHANGED <<shards, layout, walDir, pending, applied, skipped, ops, faults, calls, astray, answer>>

\* The flush is all there is to it; only a caller short of memory is told that
\* it failed, and one short of disk space when no file was removed either.
Relieve(stage, refused) ==
  /\ At("memory", "begun") \/ At("disk_space", "cleaned") \/ At("file_handles", "begun")
  /\ Flush(stage, refused)
  /\ Reply(FlushOk(stage) \/ call.name = "file_handles" \/ call.tries > 0, {})
  /\ UNCHANGED <<shards, layout, walDir, temp, ops, faults, calls, astray>>

Unknown == At("other", "begun") /\ Reply(FALSE, {}) /\ UNCHANGED <<disk, calls>>
-----------------------------------------------------------------------------
(***************************************************************************)
(* retry_transient_operation: of an operation that may do anything.        *)
(***************************************************************************)
RetryTransient == Begin("retry", "try") /\ UNCHANGED disk

\* Mutant of Again: whatever failed is tried again.
AgainAlways(result) == call.tries < MaxRetries
\* Err(e) if e.is_transient() && retry_count < MAX_RETRIES
Again(result) == result = "transient" /\ call.tries < MaxRetries

Least(a, b) == IF a < b THEN a ELSE b

Try(result) ==
  /\ At("retry", "try")
  /\ IF result # "ok" /\ Again(result)
     THEN /\ call' = [call EXCEPT !.issues = @ \cup {result}, !.tries = @ + 1, !.waited = @ + call.wait,
                                  !.wait = Least(2 * @, LongestWait)]
          /\ UNCHANGED answer
     ELSE Reply(result = "ok", call.issues \cup {result})
  /\ UNCHANGED <<disk, calls>>
-----------------------------------------------------------------------------
Next ==
  \/ Write \/ Fault
  \/ AttemptRecovery \/ \E replays \in BOOLEAN : LoadLayout(replays)
  \/ CheckShard \/ RebuildFromWal \/ Report
  \/ \E resource \in {"memory", "disk_space", "file_handles", "other"} : Exhaustion(resource)
  \/ \E stage \in Stages, refused \in SUBSET ToSet(pending) : ResetShard(stage, refused) \/ Relieve(stage, refused)
  \/ CleanTemp \/ Unknown
  \/ RetryTransient \/ \E result \in {"ok", "transient", "permanent"} : Try(result)

Spec == Init /\ [][Next]_vars
-----------------------------------------------------------------------------
(***************************************************************************)
(* Properties.                                                             *)
(***************************************************************************)
\* A recovery that answers Ok leaves nothing to recover, although no repair
\* repairs anything: every listed shard can be opened, has the right capacity and
\* validates, layout.meta can be read, no operation waits and, unless an earlier
\* replay failed, the engine has all its shards.
RecoveryIsHonest ==
  answer.name = "recovery" /\ answer.ok =>
    /\ pending = <<>> /\ layout # "unreadable" /\ (astray \/ DOMAIN shards = Shard)
    /\ \A s \in DOMAIN shards : shards[s] = "sound"

\* Every operation is applied at most once and in order, is left out by some
\* shard or still waits, whatever stopped the flushes and however often they
\* were called.
OpsAppliedOnce ==
  LET seen == applied \o pending
  IN /\ \A i, j \in DOMAIN seen : i < j => seen[i] < seen[j]
     /\ ToSet(seen) \cup skipped = 1..ops /\ ToSet(seen) \cap skipped = {}

\* A retry ends with the first success or permanent error, or with a transient
\* error after the last try and no later; no wait is longer than the longest.
RetryIsBounded ==
  answer.name = "retry" =>
    /\ answer.tries <= MaxRetries /\ answer.waited <= answer.tries * LongestWait
    /\ answer.ok = ("permanent" \notin answer.seen /\ "ok" \in answer.seen)
    /\ ~answer.ok /\ "permanent" \notin answer.seen => answer.tries = MaxRetries

\* attempt_index_recovery, flush and retry_transient_operation mean what they
\* answer, whatever damage, exhaustion or failure they meet.
MaintenanceHolds == RecoveryIsHonest /\ OpsAppliedOnce /\ RetryIsBounded
=============================================================================
