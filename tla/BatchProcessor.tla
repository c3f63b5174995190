--------------------------- MODULE BatchProcessor ---------------------------
(***************************************************************************)
(* The write path of Shardex up to the write-ahead log: a client that      *)
(* calls BatchProcessor (src/src/batch_processor.rs), the background task  *)
(* it spawns, the command channel between them, the WalBatchManager that   *)
(* task owns (transactions.rs) and the segments its WalManager fills       *)
(* (wal.rs).                                                               *)
(*                                                                         *)
(* The client's calls take &mut self, so there is one call at a time; it   *)
(* interleaves with the task wherever the call waits.  A handler of the    *)
(* task (one command, one tick) runs to its end without an effective       *)
(* await, so it is one action.  An operation is the number of the          *)
(* add_operation call that issued it: 1, 2, ...  Its content is irrelevant *)
(* here, except for the bytes it takes.                                    *)
(*                                                                         *)
(* A crash is the death of the process.  The segments are memory-mapped    *)
(* files, so what was appended is still there at the next start; a crash   *)
(* in the middle of an append is module WalSegment's subject.              *)
(***************************************************************************)
EXTENDS Naturals, Sequences, Functions

CONSTANTS
  MaxOps,            \* bound: how many operations the client issues
  OpSize,            \* bytes of each operation, as estimated and as serialized
  Invalid,           \* operations WalOperation::validate refuses
  ChannelCap,        \* capacity of the command channel (1000 in the code)
  MaxOpsPerBatch,    \* BatchConfig.max_operations_per_batch
  MaxBatchBytes,     \* BatchConfig.max_batch_size_bytes
  SegmentCapacity,   \* bytes of a WAL segment after its header
  RecordOverhead,    \* record header plus transaction header
  MultiThread,       \* may the task run while the client is inside start()?
  IoErrors           \* may creating or opening a segment fail?

ASSUME BoundsAssumption ==
  /\ MaxOps \in Nat
  /\ OpSize \in [1..MaxOps -> Nat \ {0}]
  /\ Invalid \subseteq 1..MaxOps
  /\ ChannelCap \in Nat \ {0}
  /\ MaxOpsPerBatch \in Nat \ {0}
  /\ MaxBatchBytes \in Nat
  /\ SegmentCapacity \in Nat
  /\ RecordOverhead \in Nat \ {0}
ASSUME ModeAssumption == MultiThread \in BOOLEAN /\ IoErrors \in BOOLEAN

Op == 1..MaxOps
Add(op)  == [cmd |-> "AddOperation", op |-> op]
FlushNow == [cmd |-> "FlushNow", op |-> 0]
Shutdown == [cmd |-> "Shutdown", op |-> 0]
Command  == [cmd : {"AddOperation"}, op : Op] \cup {FlushNow, Shutdown}

VARIABLES
  issued,       \* how many operations add_operation was called with
  pc,           \* where the client's current call is; "idle" between calls
  inRestart,    \* start() was called by restart(), inside add_operation
  pendingOps,   \* BatchProcessor.pending_operations
  hasSender,    \* command_sender.is_some()
  hasHandle,    \* timer_handle.is_some()
  signal,       \* shutdown_signal
  reply,        \* the oneshot answer to FlushNow
  chan,         \* commands in the channel
  rxOpen,       \* the task still holds the receiving end
  task,         \* control state of the background task
  taskOps,      \* pending operations handed to the task, not yet batched
  batch,        \* WalBatchManager.current_batch
  batchSize,    \* WalBatchManager.current_batch_size
  batchBytes,   \* bytes the batch will serialize to
  cur,          \* segment the task's WalManager writes to; 0 for none
  segUsed,      \* write pointer of each segment, by segment number
  log,          \* records of all segments, in the order written
  acked,        \* ghost: operations add_operation answered Ok for
  want,         \* ghost: what the flush or shutdown in progress is to make durable
  covered,      \* ghost: operations a returned call was to make durable, by outcome
  lost          \* ghost: accepted operations the task gave up, by cause

clientVars == <<issued, pc, inRestart, pendingOps, hasSender, hasHandle, signal, reply>>
batchVars  == <<batch, batchSize, batchBytes, cur>>
taskVars   == <<task, taskOps, batchVars>>
walVars    == <<segUsed, log>>
chanVars   == <<chan, rxOpen>>
ghostVars  == <<acked, want, covered, lost>>
vars == <<clientVars, taskVars, walVars, chanVars, ghostVars>>

\* How a flush_now or shutdown ended: the task flushed; the task's flush failed
\* and flush_now dropped that error; the channel was closed; shutdown returned.
Outcomes == {"flushed", "swallowed", "closed", "shutdown"}
\* The operation failed validation; an append was refused for want of room; the
\* task ended holding operations.
Causes == {"invalid", "rejected", "abandoned"}
Dropped == UNION {lost[c] : c \in Causes}
Cover(o, ops) == covered' = [covered EXCEPT ![o] = @ \cup ops]
Lose(c, ops)  == lost' = [lost EXCEPT ![c] = @ \cup ops]

ChanOps == {c.op : c \in {d \in Range(chan) : d.cmd = "AddOperation"}}
Logged == UNION {Range(log[i].ops) : i \in DOMAIN log}

Calls == {"idle", "storeFalse", "addSend", "resend", "flushSend", "flushWait",
          "shutSend", "shutJoin", "dropped"}
TaskStates == {"none", "starting", "running", "exiting", "done"}
-----------------------------------------------------------------------------
\* BatchProcessor::new: no task, and the signal starts in the shutdown state.
Init ==
  /\ pc = "idle" /\ inRestart = FALSE
  /\ pendingOps = <<>> /\ hasSender = FALSE /\ hasHandle = FALSE
  /\ signal = TRUE /\ reply = "none"
  /\ chan = <<>> /\ rxOpen = FALSE
  /\ task = "none" /\ taskOps = <<>>
  /\ batch = <<>> /\ batchSize = 0 /\ batchBytes = 0 /\ cur = 0
  /\ issued = 0 /\ segUsed = <<>> /\ log = <<>>
  /\ acked = {} /\ want = {}
  /\ covered = [o \in Outcomes |-> {}] /\ lost = [c \in Causes |-> {}]
-----------------------------------------------------------------------------
(***************************************************************************)
(* WalManager and WalBatchManager: what the task does in one step.         *)
(***************************************************************************)
\* WalManager::initialize: continue in the newest segment unless it is full.
RecoveredSegment ==
  IF segUsed # <<>> /\ segUsed[Len(segUsed)] < SegmentCapacity THEN Len(segUsed) ELSE 0

\* WalManager::current_segment: rotate only when there is none or none of its
\* bytes are left, which is less than having room for the record.
NeedsRotation(used) == IF cur = 0 THEN TRUE ELSE used[cur] = SegmentCapacity


\* WalSegment::append refuses a record that would pass the end of the segment.
Fits(end) == end <= SegmentCapacity

\* Mutant of Taken: the batch is kept, to be written again.
NotTaken(b) == b

\* What is left in current_batch once flush_batch has taken it for the write.
Taken(b) == <<>>


\* WalBatchManager::flush_batch resets the estimate once the write succeeded.
ResetSize(sz) == 0

\* BatchProcessor::flush_batch over a batch b of `bytes` bytes whose tracked
\* size is sz.  The batch is taken before the write: a record that does not
\* fit is lost, and current_batch_size keeps counting it.
FlushBatch(b, sz, bytes, res) ==
  \/ /\ IoErrors /\ NeedsRotation(segUsed)          \* creating the segment failed
     /\ batch' = b /\ batchSize' = sz /\ batchBytes' = bytes
     /\ res = "err"
     /\ UNCHANGED <<cur, segUsed, log, lost>>
  \/ LET used == IF NeedsRotation(segUsed) THEN Append(segUsed, 0) ELSE segUsed
         seg  == IF NeedsRotation(segUsed) THEN Len(segUsed) + 1 ELSE cur
         end  == used[seg] + RecordOverhead + bytes
     IN /\ cur' = seg
        /\ batch' = Taken(b) /\ batchBytes' = 0
        /\ IF Fits(end)
           THEN /\ segUsed' = [used EXCEPT ![seg] = end] /\ batchSize' = ResetSize(sz)
                /\ log' = Append(log, [seg |-> seg, ops |-> b])
                /\ res = "ok" /\ UNCHANGED lost
           ELSE /\ segUsed' = used /\ batchSize' = sz
                /\ res = "err" /\ Lose("rejected", Range(b)) /\ UNCHANGED log

\* WalBatchManager::add_operation, and the flush it asks for.
AddToBatch(op) ==
  IF op \in Invalid THEN Lose("invalid", {op}) /\ UNCHANGED <<batchVars, walVars>> ELSE
  LET b  == Append(batch, op)
      sz == batchSize + OpSize[op]
      by == batchBytes + OpSize[op]
  IN IF Len(b) >= MaxOpsPerBatch \/ sz > MaxBatchBytes
     THEN \E res \in {"ok", "err"} : FlushBatch(b, sz, by, res)
     ELSE /\ batch' = b /\ batchSize' = sz /\ batchBytes' = by
          /\ UNCHANGED <<cur, segUsed, log, lost>>
-----------------------------------------------------------------------------
(***************************************************************************)
(* The background task.                                                    *)
(***************************************************************************)
\* On a current-thread runtime the task does not run before start() returns.
TaskMayRun == MultiThread \/ pc # "storeFalse"

\* Mutant of TaskTick: the timer only watches the signal.
TaskTickNoFlush ==
  /\ task = "running" /\ TaskMayRun /\ signal
  /\ task' = "exiting"
  /\ UNCHANGED <<taskOps, batchVars, walVars, clientVars, chanVars, ghostVars>>

\* The pending operations handed over by start(), before the loop.
TaskPending ==
  /\ task = "starting" /\ TaskMayRun
  /\ IF taskOps = <<>>
     THEN task' = "running" /\ UNCHANGED <<taskOps, batchVars, walVars, lost>>
     ELSE /\ taskOps' = Tail(taskOps)
          /\ AddToBatch(Head(taskOps))
          /\ UNCHANGED task
  /\ UNCHANGED <<clientVars, chanVars, acked, want, covered>>

\* A timer tick leaves the loop without a flush when the signal is set.
TaskTick ==
  /\ task = "running" /\ TaskMayRun
  /\ IF signal
     THEN task' = "exiting" /\ UNCHANGED <<batchVars, walVars, lost>>
     ELSE /\ batch # <<>>
          /\ \E res \in {"ok", "err"} : FlushBatch(batch, batchSize, batchBytes, res)
          /\ UNCHANGED task
  /\ UNCHANGED <<taskOps, clientVars, chanVars, acked, want, covered>>

Received(c) ==
  /\ task = "running" /\ TaskMayRun
  /\ chan # <<>> /\ Head(chan).cmd = c
  /\ chan' = Tail(chan)
  /\ UNCHANGED <<rxOpen, taskOps, acked, want, covered>>

TaskAdd ==
  /\ Received("AddOperation")
  /\ AddToBatch(Head(chan).op)
  /\ UNCHANGED <<task, clientVars>>

\* Mutant of TaskFlushNow: the flush is answered before it is done.
TaskFlushLater ==
  /\ Received("FlushNow")
  /\ reply' = "ok" /\ UNCHANGED <<batchVars, walVars, lost>>
  /\ UNCHANGED <<task, issued, pc, inRestart, pendingOps, hasSender, hasHandle, signal>>

TaskFlushNow ==
  /\ Received("FlushNow")
  /\ IF batch = <<>>
     THEN reply' = "ok" /\ UNCHANGED <<batchVars, walVars, lost>>
     ELSE \E res \in {"ok", "err"} :
            FlushBatch(batch, batchSize, batchBytes, res) /\ reply' = res
  /\ UNCHANGED <<task, issued, pc, inRestart, pendingOps, hasSender, hasHandle, signal>>

TaskShutdown ==
  /\ Received("Shutdown")
  /\ task' = "exiting"
  /\ IF batch = <<>>
     THEN UNCHANGED <<batchVars, walVars, lost>>
     ELSE \E res \in {"ok", "err"} : FlushBatch(batch, batchSize, batchBytes, res)
  /\ UNCHANGED clientVars

\* recv() answers None once every sender is gone and the buffer is drained.
TaskClosed ==
  /\ task = "running" /\ chan = <<>> /\ ~hasSender
  /\ task' = "exiting"
  /\ UNCHANGED <<taskOps, batchVars, walVars, clientVars, chanVars, ghostVars>>

\* Mutant of ReplyOnExit: the waiting flush is not told.
ReplyKept == reply
ReplyOnExit == IF FlushNow \in Range(chan) THEN "dropped" ELSE reply

\* The task's future ends: its batch, the receiver and every buffered command
\* (with the reply end of a FlushNow) are dropped.
TaskExit ==
  /\ task = "exiting"
  /\ task' = "done" /\ rxOpen' = FALSE /\ chan' = <<>>
  /\ taskOps' = <<>> /\ batch' = <<>> /\ batchSize' = 0 /\ batchBytes' = 0 /\ cur' = 0
  /\ reply' = ReplyOnExit
  /\ Lose("abandoned", Range(batch) \cup Range(taskOps) \cup ChanOps)
  /\ UNCHANGED <<issued, pc, inRestart, pendingOps, hasSender, hasHandle, signal,
                 walVars, acked, want, covered>>

TaskStep == \/ TaskPending \/ TaskTick \/ TaskAdd \/ TaskFlushNow
            \/ TaskShutdown \/ TaskClosed \/ TaskExit
-----------------------------------------------------------------------------
(***************************************************************************)
(* The client's calls.                                                     *)
(***************************************************************************)
\* Mutant of Handover: start() gives the task nothing.
HandoverNothing == <<>>

\* start() up to the spawn.  The sender is stored before the WAL is opened,
\* so a failed start leaves a sender whose receiver is gone.
Handover == pendingOps

Spawn(restarting) ==
  /\ hasSender' = TRUE /\ chan' = <<>>
  /\ \/ /\ IoErrors
        /\ rxOpen' = FALSE /\ hasHandle' = FALSE
        /\ pc' = "idle" /\ inRestart' = FALSE
        /\ UNCHANGED <<pendingOps, taskVars>>
     \/ /\ rxOpen' = TRUE /\ hasHandle' = TRUE
        /\ pc' = "storeFalse" /\ inRestart' = restarting
        /\ task' = "starting" /\ taskOps' = Handover /\ pendingOps' = <<>>
        /\ batch' = <<>> /\ batchSize' = 0 /\ batchBytes' = 0
        /\ cur' = RecoveredSegment

Start ==
  /\ pc = "idle" /\ ~hasHandle
  /\ Spawn(FALSE)
  /\ UNCHANGED <<issued, signal, reply, walVars, ghostVars>>

\* The last statement of start(), which the spawned task races with.
StoreFalse ==
  /\ pc = "storeFalse"
  /\ signal' = FALSE
  /\ pc' = IF inRestart THEN "resend" ELSE "idle"
  /\ inRestart' = FALSE
  /\ UNCHANGED <<issued, pendingOps, hasSender, hasHandle, reply,
                 taskVars, walVars, chanVars, ghostVars>>

AddOperation ==
  /\ pc = "idle" /\ issued < MaxOps
  /\ issued' = issued + 1
  /\ IF hasSender
     THEN pc' = "addSend" /\ UNCHANGED <<pendingOps, acked>>
     ELSE /\ pendingOps' = Append(pendingOps, issued + 1)
          /\ acked' = acked \cup {issued + 1}
          /\ UNCHANGED pc
  /\ UNCHANGED <<inRestart, hasSender, hasHandle, signal, reply,
                 taskVars, walVars, chanVars, want, covered, lost>>

SendAdd ==
  /\ pc \in {"addSend", "resend"}
  /\ rxOpen /\ Len(chan) < ChannelCap
  /\ chan' = Append(chan, Add(issued))
  /\ acked' = acked \cup {issued}
  /\ pc' = "idle"
  /\ UNCHANGED <<issued, inRestart, pendingOps, hasSender, hasHandle, signal, reply,
                 rxOpen, taskVars, walVars, want, covered, lost>>

\* The channel is closed: restart() drops the handle and starts a new task.
SendAddRestart ==
  /\ pc = "addSend" /\ ~rxOpen
  /\ Spawn(TRUE)
  /\ UNCHANGED <<issued, signal, reply, walVars, ghostVars>>

\* Closed again after the restart: the call fails.
ResendFails ==
  /\ pc = "resend" /\ ~rxOpen
  /\ pc' = "idle"
  /\ UNCHANGED <<issued, inRestart, pendingOps, hasSender, hasHandle, signal, reply,
                 taskVars, walVars, chanVars, ghostVars>>

\* flush_now before start() answers Ok: nothing was handed to a task.
CallFlush ==
  /\ pc = "idle" /\ hasSender
  /\ pc' = "flushSend" /\ reply' = "none"
  /\ want' = acked
  /\ UNCHANGED <<issued, inRestart, pendingOps, hasSender, hasHandle, signal,
                 taskVars, walVars, chanVars, acked, covered, lost>>

SendFlush ==
  /\ pc = "flushSend"
  /\ \/ /\ rxOpen /\ Len(chan) < ChannelCap
        /\ chan' = Append(chan, FlushNow) /\ pc' = "flushWait"
        /\ UNCHANGED <<want, covered>>
     \/ /\ ~rxOpen
        /\ pc' = "idle" /\ Cover("closed", want) /\ want' = {}
        /\ UNCHANGED chan
  /\ UNCHANGED <<issued, inRestart, pendingOps, hasSender, hasHandle, signal, reply,
                 rxOpen, taskVars, walVars, acked, lost>>

\* The result inside the reply is discarded: only a dropped reply is an error.
FlushReturns ==
  /\ pc = "flushWait" /\ reply # "none"
  /\ pc' = "idle" /\ want' = {} /\ reply' = "none"
  /\ \/ reply = "dropped" /\ UNCHANGED covered           \* flush_now fails
     \/ reply = "ok" /\ Cover("flushed", want)
     \/ reply = "err" /\ Cover("swallowed", want)
  /\ UNCHANGED <<issued, inRestart, pendingOps, hasSender, hasHandle, signal,
                 taskVars, walVars, chanVars, acked, lost>>

CallShutdown ==
  /\ pc = "idle"
  /\ signal' = TRUE /\ want' = acked
  /\ pc' = IF hasSender THEN "shutSend" ELSE "shutJoin"
  /\ UNCHANGED <<issued, inRestart, pendingOps, hasSender, hasHandle, reply,
                 taskVars, walVars, chanVars, acked, covered, lost>>

SendShutdown ==
  /\ pc = "shutSend"
  /\ \/ rxOpen /\ Len(chan) < ChannelCap /\ chan' = Append(chan, Shutdown)
     \/ ~rxOpen /\ UNCHANGED chan
  /\ pc' = "shutJoin"
  /\ UNCHANGED <<issued, inRestart, pendingOps, hasSender, hasHandle, signal, reply,
                 rxOpen, taskVars, walVars, ghostVars>>

\* handle.await, then the sender is cleared.  Operations still in pendingOps
\* stay there for the next start.  What the task lost is charged to this call.
ShutdownReturns ==
  /\ pc = "shutJoin" /\ (hasHandle => task = "done")
  /\ pc' = "idle" /\ hasSender' = FALSE /\ hasHandle' = FALSE
  /\ Cover("shutdown", want \ Range(pendingOps))
  /\ acked' = acked \cap (Logged \cup Range(pendingOps)) /\ want' = {}
  /\ UNCHANGED <<issued, inRestart, pendingOps, signal, reply,
                 taskVars, walVars, chanVars, lost>>

\* The owner drops the processor without a shutdown: the task is detached.
Drop ==
  /\ pc = "idle"
  /\ pc' = "dropped" /\ hasSender' = FALSE /\ hasHandle' = FALSE /\ pendingOps' = <<>>
  /\ acked' = acked \cap Logged
  /\ UNCHANGED <<issued, inRestart, signal, reply,
                 taskVars, walVars, chanVars, want, covered, lost>>

\* The process dies, or a dropped processor's task has ended, and a new
\* processor is made over the same directory.
Reboot ==
  /\ pc' = "idle" /\ inRestart' = FALSE
  /\ pendingOps' = <<>> /\ hasSender' = FALSE /\ hasHandle' = FALSE
  /\ signal' = TRUE /\ reply' = "none"
  /\ chan' = <<>> /\ rxOpen' = FALSE
  /\ task' = "none" /\ taskOps' = <<>>
  /\ batch' = <<>> /\ batchSize' = 0 /\ batchBytes' = 0 /\ cur' = 0
  /\ acked' = acked \cap Logged /\ want' = {}
  /\ UNCHANGED <<issued, walVars, covered, lost>>

Crash  == pc # "dropped" /\ task # "none" /\ Reboot
Reopen == pc = "dropped" /\ task \in {"none", "done"} /\ Reboot

\* The steps that continue a call already made.
CallStep == \/ StoreFalse \/ SendAdd \/ SendAddRestart \/ ResendFails
            \/ SendFlush \/ FlushReturns \/ SendShutdown \/ ShutdownReturns
NewCall  == Start \/ AddOperation \/ CallFlush \/ CallShutdown \/ Drop \/ Reopen

Next == TaskStep \/ CallStep \/ NewCall \/ Crash

Spec == Init /\ [][Next]_vars

(***************************************************************************)
(* The runtime polls the task (select! picks a ready branch at random, so  *)
(* none is starved) and resumes a waiting call; the timer keeps ticking.   *)
(* Creating a segment may fail any number of times but not for ever.  No   *)
(* call is ever made out of fairness.                                      *)
(***************************************************************************)
Fairness ==
  /\ WF_vars(TaskPending) /\ WF_vars(TaskAdd) /\ WF_vars(TaskFlushNow)
  /\ WF_vars(TaskShutdown) /\ WF_vars(TaskClosed) /\ WF_vars(TaskExit)
  /\ WF_vars(TaskTick /\ batch' = <<>>)
  /\ WF_vars(CallStep)

FairSpec == Spec /\ Fairness
-----------------------------------------------------------------------------
(***************************************************************************)
(* Properties.                                                             *)
(***************************************************************************)
TypeOK ==
  /\ issued \in 0..MaxOps
  /\ pc \in Calls /\ inRestart \in BOOLEAN
  /\ pendingOps \in Seq(Op)
  /\ hasSender \in BOOLEAN /\ hasHandle \in BOOLEAN /\ signal \in BOOLEAN
  /\ reply \in {"none", "ok", "err", "dropped"}
  /\ chan \in Seq(Command) /\ rxOpen \in BOOLEAN
  /\ task \in TaskStates /\ taskOps \in Seq(Op)
  /\ batch \in Seq(Op) /\ batchSize \in Nat /\ batchBytes \in Nat
  /\ segUsed \in Seq(0..SegmentCapacity) /\ cur \in 0..Len(segUsed)
  /\ log \in Seq([seg : Nat, ops : Seq(Op)])
  /\ acked \subseteq Op /\ want \subseteq Op
  /\ covered \in [Outcomes -> SUBSET Op] /\ lost \in [Causes -> SUBSET Op]

\* Replay reads the segments by number and each from its start.
ReadBefore(i, j) == log[i].seg < log[j].seg \/ (log[i].seg = log[j].seg /\ i < j)

\* The log never repeats an operation and never reorders two: as replay reads
\* it, over every segment, crash and restart, the operations appear in the
\* order in which add_operation was called (with gaps for what was lost).
LoggedInOrder ==
  \A i, j \in DOMAIN log : \A k \in DOMAIN log[i].ops, l \in DOMAIN log[j].ops :
    ReadBefore(i, j) \/ (i = j /\ k < l) => log[i].ops[k] < log[j].ops[l]

\* No operation that add_operation accepted disappears: it is in the log, or
\* still on its way there, or in one of the places where the code drops one.
NothingVanishes ==
  acked \subseteq Logged \cup Range(batch) \cup Range(taskOps) \cup ChanOps
                  \cup Range(pendingOps) \cup Dropped

\* When the task answers a flush with Ok, every operation accepted before the
\* call is in the log, except those that failed validation, that an earlier
\* append refused or that an earlier task took with it.
FlushedAreLogged == covered.flushed \subseteq Logged \cup Dropped

\* current_batch_size never falls below what the batch will take in the
\* segment, so a batch is at most one operation over the limit; and it is
\* exact until an append is refused, which leaves it counting the lost batch.
BatchSizeTracksBatch ==
  /\ batchSize >= batchBytes
  /\ lost.rejected = {} => batchSize = batchBytes

\* Every call on the processor returns, whatever the task is doing or whether
\* there is one: the full channel, the dropped reply and the join all end.
EveryCallReturns == pc \notin {"idle", "dropped"} ~> pc \in {"idle", "dropped"}

\* What a task holds reaches the log, is refused by a full segment, or is
\* dropped with the task: no operation waits in a live batch for ever.
EveryOpSettles ==
  \A o \in Op : o \in Range(batch) \cup Range(taskOps) \cup ChanOps ~>
                  o \in Logged \cup Dropped \/ task = "none"

\* Whatever the task and its channel do, neither a caller nor an operation is
\* left hanging in start, add_operation, flush_now, shutdown or a live batch.
WorkSettles == EveryCallReturns /\ EveryOpSettles

\* The number OpLog gives the operations: the one being added does not count
\* until it is in the channel or given up.
Adding == pc \in {"addSend", "resend"} \/ (pc = "storeFalse" /\ inRestart)
LastOp == IF Adding THEN issued - 1 ELSE issued
Waiting == Range(batch) \cup Range(taskOps) \cup ChanOps \cup Range(pendingOps)

\* The processor, its task and the segments together do what OpLog says: an
\* operation is written once, oldest first, and never leaves the log, through
\* restarts, refused appends, failed starts and crashes.
WritePath == INSTANCE OpLog WITH last <- LastOp, waiting <- Waiting, logged <- Logged
ImplementsOpLog == WritePath!Spec

\* What flush_now's Ok says to its caller (docs/api-reference.md:151,
\* "Successfully flushed all operations"), whatever happened inside.
FlushOkIsDurable ==
  covered.flushed \cup covered.swallowed \cup covered.closed \subseteq Logged

\* What shutdown promises (shardex.rs:443, "Shutdown the batch processor and
\* flush remaining operations").
ShutdownFlushesAll == covered.shutdown \subseteq Logged
=============================================================================
