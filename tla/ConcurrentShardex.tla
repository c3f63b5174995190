-------------------------- MODULE ConcurrentShardex --------------------------
(***************************************************************************)
(* Concurrent reads and writes of one index (src/src/concurrent.rs) over   *)
(* the copy-on-write index it wraps (src/src/cow_index.rs).                *)
(*                                                                         *)
(* write_operation is an async fn polled on a multi-threaded runtime; it   *)
(* can be dropped by one of its two timeouts at every await, that is while *)
(* it waits for the coordinator's mutex or for its notification, and       *)
(* nowhere else.  Each critical section of the mutex is two steps, the     *)
(* lock and the body that ends with the unlock, so that the try_lock of    *)
(* WriteCoordinationGuard::drop can find it locked.  A call made later is  *)
(* one that takes its first lock later.                                    *)
(*                                                                         *)
(* The index is the set of the writes it contains.  That the copies share  *)
(* the files of their shards is left out: this module is about the         *)
(* versions of the index and who replaces which.                           *)
(***************************************************************************)
EXTENDS Naturals, Sequences, FiniteSets

CONSTANTS
  Write,        \* the calls of write_operation
  Reader,       \* the threads that call read_operation
  None,         \* no call
  MaxPending    \* the values of config.max_pending_writes

ASSUME ConcurrencyAssumption ==
  /\ IsFiniteSet(Write) /\ IsFiniteSet(Reader)
  /\ None \notin Write
  /\ MaxPending \subseteq Nat

VARIABLES
  maxPending, \* config.max_pending_writes
  lock,       \* the call in a critical section of write_coordinator's mutex
  active,     \* active_writer
  pending,    \* pending_writes, an entry named by its call
  pc,         \* where each write is
  outcome,    \* what each write answers, or is about to
  base,       \* the index version each live IndexWriter was cloned from
  published,  \* the current index: the writes whose changes it contains
  writers,    \* CowInternalMetrics.active_writers
  epoch,      \* epoch
  totalWrites,\* stats.total_writes
  reading,    \* what each reader does
  readers,    \* active_readers
  committed,  \* ghost: the writes that published a version
  slips       \* ghost: what the coordinator let happen

coordinator == <<lock, active, pending, totalWrites>>
cow         == <<base, published, writers, committed>>
reads       == <<reading, readers>>
vars == <<maxPending, coordinator, cow, reads, pc, outcome, epoch, slips>>

Acquire == {"enter", "entering", "queued", "notified", "waking"}
Guarded == {"coordinated", "cloned", "stats", "counting", "dropping"}
Places  == Acquire \cup Guarded \cup {"timedOut", "countingTimeout", "done"}

\* A woken writer took over from an active one; a guard was dropped while the
\* mutex was locked; a notification reached no one.
Slips == {"overrun", "unreleased", "wakeupLost"}

Idle == [at |-> "idle", answered |-> {}, snapshot |-> {}]

Init ==   \* ConcurrentShardex::with_config
  /\ maxPending \in MaxPending
  /\ lock = None /\ active = None /\ pending = <<>> /\ totalWrites = 0
  /\ pc = [c \in Write |-> "enter"] /\ outcome = [c \in Write |-> "none"]
  /\ base = [c \in Write |-> {}] /\ published = {} /\ writers = 0 /\ committed = {}
  /\ epoch = 1
  /\ reading = [r \in Reader |-> Idle] /\ readers = 0
  /\ slips = {}
-----------------------------------------------------------------------------
(***************************************************************************)
(* acquire_write_coordination.                                             *)
(***************************************************************************)
Go(c, from, to) == pc[c] = from /\ pc' = [pc EXCEPT ![c] = to]
Answer(c, o)    == outcome' = [outcome EXCEPT ![c] = o]

\* write_coordinator.lock().await, wherever a write calls it.
Lock(c) ==
  /\ lock = None /\ lock' = c
  /\ \/ Go(c, "enter", "entering")
     \/ Go(c, "notified", "waking")
     \/ Go(c, "stats", "counting")
     \/ Go(c, "timedOut", "countingTimeout")
  /\ UNCHANGED <<active, pending, totalWrites, cow, reads, outcome, epoch, slips>>

Full == Len(pending) >= maxPending

\* Mutant of Free: the active writer is not looked at.
FreeAlways == TRUE
Free == active = None

Refuse(c) ==
  /\ Full
  /\ Go(c, "entering", "done") /\ Answer(c, "error") /\ lock' = None
  /\ UNCHANGED <<active, pending, totalWrites, cow, reads, epoch, slips>>

BecomeActive(c) ==
  /\ active' = c /\ totalWrites' = totalWrites + 1 /\ lock' = None

Proceed(c) ==
  /\ ~Full /\ Free
  /\ Go(c, "entering", "coordinated") /\ BecomeActive(c)
  /\ UNCHANGED <<pending, cow, reads, outcome, epoch, slips>>

Queue(c) ==
  /\ ~Full /\ ~Free
  /\ Go(c, "entering", "queued")
  /\ pending' = Append(pending, c) /\ lock' = None
  /\ UNCHANGED <<active, totalWrites, cow, reads, outcome, epoch, slips>>

\* The notified write does not look whether another is active by now.
Wake(c) ==
  /\ Go(c, "waking", "coordinated") /\ BecomeActive(c)
  /\ slips' = IF active = None THEN slips ELSE slips \cup {"overrun"}
  /\ UNCHANGED <<pending, cow, reads, outcome, epoch>>
-----------------------------------------------------------------------------
(***************************************************************************)
(* perform_coordinated_write, with the guard held, and IndexWriter.        *)
(***************************************************************************)
\* epoch.fetch_add and clone_for_write.
Clone(c) ==
  /\ Go(c, "coordinated", "cloned")
  /\ epoch' = epoch + 1
  /\ base' = [base EXCEPT ![c] = published] /\ writers' = writers + 1
  /\ UNCHANGED <<coordinator, published, committed, reads, outcome, slips>>

\* deep_clone fails.
CloneFails(c) ==
  /\ Go(c, "coordinated", "dropping") /\ Answer(c, "error")
  /\ epoch' = epoch + 1
  /\ UNCHANGED <<coordinator, cow, reads, slips>>

\* Mutant of Version: what LazyIndexWriter::commit_changes publishes.
VersionUnchanged(c) == base[c]
Version(c) == base[c] \cup {c}

\* modified_index.take().
Consumed(c) == base' = [base EXCEPT ![c] = {}]

WriterDropped == writers' = writers - 1

Commit(c) ==
  /\ Go(c, "cloned", "stats") /\ Answer(c, "ok")
  /\ published' = Version(c) /\ committed' = committed \cup {c}
  /\ Consumed(c) /\ writers' = writers - 1
  /\ UNCHANGED <<coordinator, reads, epoch, slips>>

\* The operation answered an error: IndexWriter::discard.
Discard(c) ==
  /\ Go(c, "cloned", "stats") /\ Answer(c, "error")
  /\ Consumed(c) /\ WriterDropped
  /\ UNCHANGED <<coordinator, published, committed, reads, epoch, slips>>

UpdateStats(c) ==
  /\ Go(c, "counting", "dropping") /\ lock' = None
  /\ UNCHANGED <<active, pending, totalWrites, cow, reads, outcome, epoch, slips>>
-----------------------------------------------------------------------------
(***************************************************************************)
(* WriteCoordinationGuard::drop.                                           *)
(***************************************************************************)
\* Mutant of Notified: no one is woken.
NotifiedNone(places) == places
\* The first pending entry is notified if its call still waits for it.
Notified(places) ==
  IF pending # <<>> /\ pc[Head(pending)] = "queued"
  THEN [places EXCEPT ![Head(pending)] = "notified"] ELSE places

AfterDrop(c) == IF outcome[c] = "timeout" THEN "timedOut" ELSE "done"

Drop(c) ==
  /\ pc[c] = "dropping" /\ lock = None
  /\ active' = IF active = c THEN None ELSE active
  /\ pending' = IF pending = <<>> THEN pending ELSE Tail(pending)
  /\ pc' = Notified([pc EXCEPT ![c] = AfterDrop(c)])
  /\ slips' = IF pending # <<>> /\ pc[Head(pending)] # "queued"
              THEN slips \cup {"wakeupLost"} ELSE slips
  /\ UNCHANGED <<lock, totalWrites, cow, reads, outcome, epoch>>

\* try_lock fails: nothing is cleared and no one is notified, now or later.
DropUnreleased(c) ==
  /\ lock # None
  /\ Go(c, "dropping", AfterDrop(c))
  /\ slips' = slips \cup {"unreleased"}
  /\ UNCHANGED <<coordinator, cow, reads, outcome, epoch>>
-----------------------------------------------------------------------------
(***************************************************************************)
(* Timeouts: the future is dropped at one of its awaits.                   *)
(***************************************************************************)
\* Mutant of Acquiring: the wait for the notification is not covered.
AcquiringLock == {"enter", "entering", "notified", "waking"}
Acquiring == Acquire

Unlock(c) == lock' = IF lock = c THEN None ELSE lock
NotificationLost(c) ==
  slips' = IF pc[c] \in {"notified", "waking"} THEN slips \cup {"wakeupLost"} ELSE slips

\* coordination_lock_timeout.  A queued entry stays in pending_writes.
CoordinationTimeout(c) ==
  /\ pc[c] \in Acquiring
  /\ Go(c, pc[c], "done") /\ Answer(c, "error")
  /\ Unlock(c) /\ NotificationLost(c)
  /\ UNCHANGED <<active, pending, totalWrites, cow, reads, epoch>>

\* write_timeout before the write is coordinated.
WriteTimeoutWaiting(c) ==
  /\ pc[c] \in Acquiring
  /\ Go(c, pc[c], "timedOut") /\ Answer(c, "timeout")
  /\ Unlock(c) /\ NotificationLost(c)
  /\ UNCHANGED <<active, pending, totalWrites, cow, reads, epoch>>

\* write_timeout in update_coordination_stats: what was committed stays.
WriteTimeoutWritten(c) ==
  /\ pc[c] \in {"stats", "counting"}
  /\ Go(c, pc[c], "dropping") /\ Answer(c, "timeout") /\ Unlock(c)
  /\ UNCHANGED <<active, pending, totalWrites, cow, reads, epoch, slips>>

\* stats.timeout_count += 1.
CountTimeout(c) ==
  /\ Go(c, "countingTimeout", "done") /\ lock' = None
  /\ UNCHANGED <<active, pending, totalWrites, cow, reads, outcome, epoch, slips>>
-----------------------------------------------------------------------------
(***************************************************************************)
(* read_operation.                                                         *)
(***************************************************************************)
Ok == {c \in Write : pc[c] = "done" /\ outcome[c] = "ok"}

BeginRead(r) ==
  /\ reading[r].at = "idle"
  /\ reading' = [reading EXCEPT ![r] = [at |-> "begun", answered |-> Ok, snapshot |-> {}]]
  /\ readers' = readers + 1
  /\ UNCHANGED <<coordinator, cow, pc, outcome, epoch, slips>>

Snapshot(r) ==   \* CowShardexIndex::read
  /\ reading[r].at = "begun"
  /\ reading' = [reading EXCEPT ![r].at = "reads", ![r].snapshot = published]
  /\ UNCHANGED <<coordinator, cow, readers, pc, outcome, epoch, slips>>

EndRead(r) ==
  /\ reading[r].at = "reads"
  /\ reading' = [reading EXCEPT ![r] = Idle] /\ readers' = readers - 1
  /\ UNCHANGED <<coordinator, cow, pc, outcome, epoch, slips>>
-----------------------------------------------------------------------------
Coordinate(c) == Lock(c) \/ Refuse(c) \/ Proceed(c) \/ Queue(c) \/ Wake(c)
Perform(c)    == Clone(c) \/ CloneFails(c) \/ Commit(c) \/ Discard(c) \/ UpdateStats(c)
Release(c)    == Drop(c) \/ DropUnreleased(c)
TimeOut(c)    == \/ CoordinationTimeout(c) \/ WriteTimeoutWaiting(c)
                 \/ WriteTimeoutWritten(c) \/ CountTimeout(c)
Progress(c)   == Coordinate(c) \/ Perform(c) \/ Release(c) \/ TimeOut(c)
Read(r)       == BeginRead(r) \/ Snapshot(r) \/ EndRead(r)

Next ==
  /\ \/ \E c \in Write : Progress(c)
     \/ \E r \in Reader : Read(r)
  /\ UNCHANGED maxPending

\* The runtime polls a write that can go on, and its timeouts elapse.
Spec == Init /\ [][Next]_vars /\ \A c \in Write : WF_vars(Progress(c) /\ UNCHANGED maxPending)
-----------------------------------------------------------------------------
(***************************************************************************)
(* Properties.                                                             *)
(***************************************************************************)
Holders == {c \in Write : pc[c] \in Guarded}

\* Types, and pending_writes never above max_pending_writes.
TypeOK ==
  /\ maxPending \in MaxPending
  /\ lock \in Write \cup {None} /\ active \in Write \cup {None}
  /\ pending \in Seq(Write) /\ Len(pending) <= maxPending
  /\ pc \in [Write -> Places]
  /\ outcome \in [Write -> {"none", "ok", "error", "timeout"}]
  /\ base \in [Write -> SUBSET Write]
  /\ published \subseteq Write /\ committed \subseteq Write
  /\ writers \in Nat /\ epoch \in Nat /\ totalWrites \in Nat /\ readers \in Nat
  /\ reading \in [Reader -> [at : {"idle", "begun", "reads"},
                             answered : SUBSET Write, snapshot : SUBSET Write]]
  /\ slips \subseteq Slips

\* Writes are serialized, and no committed one is lost, for as long as no
\* notified write took over from one that got in before it: newcomers, guards
\* that fail to release and timeouts never break it.
SerializedUnlessOverrun ==
  "overrun" \notin slips =>
    /\ \A c, d \in Holders : c = d
    /\ committed = published

\* A read sees every write that was answered Ok before the read began, with the
\* same reservation.
ReadsSeeAnswered ==
  "overrun" \notin slips =>
    \A r \in Reader : reading[r].at = "reads" => reading[r].answered \subseteq reading[r].snapshot

\* A write waits in the queue only while another one holds the guard or was
\* notified and will hold it; except after a guard that could not lock the
\* mutex, or a notification that reached a write that had given up.
QueueIsServed ==
  slips \cap {"unreleased", "wakeupLost"} = {} =>
    ((\E c \in Write : pc[c] = "queued") =>
        \E d \in Write : pc[d] \in Guarded \cup {"notified", "waking"})

\* The metrics count what they say: pending_writers the writers cloned and not
\* yet consumed, active_readers the reads in progress, total_writes the writes
\* of the epochs and those about to begin theirs.
CountersAgree ==
  /\ writers = Cardinality({c \in Write : pc[c] = "cloned"})
  /\ readers = Cardinality({r \in Reader : reading[r].at # "idle"})
  /\ totalWrites + 1 = epoch + Cardinality({c \in Write : pc[c] = "coordinated"})

\* Every write_operation returns, whatever became of its notification.
EveryWriteReturns == \A c \in Write : <>(pc[c] = "done")

\* What the documentation of write_operation says of it ("serialized through
\* the write coordinator", concurrent.rs:342): a write answered Ok is in the
\* index.  A write woken while a newcomer is active publishes a version cloned
\* without the newcomer's changes.
AnsweredIsPublished == Ok \subseteq published
=============================================================================
