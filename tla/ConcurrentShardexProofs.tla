----------------------- MODULE ConcurrentShardexProofs -----------------------
(***************************************************************************)
(* Theorems of ConcurrentShardex, for any number of writes and readers and *)
(* any max_pending_writes.                                                 *)
(***************************************************************************)
EXTENDS ConcurrentShardex, SequenceTheorems, FiniteSetTheorems, TLAPS

USE ConcurrencyAssumption DEF ConcurrencyAssumption, Idle
-----------------------------------------------------------------------------
(***************************************************************************)
(* Sequences.                                                              *)
(***************************************************************************)
\* What the operations on sequences do to the set of their elements.
LEMMA RangeEmpty == Range(<<>>) = {}
BY DEF Range

LEMMA RangeAppend ==
  ASSUME NEW S, NEW s \in Seq(S), NEW e \in S
  PROVE  Range(Append(s, e)) = Range(s) \cup {e}
<1>1. PICK u : u = <<e>>
  OBVIOUS
<1>2. u \in Seq(S) /\ Append(s, e) = s \o u /\ Range(u) = {e}
  BY <1>1 DEF Range
<1> QED BY <1>2, RangeConcatenation

\* They are the head and those of the tail.
LEMMA RangeHeadTail ==
  ASSUME NEW S, NEW s \in Seq(S), s # <<>>
  PROVE  /\ Head(s) \in S /\ Tail(s) \in Seq(S)
         /\ Range(s) = {Head(s)} \cup Range(Tail(s))
<1>1. PICK u, t : u = <<Head(s)>> /\ t = Tail(s)
  OBVIOUS
<1>2. u \in Seq(S) /\ t \in Seq(S) /\ s = u \o t /\ Head(s) \in S
  BY <1>1
<1>3. Range(u) = {Head(s)}
  BY <1>1 DEF Range
<1>4. Range(u \o t) = Range(u) \cup Range(t)
  BY <1>2, RangeConcatenation
<1> QED BY <1>1, <1>2, <1>3, <1>4
-----------------------------------------------------------------------------
(***************************************************************************)
(* The inductive invariant.                                                *)
(***************************************************************************)
\* The sets that the metrics count.
Cloned      == {c \in Write : pc[c] = "cloned"}
Coordinated == {c \in Write : pc[c] = "coordinated"}
Reads       == {r \in Reader : reading[r].at # "idle"}

\* A write is answered Ok after it committed, and a read knows of no other.
OkIsCommitted ==
  /\ \A c \in Write : outcome[c] = "ok" => c \in committed
  /\ \A r \in Reader : reading[r].answered \subseteq committed

\* Until a woken write overruns another: the active writer is the one call that
\* holds a guard, its clone is the current index, and the index has every
\* committed write.
Serial ==
  "overrun" \notin slips =>
    /\ \A c \in Holders : active = c
    /\ committed = published
    /\ \A c \in Cloned : base[c] = published
    /\ \A r \in Reader : reading[r].at = "reads" => reading[r].answered \subseteq reading[r].snapshot

\* A write that waits in the queue has its entry; the active writer holds its
\* guard unless one was dropped without being released.
QueueOrder ==
  /\ \A c \in Write : pc[c] = "queued" => c \in Range(pending)
  /\ "unreleased" \notin slips => (active # None => active \in Holders)

IInv == TypeOK /\ CountersAgree /\ OkIsCommitted /\ Serial /\ QueueOrder /\ QueueIsServed
-----------------------------------------------------------------------------
(***************************************************************************)
(* Single steps.                                                           *)
(***************************************************************************)
\* What a guard that is released does: its call is done, the first pending
\* write is notified if it still waits, and everyone else stays.
LEMMA DropEffect ==
  ASSUME TypeOK, NEW c \in Write, Drop(c)
  PROVE  /\ pc[c] = "dropping"
         /\ pc' \in [Write -> Places]
         /\ pc'[c] \in {"timedOut", "done"}
         /\ pending' \in Seq(Write) /\ Len(pending') <= Len(pending)
         /\ \A d \in Write \ {c} :
              \/ pc'[d] = pc[d] /\ (pc[d] = "queued" /\ pending # <<>> => d # Head(pending))
              \/ pc[d] = "queued" /\ pc'[d] = "notified"
         /\ pc[c] # "queued"
<1>1. pending # <<>> => /\ Head(pending) \in Write /\ Tail(pending) \in Seq(Write)
                        /\ Len(Tail(pending)) = Len(pending) - 1 /\ Len(pending) \in Nat
  BY HeadTailProperties, LenProperties DEF TypeOK
<1>2. AfterDrop(c) \in {"timedOut", "done"}
  BY DEF AfterDrop
<1> DEFINE places == [pc EXCEPT ![c] = AfterDrop(c)]
<1>3. /\ places \in [Write -> Places] /\ places[c] = AfterDrop(c)
      /\ \A d \in Write \ {c} : places[d] = pc[d]
  BY <1>2 DEF TypeOK, Places
<1>4. pc' = Notified(places) /\ pc[c] = "dropping"
  BY DEF Drop
<1> HIDE DEF places
<1>5. pending' \in Seq(Write) /\ Len(pending') <= Len(pending)
  BY <1>1, LenProperties DEF Drop, TypeOK
<1>6. CASE pending # <<>> /\ pc[Head(pending)] = "queued"
  <2>1. pc' = [places EXCEPT ![Head(pending)] = "notified"] /\ Head(pending) # c
    BY <1>4, <1>6 DEF Notified
  <2>2. pc' \in [Write -> Places]
    BY <2>1, <1>1, <1>3, <1>6 DEF Places, Acquire
  <2> QED BY <2>1, <2>2, <1>1, <1>2, <1>3, <1>4, <1>5, <1>6
<1>7. CASE ~(pending # <<>> /\ pc[Head(pending)] = "queued")
  <2>1. pc' = places
    BY <1>4, <1>7 DEF Notified
  <2> QED BY <2>1, <1>1, <1>2, <1>3, <1>4, <1>5, <1>7
<1> QED BY <1>6, <1>7

\* Types, but for the counters.
Shape ==
  /\ maxPending \in MaxPending
  /\ lock \in Write \cup {None} /\ active \in Write \cup {None}
  /\ pending \in Seq(Write) /\ Len(pending) <= maxPending
  /\ pc \in [Write -> Places]
  /\ outcome \in [Write -> {"none", "ok", "error", "timeout"}]
  /\ base \in [Write -> SUBSET Write]
  /\ published \subseteq Write /\ committed \subseteq Write
  /\ reading \in [Reader -> [at : {"idle", "begun", "reads"},
                             answered : SUBSET Write, snapshot : SUBSET Write]]
  /\ slips \subseteq Slips

\* Every step keeps the types.
LEMMA ShapeStep ==
  ASSUME TypeOK, Next
  PROVE  Shape'
<1> USE DEF TypeOK, Shape, Go, Answer, coordinator, cow, reads, Places, Acquire, Guarded, Slips
<1>0. UNCHANGED maxPending /\ maxPending \in Nat
  BY DEF Next
<1>1. ASSUME NEW c \in Write, Coordinate(c) PROVE Shape'
  <2>1. CASE Lock(c)
    BY <2>1, <1>0 DEF Lock
  <2>2. CASE Refuse(c)
    BY <2>2, <1>0 DEF Refuse
  <2>3. CASE Proceed(c)
    BY <2>3, <1>0 DEF Proceed, BecomeActive
  <2>4. CASE Queue(c)
    <3>1. pending' \in Seq(Write) /\ Len(pending') = Len(pending) + 1 /\ Len(pending) \in Nat
      BY <2>4, AppendProperties, LenProperties DEF Queue
    <3>2. Len(pending') <= maxPending
      BY <2>4, <3>1, <1>0 DEF Queue, Full
    <3> QED BY <2>4, <3>1, <3>2, <1>0 DEF Queue
  <2>5. CASE Wake(c)
    BY <2>5, <1>0 DEF Wake, BecomeActive
  <2> QED BY <1>1, <2>1, <2>2, <2>3, <2>4, <2>5 DEF Coordinate
<1>2. ASSUME NEW c \in Write, Perform(c) PROVE Shape'
  <2>1. CASE Clone(c)
    BY <2>1, <1>0 DEF Clone
  <2>2. CASE CloneFails(c)
    BY <2>2, <1>0 DEF CloneFails
  <2>3. CASE Commit(c)
    BY <2>3, <1>0 DEF Commit, Version, Consumed
  <2>4. CASE Discard(c)
    BY <2>4, <1>0 DEF Discard, Consumed
  <2>5. CASE UpdateStats(c)
    BY <2>5, <1>0 DEF UpdateStats
  <2> QED BY <1>2, <2>1, <2>2, <2>3, <2>4, <2>5 DEF Perform
<1>3. ASSUME NEW c \in Write, Release(c) PROVE Shape'
  <2>1. CASE Drop(c)
    <3>1. /\ pc' \in [Write -> Places] /\ pending' \in Seq(Write)
          /\ Len(pending') <= Len(pending) /\ Len(pending) \in Nat /\ Len(pending') \in Nat
      BY <2>1, DropEffect, LenProperties
    <3>2. Len(pending') <= maxPending
      BY <3>1, <1>0
    <3> QED BY <2>1, <3>1, <3>2, <1>0 DEF Drop
  <2>2. CASE DropUnreleased(c)
    BY <2>2, <1>0 DEF DropUnreleased, AfterDrop
  <2> QED BY <1>3, <2>1, <2>2 DEF Release
<1>4. ASSUME NEW c \in Write, TimeOut(c) PROVE Shape'
  <2> USE DEF Unlock, NotificationLost
  <2>1. CASE CoordinationTimeout(c)
    BY <2>1, <1>0 DEF CoordinationTimeout
  <2>2. CASE WriteTimeoutWaiting(c)
    BY <2>2, <1>0 DEF WriteTimeoutWaiting
  <2>3. CASE WriteTimeoutWritten(c)
    BY <2>3, <1>0 DEF WriteTimeoutWritten
  <2>4. CASE CountTimeout(c)
    BY <2>4, <1>0 DEF CountTimeout
  <2> QED BY <1>4, <2>1, <2>2, <2>3, <2>4 DEF TimeOut
<1>5. ASSUME NEW r \in Reader, Read(r) PROVE Shape'
  <2> DEFINE Reading == [at : {"idle", "begun", "reads"}, answered : SUBSET Write, snapshot : SUBSET Write]
  <2>0. reading \in [Reader -> Reading] /\ Ok \subseteq Write /\ published \subseteq Write
    BY <1>0 DEF Ok
  <2>1. CASE BeginRead(r)
    <3>1. [at |-> "begun", answered |-> Ok, snapshot |-> {}] \in Reading
      BY <2>0
    <3>2. reading' \in [Reader -> Reading]
      BY <2>0, <2>1, <3>1 DEF BeginRead
    <3> QED BY <2>1, <3>2, <1>0 DEF BeginRead
  <2>2. CASE Snapshot(r)
    <3>1. [reading[r] EXCEPT !.at = "reads", !.snapshot = published] \in Reading
      BY <2>0
    <3>2. reading' \in [Reader -> Reading]
      BY <2>0, <2>2, <3>1 DEF Snapshot
    <3> QED BY <2>2, <3>2, <1>0 DEF Snapshot
  <2>3. CASE EndRead(r)
    <3>1. Idle \in Reading
      BY DEF Idle
    <3>2. reading' \in [Reader -> Reading]
      BY <2>0, <2>3, <3>1 DEF EndRead
    <3> QED BY <2>3, <3>2, <1>0 DEF EndRead
  <2> QED BY <1>5, <2>1, <2>2, <2>3 DEF Read
<1> QED BY <1>1, <1>2, <1>3, <1>4, <1>5 DEF Next, Progress
-----------------------------------------------------------------------------
(***************************************************************************)
(* The counters.                                                           *)
(***************************************************************************)
LEMMA CountedAreFinite ==
  /\ IsFiniteSet(Cloned) /\ IsFiniteSet(Coordinated) /\ IsFiniteSet(Reads)
  /\ Cardinality(Cloned) \in Nat /\ Cardinality(Coordinated) \in Nat /\ Cardinality(Reads) \in Nat
<1>1. Cloned \subseteq Write /\ Coordinated \subseteq Write /\ Reads \subseteq Reader
  BY DEF Cloned, Coordinated, Reads
<1>2. IsFiniteSet(Cloned) /\ IsFiniteSet(Coordinated) /\ IsFiniteSet(Reads)
  BY <1>1, FS_Subset
<1> QED BY <1>2, FS_CardinalityType

\* How a step changes what is counted.
Grows(S, T, x)   == x \notin S /\ T = S \cup {x}
Shrinks(S, T, x) == x \in S /\ T = S \ {x}

\* One more element counts one more.
LEMMA CountGrows ==
  ASSUME NEW S, NEW T, NEW x, IsFiniteSet(S), Grows(S, T, x)
  PROVE  Cardinality(T) = Cardinality(S) + 1
BY FS_AddElement DEF Grows

\* One element less counts one less.
LEMMA CountShrinks ==
  ASSUME NEW S, NEW T, NEW x, IsFiniteSet(S), Shrinks(S, T, x)
  PROVE  Cardinality(T) = Cardinality(S) - 1 /\ Cardinality(S) \in Nat \ {0}
<1>1. Cardinality(T) = Cardinality(S) - 1 /\ IsFiniteSet(T)
  BY FS_RemoveElement DEF Shrinks
<1>2. Cardinality(S) \in Nat /\ Cardinality(T) \in Nat
  BY <1>1, FS_CardinalityType
<1> QED BY <1>1, <1>2

\* A write that goes from one place to another leaves the sets of the others.
LEMMA GoCounts ==
  ASSUME TypeOK, NEW c \in Write, NEW from, NEW to, Go(c, from, to), from # to
  PROVE  /\ from # "cloned" /\ to # "cloned" => Cloned' = Cloned
         /\ from = "cloned" => Shrinks(Cloned, Cloned', c)
         /\ to = "cloned" => Grows(Cloned, Cloned', c)
         /\ from # "coordinated" /\ to # "coordinated" => Coordinated' = Coordinated
         /\ from = "coordinated" => Shrinks(Coordinated, Coordinated', c)
         /\ to = "coordinated" => Grows(Coordinated, Coordinated', c)
<1>1. pc[c] = from /\ pc'[c] = to /\ \A d \in Write \ {c} : pc'[d] = pc[d]
  BY DEF Go, TypeOK
<1> QED BY <1>1 DEF Cloned, Coordinated, Grows, Shrinks

\* The counters agree after the step, and are numbers.
Counted == CountersAgree /\ writers \in Nat /\ epoch \in Nat /\ totalWrites \in Nat /\ readers \in Nat

\* The sum the counters are checked against, in the counted sets.
Sums(cloned, coordinated, readsNow) ==
  /\ writers = cloned /\ readers = readsNow /\ totalWrites + 1 = epoch + coordinated
  /\ writers \in Nat /\ epoch \in Nat /\ totalWrites \in Nat /\ readers \in Nat

\* The counters against the cardinals, before and after a step.
LEMMA CountedIsSums ==
  /\ Counted => Sums(Cardinality(Cloned), Cardinality(Coordinated), Cardinality(Reads))
  /\ Counted' <=> /\ writers' = Cardinality(Cloned') /\ readers' = Cardinality(Reads')
                  /\ totalWrites' + 1 = epoch' + Cardinality(Coordinated')
                  /\ writers' \in Nat /\ epoch' \in Nat /\ totalWrites' \in Nat /\ readers' \in Nat
BY DEF Counted, CountersAgree, Cloned, Coordinated, Reads, Sums

\* A step that moves no counter and none of the counted sets.
LEMMA QuietStep ==
  ASSUME Counted, UNCHANGED <<writers, epoch, totalWrites, readers>>,
         Cloned' = Cloned, Coordinated' = Coordinated, Reads' = Reads
  PROVE  Counted'
<1>1. /\ Cardinality(Cloned') = Cardinality(Cloned) /\ Cardinality(Reads') = Cardinality(Reads)
      /\ Cardinality(Coordinated') = Cardinality(Coordinated)
  OBVIOUS
<1> QED BY <1>1, CountedIsSums DEF Sums

\* Every step keeps the counters in step with what they count.
LEMMA CountersStep ==
  ASSUME TypeOK, CountersAgree, Next
  PROVE  Counted'
<1> USE DEF coordinator, cow, reads
<1>1. Counted
  BY DEF Counted, TypeOK
<1>2. /\ IsFiniteSet(Cloned) /\ IsFiniteSet(Coordinated) /\ IsFiniteSet(Reads)
      /\ Cardinality(Cloned) \in Nat /\ Cardinality(Coordinated) \in Nat /\ Cardinality(Reads) \in Nat
  BY CountedAreFinite
<1>3. reading' = reading => Reads' = Reads
  BY DEF Reads
<1>4. ASSUME NEW c \in Write, Coordinate(c) PROVE Counted'
  <2>1. CASE Lock(c)
    <3>1. Cloned' = Cloned /\ Coordinated' = Coordinated
      BY <2>1, GoCounts DEF Lock
    <3> QED BY <2>1, <3>1, <1>1, <1>3, QuietStep DEF Lock
  <2>2. CASE Refuse(c)
    <3>1. Cloned' = Cloned /\ Coordinated' = Coordinated
      BY <2>2, GoCounts DEF Refuse
    <3> QED BY <2>2, <3>1, <1>1, <1>3, QuietStep DEF Refuse
  <2>3. CASE Queue(c)
    <3>1. Cloned' = Cloned /\ Coordinated' = Coordinated
      BY <2>3, GoCounts DEF Queue
    <3> QED BY <2>3, <3>1, <1>1, <1>3, QuietStep DEF Queue
  <2>4. CASE Proceed(c) \/ Wake(c)
    <3>1. Cloned' = Cloned /\ Grows(Coordinated, Coordinated', c)
      BY <2>4, GoCounts DEF Proceed, Wake
    <3>2. Cardinality(Coordinated') = Cardinality(Coordinated) + 1
      BY <3>1, <1>2, CountGrows
    <3>3. totalWrites' = totalWrites + 1 /\ UNCHANGED <<writers, epoch, readers>> /\ Reads' = Reads
      BY <2>4, <1>3 DEF Proceed, Wake, BecomeActive
    <3> QED BY <3>1, <3>2, <3>3, <1>1, <1>2, CountedIsSums DEF Sums
  <2> QED BY <1>4, <2>1, <2>2, <2>3, <2>4 DEF Coordinate
<1>5. ASSUME NEW c \in Write, Perform(c) PROVE Counted'
  <2>1. CASE Clone(c)
    <3>1. Grows(Cloned, Cloned', c) /\ Shrinks(Coordinated, Coordinated', c)
      BY <2>1, GoCounts DEF Clone
    <3>2. /\ Cardinality(Cloned') = Cardinality(Cloned) + 1
          /\ Cardinality(Coordinated') = Cardinality(Coordinated) - 1
      BY <3>1, <1>2, CountGrows, CountShrinks
    <3>3. /\ epoch' = epoch + 1 /\ writers' = writers + 1
          /\ UNCHANGED <<totalWrites, readers>> /\ Reads' = Reads
      BY <2>1, <1>3 DEF Clone
    <3> QED BY <3>2, <3>3, <1>1, <1>2, CountedIsSums DEF Sums
  <2>2. CASE CloneFails(c)
    <3>1. Cloned' = Cloned /\ Shrinks(Coordinated, Coordinated', c)
      BY <2>2, GoCounts DEF CloneFails
    <3>2. Cardinality(Coordinated') = Cardinality(Coordinated) - 1
      BY <3>1, <1>2, CountShrinks
    <3>3. epoch' = epoch + 1 /\ UNCHANGED <<writers, totalWrites, readers>> /\ Reads' = Reads
      BY <2>2, <1>3 DEF CloneFails
    <3> QED BY <3>1, <3>2, <3>3, <1>1, <1>2, CountedIsSums DEF Sums
  <2>3. CASE Commit(c) \/ Discard(c)
    <3>1. Shrinks(Cloned, Cloned', c) /\ Coordinated' = Coordinated
      BY <2>3, GoCounts DEF Commit, Discard
    <3>2. Cardinality(Cloned') = Cardinality(Cloned) - 1 /\ Cardinality(Cloned) \in Nat \ {0}
      BY <3>1, <1>2, CountShrinks
    <3>3. writers' = writers - 1 /\ UNCHANGED <<epoch, totalWrites, readers>> /\ Reads' = Reads
      BY <2>3, <1>3 DEF Commit, Discard, WriterDropped
    <3> QED BY <3>1, <3>2, <3>3, <1>1, <1>2, CountedIsSums DEF Sums
  <2>4. CASE UpdateStats(c)
    <3>1. Cloned' = Cloned /\ Coordinated' = Coordinated
      BY <2>4, GoCounts DEF UpdateStats
    <3> QED BY <2>4, <3>1, <1>1, <1>3, QuietStep DEF UpdateStats
  <2> QED BY <1>5, <2>1, <2>2, <2>3, <2>4 DEF Perform
<1>6. ASSUME NEW c \in Write, Release(c) PROVE Counted'
  <2>1. CASE Drop(c)
    <3>1. Cloned' = Cloned /\ Coordinated' = Coordinated
      BY <2>1, DropEffect DEF Cloned, Coordinated
    <3> QED BY <2>1, <3>1, <1>1, <1>3, QuietStep DEF Drop
  <2>2. CASE DropUnreleased(c)
    <3>1. Cloned' = Cloned /\ Coordinated' = Coordinated
      BY <2>2, GoCounts DEF DropUnreleased, AfterDrop
    <3> QED BY <2>2, <3>1, <1>1, <1>3, QuietStep DEF DropUnreleased
  <2> QED BY <1>6, <2>1, <2>2 DEF Release
<1>7. ASSUME NEW c \in Write, TimeOut(c) PROVE Counted'
  <2>1. \E to \in {"done", "timedOut", "dropping"} :
          Go(c, pc[c], to) /\ pc[c] \in Acquire \cup {"stats", "counting", "countingTimeout"}
    BY <1>7 DEF TimeOut, CoordinationTimeout, WriteTimeoutWaiting, WriteTimeoutWritten, CountTimeout,
                Acquiring, Go
  <2>2. Cloned' = Cloned /\ Coordinated' = Coordinated
    BY <2>1, GoCounts DEF Acquire
  <2>3. UNCHANGED <<writers, epoch, totalWrites, readers, reading>>
    BY <1>7 DEF TimeOut, CoordinationTimeout, WriteTimeoutWaiting, WriteTimeoutWritten, CountTimeout
  <2> QED BY <2>2, <2>3, <1>1, <1>3, QuietStep
<1>8. ASSUME NEW r \in Reader, Read(r) PROVE Counted'
  <2>1. UNCHANGED <<pc, writers, epoch, totalWrites>>
    BY <1>8 DEF Read, BeginRead, Snapshot, EndRead
  <2>2. Cloned' = Cloned /\ Coordinated' = Coordinated
    BY <2>1 DEF Cloned, Coordinated
  <2>3. CASE BeginRead(r)
    <3>1. Grows(Reads, Reads', r) /\ readers' = readers + 1
      BY <2>3 DEF BeginRead, Reads, Grows, TypeOK
    <3>2. Cardinality(Reads') = Cardinality(Reads) + 1
      BY <3>1, <1>2, CountGrows
    <3> QED BY <2>1, <2>2, <3>1, <3>2, <1>1, <1>2, CountedIsSums DEF Sums
  <2>4. CASE Snapshot(r)
    <3>1. Reads' = Reads /\ readers' = readers
      BY <2>4 DEF Snapshot, Reads, TypeOK
    <3> QED BY <2>1, <2>2, <3>1, <1>1, QuietStep
  <2>5. CASE EndRead(r)
    <3>1. Shrinks(Reads, Reads', r) /\ readers' = readers - 1
      BY <2>5 DEF EndRead, Reads, Shrinks, TypeOK
    <3>2. Cardinality(Reads') = Cardinality(Reads) - 1 /\ Cardinality(Reads) \in Nat \ {0}
      BY <3>1, <1>2, CountShrinks
    <3> QED BY <2>1, <2>2, <3>1, <3>2, <1>1, <1>2, CountedIsSums DEF Sums
  <2> QED BY <1>8, <2>3, <2>4, <2>5 DEF Read
<1> QED BY <1>4, <1>5, <1>6, <1>7, <1>8 DEF Next, Progress

\* Both together.
LEMMA TypeStep ==
  ASSUME TypeOK, CountersAgree, Next
  PROVE  TypeOK' /\ CountersAgree'
<1>1. Shape' /\ Counted'
  BY ShapeStep, CountersStep
<1> QED BY <1>1 DEF Shape, Counted, TypeOK
-----------------------------------------------------------------------------
(***************************************************************************)
(* Commits.                                                                *)
(***************************************************************************)
LEMMA CommittedStep ==
  ASSUME TypeOK, OkIsCommitted, Next
  PROVE  OkIsCommitted'
<1> USE DEF OkIsCommitted, TypeOK, coordinator, cow, reads
<1>1. ASSUME UNCHANGED <<committed, reading>>,
             \A c \in Write : outcome'[c] = "ok" => outcome[c] = "ok"
      PROVE  OkIsCommitted'
  BY <1>1
<1>2. ASSUME NEW c \in Write, Coordinate(c) PROVE OkIsCommitted'
  BY <1>2, <1>1 DEF Coordinate, Lock, Refuse, Proceed, Queue, Wake, Answer
<1>3. ASSUME NEW c \in Write, Perform(c) PROVE OkIsCommitted'
  <2>1. CASE Commit(c)
    BY <2>1 DEF Commit, Answer
  <2>2. CASE ~Commit(c)
    BY <1>3, <2>2, <1>1 DEF Perform, Clone, CloneFails, Discard, UpdateStats, Answer
  <2> QED BY <2>1, <2>2
<1>4. ASSUME NEW c \in Write, Release(c) PROVE OkIsCommitted'
  BY <1>4, <1>1 DEF Release, Drop, DropUnreleased
<1>5. ASSUME NEW c \in Write, TimeOut(c) PROVE OkIsCommitted'
  BY <1>5, <1>1 DEF TimeOut, CoordinationTimeout, WriteTimeoutWaiting, WriteTimeoutWritten,
                    CountTimeout, Answer
<1>6. ASSUME NEW r \in Reader, Read(r) PROVE OkIsCommitted'
  <2>1. CASE BeginRead(r)
    BY <2>1 DEF BeginRead, Ok
  <2>2. CASE Snapshot(r)
    BY <2>2 DEF Snapshot
  <2>3. CASE EndRead(r)
    BY <2>3 DEF EndRead
  <2> QED BY <1>6, <2>1, <2>2, <2>3 DEF Read
<1> QED BY <1>2, <1>3, <1>4, <1>5, <1>6 DEF Next, Progress

\* Every step keeps writes serialized, or is an overrun.
LEMMA SerialStep ==
  ASSUME TypeOK, OkIsCommitted, Serial, Next
  PROVE  Serial'
<1> SUFFICES ASSUME "overrun" \notin slips'
             PROVE  /\ \A c \in Holders' : active' = c
                    /\ committed' = published'
                    /\ \A c \in Cloned' : base'[c] = published'
                    /\ \A r \in Reader : reading'[r].at = "reads"
                                           => reading'[r].answered \subseteq reading'[r].snapshot
  BY DEF Serial
<1>1. "overrun" \notin slips
  <2>1. slips \subseteq slips'
    BY DEF Next, Progress, Coordinate, Lock, Refuse, Proceed, Queue, Wake, Perform, Clone, CloneFails,
           Commit, Discard, UpdateStats, Release, Drop, DropUnreleased, TimeOut, CoordinationTimeout,
           WriteTimeoutWaiting, WriteTimeoutWritten, CountTimeout, NotificationLost,
           Read, BeginRead, Snapshot, EndRead
  <2> QED BY <2>1
<1>2. /\ \A c \in Holders : active = c
      /\ committed = published
      /\ \A c \in Cloned : base[c] = published
      /\ \A r \in Reader : reading[r].at = "reads" => reading[r].answered \subseteq reading[r].snapshot
  BY <1>1 DEF Serial
<1> USE DEF TypeOK, coordinator, cow, reads, Holders, Cloned, Guarded, Go
<1>3. ASSUME UNCHANGED <<active, cow, reading>>, Holders' \subseteq Holders, Cloned' \subseteq Cloned
      PROVE  Serial'
  BY <1>2, <1>3 DEF Serial
<1>4. ASSUME NEW c \in Write, Coordinate(c) PROVE Serial'
  <2>1. CASE Lock(c) \/ Refuse(c) \/ Queue(c)
    <3>1. Holders' \subseteq Holders /\ Cloned' \subseteq Cloned
      BY <2>1 DEF Lock, Refuse, Queue
    <3> QED BY <2>1, <3>1, <1>3 DEF Lock, Refuse, Queue
  <2>2. CASE Proceed(c) \/ Wake(c)
    <3>1. active = None /\ active' = c /\ UNCHANGED <<cow, reading>>
      BY <2>2 DEF Proceed, Wake, Free, BecomeActive
    <3>2. Holders = {}
      BY <3>1, <1>2
    <3>3. Holders' \subseteq {c} /\ Cloned' = {}
      BY <2>2, <3>2 DEF Proceed, Wake
    <3> QED BY <3>1, <3>3, <1>2 DEF Serial
  <2> QED BY <1>4, <2>1, <2>2 DEF Coordinate
<1>5. ASSUME NEW c \in Write, Perform(c) PROVE Serial'
  <2>0. c \in Holders /\ active = c /\ Holders = {c}
    BY <1>5, <1>2 DEF Perform, Clone, CloneFails, Commit, Discard, UpdateStats
  <2>1. CASE Clone(c)
    <3>1. /\ base'[c] = published /\ UNCHANGED <<active, published, committed, reading>>
          /\ Holders' \subseteq {c} /\ Cloned' \subseteq {c}
      BY <2>0, <2>1 DEF Clone
    <3> QED BY <3>1, <2>0, <1>2 DEF Serial
  <2>2. CASE CloneFails(c) \/ UpdateStats(c)
    <3>1. Holders' \subseteq Holders /\ Cloned' \subseteq Cloned
      BY <2>2 DEF CloneFails, UpdateStats
    <3> QED BY <2>2, <3>1, <1>3 DEF CloneFails, UpdateStats
  <2>3. CASE Commit(c)
    <3>1. base[c] = published
      BY <2>3, <1>2 DEF Commit
    <3>2. committed' = published' /\ Holders' \subseteq {c} /\ Cloned' = {}
      BY <2>0, <2>3, <3>1, <1>2 DEF Commit, Version
    <3> QED BY <2>0, <2>3, <3>2, <1>2 DEF Serial, Commit
  <2>4. CASE Discard(c)
    <3>1. Holders' \subseteq {c} /\ Cloned' = {}
      BY <2>0, <2>4 DEF Discard
    <3> QED BY <2>0, <2>4, <3>1, <1>2 DEF Serial, Discard
  <2> QED BY <1>5, <2>1, <2>2, <2>3, <2>4 DEF Perform
<1>6. ASSUME NEW c \in Write, Release(c) PROVE Serial'
  <2>0. c \in Holders /\ Holders = {c}
    BY <1>6, <1>2 DEF Release, Drop, DropUnreleased
  <2>1. CASE Drop(c)
    <3>0. ASSUME NEW d \in Write PROVE d \notin Holders'
      <4>1. CASE d = c
        <5>1. pc'[c] \in {"timedOut", "done"}
          BY <2>1, DropEffect
        <5> QED BY <4>1, <5>1
      <4>2. CASE d # c
        <5>1. pc'[d] = pc[d] \/ pc'[d] = "notified"
          BY <2>1, <4>2, DropEffect
        <5>2. pc[d] \notin Guarded
          BY <2>0, <4>2
        <5> QED BY <5>1, <5>2
      <4> QED BY <4>1, <4>2
    <3>1. Holders' = {} /\ Cloned' = {}
      BY <3>0
    <3> QED BY <2>1, <3>1, <1>2 DEF Serial, Drop
  <2>2. CASE DropUnreleased(c)
    <3>1. Holders' = {} /\ Cloned' = {}
      BY <2>0, <2>2 DEF DropUnreleased, AfterDrop
    <3> QED BY <2>2, <3>1, <1>2 DEF Serial, DropUnreleased
  <2> QED BY <1>6, <2>1, <2>2 DEF Release
<1>7. ASSUME NEW c \in Write, TimeOut(c) PROVE Serial'
  <2>1. Holders' \subseteq Holders /\ Cloned' \subseteq Cloned
    BY <1>7 DEF TimeOut, CoordinationTimeout, WriteTimeoutWaiting, WriteTimeoutWritten, CountTimeout
  <2>2. UNCHANGED <<active, cow, reading>>
    BY <1>7 DEF TimeOut, CoordinationTimeout, WriteTimeoutWaiting, WriteTimeoutWritten, CountTimeout
  <2> QED BY <2>1, <2>2, <1>3
<1>8. ASSUME NEW r \in Reader, Read(r) PROVE Serial'
  <2>1. UNCHANGED <<pc, active, published, committed, base>> /\ Holders' = Holders /\ Cloned' = Cloned
    BY <1>8 DEF Read, BeginRead, Snapshot, EndRead
  <2>2. \A q \in Reader : reading'[q].at = "reads" => reading'[q].answered \subseteq reading'[q].snapshot
    <3>1. CASE BeginRead(r)
      BY <3>1, <1>2 DEF BeginRead
    <3>2. CASE Snapshot(r)
      BY <3>2, <1>2 DEF Snapshot, OkIsCommitted
    <3>3. CASE EndRead(r)
      BY <3>3, <1>2 DEF EndRead
    <3> QED BY <1>8, <3>1, <3>2, <3>3 DEF Read
  <2> QED BY <2>1, <2>2, <1>2 DEF Serial
<1>9. Serial'
  BY <1>4, <1>5, <1>6, <1>7, <1>8 DEF Next, Progress
<1> QED BY <1>9 DEF Serial
-----------------------------------------------------------------------------
(***************************************************************************)
(* The queue.                                                              *)
(***************************************************************************)
LEMMA SlipsStay ==
  ASSUME Next
  PROVE  slips \subseteq slips'
BY DEF Next, Progress, Coordinate, Lock, Refuse, Proceed, Queue, Wake, Perform, Clone, CloneFails,
       Commit, Discard, UpdateStats, Release, Drop, DropUnreleased, TimeOut, CoordinationTimeout,
       WriteTimeoutWaiting, WriteTimeoutWritten, CountTimeout, NotificationLost,
       Read, BeginRead, Snapshot, EndRead, cow, reads, coordinator

\* What all the steps but four do: no write joins the queue or gives up a
\* notification, and no guard is released.
LEMMA QueueKept ==
  ASSUME TypeOK, QueueOrder, QueueIsServed, slips \subseteq slips', pending' = pending,
         \/ active' = active
         \/ active' \in Write /\ pc'[active'] \in Guarded,
         \A c \in Write : /\ pc'[c] = "queued" => pc[c] = "queued"
                          /\ pc[c] \in Guarded => pc'[c] \in Guarded
                          /\ pc[c] \in {"notified", "waking"} => pc'[c] \in Guarded \cup {"notified", "waking"}
  PROVE  QueueOrder' /\ QueueIsServed'
<1>1. \A c \in Write : pc'[c] = "queued" => c \in Range(pending')
  BY DEF QueueOrder
<1>2. "unreleased" \notin slips' => (active' # None => active' \in Holders')
  BY DEF QueueOrder, Holders, TypeOK
<1>3. QueueIsServed'
  BY DEF QueueIsServed
<1> QED BY <1>1, <1>2, <1>3 DEF QueueOrder

\* Every step keeps the queue served, or is one of the lost wakeups.
LEMMA QueueStep ==
  ASSUME TypeOK, QueueOrder, QueueIsServed, Next
  PROVE  QueueOrder' /\ QueueIsServed'
<1> USE DEF TypeOK, coordinator, cow, reads, Guarded, Go
<1>1. slips \subseteq slips'
  BY SlipsStay
<1>2. ASSUME NEW c \in Write, Coordinate(c) PROVE QueueOrder' /\ QueueIsServed'
  <2>1. CASE Lock(c) \/ Refuse(c)
    BY <2>1, <1>1, QueueKept DEF Lock, Refuse
  <2>2. CASE Proceed(c) \/ Wake(c)
    <3>1. /\ pc[c] \in {"entering", "waking"} /\ pc'[c] = "coordinated" /\ active' = c
          /\ pending' = pending /\ \A d \in Write \ {c} : pc'[d] = pc[d]
      BY <2>2 DEF Proceed, Wake, BecomeActive
    <3> QED BY <3>1, <1>1, QueueKept
  <2>3. CASE Queue(c)
    <3>1. Range(pending') = Range(pending) \cup {c}
      BY <2>3, RangeAppend DEF Queue
    <3>2. /\ pc[c] = "entering" /\ pc'[c] = "queued" /\ \A d \in Write \ {c} : pc'[d] = pc[d]
          /\ active' = active /\ active # None /\ slips' = slips
      BY <2>3 DEF Queue, Free
    <3>3. Holders' = Holders
      BY <3>2 DEF Holders
    <3>4. QueueOrder'
      BY <3>1, <3>2, <3>3 DEF QueueOrder
    <3>5. "unreleased" \notin slips' => \E d \in Write : pc'[d] \in Guarded
      BY <3>2, <3>3 DEF QueueOrder, Holders
    <3> QED BY <3>4, <3>5 DEF QueueIsServed
  <2> QED BY <1>2, <2>1, <2>2, <2>3 DEF Coordinate
<1>3. ASSUME NEW c \in Write, Perform(c) PROVE QueueOrder' /\ QueueIsServed'
  <2>1. /\ pc[c] \in Guarded /\ pc'[c] \in Guarded /\ \A d \in Write \ {c} : pc'[d] = pc[d]
        /\ active' = active /\ pending' = pending
    BY <1>3 DEF Perform, Clone, CloneFails, Commit, Discard, UpdateStats
  <2> QED BY <2>1, <1>1, QueueKept
<1>4. ASSUME NEW c \in Write, Release(c) PROVE QueueOrder' /\ QueueIsServed'
  <2>1. CASE Drop(c)
    <3>1. /\ pc[c] = "dropping" /\ pc'[c] \in {"timedOut", "done"}
          /\ \A d \in Write \ {c} :
               \/ pc'[d] = pc[d] /\ (pc[d] = "queued" /\ pending # <<>> => d # Head(pending))
               \/ pc[d] = "queued" /\ pc'[d] = "notified"
      BY <2>1, DropEffect
    <3>2. pending # <<>> => /\ Range(pending) = {Head(pending)} \cup Range(pending')
                            /\ Head(pending) \in Write
      BY <2>1, RangeHeadTail DEF Drop
    <3>3. pending = <<>> => Range(pending) = {}
      BY RangeEmpty
    <3>4. ASSUME NEW d \in Write, pc'[d] = "queued" PROVE d \in Range(pending')
      <4>1. d # c /\ pc[d] = "queued" /\ (pending # <<>> => d # Head(pending))
        BY <3>1, <3>4
      <4>2. d \in Range(pending)
        BY <4>1 DEF QueueOrder
      <4> QED BY <4>1, <4>2, <3>2, <3>3
    <3>5. "unreleased" \notin slips' => (active' # None => active' \in Holders')
      <4>1. active' # None => active' = active /\ active # c
        BY <2>1 DEF Drop
      <4>2. Holders \ {c} \subseteq Holders'
        BY <3>1 DEF Holders
      <4> QED BY <4>1, <4>2, <1>1 DEF QueueOrder
    <3>6. ASSUME "wakeupLost" \notin slips', NEW d \in Write, pc'[d] = "queued"
          PROVE  \E e \in Write : pc'[e] = "notified"
      <4>1. pending # <<>>
        BY <3>1, <3>3, <3>6 DEF QueueOrder
      <4>2. pc[Head(pending)] = "queued"
        BY <2>1, <3>6, <4>1 DEF Drop
      <4>3. Head(pending) \in Write \ {c} /\ pc'[Head(pending)] = "notified"
        BY <4>1, <4>2, <3>1, <3>2
      <4> QED BY <4>3
    <3> QED BY <3>4, <3>5, <3>6 DEF QueueOrder, QueueIsServed
  <2>2. CASE DropUnreleased(c)
    <3>1. /\ "unreleased" \in slips' /\ pending' = pending
          /\ \A d \in Write : pc'[d] = "queued" => pc[d] = "queued"
      BY <2>2 DEF DropUnreleased, AfterDrop
    <3> QED BY <3>1 DEF QueueOrder, QueueIsServed
  <2> QED BY <1>4, <2>1, <2>2 DEF Release
<1>5. ASSUME NEW c \in Write, TimeOut(c) PROVE QueueOrder' /\ QueueIsServed'
  <2>1. CASE pc[c] \in {"notified", "waking"}
    <3>1. /\ "wakeupLost" \in slips' /\ active' = active /\ pending' = pending
          /\ pc'[c] \in {"done", "timedOut"} /\ \A d \in Write \ {c} : pc'[d] = pc[d]
      BY <1>5, <2>1 DEF TimeOut, CoordinationTimeout, WriteTimeoutWaiting, WriteTimeoutWritten,
                        CountTimeout, NotificationLost
    <3>2. Holders' = Holders
      BY <2>1, <3>1 DEF Holders
    <3> QED BY <3>1, <3>2, <1>1 DEF QueueOrder, QueueIsServed
  <2>2. CASE pc[c] \notin {"notified", "waking"}
    <3>1. /\ active' = active /\ pending' = pending
          /\ pc'[c] \in {"done", "timedOut", "dropping"} /\ \A d \in Write \ {c} : pc'[d] = pc[d]
          /\ pc[c] \in Guarded => pc'[c] = "dropping"
      BY <1>5 DEF TimeOut, CoordinationTimeout, WriteTimeoutWaiting, WriteTimeoutWritten,
                  CountTimeout, Acquiring, Acquire
    <3> QED BY <2>2, <3>1, <1>1, QueueKept
  <2> QED BY <2>1, <2>2
<1>6. ASSUME NEW r \in Reader, Read(r) PROVE QueueOrder' /\ QueueIsServed'
  BY <1>6, <1>1, QueueKept DEF Read, BeginRead, Snapshot, EndRead
<1> QED BY <1>2, <1>3, <1>4, <1>5, <1>6 DEF Next, Progress
-----------------------------------------------------------------------------
(***************************************************************************)
(* The theorems.                                                           *)
(***************************************************************************)
LEMMA InitIInv == Init => IInv
<1> SUFFICES ASSUME Init PROVE IInv
  OBVIOUS
<1> USE DEF Init
<1>1. TypeOK
  BY EmptySeq DEF TypeOK, Places, Acquire
<1>2. Cloned = {} /\ Coordinated = {} /\ Reads = {} /\ Holders = {}
  BY DEF Cloned, Coordinated, Reads, Holders, Guarded
<1>3. CountersAgree
  <2>1. Cardinality(Cloned) = 0 /\ Cardinality(Coordinated) = 0 /\ Cardinality(Reads) = 0
    BY <1>2, FS_EmptySet
  <2>2. /\ writers = Cardinality(Cloned) /\ readers = Cardinality(Reads)
        /\ totalWrites + 1 = epoch + Cardinality(Coordinated)
    BY <2>1
  <2> QED BY ONLY <2>2 DEF CountersAgree, Cloned, Coordinated, Reads
<1>4. OkIsCommitted /\ Serial /\ QueueOrder /\ QueueIsServed
  BY <1>2 DEF OkIsCommitted, Serial, QueueOrder, QueueIsServed
<1> QED BY <1>1, <1>3, <1>4 DEF IInv

\* The invariant is inductive.
LEMMA IInvStep == IInv /\ [Next]_vars => IInv'
<1> SUFFICES ASSUME IInv, [Next]_vars PROVE IInv'
  OBVIOUS
<1>1. CASE Next
  BY <1>1, TypeStep, CommittedStep, SerialStep, QueueStep DEF IInv
<1>2. CASE UNCHANGED vars
  <2> USE <1>2 DEF vars, coordinator, cow, reads, Holders
  <2>1. TypeOK'
    BY DEF IInv, TypeOK
  <2>2. CountersAgree'
    BY DEF IInv, CountersAgree
  <2>3. OkIsCommitted' /\ Serial'
    BY DEF IInv, OkIsCommitted, Serial, Cloned
  <2>4. QueueOrder' /\ QueueIsServed'
    BY DEF IInv, QueueOrder, QueueIsServed
  <2> QED BY <2>1, <2>2, <2>3, <2>4 DEF IInv
<1> QED BY <1>1, <1>2

\* So it always holds.
LEMMA IInvAlways == Spec => []IInv
<1>1. Init => IInv
  BY InitIInv
<1>2. IInv /\ [Next]_vars => IInv'
  BY IInvStep
<1> QED BY <1>1, <1>2, PTL DEF Spec

\* Every state has its type, and pending_writes never exceeds the limit.
THEOREM TypeCorrect == Spec => []TypeOK
<1>1. IInv => TypeOK
  BY DEF IInv
<1> QED BY <1>1, IInvAlways, PTL

\* The metrics of the coordinator and of the copy-on-write index agree with the
\* writes and reads in progress.
THEOREM MetricsAgree == Spec => []CountersAgree
<1>1. IInv => CountersAgree
  BY DEF IInv
<1> QED BY <1>1, IInvAlways, PTL

\* Writes are serialized and none is lost, until a woken one overruns another.
THEOREM WritesAreSerialized == Spec => []SerializedUnlessOverrun
<1>1. IInv => SerializedUnlessOverrun
  BY DEF IInv, Serial, SerializedUnlessOverrun
<1> QED BY <1>1, IInvAlways, PTL

\* A read sees the writes answered before it began, with the same reservation.
THEOREM ReadsAreCurrent == Spec => []ReadsSeeAnswered
<1>1. IInv => ReadsSeeAnswered
  BY DEF IInv, Serial, ReadsSeeAnswered
<1> QED BY <1>1, IInvAlways, PTL

\* No wakeup is lost but by a failed release or a write that gave up.
THEOREM QueueAlwaysServed == Spec => []QueueIsServed
<1>1. IInv => QueueIsServed
  BY DEF IInv
<1> QED BY <1>1, IInvAlways, PTL
=============================================================================
