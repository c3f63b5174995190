------------------------ MODULE BatchProcessorProofs ------------------------
(***************************************************************************)
(* Theorems of BatchProcessor, for all values of its constants.            *)
(***************************************************************************)
EXTENDS BatchProcessor, SequenceTheorems, TLAPS

USE BoundsAssumption DEF BoundsAssumption
-----------------------------------------------------------------------------
(***************************************************************************)
(* Sequences.                                                              *)
(***************************************************************************)
\* What the operations on sequences do to the set of their elements.
LEMMA RangeEmpty == Range(<<>>) = {}
BY DEF Range

LEMMA RangeAppend ==
  ASSUME NEW S, NEW s \in Seq(S), NEW e \in S
  PROVE  Range(Append(s, e)) = Range(s) \cup {e}
<1>1. PICK u : u = <<e>>
  OBVIOUS
<1>2. u \in Seq(S) /\ Append(s, e) = s \o u /\ Range(u) = {e}
  BY <1>1 DEF Range
<1> QED BY <1>2, RangeConcatenation

\* They are the head and those of the tail.
LEMMA RangeHeadTail ==
  ASSUME NEW S, NEW s \in Seq(S), s # <<>>
  PROVE  /\ Head(s) \in S /\ Tail(s) \in Seq(S)
         /\ Range(s) = {Head(s)} \cup Range(Tail(s))
<1>1. PICK u, t : u = <<Head(s)>> /\ t = Tail(s)
  OBVIOUS
<1>2. u \in Seq(S) /\ t \in Seq(S) /\ s = u \o t /\ Head(s) \in S
  BY <1>1
<1>3. Range(u) = {Head(s)}
  BY <1>1 DEF Range
<1>4. Range(u \o t) = Range(u) \cup Range(t)
  BY <1>2, RangeConcatenation
<1> QED BY <1>1, <1>2, <1>3, <1>4
-----------------------------------------------------------------------------
(***************************************************************************)
(* Types.                                                                  *)
(***************************************************************************)
Entry == [seg : Nat, ops : Seq(Op)]

\* The variables WalBatchManager and WalManager keep, and the segments.
WalType ==
  /\ batch \in Seq(Op) /\ batchSize \in Nat /\ batchBytes \in Nat
  /\ segUsed \in Seq(0..SegmentCapacity) /\ cur \in 0..Len(segUsed)
  /\ log \in Seq(Entry)
  /\ lost \in [Causes -> SUBSET Op]

\* The other variables.
CallType ==
  /\ issued \in 0..MaxOps
  /\ pc \in Calls /\ inRestart \in BOOLEAN
  /\ pendingOps \in Seq(Op)
  /\ hasSender \in BOOLEAN /\ hasHandle \in BOOLEAN /\ signal \in BOOLEAN
  /\ reply \in {"none", "ok", "err", "dropped"}
  /\ chan \in Seq(Command) /\ rxOpen \in BOOLEAN
  /\ task \in TaskStates /\ taskOps \in Seq(Op)
  /\ acked \subseteq Op /\ want \subseteq Op
  /\ covered \in [Outcomes -> SUBSET Op]

\* An operation being added has a number.
AddingType == Adding => issued \in Op

TypeInv == TypeOK /\ AddingType

\* The types in two parts: the log and the calls.
LEMMA TypeParts == TypeOK <=> WalType /\ CallType
BY DEF TypeOK, WalType, CallType, Entry

\* What is lost are operations.
LEMMA LoseType ==
  ASSUME lost \in [Causes -> SUBSET Op], NEW c \in Causes, NEW ops \in SUBSET Op, Lose(c, ops)
  PROVE  /\ lost' \in [Causes -> SUBSET Op]
         /\ lost'[c] = lost[c] \cup ops /\ \A d \in Causes \ {c} : lost'[d] = lost[d]
BY DEF Lose

\* What a flush was to cover are operations.
LEMMA CoverType ==
  ASSUME covered \in [Outcomes -> SUBSET Op], NEW o \in Outcomes, NEW ops \in SUBSET Op, Cover(o, ops)
  PROVE  covered' \in [Outcomes -> SUBSET Op]
BY DEF Cover

\* What flush_batch does to a batch b: it keeps it, appends it to the segment
\* it writes to from then on, or loses it.
Kept(b) == batch' = b /\ UNCHANGED <<cur, segUsed, log, lost>>
Moved ==
  /\ batch' = <<>> /\ cur' \in 1..Len(segUsed')
  /\ Len(segUsed') >= Len(segUsed)
  /\ cur \in {0, Len(segUsed)} => cur' = Len(segUsed')
Appended(b) == Moved /\ log' = Append(log, [seg |-> cur', ops |-> b]) /\ UNCHANGED lost
Rejected(b) == Moved /\ Lose("rejected", Range(b)) /\ UNCHANGED log

\* What flush_batch does: the batch goes to the log, is lost, or stays.
LEMMA FlushBatchEffect ==
  ASSUME WalType, NEW b \in Seq(Op), NEW sz \in Nat, NEW bytes \in Nat,
         NEW res \in {"ok", "err"}, FlushBatch(b, sz, bytes, res)
  PROVE  /\ WalType'
         /\ \/ Kept(b) /\ res = "err"
            \/ Appended(b) /\ res = "ok"
            \/ Rejected(b) /\ res = "err"
<1> DEFINE used == IF NeedsRotation(segUsed) THEN Append(segUsed, 0) ELSE segUsed
           seg  == IF NeedsRotation(segUsed) THEN Len(segUsed) + 1 ELSE cur
           end  == used[seg] + RecordOverhead + bytes
           full == [used EXCEPT ![seg] = end]
<1>1. segUsed \in Seq(0..SegmentCapacity) /\ cur \in 0..Len(segUsed) /\ Len(segUsed) \in Nat
  BY DEF WalType
<1>2. /\ used \in Seq(0..SegmentCapacity) /\ seg \in 1..Len(used)
      /\ Len(used) >= Len(segUsed)
      /\ cur \in {0, Len(segUsed)} => seg = Len(used)
  <2>1. CASE NeedsRotation(segUsed)
    <3>1. used = Append(segUsed, 0) /\ seg = Len(segUsed) + 1
      BY <2>1
    <3>2. 0 \in 0..SegmentCapacity
      OBVIOUS
    <3>3. /\ Append(segUsed, 0) \in Seq(0..SegmentCapacity)
          /\ Len(Append(segUsed, 0)) = Len(segUsed) + 1
      BY <1>1, <3>2
    <3> HIDE DEF used, seg
    <3> QED BY <1>1, <3>1, <3>3
  <2>2. CASE ~NeedsRotation(segUsed)
    <3>1. used = segUsed /\ seg = cur /\ cur # 0
      BY <2>2 DEF NeedsRotation
    <3> HIDE DEF used, seg
    <3> QED BY <3>1, <1>1
  <2> QED BY <2>1, <2>2
<1>3. end \in Nat
  <2>1. used[seg] \in 0..SegmentCapacity
    BY <1>2, ElementOfSeq
  <2> QED BY <2>1
<1>4. CASE Kept(b) /\ batchSize' = sz /\ batchBytes' = bytes /\ res = "err"
  BY <1>4 DEF WalType, Kept
<1>5. CASE /\ cur' = seg /\ batch' = <<>> /\ batchBytes' = 0
           /\ Fits(end) /\ segUsed' = full /\ batchSize' = 0
           /\ log' = Append(log, [seg |-> seg, ops |-> b])
           /\ res = "ok" /\ UNCHANGED lost
  <2> HIDE DEF used, seg, end
  <2>1. end \in 0..SegmentCapacity
    BY <1>3, <1>5 DEF Fits
  <2>2. full \in Seq(0..SegmentCapacity) /\ Len(full) = Len(used)
    BY <1>2, <2>1, ExceptSeq
  <2>3. [seg |-> seg, ops |-> b] \in Entry
    BY <1>2 DEF Entry
  <2>4. log' \in Seq(Entry)
    BY <1>5, <2>3, AppendProperties DEF WalType
  <2> HIDE DEF full
  <2>5. cur' \in 1..Len(segUsed') /\ segUsed' \in Seq(0..SegmentCapacity)
    BY <1>5, <1>2, <2>2
  <2>6. WalType'
    BY <1>5, <2>4, <2>5 DEF WalType
  <2>7. Appended(b)
    BY <1>5, <1>2, <2>2, <2>5 DEF Appended, Moved
  <2> QED BY <1>5, <2>6, <2>7
<1>6. CASE /\ cur' = seg /\ batch' = <<>> /\ batchBytes' = 0
           /\ segUsed' = used /\ batchSize' = sz
           /\ res = "err" /\ Lose("rejected", Range(b)) /\ UNCHANGED log
  <2> HIDE DEF used, seg, end
  <2>1. Range(b) \in SUBSET Op
    BY RangeOfSeq
  <2>2. lost' \in [Causes -> SUBSET Op]
    BY <1>6, <2>1, LoseType DEF WalType, Causes
  <2>3. WalType'
    BY <1>6, <1>2, <2>2 DEF WalType
  <2>4. Rejected(b)
    BY <1>6, <1>2 DEF Rejected, Moved
  <2> QED BY <1>6, <2>3, <2>4
<1> QED BY <1>4, <1>5, <1>6 DEF FlushBatch, Kept, Taken, ResetSize

\* What one operation does to the batch.
AddEffect(op) ==
  \/ Lose("invalid", {op}) /\ UNCHANGED <<batchVars, walVars>>
  \/ Kept(Append(batch, op)) \/ Appended(Append(batch, op)) \/ Rejected(Append(batch, op))

\* What add_operation of the batch manager does, flush included.
LEMMA AddToBatchEffect ==
  ASSUME WalType, NEW op \in Op, AddToBatch(op)
  PROVE  WalType' /\ AddEffect(op)
<1> DEFINE b  == Append(batch, op)
           sz == batchSize + OpSize[op]
           by == batchBytes + OpSize[op]
<1>1. b \in Seq(Op) /\ sz \in Nat /\ by \in Nat
  <2>1. OpSize[op] \in Nat
    BY DEF Op
  <2>2. batch \in Seq(Op) /\ batchSize \in Nat /\ batchBytes \in Nat
    BY DEF WalType
  <2>3. b \in Seq(Op)
    BY <2>2, AppendProperties
  <2> QED BY <2>1, <2>2, <2>3
<1>2. CASE op \in Invalid
  <2>1. Lose("invalid", {op}) /\ UNCHANGED <<batchVars, walVars>>
    BY <1>2 DEF AddToBatch
  <2>2. lost' \in [Causes -> SUBSET Op]
    BY <2>1, LoseType DEF WalType, Causes
  <2> QED BY <2>1, <2>2 DEF WalType, AddEffect, batchVars, walVars
<1>3. CASE op \notin Invalid /\ (Len(b) >= MaxOpsPerBatch \/ sz > MaxBatchBytes)
  <2>1. PICK res \in {"ok", "err"} : FlushBatch(b, sz, by, res)
    BY <1>3 DEF AddToBatch
  <2> HIDE DEF b, sz, by
  <2>2. WalType' /\ (Kept(b) \/ Appended(b) \/ Rejected(b))
    BY <2>1, <1>1, FlushBatchEffect
  <2> QED BY <2>2 DEF AddEffect, b
<1>4. CASE op \notin Invalid /\ ~(Len(b) >= MaxOpsPerBatch \/ sz > MaxBatchBytes)
  <2>1. /\ batch' = b /\ batchSize' = sz /\ batchBytes' = by
        /\ UNCHANGED <<cur, segUsed, log, lost>>
    BY <1>4 DEF AddToBatch
  <2> QED BY <2>1, <1>1 DEF WalType, AddEffect, Kept
<1> QED BY <1>2, <1>3, <1>4

\* A command received leaves a channel of commands.
LEMMA ReceivedType ==
  ASSUME CallType, NEW c \in {"AddOperation", "FlushNow", "Shutdown"}, Received(c)
  PROVE  /\ chan' \in Seq(Command)
         /\ Head(chan) \in Command
         /\ c = "AddOperation" => Head(chan).op \in Op
<1>1. Head(chan) \in Command /\ chan' \in Seq(Command) /\ Head(chan).cmd = c
  BY HeadTailProperties DEF CallType, Received
<1> QED BY <1>1 DEF Command, FlushNow, Shutdown

\* The channel carries operations.
LEMMA ChanOpsType == CallType => ChanOps \subseteq Op
<1> SUFFICES ASSUME CallType, NEW x \in ChanOps PROVE x \in Op
  OBVIOUS
<1>1. PICK c \in Range(chan) : c.cmd = "AddOperation" /\ x = c.op
  BY DEF ChanOps
<1>2. c \in Command
  BY RangeOfSeq DEF CallType
<1> QED BY <1>1, <1>2 DEF Command, FlushNow, Shutdown

\* The commands the calls send are commands.
LEMMA CommandType ==
  /\ FlushNow \in Command /\ Shutdown \in Command
  /\ \A op \in Op : Add(op) \in Command
BY DEF Command, FlushNow, Shutdown, Add

\* The steps of the task keep the types.
LEMMA TaskStepType == TypeInv /\ TaskStep => TypeInv'
<1> SUFFICES ASSUME TypeInv, TaskStep PROVE TypeInv'
  OBVIOUS
<1>1. WalType /\ CallType /\ AddingType
  BY TypeParts DEF TypeInv
<1>2. SUFFICES WalType' /\ CallType' /\ AddingType'
  BY TypeParts, PTL DEF TypeInv
<1> USE DEF clientVars, chanVars, batchVars, walVars, ghostVars, TaskStates
<1>3. CASE TaskPending
  <2>1. CASE taskOps = <<>>
    BY <1>1, <1>3, <2>1 DEF TaskPending, WalType, CallType, AddingType, Adding
  <2>2. CASE taskOps # <<>>
    <3>1. Head(taskOps) \in Op /\ Tail(taskOps) \in Seq(Op)
      BY <1>1, <2>2, HeadTailProperties DEF CallType
    <3>2. WalType'
      BY <1>1, <1>3, <2>2, <3>1, AddToBatchEffect DEF TaskPending
    <3> QED BY <1>1, <1>3, <2>2, <3>1, <3>2 DEF TaskPending, CallType, AddingType, Adding
  <2> QED BY <2>1, <2>2
<1>4. CASE TaskTick
  <2>1. CallType' /\ AddingType'
    BY <1>1, <1>4 DEF TaskTick, CallType, AddingType, Adding
  <2>2. CASE signal
    BY <1>1, <1>4, <2>1, <2>2 DEF TaskTick, WalType
  <2>3. CASE ~signal
    <3>1. PICK res \in {"ok", "err"} : FlushBatch(batch, batchSize, batchBytes, res)
      BY <1>4, <2>3 DEF TaskTick
    <3>2. WalType'
      BY <1>1, <3>1, FlushBatchEffect DEF WalType
    <3> QED BY <2>1, <3>2
  <2> QED BY <2>2, <2>3
<1>5. CASE TaskAdd
  <2>1. chan' \in Seq(Command) /\ Head(chan).op \in Op
    BY <1>1, <1>5, ReceivedType DEF TaskAdd
  <2>2. WalType'
    BY <1>1, <1>5, <2>1, AddToBatchEffect DEF TaskAdd
  <2> QED BY <1>1, <1>5, <2>1, <2>2 DEF TaskAdd, Received, CallType, AddingType, Adding
<1>6. CASE TaskFlushNow
  <2>1. chan' \in Seq(Command)
    BY <1>1, <1>6, ReceivedType DEF TaskFlushNow
  <2>2. CASE batch = <<>>
    BY <1>1, <1>6, <2>1, <2>2 DEF TaskFlushNow, Received, WalType, CallType, AddingType, Adding
  <2>3. CASE batch # <<>>
    <3>1. PICK res \in {"ok", "err"} :
            FlushBatch(batch, batchSize, batchBytes, res) /\ reply' = res
      BY <1>6, <2>3 DEF TaskFlushNow
    <3>2. WalType'
      BY <1>1, <3>1, FlushBatchEffect DEF WalType
    <3> QED BY <1>1, <1>6, <2>1, <3>1, <3>2 DEF TaskFlushNow, Received, CallType, AddingType, Adding
  <2> QED BY <2>2, <2>3
<1>7. CASE TaskShutdown
  <2>1. chan' \in Seq(Command)
    BY <1>1, <1>7, ReceivedType DEF TaskShutdown
  <2>2. CallType' /\ AddingType'
    BY <1>1, <1>7, <2>1 DEF TaskShutdown, Received, CallType, AddingType, Adding
  <2>3. CASE batch = <<>>
    BY <1>1, <1>7, <2>2, <2>3 DEF TaskShutdown, WalType
  <2>4. CASE batch # <<>>
    <3>1. PICK res \in {"ok", "err"} : FlushBatch(batch, batchSize, batchBytes, res)
      BY <1>7, <2>4 DEF TaskShutdown
    <3>2. WalType'
      BY <1>1, <3>1, FlushBatchEffect DEF WalType
    <3> QED BY <2>2, <3>2
  <2> QED BY <2>3, <2>4
<1>8. CASE TaskClosed
  BY <1>1, <1>8 DEF TaskClosed, WalType, CallType, AddingType, Adding
<1>9. CASE TaskExit
  <2>1. Range(batch) \cup Range(taskOps) \cup ChanOps \in SUBSET Op
    BY <1>1, RangeOfSeq, ChanOpsType DEF WalType, CallType
  <2>2. lost' \in [Causes -> SUBSET Op]
    BY <1>1, <1>9, <2>1, LoseType DEF TaskExit, WalType, Causes
  <2>3. WalType'
    BY <1>1, <1>9, <2>2 DEF TaskExit, WalType
  <2>4. reply' \in {"none", "ok", "err", "dropped"}
    BY <1>1, <1>9 DEF TaskExit, ReplyOnExit, CallType
  <2>5. chan' \in Seq(Command) /\ taskOps' \in Seq(Op)
    BY <1>9, EmptySeq DEF TaskExit
  <2>6. CallType' /\ AddingType'
    BY <1>1, <1>9, <2>4, <2>5 DEF TaskExit, CallType, AddingType, Adding
  <2> QED BY <2>3, <2>6
<1> QED BY <1>3, <1>4, <1>5, <1>6, <1>7, <1>8, <1>9 DEF TaskStep

\* Starting a task keeps the types.
LEMMA SpawnType ==
  ASSUME WalType, CallType, NEW r \in BOOLEAN, Spawn(r),
         UNCHANGED <<issued, signal, reply, walVars, ghostVars>>
  PROVE  WalType' /\ CallType'
<1> USE DEF WalType, CallType, taskVars, batchVars, walVars, ghostVars, Calls, TaskStates
<1>1. chan' = <<>> /\ hasSender' = TRUE
  BY DEF Spawn
<1>2. chan' \in Seq(Command)
  BY <1>1, EmptySeq
<1>3. CASE /\ rxOpen' = FALSE /\ hasHandle' = FALSE
           /\ pc' = "idle" /\ inRestart' = FALSE
           /\ UNCHANGED <<pendingOps, taskVars>>
  BY <1>1, <1>2, <1>3
<1>4. CASE /\ rxOpen' = TRUE /\ hasHandle' = TRUE
           /\ pc' = "storeFalse" /\ inRestart' = r
           /\ task' = "starting" /\ taskOps' = pendingOps /\ pendingOps' = <<>>
           /\ batch' = <<>> /\ batchSize' = 0 /\ batchBytes' = 0
           /\ cur' = RecoveredSegment
  <2>1. cur' \in 0..Len(segUsed')
    <3>1. Len(segUsed) \in Nat /\ segUsed' = segUsed
      BY LenProperties
    <3>2. cur' = 0 \/ cur' = Len(segUsed)
      BY <1>4 DEF RecoveredSegment
    <3> QED BY <3>1, <3>2
  <2>2. batch' \in Seq(Op) /\ pendingOps' \in Seq(Op)
    BY <1>4, EmptySeq
  <2> QED BY <1>1, <1>2, <1>4, <2>1, <2>2
<1> QED BY <1>3, <1>4 DEF Spawn, Handover

\* The steps of the calls keep the types.
LEMMA ClientStepType == TypeInv /\ (CallStep \/ NewCall \/ Crash) => TypeInv'
<1> SUFFICES ASSUME TypeInv, CallStep \/ NewCall \/ Crash PROVE TypeInv'
  OBVIOUS
<1>1. WalType /\ CallType /\ AddingType
  BY TypeParts DEF TypeInv
<1>2. SUFFICES WalType' /\ CallType' /\ AddingType'
  BY TypeParts, PTL DEF TypeInv
<1>3. issued \in Nat /\ (issued < MaxOps => issued + 1 \in Op)
  BY <1>1 DEF CallType, Op
<1> USE DEF chanVars, taskVars, batchVars, walVars, ghostVars
<1>4. CASE Start
  BY <1>1, <1>4, SpawnType DEF Start, Spawn, AddingType, Adding
<1>5. CASE StoreFalse
  BY <1>1, <1>5 DEF StoreFalse, WalType, CallType, AddingType, Adding, Calls
<1>6. CASE AddOperation
  <2>1. WalType' /\ issued' \in 0..MaxOps /\ issued' \in Op
    BY <1>1, <1>3, <1>6 DEF AddOperation, WalType, Op
  <2>2. pendingOps' \in Seq(Op)
    <3>1. pendingOps \in Seq(Op) /\ issued + 1 \in Op
      BY <1>1, <1>3, <1>6 DEF AddOperation, CallType
    <3>2. Append(pendingOps, issued + 1) \in Seq(Op)
      BY <3>1
    <3>3. pendingOps' \in {pendingOps, Append(pendingOps, issued + 1)}
      BY <1>6 DEF AddOperation
    <3> QED BY <3>1, <3>2, <3>3
  <2> QED BY <1>1, <1>3, <1>6, <2>1, <2>2 DEF AddOperation, CallType, AddingType, Calls
<1>7. CASE SendAdd
  <2>1. issued \in Op
    BY <1>1, <1>7 DEF SendAdd, AddingType, Adding
  <2>2. chan' \in Seq(Command)
    BY <1>1, <1>7, <2>1, CommandType, AppendProperties DEF SendAdd, CallType
  <2> QED BY <1>1, <1>7, <2>1, <2>2 DEF SendAdd, WalType, CallType, AddingType, Adding, Calls
<1>8. CASE SendAddRestart
  BY <1>1, <1>8, SpawnType DEF SendAddRestart, AddingType, Adding
<1>9. CASE ResendFails
  BY <1>1, <1>9 DEF ResendFails, WalType, CallType, AddingType, Adding, Calls
<1>10. CASE CallFlush
  BY <1>1, <1>10 DEF CallFlush, WalType, CallType, AddingType, Adding, Calls
<1>11. CASE SendFlush
  <2>1. chan' \in Seq(Command)
    <3>1. chan' = chan \/ chan' = Append(chan, FlushNow)
      BY <1>11 DEF SendFlush
    <3>2. chan \in Seq(Command) /\ FlushNow \in Command
      BY <1>1, CommandType DEF CallType
    <3>3. Append(chan, FlushNow) \in Seq(Command)
      BY <3>2, AppendProperties
    <3> QED BY <3>1, <3>2, <3>3
  <2>2. covered' \in [Outcomes -> SUBSET Op] /\ want' \subseteq Op
    BY <1>1, <1>11, CoverType DEF SendFlush, CallType, Outcomes
  <2> QED BY <1>1, <1>11, <2>1, <2>2 DEF SendFlush, WalType, CallType, AddingType, Adding, Calls
<1>12. CASE FlushReturns
  <2>1. covered' \in [Outcomes -> SUBSET Op]
    BY <1>1, <1>12, CoverType DEF FlushReturns, CallType, Outcomes
  <2> QED BY <1>1, <1>12, <2>1 DEF FlushReturns, WalType, CallType, AddingType, Adding, Calls
<1>13. CASE CallShutdown
  BY <1>1, <1>13 DEF CallShutdown, WalType, CallType, AddingType, Adding, Calls
<1>14. CASE SendShutdown
  <2>1. chan' \in Seq(Command)
    <3>1. chan' = chan \/ chan' = Append(chan, Shutdown)
      BY <1>14 DEF SendShutdown
    <3>2. chan \in Seq(Command) /\ Shutdown \in Command
      BY <1>1, CommandType DEF CallType
    <3>3. Append(chan, Shutdown) \in Seq(Command)
      BY <3>2, AppendProperties
    <3> QED BY <3>1, <3>2, <3>3
  <2> QED BY <1>1, <1>14, <2>1 DEF SendShutdown, WalType, CallType, AddingType, Adding, Calls
<1>15. CASE ShutdownReturns
  <2>1. covered' \in [Outcomes -> SUBSET Op]
    BY <1>1, <1>15, CoverType DEF ShutdownReturns, CallType, Outcomes
  <2> QED BY <1>1, <1>15, <2>1 DEF ShutdownReturns, WalType, CallType, AddingType, Adding, Calls
<1>16. CASE Drop
  BY <1>1, <1>16, EmptySeq DEF Drop, WalType, CallType, AddingType, Adding, Calls
<1>17. CASE Reboot
  <2>1. chan' \in Seq(Command) /\ batch' \in Seq(Op) /\ pendingOps' \in Seq(Op) /\ taskOps' \in Seq(Op)
    BY <1>17, EmptySeq DEF Reboot
  <2>2. WalType'
    BY <1>1, <1>17, <2>1, LenProperties DEF Reboot, WalType
  <2> QED BY <1>1, <1>17, <2>1, <2>2 DEF Reboot, CallType, AddingType, Adding, Calls, TaskStates
<1> QED BY <1>4, <1>5, <1>6, <1>7, <1>8, <1>9, <1>10, <1>11, <1>12, <1>13, <1>14, <1>15,
           <1>16, <1>17 DEF CallStep, NewCall, Crash, Reopen

\* The initial states have their types.
LEMMA TypeInit == Init => TypeInv
<1> SUFFICES ASSUME Init PROVE WalType /\ CallType /\ AddingType
  BY TypeParts DEF TypeInv
<1>1. \A S : <<>> \in Seq(S)
  BY EmptySeq
<1>2. Len(segUsed) = 0
  BY DEF Init
<1>3. WalType
  BY <1>1, <1>2 DEF Init, WalType
<1>4. pendingOps \in Seq(Op) /\ chan \in Seq(Command) /\ taskOps \in Seq(Op)
  BY <1>1 DEF Init
<1>5. covered \in [Outcomes -> SUBSET Op]
  BY DEF Init
<1>6. CallType
  <2>1. issued \in 0..MaxOps /\ pc \in Calls /\ task \in TaskStates
    BY DEF Init, Calls, TaskStates
  <2>2. acked \subseteq Op /\ want \subseteq Op
    BY DEF Init
  <2>3. /\ inRestart \in BOOLEAN /\ hasSender \in BOOLEAN /\ hasHandle \in BOOLEAN
        /\ signal \in BOOLEAN /\ rxOpen \in BOOLEAN
    BY DEF Init
  <2>4. reply \in {"none", "ok", "err", "dropped"}
    BY DEF Init
  <2> QED BY <1>4, <1>5, <2>1, <2>2, <2>3, <2>4 DEF CallType
<1>7. AddingType
  BY DEF Init, AddingType, Adding
<1> QED BY <1>3, <1>6, <1>7

\* Every step keeps the types.
LEMMA TypeStep == TypeInv /\ [Next]_vars => TypeInv'
<1> SUFFICES ASSUME TypeInv, [Next]_vars PROVE TypeInv'
  OBVIOUS
<1>1. CASE UNCHANGED vars
  BY <1>1 DEF vars, clientVars, taskVars, batchVars, walVars, chanVars, ghostVars,
              TypeInv, TypeOK, AddingType, Adding
<1> QED BY <1>1, TaskStepType, ClientStepType DEF Next

\* Every variable keeps its type: in particular no segment is ever filled past
\* its capacity, and the task only ever writes to a segment that exists.
THEOREM TypeCorrect == Spec => []TypeOK
<1>1. TypeInv => TypeOK
  BY DEF TypeInv
<1> QED BY TypeInit, TypeStep, <1>1, PTL DEF Spec
-----------------------------------------------------------------------------
(***************************************************************************)
(* Where the operations are.                                               *)
(***************************************************************************)
LEMMA LoggedAppend ==
  ASSUME log \in Seq(Entry), NEW e \in Entry, log' = Append(log, e)
  PROVE  Logged' = Logged \cup Range(e.ops)
<1>1. /\ Len(log) \in Nat /\ DOMAIN log = 1..Len(log) /\ DOMAIN log' = 1..Len(log) + 1
      /\ log'[Len(log) + 1] = e /\ \A i \in 1..Len(log) : log'[i] = log[i]
  BY AppendProperties, LenProperties
<1>2. ASSUME NEW x \in Logged' PROVE x \in Logged \cup Range(e.ops)
  <2>1. PICK i \in 1..Len(log) + 1 : x \in Range(log'[i].ops)
    BY <1>1, <1>2 DEF Logged
  <2>2. CASE i = Len(log) + 1
    BY <1>1, <2>1, <2>2
  <2>3. CASE i \in 1..Len(log)
    BY <1>1, <2>1, <2>3 DEF Logged
  <2> QED BY <1>1, <2>2, <2>3
<1>3. ASSUME NEW x \in Logged \cup Range(e.ops) PROVE x \in Logged'
  <2>1. CASE x \in Logged
    <3>1. PICK i \in 1..Len(log) : x \in Range(log[i].ops)
      BY <1>1, <2>1 DEF Logged
    <3>2. i \in DOMAIN log' /\ x \in Range(log'[i].ops)
      BY <1>1, <3>1
    <3> QED BY <3>2 DEF Logged
  <2>2. CASE x \in Range(e.ops)
    <3>1. Len(log) + 1 \in DOMAIN log' /\ x \in Range(log'[Len(log) + 1].ops)
      BY <1>1, <2>2
    <3> QED BY <3>1 DEF Logged
  <2> QED BY <1>3, <2>1, <2>2
<1> QED BY <1>2, <1>3

\* A lost operation is accounted for as dropped.
LEMMA LoseDropped ==
  ASSUME lost \in [Causes -> SUBSET Op], NEW c \in Causes, NEW ops \in SUBSET Op, Lose(c, ops)
  PROVE  Dropped' = Dropped \cup ops
BY DEF Lose, Dropped, Causes

\* Receiving a command takes its operation from the channel.
LEMMA ChanTail ==
  ASSUME chan \in Seq(Command), chan # <<>>, chan' = Tail(chan)
  PROVE  /\ ChanOps' \subseteq ChanOps
         /\ ChanOps \subseteq ChanOps' \cup {Head(chan).op}
         /\ Head(chan).cmd # "AddOperation" => ChanOps = ChanOps'
         /\ Head(chan).cmd = "AddOperation" => Head(chan).op \in ChanOps
<1>1. Range(chan) = {Head(chan)} \cup Range(chan')
  BY RangeHeadTail
<1> QED BY <1>1 DEF ChanOps

\* Sending a command puts its operation in the channel.
LEMMA ChanAppend ==
  ASSUME chan \in Seq(Command), NEW c \in Command, chan' = Append(chan, c)
  PROVE  /\ c.cmd = "AddOperation" => ChanOps' = ChanOps \cup {c.op}
         /\ c.cmd # "AddOperation" => ChanOps' = ChanOps
<1>1. Range(chan') = Range(chan) \cup {c}
  BY RangeAppend
<1> QED BY <1>1 DEF ChanOps

\* An empty channel carries nothing.
LEMMA ChanEmpty == chan = <<>> => ChanOps = {}
BY RangeEmpty DEF ChanOps

\* The operations the task has taken from the channel.  Nothing a task does
\* takes one out of this set, or out of the log.
Settled == Logged \cup Dropped
Placed  == Settled \cup Range(batch)

\* After flush_batch every operation of the batch has a place.
LEMMA FlushPlaced ==
  ASSUME WalType, NEW b \in Seq(Op), NEW sz \in Nat, NEW bytes \in Nat,
         NEW res \in {"ok", "err"}, FlushBatch(b, sz, bytes, res)
  PROVE  /\ Settled \cup Range(b) \subseteq Placed'
         /\ Settled \subseteq Settled' /\ Logged \subseteq Logged'
         /\ res = "ok" => (Range(b) \subseteq Settled' /\ batch' = <<>>)
<1>1. \/ Kept(b) /\ res = "err"
      \/ Appended(b)
      \/ Rejected(b) /\ res = "err"
  BY FlushBatchEffect
<1>2. CASE Kept(b) /\ res = "err"
  <2>1. batch' = b /\ Logged' = Logged /\ Dropped' = Dropped
    BY <1>2 DEF Kept, Logged, Dropped
  <2> QED BY <1>2, <2>1 DEF Settled, Placed
<1>3. CASE Appended(b)
  <2>1. [seg |-> cur', ops |-> b] \in Entry /\ log' = Append(log, [seg |-> cur', ops |-> b])
    <3>1. cur' \in Nat
      BY <1>3, FlushBatchEffect DEF WalType
    <3> QED BY <1>3, <3>1 DEF Appended, Entry
  <2>2. Logged' = Logged \cup Range(b)
    BY <2>1, LoggedAppend DEF WalType
  <2>3. Dropped' = Dropped /\ batch' = <<>>
    BY <1>3 DEF Appended, Moved, Dropped
  <2> QED BY <2>2, <2>3 DEF Settled, Placed
<1>4. CASE Rejected(b) /\ res = "err"
  <2>1. Range(b) \in SUBSET Op
    BY RangeOfSeq
  <2>2. lost \in [Causes -> SUBSET Op] /\ "rejected" \in Causes
    BY DEF WalType, Causes
  <2>3. Dropped' = Dropped \cup Range(b)
    BY <1>4, <2>1, <2>2, LoseDropped DEF Rejected
  <2>4. Logged' = Logged
    BY <1>4 DEF Rejected, Logged
  <2> QED BY <1>4, <2>3, <2>4 DEF Settled, Placed
<1> QED BY <1>1, <1>2, <1>3, <1>4

\* So has every operation after the task's add_operation.
LEMMA AddPlaced ==
  ASSUME WalType, NEW op \in Op, AddToBatch(op)
  PROVE  /\ Placed \cup {op} \subseteq Placed'
         /\ Settled \subseteq Settled' /\ Logged \subseteq Logged'
<1> DEFINE b == Append(batch, op)
           sz == batchSize + OpSize[op]
           by == batchBytes + OpSize[op]
<1>1. b \in Seq(Op) /\ sz \in Nat /\ by \in Nat /\ Range(b) = Range(batch) \cup {op}
  <2>1. OpSize[op] \in Nat
    BY DEF Op
  <2>2. batch \in Seq(Op) /\ batchSize \in Nat /\ batchBytes \in Nat
    BY DEF WalType
  <2>3. b \in Seq(Op)
    BY <2>2
  <2>4. Range(b) = Range(batch) \cup {op}
    BY <2>2, RangeAppend
  <2> QED BY <2>1, <2>2, <2>3, <2>4
<1>2. CASE op \in Invalid
  <2>1. Lose("invalid", {op}) /\ UNCHANGED <<batchVars, walVars>>
    BY <1>2 DEF AddToBatch
  <2>2. Dropped' = Dropped \cup {op} /\ Logged' = Logged /\ batch' = batch
    BY <2>1, LoseDropped DEF WalType, Causes, Logged, walVars, batchVars
  <2> QED BY <2>2 DEF Settled, Placed
<1>3. CASE op \notin Invalid /\ (Len(b) >= MaxOpsPerBatch \/ sz > MaxBatchBytes)
  <2>1. PICK res \in {"ok", "err"} : FlushBatch(b, sz, by, res)
    BY <1>3 DEF AddToBatch
  <2> HIDE DEF b, sz, by
  <2> QED BY <2>1, <1>1, FlushPlaced DEF Placed
<1>4. CASE op \notin Invalid /\ ~(Len(b) >= MaxOpsPerBatch \/ sz > MaxBatchBytes)
  <2>1. batch' = b /\ Logged' = Logged /\ Dropped' = Dropped
    BY <1>4 DEF AddToBatch, Logged, Dropped
  <2> HIDE DEF b
  <2> QED BY <2>1, <1>1 DEF Settled, Placed
<1> QED BY <1>2, <1>3, <1>4
-----------------------------------------------------------------------------
(***************************************************************************)
(* What an answered flush says.  The invariant relates the two ends of the *)
(* channel to the states of the client and of the task, and a FlushNow on  *)
(* its way to what the client waits for.                                   *)
(***************************************************************************)
Plumbing ==
  /\ rxOpen <=> task \in {"starting", "running", "exiting"}
  /\ ~rxOpen => chan = <<>> /\ taskOps = <<>> /\ batch = <<>>
  /\ rxOpen => pendingOps = <<>>
  /\ rxOpen /\ pc # "dropped" => hasHandle /\ hasSender
  /\ task = "running" => taskOps = <<>>

\* A FlushNow in the channel is the last command there, and is waited for.
FlushLast ==
  \A i \in DOMAIN chan : chan[i] = FlushNow => i = Len(chan) /\ pc = "flushWait" /\ reply = "none"

FlushInv ==
  /\ FlushLast
  /\ pc \in {"flushSend", "flushWait"} => want = acked
  /\ pc = "flushSend" => reply = "none"
  /\ pc = "flushWait" /\ reply = "ok" => want \subseteq Settled

SafeInv == TypeInv /\ Plumbing /\ FlushInv /\ NothingVanishes /\ FlushedAreLogged

\* NothingVanishes in the terms of the proof.
LEMMA VanishesDef ==
  NothingVanishes <=> acked \subseteq Placed \cup Range(taskOps) \cup ChanOps \cup Range(pendingOps)
BY DEF NothingVanishes, Placed, Settled

\* A task step that only moves operations on keeps the client's view.
LEMMA MovesOn ==
  ASSUME SafeInv, Settled \subseteq Settled',
         UNCHANGED <<pc, hasSender, hasHandle, pendingOps, acked, want, covered>>,
         reply' = reply \/ (reply' = "dropped" /\ pc # "flushSend"),
         FlushLast'
  PROVE  FlushInv' /\ FlushedAreLogged'
<1>1. FlushedAreLogged'
  BY DEF SafeInv, FlushedAreLogged, Settled
<1>2. FlushInv'
  BY DEF SafeInv, FlushInv
<1> QED BY <1>1, <1>2

\* Receiving keeps a FlushNow someone waits for last in the channel.
LEMMA FlushLastTail ==
  ASSUME chan \in Seq(Command), chan # <<>>, chan' = Tail(chan), FlushLast,
         UNCHANGED <<pc, reply>>
  PROVE  FlushLast'
<1>1. /\ Len(chan) \in Nat \ {0} /\ Len(chan') = Len(chan) - 1
      /\ DOMAIN chan' = 1..Len(chan) - 1 /\ DOMAIN chan = 1..Len(chan)
      /\ \A i \in 1..Len(chan) - 1 : chan'[i] = chan[i + 1]
  BY HeadTailProperties, LenProperties, EmptySeq
<1> SUFFICES ASSUME NEW i \in DOMAIN chan', chan'[i] = FlushNow
             PROVE  i = Len(chan') /\ pc' = "flushWait" /\ reply' = "none"
  BY DEF FlushLast, FlushNow
<1>2. i + 1 \in DOMAIN chan /\ chan[i + 1] = FlushNow
  BY <1>1
<1> QED BY <1>1, <1>2 DEF FlushLast

\* So does sending, by whoever does not wait for one already.
LEMMA FlushLastAppend ==
  ASSUME chan \in Seq(Command), NEW c \in Command, chan' = Append(chan, c), FlushLast,
         pc # "flushWait", c = FlushNow => pc' = "flushWait" /\ reply' = "none"
  PROVE  FlushLast'
<1>1. /\ Len(chan) \in Nat /\ Len(chan') = Len(chan) + 1
      /\ DOMAIN chan' = 1..Len(chan) + 1 /\ DOMAIN chan = 1..Len(chan)
      /\ chan'[Len(chan) + 1] = c /\ \A i \in 1..Len(chan) : chan'[i] = chan[i]
  BY AppendProperties, LenProperties
<1> SUFFICES ASSUME NEW i \in DOMAIN chan', chan'[i] = FlushNow
             PROVE  i = Len(chan') /\ pc' = "flushWait" /\ reply' = "none"
  BY DEF FlushLast, FlushNow
<1>2. CASE i \in 1..Len(chan)
  BY <1>1, <1>2 DEF FlushLast
<1>3. CASE i = Len(chan) + 1
  BY <1>1, <1>3
<1> QED BY <1>1, <1>2, <1>3

\* The task has FlushNow in hand only when nothing is behind it.
LEMMA FlushAlone ==
  ASSUME chan \in Seq(Command), chan # <<>>, Head(chan) = FlushNow, FlushLast
  PROVE  /\ Tail(chan) = <<>> /\ ChanOps = {}
         /\ pc = "flushWait" /\ reply = "none"
<1>1. Len(chan) \in Nat \ {0} /\ DOMAIN chan = 1..Len(chan) /\ Head(chan) = chan[1]
  BY HeadTailProperties, LenProperties, EmptySeq
<1>2. Len(chan) = 1 /\ pc = "flushWait" /\ reply = "none"
  BY <1>1 DEF FlushLast
<1>3. Tail(chan) = <<>>
  <2>1. Tail(chan) \in Seq(Command) /\ Len(Tail(chan)) = 0
    BY <1>2, HeadTailProperties
  <2> QED BY <2>1, EmptySeq
<1>4. Range(chan) = {FlushNow}
  BY <1>3, RangeHeadTail, RangeEmpty
<1>5. ChanOps = {}
  BY <1>4 DEF ChanOps, FlushNow
<1> QED BY <1>2, <1>3, <1>5

\* Each lemma below takes TypeInv' from the lemmas about types.
LEMMA TaskStepSafe == SafeInv /\ TypeInv' /\ TaskStep => SafeInv'
<1> SUFFICES ASSUME SafeInv, TypeInv', TaskStep
             PROVE  Plumbing' /\ FlushInv' /\ NothingVanishes' /\ FlushedAreLogged'
  BY DEF SafeInv
<1> USE DEF chanVars, batchVars, walVars, ghostVars, clientVars
<1>1. /\ WalType /\ CallType /\ Plumbing /\ FlushLast /\ chan \in Seq(Command)
      /\ acked \subseteq Placed \cup Range(taskOps) \cup ChanOps \cup Range(pendingOps)
  BY TypeParts, VanishesDef DEF SafeInv, TypeInv, FlushInv, CallType
<1>2. SUFFICES /\ Plumbing' /\ FlushInv' /\ FlushedAreLogged'
               /\ acked' \subseteq Placed' \cup Range(taskOps)' \cup ChanOps' \cup Range(pendingOps)'
  BY DEF NothingVanishes, Placed, Settled
<1>3. CASE TaskPending
  <2>0. /\ UNCHANGED <<pc, hasSender, hasHandle, pendingOps, acked, want, covered, reply, chan, rxOpen>>
        /\ ChanOps' = ChanOps /\ FlushLast'
    BY <1>1, <1>3 DEF TaskPending, ChanOps, FlushLast, FlushNow
  <2>1. CASE taskOps = <<>>
    <3>1. Settled' = Settled /\ Placed' = Placed /\ taskOps' = taskOps /\ task' = "running"
      BY <1>3, <2>1 DEF TaskPending, Settled, Placed, Logged, Dropped
    <3>2. Plumbing'
      BY <1>1, <1>3, <2>0, <2>1, <3>1 DEF TaskPending, Plumbing
    <3> QED BY <1>1, <2>0, <3>1, <3>2, MovesOn
  <2>2. CASE taskOps # <<>>
    <3>1. /\ Head(taskOps) \in Op /\ taskOps' = Tail(taskOps) /\ task' = "starting" /\ task = "starting"
          /\ AddToBatch(Head(taskOps)) /\ Range(taskOps) = {Head(taskOps)} \cup Range(taskOps')
      BY <1>1, <1>3, <2>2, RangeHeadTail DEF TaskPending, CallType
    <3>2. Placed \cup {Head(taskOps)} \subseteq Placed' /\ Settled \subseteq Settled'
      BY <1>1, <3>1, AddPlaced
    <3>3. Plumbing'
      BY <1>1, <2>0, <3>1 DEF Plumbing
    <3>4. FlushInv' /\ FlushedAreLogged'
      BY <2>0, <3>2, MovesOn
    <3> QED BY <1>1, <2>0, <3>1, <3>2, <3>3, <3>4
  <2> QED BY <2>1, <2>2
<1>4. CASE TaskTick
  <2>0. /\ UNCHANGED <<pc, hasSender, hasHandle, pendingOps, acked, want, covered, reply, chan,
                       rxOpen, taskOps>>
        /\ ChanOps' = ChanOps /\ FlushLast' /\ task = "running" /\ task' \in {"running", "exiting"}
    BY <1>1, <1>4 DEF TaskTick, ChanOps, FlushLast, FlushNow
  <2>1. Plumbing'
    BY <1>1, <2>0 DEF Plumbing
  <2>2. Settled \subseteq Settled' /\ Placed \subseteq Placed'
    <3>1. CASE signal
      BY <1>4, <3>1 DEF TaskTick, Settled, Placed, Logged, Dropped
    <3>2. CASE ~signal
      <4>1. PICK res \in {"ok", "err"} : FlushBatch(batch, batchSize, batchBytes, res)
        BY <1>4, <3>2 DEF TaskTick
      <4> QED BY <1>1, <4>1, FlushPlaced DEF WalType, Placed
    <3> QED BY <3>1, <3>2
  <2>3. FlushInv' /\ FlushedAreLogged'
    BY <2>0, <2>2, MovesOn
  <2> QED BY <1>1, <2>0, <2>1, <2>2, <2>3
<1>5. CASE TaskAdd
  <2>0. /\ UNCHANGED <<pc, hasSender, hasHandle, pendingOps, acked, want, covered, reply,
                       rxOpen, taskOps, task>>
        /\ task = "running" /\ chan # <<>> /\ chan' = Tail(chan) /\ Head(chan).cmd = "AddOperation"
    BY <1>5 DEF TaskAdd, Received
  <2>1. Plumbing'
    BY <1>1, <2>0 DEF Plumbing
  <2>2. FlushLast'
    BY <1>1, <2>0, FlushLastTail
  <2>3. Head(chan).op \in Op /\ ChanOps \subseteq ChanOps' \cup {Head(chan).op}
    BY <1>1, <1>5, <2>0, ReceivedType, ChanTail DEF TaskAdd
  <2>4. Placed \cup {Head(chan).op} \subseteq Placed' /\ Settled \subseteq Settled'
    BY <1>1, <1>5, <2>3, AddPlaced DEF TaskAdd
  <2>5. FlushInv' /\ FlushedAreLogged'
    BY <2>0, <2>2, <2>4, MovesOn
  <2> QED BY <1>1, <2>0, <2>1, <2>3, <2>4, <2>5
<1>6. CASE TaskFlushNow
  <2>0. /\ UNCHANGED <<pc, hasSender, hasHandle, pendingOps, acked, want, covered,
                       rxOpen, taskOps, task>>
        /\ task = "running" /\ chan # <<>> /\ chan' = Tail(chan) /\ Head(chan).cmd = "FlushNow"
    BY <1>6 DEF TaskFlushNow, Received
  <2>1. Head(chan) = FlushNow
    <3>1. Head(chan) \in Command
      BY <1>1, <1>6, ReceivedType DEF TaskFlushNow
    <3> QED BY <2>0, <3>1 DEF Command, FlushNow, Shutdown
  <2>2. chan' = <<>> /\ ChanOps = {} /\ pc = "flushWait"
    BY <1>1, <2>0, <2>1, FlushAlone
  <2>3. Plumbing' /\ taskOps = <<>> /\ pendingOps = <<>>
    BY <1>1, <2>0 DEF Plumbing
  <2>4. acked \subseteq Placed /\ want = acked
    BY <1>1, <2>2, <2>3, RangeEmpty DEF SafeInv, FlushInv
  <2>5. /\ Settled \subseteq Settled' /\ Placed \subseteq Placed'
        /\ reply' = "ok" => Placed \subseteq Settled'
    <3>1. CASE batch = <<>>
      BY <1>6, <3>1, RangeEmpty DEF TaskFlushNow, Settled, Placed, Logged, Dropped
    <3>2. CASE batch # <<>>
      <4>1. PICK res \in {"ok", "err"} :
              FlushBatch(batch, batchSize, batchBytes, res) /\ reply' = res
        BY <1>6, <3>2 DEF TaskFlushNow
      <4> QED BY <1>1, <4>1, FlushPlaced DEF WalType, Placed
    <3> QED BY <3>1, <3>2
  <2>6. FlushLast'
    BY <2>2 DEF FlushLast
  <2>7. FlushInv' /\ FlushedAreLogged'
    BY <2>0, <2>2, <2>4, <2>5, <2>6 DEF SafeInv, FlushInv, FlushedAreLogged, Settled
  <2> QED BY <2>0, <2>3, <2>4, <2>5, <2>7
<1>7. CASE TaskShutdown
  <2>0. /\ UNCHANGED <<pc, hasSender, hasHandle, pendingOps, acked, want, covered, reply,
                       rxOpen, taskOps>>
        /\ task = "running" /\ task' = "exiting"
        /\ chan # <<>> /\ chan' = Tail(chan) /\ Head(chan).cmd = "Shutdown"
    BY <1>7 DEF TaskShutdown, Received
  <2>1. Plumbing'
    BY <1>1, <2>0 DEF Plumbing
  <2>2. FlushLast' /\ ChanOps' = ChanOps
    BY <1>1, <2>0, FlushLastTail, ChanTail
  <2>3. Settled \subseteq Settled' /\ Placed \subseteq Placed'
    <3>1. CASE batch = <<>>
      BY <1>7, <3>1 DEF TaskShutdown, Settled, Placed, Logged, Dropped
    <3>2. CASE batch # <<>>
      <4>1. PICK res \in {"ok", "err"} : FlushBatch(batch, batchSize, batchBytes, res)
        BY <1>7, <3>2 DEF TaskShutdown
      <4> QED BY <1>1, <4>1, FlushPlaced DEF WalType, Placed
    <3> QED BY <3>1, <3>2
  <2>4. FlushInv' /\ FlushedAreLogged'
    BY <2>0, <2>2, <2>3, MovesOn
  <2> QED BY <1>1, <2>0, <2>1, <2>2, <2>3, <2>4
<1>8. CASE TaskClosed
  <2>0. UNCHANGED <<taskOps, batchVars, walVars, clientVars, chanVars, ghostVars>> /\ task' = "exiting"
    BY <1>8 DEF TaskClosed
  <2>1. Settled' = Settled /\ Placed' = Placed /\ ChanOps' = ChanOps /\ FlushLast'
    BY <1>1, <2>0 DEF Settled, Placed, Logged, Dropped, ChanOps, FlushLast, FlushNow
  <2>2. Plumbing'
    BY <1>1, <1>8, <2>0 DEF TaskClosed, Plumbing
  <2>3. FlushInv' /\ FlushedAreLogged'
    BY <2>0, <2>1, MovesOn
  <2> QED BY <1>1, <2>0, <2>1, <2>2, <2>3
<1>9. CASE TaskExit
  <2>0. /\ UNCHANGED <<pc, hasSender, hasHandle, pendingOps, acked, want, covered, log>>
        /\ task' = "done" /\ rxOpen' = FALSE /\ chan' = <<>> /\ taskOps' = <<>> /\ batch' = <<>>
        /\ Lose("abandoned", Range(batch) \cup Range(taskOps) \cup ChanOps)
    BY <1>9 DEF TaskExit
  <2>1. Range(batch) \cup Range(taskOps) \cup ChanOps \in SUBSET Op
    BY <1>1, RangeOfSeq, ChanOpsType DEF WalType, CallType
  <2>2. Dropped' = Dropped \cup Range(batch) \cup Range(taskOps) \cup ChanOps /\ Logged' = Logged
    <3> DEFINE gone == Range(batch) \cup Range(taskOps) \cup ChanOps
    <3>1. "abandoned" \in Causes /\ lost \in [Causes -> SUBSET Op] /\ Lose("abandoned", gone)
      BY <1>1, <2>0 DEF WalType, Causes
    <3> HIDE DEF gone
    <3>2. Dropped' = Dropped \cup gone
      BY <2>1, <3>1, LoseDropped DEF gone
    <3> QED BY <2>0, <3>2 DEF gone, Logged
  <2>3. Placed \cup Range(taskOps) \cup ChanOps \subseteq Placed' /\ Settled \subseteq Settled'
    BY <2>2 DEF Placed, Settled
  <2>4. Plumbing' /\ FlushLast'
    BY <1>1, <2>0 DEF Plumbing, FlushLast
  <2>5. reply' = reply \/ (reply' = "dropped" /\ pc # "flushSend")
    <3>1. CASE FlushNow \in Range(chan)
      <4>1. pc = "flushWait"
        BY <1>1, <3>1 DEF FlushLast, Range
      <4> QED BY <1>9, <3>1, <4>1 DEF TaskExit, ReplyOnExit
    <3>2. CASE FlushNow \notin Range(chan)
      BY <1>9, <3>2 DEF TaskExit, ReplyOnExit
    <3> QED BY <3>1, <3>2
  <2>6. FlushInv' /\ FlushedAreLogged'
    BY <2>0, <2>3, <2>4, <2>5, MovesOn
  <2> QED BY <1>1, <2>0, <2>3, <2>4, <2>6
<1> QED BY <1>3, <1>4, <1>5, <1>6, <1>7, <1>8, <1>9 DEF TaskStep

\* A step of the client writes nothing and drops nothing.
LEMMA ClientKeepsLog ==
  ASSUME CallStep \/ NewCall \/ Crash
  PROVE  Settled' = Settled
<1>1. UNCHANGED <<log, lost>>
  BY DEF CallStep, NewCall, Crash, Reopen, Start, Spawn, StoreFalse, AddOperation, SendAdd,
         SendAddRestart, ResendFails, CallFlush, SendFlush, FlushReturns, CallShutdown,
         SendShutdown, ShutdownReturns, Drop, Reboot, walVars, ghostVars
<1> QED BY <1>1 DEF Settled, Logged, Dropped

\* Starting a task keeps the invariant.
LEMMA SpawnSafe ==
  ASSUME SafeInv, ~rxOpen, pc \in {"idle", "addSend"}, NEW r \in BOOLEAN, Spawn(r),
         UNCHANGED <<issued, signal, reply, walVars, ghostVars>>
  PROVE  /\ Plumbing' /\ FlushInv' /\ FlushedAreLogged' /\ NothingVanishes'
<1> USE DEF taskVars, batchVars, walVars, ghostVars
<1>1. /\ Plumbing /\ chan = <<>> /\ taskOps = <<>> /\ batch = <<>>
      /\ chan' = <<>> /\ hasSender' = TRUE /\ batch' = <<>> /\ pc' \in {"idle", "storeFalse"}
      /\ UNCHANGED <<log, lost, acked, want, covered>>
      /\ \/ pendingOps' = pendingOps /\ taskOps' = taskOps
         \/ pendingOps' = <<>> /\ taskOps' = pendingOps
  BY DEF SafeInv, Plumbing, Spawn, Handover
<1>2. Plumbing'
  BY <1>1 DEF Plumbing, Spawn
<1>3. FlushInv' /\ FlushedAreLogged'
  BY <1>1 DEF SafeInv, FlushInv, FlushLast, FlushedAreLogged, Logged, Dropped
<1>4. NothingVanishes'
  <2>1. Logged' = Logged /\ Dropped' = Dropped /\ ChanOps' = ChanOps /\ Range(batch') = Range(batch)
    BY <1>1 DEF Logged, Dropped, ChanOps
  <2>2. Range(taskOps) \cup Range(pendingOps) \subseteq Range(taskOps') \cup Range(pendingOps')
    BY <1>1, RangeEmpty
  <2> QED BY <1>1, <2>1, <2>2 DEF SafeInv, NothingVanishes
<1> QED BY <1>2, <1>3, <1>4

\* The steps of the calls keep the invariant.
LEMMA ClientStepSafe == SafeInv /\ TypeInv' /\ (CallStep \/ NewCall \/ Crash) => SafeInv'
<1> SUFFICES ASSUME SafeInv, TypeInv', CallStep \/ NewCall \/ Crash
             PROVE  Plumbing' /\ FlushInv' /\ NothingVanishes' /\ FlushedAreLogged'
  BY DEF SafeInv
<1> USE DEF chanVars, taskVars, batchVars, walVars, ghostVars
<1>1. /\ WalType /\ CallType /\ AddingType /\ Plumbing /\ FlushInv /\ FlushLast
      /\ chan \in Seq(Command) /\ covered \in [Outcomes -> SUBSET Op]
      /\ acked \subseteq Placed \cup Range(taskOps) \cup ChanOps \cup Range(pendingOps)
      /\ covered.flushed \subseteq Settled
  BY TypeParts, VanishesDef DEF SafeInv, TypeInv, FlushInv, CallType, FlushedAreLogged, Settled
<1>2. Settled' = Settled
  BY ClientKeepsLog
\* A step that leaves the task, the channel and the pending operations alone.
<1>3. ASSUME UNCHANGED <<taskVars, chanVars, walVars, pendingOps, lost>>,
             acked' \subseteq acked,
             covered' = covered \/ covered'.flushed \subseteq Settled,
             FlushNow \in Range(chan) => pc' = "flushWait" /\ reply' = "none",
             pc' # "dropped" => (pc # "dropped" /\ UNCHANGED <<hasSender, hasHandle>>),
             pc' \in {"flushSend", "flushWait"} =>
               want' = acked' /\ reply' # "ok" /\ (pc' = "flushSend" => reply' = "none")
      PROVE  Plumbing' /\ FlushInv' /\ NothingVanishes' /\ FlushedAreLogged'
  <2>1. /\ Placed' = Placed /\ ChanOps' = ChanOps
        /\ Range(taskOps') = Range(taskOps) /\ Range(pendingOps') = Range(pendingOps)
    BY <1>2, <1>3 DEF Placed, ChanOps
  <2>2. NothingVanishes'
    BY <1>1, <1>3, <2>1 DEF NothingVanishes, Placed, Settled
  <2>3. FlushedAreLogged'
    BY <1>1, <1>2, <1>3 DEF FlushedAreLogged, Settled
  <2>4. Plumbing'
    BY <1>1, <1>3 DEF Plumbing
  <2>5. FlushLast'
    BY <1>1, <1>3 DEF FlushLast, FlushNow, Range
  <2>6. FlushInv'
    BY <1>3, <2>5 DEF FlushInv
  <2> QED BY <2>2, <2>3, <2>4, <2>6
<1>4. pc \notin {"flushWait"} => FlushNow \notin Range(chan)
  BY <1>1 DEF FlushLast, Range
<1>5. CASE Start
  <2>1. ~rxOpen
    BY <1>1, <1>5 DEF Start, Plumbing
  <2> QED BY <1>5, <2>1, SpawnSafe DEF Start
<1>6. CASE StoreFalse
  BY <1>3, <1>4, <1>6 DEF StoreFalse
<1>7. CASE AddOperation
  <2>1. CASE hasSender
    BY <1>3, <1>4, <1>7, <2>1 DEF AddOperation
  <2>2. CASE ~hasSender
    <3>1. ~rxOpen
      BY <1>1, <1>7, <2>2 DEF AddOperation, Plumbing
    <3>2. /\ pendingOps' = Append(pendingOps, issued + 1) /\ acked' = acked \cup {issued + 1}
          /\ issued + 1 \in Op /\ pc' = "idle" /\ pc = "idle"
          /\ UNCHANGED <<hasSender, hasHandle, reply, taskVars, chanVars, want, covered, walVars, lost>>
      BY <1>1, <1>7, <2>2 DEF AddOperation, CallType, Op
    <3>3. Range(pendingOps') = Range(pendingOps) \cup {issued + 1}
      BY <1>1, <3>2, RangeAppend DEF CallType
    <3>4. Placed' = Placed /\ ChanOps' = ChanOps /\ taskOps' = taskOps
      BY <1>2, <3>2 DEF Placed, ChanOps
    <3>5. NothingVanishes'
      BY <1>1, <3>2, <3>3, <3>4 DEF NothingVanishes, Placed, Settled
    <3>6. Plumbing'
      BY <1>1, <3>1, <3>2 DEF Plumbing
    <3>7. FlushInv' /\ FlushedAreLogged'
      BY <1>1, <1>2, <3>2 DEF FlushInv, FlushLast, FlushNow, FlushedAreLogged, Settled
    <3> QED BY <3>5, <3>6, <3>7
  <2> QED BY <2>1, <2>2
<1>8. CASE SendAdd
  <2>1. /\ chan' = Append(chan, Add(issued)) /\ acked' = acked \cup {issued} /\ pc' = "idle"
        /\ rxOpen /\ pc # "flushWait" /\ pc # "dropped" /\ issued \in Op
        /\ UNCHANGED <<hasSender, hasHandle, pendingOps, reply, rxOpen, taskVars, walVars, want,
                       covered, lost>>
    BY <1>1, <1>8 DEF SendAdd, AddingType, Adding
  <2>2. Add(issued) \in Command /\ Add(issued) # FlushNow
    BY <2>1, CommandType DEF Add, FlushNow
  <2>3. FlushLast' /\ ChanOps' = ChanOps \cup {issued}
    BY <1>1, <2>1, <2>2, FlushLastAppend, ChanAppend DEF Add
  <2>4. Placed' = Placed /\ taskOps' = taskOps /\ pendingOps' = pendingOps
    BY <1>2, <2>1 DEF Placed
  <2>5. NothingVanishes'
    BY <1>1, <2>1, <2>3, <2>4 DEF NothingVanishes, Placed, Settled
  <2>6. Plumbing'
    BY <1>1, <2>1 DEF Plumbing
  <2> QED BY <1>1, <1>2, <2>1, <2>3, <2>5, <2>6 DEF FlushInv, FlushedAreLogged, Settled
<1>9. CASE SendAddRestart
  BY <1>9, SpawnSafe DEF SendAddRestart
<1>10. CASE ResendFails
  BY <1>3, <1>4, <1>10 DEF ResendFails
<1>11. CASE CallFlush
  BY <1>3, <1>4, <1>11 DEF CallFlush
<1>12. CASE SendFlush
  <2>0. /\ pc = "flushSend" /\ reply = "none" /\ reply' = reply /\ want = acked /\ acked' = acked
        /\ UNCHANGED <<pendingOps, hasSender, hasHandle, taskVars, walVars, rxOpen, lost>>
    BY <1>1, <1>12 DEF SendFlush, FlushInv
  <2>1. CASE chan' = Append(chan, FlushNow) /\ pc' = "flushWait" /\ rxOpen /\ UNCHANGED <<want, covered>>
    <3>1. FlushNow \in Command /\ FlushNow.cmd # "AddOperation"
      BY CommandType DEF FlushNow
    <3>2. FlushLast' /\ ChanOps' = ChanOps
      BY <1>1, <2>0, <2>1, <3>1, FlushLastAppend, ChanAppend
    <3>3. Placed' = Placed /\ taskOps' = taskOps /\ pendingOps' = pendingOps
      BY <1>2, <2>0 DEF Placed
    <3>4. NothingVanishes'
      BY <1>1, <2>0, <3>2, <3>3 DEF NothingVanishes, Placed, Settled
    <3>5. Plumbing'
      BY <1>1, <2>0, <2>1 DEF Plumbing
    <3> QED BY <1>1, <1>2, <2>0, <2>1, <3>2, <3>4, <3>5 DEF FlushInv, FlushedAreLogged, Settled
  <2>2. CASE pc' = "idle" /\ Cover("closed", want) /\ chan' = chan
    <3>1. covered'.flushed = covered.flushed
      BY <1>1, <2>2 DEF Cover, Outcomes
    <3> QED BY <1>1, <1>3, <1>4, <2>0, <2>2, <3>1
  <2> QED BY <1>12, <2>1, <2>2 DEF SendFlush
<1>13. CASE FlushReturns
  <2>1. /\ pc = "flushWait" /\ reply # "none" /\ pc' = "idle"
        /\ UNCHANGED <<pendingOps, hasSender, hasHandle, taskVars, walVars, chanVars, acked, lost>>
    BY <1>13 DEF FlushReturns
  <2>2. FlushNow \notin Range(chan)
    BY <1>1, <2>1 DEF FlushLast, Range
  <2>3. covered' = covered \/ covered'.flushed \subseteq Settled
    <3>1. CASE reply = "ok" /\ Cover("flushed", want)
      <4>1. want \subseteq Settled
        BY <1>1, <2>1, <3>1 DEF FlushInv
      <4>2. covered'.flushed = covered.flushed \cup want
        BY <1>1, <3>1 DEF Cover, Outcomes
      <4> QED BY <1>1, <4>1, <4>2
    <3>2. CASE Cover("swallowed", want)
      BY <1>1, <3>2 DEF Cover, Outcomes
    <3> QED BY <1>13, <3>1, <3>2 DEF FlushReturns
  <2> QED BY <1>3, <2>1, <2>2, <2>3
<1>14. CASE CallShutdown
  BY <1>3, <1>4, <1>14 DEF CallShutdown
<1>15. CASE SendShutdown
  <2>1. CASE chan' = chan
    BY <1>3, <1>4, <1>15, <2>1 DEF SendShutdown
  <2>2. CASE chan' = Append(chan, Shutdown) /\ rxOpen
    <3>0. /\ pc = "shutSend" /\ pc' = "shutJoin"
          /\ UNCHANGED <<pendingOps, hasSender, hasHandle, reply, rxOpen, taskVars, walVars, ghostVars>>
      BY <1>15 DEF SendShutdown
    <3>1. Shutdown \in Command /\ Shutdown.cmd # "AddOperation" /\ Shutdown # FlushNow
      BY CommandType DEF Shutdown, FlushNow
    <3>2. FlushLast' /\ ChanOps' = ChanOps
      BY <1>1, <2>2, <3>0, <3>1, FlushLastAppend, ChanAppend
    <3>3. Placed' = Placed
      BY <1>2, <3>0 DEF Placed
    <3>4. NothingVanishes'
      BY <1>1, <3>0, <3>2, <3>3 DEF NothingVanishes, Placed, Settled
    <3>5. Plumbing'
      BY <1>1, <2>2, <3>0 DEF Plumbing
    <3> QED BY <1>1, <1>2, <3>0, <3>2, <3>4, <3>5 DEF FlushInv, FlushedAreLogged, Settled
  <2> QED BY <1>15, <2>1, <2>2 DEF SendShutdown
<1>16. CASE ShutdownReturns
  <2>1. /\ pc = "shutJoin" /\ pc' = "idle" /\ (hasHandle => task = "done")
        /\ UNCHANGED <<pendingOps, reply, taskVars, walVars, chanVars, lost>>
        /\ acked' \subseteq acked /\ Cover("shutdown", want \ Range(pendingOps))
    BY <1>16 DEF ShutdownReturns
  <2>2. ~rxOpen
    BY <1>1, <2>1 DEF Plumbing
  <2>3. Plumbing'
    BY <1>1, <2>1, <2>2 DEF Plumbing
  <2>4. /\ Placed' = Placed /\ ChanOps' = ChanOps /\ FlushLast'
        /\ Range(taskOps') = Range(taskOps) /\ Range(pendingOps') = Range(pendingOps)
    BY <1>1, <1>2, <2>1, <2>2, RangeEmpty DEF Placed, ChanOps, FlushLast, Plumbing
  <2>5. NothingVanishes'
    BY <1>1, <2>1, <2>4 DEF NothingVanishes, Placed, Settled
  <2>6. covered'.flushed = covered.flushed
    BY <1>1, <2>1 DEF Cover, Outcomes
  <2> QED BY <1>1, <1>2, <2>1, <2>3, <2>4, <2>5, <2>6 DEF FlushInv, FlushedAreLogged, Settled
<1>17. CASE Drop
  <2>1. /\ pc = "idle" /\ pc' = "dropped" /\ pendingOps' = <<>> /\ acked' = acked \cap Logged
        /\ UNCHANGED <<reply, taskVars, walVars, chanVars, want, covered, lost>>
    BY <1>17 DEF Drop
  <2>2. Plumbing'
    BY <1>1, <2>1 DEF Plumbing
  <2>3. Logged' = Logged /\ FlushLast'
    BY <1>1, <1>4, <2>1 DEF Logged, FlushLast, FlushNow, Range
  <2>4. NothingVanishes'
    BY <2>1, <2>3 DEF NothingVanishes
  <2> QED BY <1>1, <1>2, <2>1, <2>2, <2>3, <2>4 DEF FlushInv, FlushedAreLogged, Settled
<1>18. CASE Reboot
  <2>1. /\ pc' = "idle" /\ chan' = <<>> /\ rxOpen' = FALSE /\ task' = "none" /\ taskOps' = <<>>
        /\ batch' = <<>> /\ acked' = acked \cap Logged /\ UNCHANGED <<walVars, covered, lost>>
    BY <1>18 DEF Reboot
  <2>2. Plumbing' /\ FlushLast' /\ Logged' = Logged
    BY <2>1 DEF Plumbing, FlushLast, Logged
  <2>3. NothingVanishes'
    BY <2>1, <2>2 DEF NothingVanishes
  <2> QED BY <1>1, <1>2, <2>1, <2>2, <2>3 DEF FlushInv, FlushedAreLogged, Settled
<1> QED BY <1>5, <1>6, <1>7, <1>8, <1>9, <1>10, <1>11, <1>12, <1>13, <1>14, <1>15, <1>16,
           <1>17, <1>18 DEF CallStep, NewCall, Crash, Reopen

\* The invariant holds initially.
LEMMA SafeInit == Init => SafeInv
<1> SUFFICES ASSUME Init
             PROVE  Plumbing /\ FlushInv /\ NothingVanishes /\ FlushedAreLogged
  BY TypeInit DEF SafeInv
<1>1. Plumbing /\ FlushLast
  BY DEF Init, Plumbing, FlushLast
<1>2. NothingVanishes /\ covered.flushed = {}
  BY DEF Init, NothingVanishes, Outcomes
<1> QED BY <1>1, <1>2 DEF Init, FlushInv, FlushedAreLogged

\* Every step keeps the invariant.
LEMMA SafeStep == SafeInv /\ [Next]_vars => SafeInv'
<1> SUFFICES ASSUME SafeInv, [Next]_vars PROVE SafeInv'
  OBVIOUS
<1>1. TypeInv'
  BY TypeStep DEF SafeInv
<1>2. CASE UNCHANGED vars
  <2>1. Plumbing' /\ FlushInv'
    BY <1>2 DEF vars, clientVars, taskVars, batchVars, walVars, chanVars, ghostVars,
                SafeInv, Plumbing, FlushInv, FlushLast, FlushNow, Settled, Logged, Dropped
  <2>2. NothingVanishes' /\ FlushedAreLogged'
    BY <1>2 DEF vars, clientVars, taskVars, batchVars, walVars, chanVars, ghostVars,
                SafeInv, NothingVanishes, FlushedAreLogged, Logged, Dropped, ChanOps
  <2> QED BY <1>1, <2>1, <2>2 DEF SafeInv
<1> QED BY <1>1, <1>2, TaskStepSafe, ClientStepSafe DEF Next

\* An operation that add_operation answered Ok for is in the log, on its way
\* there, or in one of the three places where the code drops one, through every
\* restart, failed start, refused append and crash.
THEOREM NothingVanishesAlways == Spec => []NothingVanishes
<1>1. SafeInv => NothingVanishes
  BY DEF SafeInv
<1> QED BY SafeInit, SafeStep, <1>1, PTL DEF Spec

\* When the task itself answers flush_now with Ok, everything accepted before
\* the call is in the log or was given up earlier: a FlushNow is the last
\* command in the channel, so nothing accepted is still behind it.
THEOREM FlushAnswersTruly == Spec => []FlushedAreLogged
<1>1. SafeInv => FlushedAreLogged
  BY DEF SafeInv
<1> QED BY SafeInit, SafeStep, <1>1, PTL DEF Spec
-----------------------------------------------------------------------------
(***************************************************************************)
(* The size estimate of the batch.                                         *)
(***************************************************************************)
Tracks(sz, bytes) == sz >= bytes /\ (lost.rejected = {} => sz = bytes)

\* flush_batch keeps the estimate in step with the batch.
LEMMA FlushTracks ==
  ASSUME WalType, NEW b \in Seq(Op), b # <<>>, NEW sz \in Nat, NEW bytes \in Nat,
         NEW res \in {"ok", "err"}, Tracks(sz, bytes), FlushBatch(b, sz, bytes, res)
  PROVE  BatchSizeTracksBatch'
<1>1. CASE batchSize' = sz /\ batchBytes' = bytes /\ UNCHANGED lost
  BY <1>1 DEF Tracks, BatchSizeTracksBatch
<1>2. CASE batchSize' = 0 /\ batchBytes' = 0
  BY <1>2 DEF BatchSizeTracksBatch
<1>3. CASE batchSize' = sz /\ batchBytes' = 0 /\ Lose("rejected", Range(b))
  <2>1. Range(b) # {} /\ Range(b) \in SUBSET Op
    <3>1. Range(b) = {Head(b)} \cup Range(Tail(b))
      BY RangeHeadTail
    <3>2. Range(b) \subseteq Op
      BY RangeOfSeq
    <3> QED BY <3>1, <3>2
  <2>2. lost'.rejected = lost.rejected \cup Range(b)
    BY <1>3, <2>1, LoseType DEF WalType, Causes
  <2> QED BY <1>3, <2>1, <2>2 DEF BatchSizeTracksBatch
<1> QED BY <1>1, <1>2, <1>3 DEF FlushBatch, ResetSize

\* So does add_operation of the batch manager.
LEMMA AddTracks ==
  ASSUME WalType, NEW op \in Op, BatchSizeTracksBatch, AddToBatch(op)
  PROVE  BatchSizeTracksBatch'
<1> DEFINE b  == Append(batch, op)
           sz == batchSize + OpSize[op]
           by == batchBytes + OpSize[op]
<1>1. b \in Seq(Op) /\ b # <<>> /\ sz \in Nat /\ by \in Nat /\ Tracks(sz, by)
  <2>1. OpSize[op] \in Nat /\ batchSize \in Nat /\ batchBytes \in Nat
    BY DEF WalType, Op
  <2>2. batch \in Seq(Op)
    BY DEF WalType
  <2>3. b \in Seq(Op) /\ b # <<>>
    BY <2>2, AppendProperties
  <2>4. Tracks(sz, by)
    BY <2>1 DEF BatchSizeTracksBatch, Tracks
  <2> QED BY <2>1, <2>3, <2>4
<1>2. CASE op \in Invalid
  <2>1. Lose("invalid", {op}) /\ UNCHANGED batchVars
    BY <1>2 DEF AddToBatch
  <2>2. lost'.rejected = lost.rejected
    BY <2>1, LoseType DEF WalType, Causes
  <2> QED BY <2>1, <2>2 DEF BatchSizeTracksBatch, batchVars
<1>3. CASE op \notin Invalid /\ (Len(b) >= MaxOpsPerBatch \/ sz > MaxBatchBytes)
  <2>1. PICK res \in {"ok", "err"} : FlushBatch(b, sz, by, res)
    BY <1>3 DEF AddToBatch
  <2> HIDE DEF b, sz, by
  <2> QED BY <1>1, <2>1, FlushTracks
<1>4. CASE op \notin Invalid /\ ~(Len(b) >= MaxOpsPerBatch \/ sz > MaxBatchBytes)
  <2>1. batchSize' = sz /\ batchBytes' = by /\ UNCHANGED lost
    BY <1>4 DEF AddToBatch
  <2> HIDE DEF b, sz, by
  <2> QED BY <1>1, <2>1 DEF BatchSizeTracksBatch, Tracks
<1> QED BY <1>2, <1>3, <1>4

\* Every step keeps the estimate in step with the batch.
LEMMA TracksStep == TypeInv /\ BatchSizeTracksBatch /\ [Next]_vars => BatchSizeTracksBatch'
<1> SUFFICES ASSUME TypeInv, BatchSizeTracksBatch, [Next]_vars PROVE BatchSizeTracksBatch'
  OBVIOUS
<1>1. WalType /\ CallType
  BY TypeParts DEF TypeInv
<1> USE DEF chanVars, taskVars, batchVars, walVars, ghostVars, clientVars
\* The batch is left alone, or dropped together with its estimate.
<1>2. ASSUME UNCHANGED <<batchSize, batchBytes, lost>> PROVE BatchSizeTracksBatch'
  BY <1>2 DEF BatchSizeTracksBatch
<1>3. ASSUME batchSize' = 0, batchBytes' = 0 PROVE BatchSizeTracksBatch'
  BY <1>3 DEF BatchSizeTracksBatch
\* The batch is flushed.
<1>4. ASSUME batch # <<>>, NEW res \in {"ok", "err"}, FlushBatch(batch, batchSize, batchBytes, res)
      PROVE  BatchSizeTracksBatch'
  <2>1. Tracks(batchSize, batchBytes)
    BY DEF BatchSizeTracksBatch, Tracks
  <2> QED BY <1>1, <1>4, <2>1, FlushTracks DEF WalType
<1>5. CASE TaskPending
  <2>1. CASE taskOps = <<>>
    BY <1>2, <1>5, <2>1 DEF TaskPending
  <2>2. CASE taskOps # <<>>
    <3>1. Head(taskOps) \in Op /\ AddToBatch(Head(taskOps))
      BY <1>1, <1>5, <2>2, RangeHeadTail DEF TaskPending, CallType
    <3> QED BY <1>1, <3>1, AddTracks
  <2> QED BY <2>1, <2>2
<1>6. CASE TaskTick
  <2>1. CASE signal
    BY <1>2, <1>6, <2>1 DEF TaskTick
  <2>2. CASE ~signal
    BY <1>4, <1>6, <2>2 DEF TaskTick
  <2> QED BY <2>1, <2>2
<1>7. CASE TaskAdd
  <2>1. Head(chan).op \in Op /\ AddToBatch(Head(chan).op)
    BY <1>1, <1>7, ReceivedType DEF TaskAdd
  <2> QED BY <1>1, <2>1, AddTracks
<1>8. CASE TaskFlushNow
  <2>1. CASE batch = <<>>
    BY <1>2, <1>8, <2>1 DEF TaskFlushNow
  <2>2. CASE batch # <<>>
    BY <1>4, <1>8, <2>2 DEF TaskFlushNow
  <2> QED BY <2>1, <2>2
<1>9. CASE TaskShutdown
  <2>1. CASE batch = <<>>
    BY <1>2, <1>9, <2>1 DEF TaskShutdown
  <2>2. CASE batch # <<>>
    BY <1>4, <1>9, <2>2 DEF TaskShutdown
  <2> QED BY <2>1, <2>2
<1>10. CASE TaskClosed
  BY <1>2, <1>10 DEF TaskClosed
<1>11. CASE TaskExit
  BY <1>3, <1>11 DEF TaskExit
<1>12. CASE Start \/ SendAddRestart
  BY <1>2, <1>3, <1>12 DEF Start, SendAddRestart, Spawn
<1>13. CASE Crash \/ Reopen
  BY <1>3, <1>13 DEF Crash, Reopen, Reboot
<1>14. CASE StoreFalse \/ AddOperation \/ SendAdd \/ ResendFails \/ CallFlush \/ SendFlush
  BY <1>2, <1>14 DEF StoreFalse, AddOperation, SendAdd, ResendFails, CallFlush, SendFlush
<1>15. CASE FlushReturns \/ CallShutdown \/ SendShutdown \/ ShutdownReturns \/ Drop
  BY <1>2, <1>15 DEF FlushReturns, CallShutdown, SendShutdown, ShutdownReturns, Drop
<1>16. CASE UNCHANGED vars
  BY <1>2, <1>16 DEF vars
<1> QED BY <1>5, <1>6, <1>7, <1>8, <1>9, <1>10, <1>11, <1>12, <1>13, <1>14, <1>15, <1>16
           DEF Next, TaskStep, CallStep, NewCall

\* The estimate the size limit is compared with never falls below what the
\* batch will take in a segment, and is exact until an append is refused.
THEOREM EstimateTracksBatch == Spec => []BatchSizeTracksBatch
<1>1. Init => BatchSizeTracksBatch
  BY DEF Init, BatchSizeTracksBatch
<1> QED BY <1>1, TypeInit, TypeStep, TracksStep, PTL DEF Spec
-----------------------------------------------------------------------------
(***************************************************************************)
(* Order.  BatchProcessor writes the log in the order of the add_operation *)
(* calls, and implements OpLog.                                            *)
(*                                                                         *)
(* The operations stand in one queue: log, batch, taskOps, channel (or     *)
(* pendingOps, when there is no task).  The invariant says so, and every   *)
(* step of the task moves the operations at the head of a part to the part *)
(* before it.                                                              *)
(***************************************************************************)
Before(A, B) == \A a \in A, b \in B : a < b
Increasing(s) == \A i, j \in DOMAIN s : i < j => s[i] < s[j]
IsAdd(c) == c.cmd = "AddOperation"
AddsIncreasing(s) ==
  \A i, j \in DOMAIN s : i < j /\ IsAdd(s[i]) /\ IsAdd(s[j]) => s[i].op < s[j].op

\* What waits behind the batch.
Rest == Range(taskOps) \cup ChanOps \cup Range(pendingOps)

QueueOrder ==
  /\ Increasing(batch) /\ Increasing(taskOps) /\ Increasing(pendingOps)
  /\ AddsIncreasing(chan)
  /\ Before(Logged, Waiting) /\ Before(Range(batch), Rest) /\ Before(Range(taskOps), ChanOps)
  /\ Logged \cup Waiting \subseteq 1..LastOp

LogOrder ==
  /\ \A i \in DOMAIN log : Increasing(log[i].ops) /\ log[i].seg <= Len(segUsed)
  /\ \A i, j \in DOMAIN log : i < j =>
       log[i].seg <= log[j].seg /\ Before(Range(log[i].ops), Range(log[j].ops))
  /\ cur \in {0, Len(segUsed)}

OrderInv == QueueOrder /\ LogOrder
-----------------------------------------------------------------------------
\* An element above all the others keeps a sequence increasing.
LEMMA IncreasingAppend ==
  ASSUME NEW s \in Seq(Op), NEW e \in Op, Increasing(s), Before(Range(s), {e})
  PROVE  Increasing(Append(s, e))
<1>1. /\ Len(s) \in Nat /\ DOMAIN s = 1..Len(s) /\ DOMAIN Append(s, e) = 1..Len(s) + 1
      /\ Append(s, e)[Len(s) + 1] = e /\ \A i \in 1..Len(s) : Append(s, e)[i] = s[i]
  BY AppendProperties, LenProperties
<1> SUFFICES ASSUME NEW i \in 1..Len(s) + 1, NEW j \in 1..Len(s) + 1, i < j
             PROVE  Append(s, e)[i] < Append(s, e)[j]
  BY <1>1 DEF Increasing
<1>2. i \in 1..Len(s)
  BY <1>1
<1>3. CASE j \in 1..Len(s)
  BY <1>1, <1>2, <1>3 DEF Increasing
<1>4. CASE j = Len(s) + 1
  BY <1>1, <1>2, <1>4 DEF Before, Range
<1> QED BY <1>1, <1>3, <1>4

\* The tail of an increasing sequence is increasing, above the head.
LEMMA IncreasingTail ==
  ASSUME NEW s \in Seq(Op), s # <<>>, Increasing(s)
  PROVE  Increasing(Tail(s)) /\ Before({Head(s)}, Range(Tail(s)))
<1>1. /\ Len(s) \in Nat \ {0} /\ DOMAIN s = 1..Len(s) /\ DOMAIN Tail(s) = 1..Len(s) - 1
      /\ Head(s) = s[1] /\ \A i \in 1..Len(s) - 1 : Tail(s)[i] = s[i + 1]
  BY HeadTailProperties, LenProperties, EmptySeq
<1>2. Increasing(Tail(s))
  BY <1>1 DEF Increasing
<1>3. ASSUME NEW x \in Range(Tail(s)) PROVE Head(s) < x
  <2>1. PICK i \in 1..Len(s) - 1 : x = s[i + 1]
    BY <1>1 DEF Range
  <2>2. 1 \in DOMAIN s /\ i + 1 \in DOMAIN s /\ 1 < i + 1
    BY <1>1
  <2> QED BY <1>1, <2>1, <2>2 DEF Increasing
<1> QED BY <1>2, <1>3 DEF Before

\* A command sent keeps the adds in the channel in order.
LEMMA AddsAppend ==
  ASSUME chan \in Seq(Command), NEW c \in Command, AddsIncreasing(chan),
         IsAdd(c) => Before(ChanOps, {c.op})
  PROVE  AddsIncreasing(Append(chan, c))
<1> DEFINE t == Append(chan, c)
<1>1. /\ Len(chan) \in Nat /\ DOMAIN chan = 1..Len(chan) /\ DOMAIN t = 1..Len(chan) + 1
      /\ t[Len(chan) + 1] = c /\ \A i \in 1..Len(chan) : t[i] = chan[i]
  BY AppendProperties, LenProperties
<1> HIDE DEF t
<1> SUFFICES ASSUME NEW i \in 1..Len(chan) + 1, NEW j \in 1..Len(chan) + 1, i < j,
                    IsAdd(t[i]), IsAdd(t[j])
             PROVE  t[i].op < t[j].op
  BY <1>1 DEF AddsIncreasing, t
<1>2. i \in 1..Len(chan)
  BY <1>1
<1>3. CASE j \in 1..Len(chan)
  BY <1>1, <1>2, <1>3 DEF AddsIncreasing
<1>4. CASE j = Len(chan) + 1
  <2>1. chan[i].op \in ChanOps
    <3>1. chan[i] \in Range(chan) /\ chan[i].cmd = "AddOperation"
      BY <1>1, <1>2 DEF Range, IsAdd
    <3> QED BY <3>1 DEF ChanOps
  <2> QED BY <1>1, <1>2, <1>4, <2>1 DEF Before
<1>5. j \in 1..Len(chan) \/ j = Len(chan) + 1
  <2>1. Len(chan) \in Nat
    BY <1>1
  <2> QED BY <2>1
<1> QED BY <1>3, <1>4, <1>5

\* A command received keeps them in order, and is the oldest.
LEMMA AddsTail ==
  ASSUME chan \in Seq(Command), chan # <<>>, AddsIncreasing(chan), chan' = Tail(chan)
  PROVE  AddsIncreasing(chan') /\ (IsAdd(Head(chan)) => Before({Head(chan).op}, ChanOps'))
<1>1. /\ Len(chan) \in Nat \ {0} /\ DOMAIN chan = 1..Len(chan) /\ DOMAIN chan' = 1..Len(chan) - 1
      /\ Head(chan) = chan[1] /\ \A i \in 1..Len(chan) - 1 : chan'[i] = chan[i + 1]
  BY HeadTailProperties, LenProperties, EmptySeq
<1>2. ASSUME NEW i \in 1..Len(chan) - 1, NEW j \in 1..Len(chan) - 1, i < j,
             IsAdd(chan'[i]), IsAdd(chan'[j])
      PROVE  chan'[i].op < chan'[j].op
  <2>1. i + 1 \in DOMAIN chan /\ j + 1 \in DOMAIN chan /\ i + 1 < j + 1
    BY <1>1, <1>2
  <2> QED BY <1>1, <1>2, <2>1 DEF AddsIncreasing
<1>3. ASSUME IsAdd(Head(chan)), NEW x \in ChanOps' PROVE Head(chan).op < x
  <2>1. PICK i \in 1..Len(chan) - 1 : IsAdd(chan'[i]) /\ x = chan'[i].op
    BY <1>1 DEF ChanOps, Range, IsAdd
  <2>2. 1 \in DOMAIN chan /\ i + 1 \in DOMAIN chan /\ 1 < i + 1 /\ chan'[i] = chan[i + 1]
    BY <1>1
  <2> QED BY <1>1, <1>3, <2>1, <2>2 DEF AddsIncreasing
<1> QED BY <1>1, <1>2, <1>3 DEF Before, AddsIncreasing
-----------------------------------------------------------------------------
(***************************************************************************)
(* The task.  In one step it has the operations S in hand, from the head   *)
(* of the queue; it keeps them, writes them or gives them up.              *)
(***************************************************************************)
Progress(S) ==
  /\ LogOrder' /\ Increasing(batch') /\ Range(batch') \subseteq S
  /\ \/ Logged' = Logged
     \/ Logged' = Logged \cup S /\ batch' = <<>>

\* A record of newer operations at the end keeps the log in order.
LEMMA LogOrderAppend ==
  ASSUME LogOrder, log \in Seq(Entry), segUsed \in Seq(0..SegmentCapacity),
         NEW e \in Entry, log' = Append(log, e), e.seg = Len(segUsed'), cur' = Len(segUsed'),
         Len(segUsed') \in Nat, Len(segUsed') >= Len(segUsed),
         Increasing(e.ops), Before(Logged, Range(e.ops))
  PROVE  LogOrder'
<1>1. /\ Len(log) \in Nat /\ DOMAIN log = 1..Len(log) /\ DOMAIN log' = 1..Len(log) + 1
      /\ log'[Len(log) + 1] = e /\ \A i \in 1..Len(log) : log'[i] = log[i]
      /\ Len(segUsed) \in Nat
  BY AppendProperties, LenProperties
<1>2. ASSUME NEW i \in 1..Len(log)
      PROVE  /\ log[i].seg \in Nat /\ log[i].seg <= Len(segUsed) /\ Increasing(log[i].ops)
             /\ Before(Range(log[i].ops), Range(e.ops))
  <2>1. log[i] \in Entry
    BY <1>1, ElementOfSeq
  <2>2. Range(log[i].ops) \subseteq Logged
    BY <1>1 DEF Logged
  <2> QED BY <1>1, <2>1, <2>2 DEF LogOrder, Entry, Before
<1>3. ASSUME NEW i \in DOMAIN log' PROVE Increasing(log'[i].ops) /\ log'[i].seg <= Len(segUsed')
  <2>1. CASE i \in 1..Len(log)
    BY <1>1, <1>2, <2>1
  <2>2. CASE i = Len(log) + 1
    BY <1>1, <2>2
  <2> QED BY <1>1, <1>3, <2>1, <2>2
<1>4. ASSUME NEW i \in DOMAIN log', NEW j \in DOMAIN log', i < j
      PROVE  log'[i].seg <= log'[j].seg /\ Before(Range(log'[i].ops), Range(log'[j].ops))
  <2>1. i \in 1..Len(log) /\ log'[i] = log[i]
    BY <1>1, <1>4
  <2>2. CASE j \in 1..Len(log)
    BY <1>1, <1>4, <2>1, <2>2 DEF LogOrder
  <2>3. CASE j = Len(log) + 1
    BY <1>1, <1>2, <2>1, <2>3
  <2> QED BY <1>1, <1>4, <2>2, <2>3
<1> QED BY <1>3, <1>4 DEF LogOrder

\* A batch kept, logged or rejected: what that does to the log.
LEMMA EffectProgress ==
  ASSUME WalType, WalType', LogOrder, NEW b \in Seq(Op), Increasing(b), Before(Logged, Range(b)),
         Kept(b) \/ Appended(b) \/ Rejected(b)
  PROVE  Progress(Range(b))
<1>1. CASE Kept(b)
  BY <1>1 DEF Kept, Progress, LogOrder, Logged
<1>2. CASE Appended(b)
  <2> DEFINE e == [seg |-> cur', ops |-> b]
  <2>1. /\ e \in Entry /\ log' = Append(log, e) /\ e.seg = cur' /\ e.ops = b
        /\ cur' = Len(segUsed') /\ Len(segUsed') \in Nat /\ Len(segUsed') >= Len(segUsed)
        /\ batch' = <<>>
    BY <1>2, LenProperties DEF Appended, Moved, Entry, WalType, LogOrder
  <2> HIDE DEF e
  <2>2. LogOrder'
    BY <2>1, LogOrderAppend DEF WalType
  <2>3. Logged' = Logged \cup Range(b)
    BY <2>1, LoggedAppend DEF WalType
  <2> QED BY <2>1, <2>2, <2>3, RangeEmpty DEF Progress, Increasing
<1>3. CASE Rejected(b)
  <2>1. LogOrder' /\ Logged' = Logged /\ batch' = <<>>
    <3>1. /\ log' = log /\ batch' = <<>> /\ cur' = Len(segUsed')
          /\ Len(segUsed') >= Len(segUsed) /\ Len(segUsed) \in Nat /\ Len(segUsed') \in Nat
      BY <1>3, LenProperties DEF Rejected, Moved, WalType, LogOrder
    <3>2. ASSUME NEW i \in DOMAIN log PROVE log[i].seg <= Len(segUsed')
      <4>1. log[i] \in Entry /\ log[i].seg <= Len(segUsed)
        BY ElementOfSeq, LenProperties DEF WalType, LogOrder
      <4> QED BY <3>1, <4>1 DEF Entry
    <3> QED BY <3>1, <3>2 DEF LogOrder, Logged
  <2> QED BY <2>1, RangeEmpty DEF Progress, Increasing
<1> QED BY <1>1, <1>2, <1>3

\* A flush takes the batch one way or the other, in order.
LEMMA FlushProgress ==
  ASSUME WalType, OrderInv, NEW res \in {"ok", "err"},
         FlushBatch(batch, batchSize, batchBytes, res)
  PROVE  Progress(Range(batch))
<1>1. /\ WalType' /\ batch \in Seq(Op)
      /\ Kept(batch) \/ Appended(batch) \/ Rejected(batch)
  BY FlushBatchEffect DEF WalType
<1>2. LogOrder /\ Increasing(batch) /\ Before(Logged, Range(batch))
  BY DEF OrderInv, QueueOrder, Waiting, Before
<1> QED BY <1>1, <1>2, EffectProgress

\* So does add_operation, with the new operation after the batch.
LEMMA AddProgress ==
  ASSUME WalType, OrderInv, NEW op \in Op, AddToBatch(op),
         Before(Range(batch), {op}), Before(Logged, {op})
  PROVE  Progress(Range(batch) \cup {op})
<1>1. WalType' /\ AddEffect(op)
  BY AddToBatchEffect
<1>2. LogOrder /\ Increasing(batch) /\ Before(Logged, Range(batch))
  BY DEF OrderInv, QueueOrder, Waiting, Before
<1>3. CASE Lose("invalid", {op}) /\ UNCHANGED <<batchVars, walVars>>
  BY <1>2, <1>3 DEF batchVars, walVars, Progress, LogOrder, Logged
<1>4. CASE Kept(Append(batch, op)) \/ Appended(Append(batch, op)) \/ Rejected(Append(batch, op))
  <2> DEFINE b == Append(batch, op)
  <2>1. b \in Seq(Op) /\ Range(b) = Range(batch) \cup {op} /\ Increasing(b)
    BY <1>2, AppendProperties, RangeAppend, IncreasingAppend DEF WalType
  <2> HIDE DEF b
  <2>2. Before(Logged, Range(b))
    BY <1>2, <2>1 DEF Before
  <2>3. Progress(Range(b))
    BY <1>1, <1>2, <1>4, <2>1, <2>2, EffectProgress DEF b
  <2> QED BY <2>1, <2>3
<1> QED BY <1>1, <1>3, <1>4 DEF AddEffect

\* What the invariant of the order and the refinement both follow from.
LEMMA QueueMoves ==
  ASSUME NEW S, Progress(S), Waiting = S \cup Rest', Before(S, Rest'),
         Before(Logged, Waiting), Logged \cup Waiting \subseteq 1..LastOp, LastOp' = LastOp
  PROVE  /\ LogOrder' /\ Increasing(batch') /\ Before(Logged', Waiting')
         /\ Before(Range(batch'), Rest')
         /\ Logged' \cup Waiting' \subseteq 1..LastOp'
         /\ WritePath!Next
<1>1. Waiting' = Range(batch') \cup Rest'
  BY DEF Waiting, Rest
<1>2. CASE Logged' = Logged
  <2>1. Waiting' \subseteq Waiting
    BY <1>1 DEF Progress
  <2>2. WritePath!Lose
    BY <1>2, <2>1 DEF WritePath!Lose
  <2> QED BY <1>2, <2>1, <2>2 DEF Progress, Before, WritePath!Next
<1>3. CASE Logged' = Logged \cup S /\ batch' = <<>>
  <2>1. Waiting' = Rest'
    BY <1>1, <1>3, RangeEmpty
  <2>2. S \cap Rest' = {}
    <3>1. ASSUME NEW x \in S, x \in Rest' PROVE FALSE
      <4>1. x < x /\ x \in 1..LastOp
        BY <3>1 DEF Before
      <4> QED BY <4>1
    <3> QED BY <3>1
  <2>3. Waiting' = Waiting \ S
    BY <2>1, <2>2
  <2>4. WritePath!Write
    <3>1. S \in SUBSET Waiting
      OBVIOUS
    <3>2. \A x \in S, w \in Waiting \ S : x < w
      BY <2>1, <2>3 DEF Before
    <3> QED BY <1>3, <2>3, <3>1, <3>2 DEF WritePath!Write
  <2> QED BY <1>3, <2>1, <2>4, RangeEmpty DEF Progress, Before, WritePath!Next
<1> QED BY <1>2, <1>3 DEF Progress

\* The write path: the next step of OpLog, or no step of it.
PathStep == WritePath!Next \/ UNCHANGED <<LastOp, Waiting, Logged>>

\* Every step of the task keeps the order and is a step of OpLog.
LEMMA TaskStepOrder == SafeInv /\ OrderInv /\ TaskStep => OrderInv' /\ PathStep
<1> SUFFICES ASSUME SafeInv, OrderInv, TaskStep PROVE OrderInv' /\ PathStep
  OBVIOUS
<1> USE DEF chanVars, batchVars, walVars, ghostVars, clientVars
<1>1. /\ WalType /\ CallType /\ Plumbing /\ chan \in Seq(Command) /\ taskOps \in Seq(Op)
      /\ QueueOrder /\ LogOrder
      /\ Waiting = Range(batch) \cup Rest /\ Before(Logged, Waiting)
      /\ Logged \cup Waiting \subseteq 1..LastOp
  BY TypeParts DEF SafeInv, TypeInv, CallType, OrderInv, QueueOrder, Waiting, Rest
<1>2. UNCHANGED <<pc, inRestart, issued, pendingOps>> /\ LastOp' = LastOp
  BY DEF TaskStep, TaskPending, TaskTick, TaskAdd, TaskFlushNow, TaskShutdown, TaskClosed,
         TaskExit, Received, LastOp, Adding
\* It is enough that the operations in hand progress and the rest stays in order.
<1>3. ASSUME NEW S, Progress(S), Waiting = S \cup Rest', Before(S, Rest'),
             Increasing(taskOps'), AddsIncreasing(chan'), Before(Range(taskOps'), ChanOps')
      PROVE  OrderInv' /\ PathStep
  <2>1. Increasing(pendingOps')
    BY <1>1, <1>2 DEF QueueOrder
  <2> QED BY <1>1, <1>2, <1>3, <2>1, QueueMoves DEF OrderInv, QueueOrder, PathStep
\* Nothing of the batch or behind it moves.
<1>4. ASSUME UNCHANGED <<batchVars, walVars, taskOps>>, ChanOps' = ChanOps, AddsIncreasing(chan')
      PROVE  OrderInv' /\ PathStep
  <2>1. Waiting' = Waiting /\ Logged' = Logged /\ Rest' = Rest
    BY <1>2, <1>4 DEF Waiting, Logged, Rest
  <2>2. LogOrder' /\ QueueOrder'
    BY <1>1, <1>2, <1>4, <2>1 DEF LogOrder, QueueOrder
  <2> QED BY <1>2, <2>1, <2>2 DEF OrderInv, PathStep
\* Only the batch moves.
<1>5. ASSUME NEW res \in {"ok", "err"}, FlushBatch(batch, batchSize, batchBytes, res),
             taskOps' = taskOps, ChanOps' = ChanOps, AddsIncreasing(chan')
      PROVE  OrderInv' /\ PathStep
  <2>1. Rest' = Rest
    BY <1>2, <1>5 DEF Rest
  <2>2. Progress(Range(batch))
    BY <1>1, <1>5, FlushProgress
  <2> QED BY <1>1, <1>3, <1>5, <2>1, <2>2 DEF QueueOrder
<1>6. CASE TaskPending
  <2>0. chan' = chan /\ ChanOps' = ChanOps
    BY <1>6 DEF TaskPending, ChanOps
  <2>1. CASE taskOps = <<>>
    BY <1>1, <1>4, <1>6, <2>0, <2>1 DEF TaskPending, QueueOrder
  <2>2. CASE taskOps # <<>>
    <3> DEFINE op == Head(taskOps)
    <3>1. /\ op \in Op /\ taskOps' = Tail(taskOps) /\ AddToBatch(op)
          /\ Range(taskOps) = {op} \cup Range(taskOps')
      BY <1>1, <1>6, <2>2, RangeHeadTail DEF TaskPending
    <3>2. Increasing(taskOps') /\ Before({op}, Range(taskOps'))
      BY <1>1, <2>2, <3>1, IncreasingTail DEF QueueOrder
    <3>3. pendingOps = <<>> /\ Range(pendingOps) = {} /\ Range(pendingOps') = {}
      BY <1>1, <1>2, <1>6, RangeEmpty DEF TaskPending, Plumbing
    <3> HIDE DEF op
    <3>4. Rest = {op} \cup Rest' /\ Before({op}, Rest')
      BY <1>1, <2>0, <3>1, <3>2, <3>3 DEF Rest, QueueOrder, Before
    <3>5. Before(Range(batch) \cup {op}, Rest') /\ Before(Range(batch), {op}) /\ Before(Logged, {op})
      BY <1>1, <3>4 DEF QueueOrder, Before
    <3>6. Progress(Range(batch) \cup {op})
      BY <1>1, <3>1, <3>5, AddProgress DEF OrderInv
    <3>7. Before(Range(taskOps'), ChanOps')
      BY <1>1, <2>0, <3>1 DEF QueueOrder, Before
    <3> QED BY <1>1, <1>3, <2>0, <3>2, <3>4, <3>5, <3>6, <3>7 DEF QueueOrder
  <2> QED BY <2>1, <2>2
<1>7. CASE TaskTick
  <2>1. chan' = chan /\ ChanOps' = ChanOps /\ taskOps' = taskOps
    BY <1>7 DEF TaskTick, ChanOps
  <2>2. CASE signal
    BY <1>1, <1>4, <1>7, <2>1, <2>2 DEF TaskTick, QueueOrder
  <2>3. CASE ~signal
    BY <1>1, <1>5, <1>7, <2>1, <2>3 DEF TaskTick, QueueOrder
  <2> QED BY <2>2, <2>3
<1>8. CASE TaskAdd
  <2> DEFINE op == Head(chan).op
  <2>1. /\ taskOps' = taskOps /\ task = "running" /\ IsAdd(Head(chan))
        /\ chan # <<>> /\ chan' = Tail(chan) /\ AddToBatch(op)
    BY <1>8 DEF TaskAdd, Received, IsAdd
  <2>2. op \in Op
    BY <1>1, <1>8, ReceivedType DEF TaskAdd
  <2>3. taskOps = <<>> /\ pendingOps = <<>>
    BY <1>1, <2>1 DEF Plumbing
  <2>4. ChanOps = {op} \cup ChanOps'
    BY <1>1, <2>1, ChanTail DEF IsAdd
  <2>5. AddsIncreasing(chan') /\ Before({op}, ChanOps')
    BY <1>1, <2>1, AddsTail DEF QueueOrder
  <2> HIDE DEF op
  <2>6. Rest = ChanOps /\ Rest' = ChanOps' /\ Range(taskOps') = {}
    BY <1>2, <2>1, <2>3, RangeEmpty DEF Rest
  <2>7. Before(Range(batch) \cup {op}, Rest') /\ Before(Range(batch), {op}) /\ Before(Logged, {op})
    BY <1>1, <2>4, <2>5, <2>6 DEF QueueOrder, Before
  <2>8. Progress(Range(batch) \cup {op})
    BY <1>1, <2>1, <2>2, <2>7, AddProgress DEF OrderInv
  <2> QED BY <1>1, <1>3, <2>1, <2>4, <2>5, <2>6, <2>7, <2>8 DEF QueueOrder, Before
<1>9. CASE TaskFlushNow
  <2>1. /\ taskOps' = taskOps /\ chan # <<>> /\ chan' = Tail(chan) /\ Head(chan).cmd = "FlushNow"
    BY <1>9 DEF TaskFlushNow, Received
  <2>2. ChanOps' = ChanOps /\ AddsIncreasing(chan')
    BY <1>1, <2>1, ChanTail, AddsTail DEF QueueOrder
  <2>3. CASE batch = <<>>
    BY <1>4, <1>9, <2>1, <2>2, <2>3 DEF TaskFlushNow
  <2>4. CASE batch # <<>>
    BY <1>5, <1>9, <2>1, <2>2, <2>4 DEF TaskFlushNow
  <2> QED BY <2>3, <2>4
<1>10. CASE TaskShutdown
  <2>1. /\ taskOps' = taskOps /\ chan # <<>> /\ chan' = Tail(chan) /\ Head(chan).cmd = "Shutdown"
    BY <1>10 DEF TaskShutdown, Received
  <2>2. ChanOps' = ChanOps /\ AddsIncreasing(chan')
    BY <1>1, <2>1, ChanTail, AddsTail DEF QueueOrder
  <2>3. CASE batch = <<>>
    BY <1>4, <1>10, <2>1, <2>2, <2>3 DEF TaskShutdown
  <2>4. CASE batch # <<>>
    BY <1>5, <1>10, <2>1, <2>2, <2>4 DEF TaskShutdown
  <2> QED BY <2>3, <2>4
<1>11. CASE TaskClosed
  BY <1>1, <1>4, <1>11 DEF TaskClosed, ChanOps, QueueOrder
<1>12. CASE TaskExit
  <2>1. /\ taskOps' = <<>> /\ batch' = <<>> /\ chan' = <<>> /\ cur' = 0 /\ UNCHANGED <<log, segUsed>>
    BY <1>12 DEF TaskExit
  <2>2. Progress({})
    BY <1>1, <2>1, RangeEmpty DEF Progress, LogOrder, Logged, Increasing
  <2>3. ChanOps' = {} /\ Range(taskOps') = {} /\ Range(batch') = {}
    BY <2>1, RangeEmpty DEF ChanOps
  <2>4. Waiting' \subseteq Waiting /\ Logged' = Logged
    BY <1>2, <2>1, <2>3 DEF Waiting, Logged
  <2>5. WritePath!Next
    BY <1>2, <2>4 DEF WritePath!Next, WritePath!Lose
  <2>6. LogOrder'
    BY <2>2 DEF Progress
  <2>7. /\ Increasing(batch') /\ Increasing(taskOps') /\ Increasing(pendingOps') /\ AddsIncreasing(chan')
    BY <1>1, <1>2, <2>1 DEF QueueOrder, Increasing, AddsIncreasing
  <2>8. QueueOrder'
    BY <1>1, <1>2, <2>3, <2>4, <2>7 DEF QueueOrder, Before
  <2> QED BY <2>5, <2>6, <2>8 DEF OrderInv, PathStep
<1> QED BY <1>6, <1>7, <1>8, <1>9, <1>10, <1>11, <1>12 DEF TaskStep
-----------------------------------------------------------------------------
(***************************************************************************)
(* The client.                                                             *)
(***************************************************************************)
LEMMA SpawnOrder ==
  ASSUME SafeInv, OrderInv, ~rxOpen, pc \in {"idle", "addSend"}, NEW r \in BOOLEAN, Spawn(r),
         UNCHANGED <<issued, signal, reply, walVars, ghostVars>>
  PROVE  /\ LogOrder' /\ Waiting' = Waiting /\ Logged' = Logged
         /\ Increasing(batch') /\ Increasing(taskOps') /\ Increasing(pendingOps')
         /\ AddsIncreasing(chan') /\ Before(Range(batch'), Rest')
         /\ Before(Range(taskOps'), ChanOps')
<1> USE DEF taskVars, batchVars, walVars, ghostVars
<1>1. /\ chan = <<>> /\ taskOps = <<>> /\ batch = <<>> /\ chan' = <<>> /\ batch' = <<>>
      /\ UNCHANGED <<log, segUsed>> /\ (cur' = cur \/ cur' = RecoveredSegment)
      /\ \/ pendingOps' = pendingOps /\ taskOps' = <<>>
         \/ pendingOps' = <<>> /\ taskOps' = pendingOps
  BY DEF SafeInv, Plumbing, Spawn, Handover
<1>2. ChanOps = {} /\ ChanOps' = {} /\ Range(batch') = {}
  BY <1>1, RangeEmpty DEF ChanOps
<1>3. Waiting' = Waiting /\ Logged' = Logged
  BY <1>1, <1>2, RangeEmpty DEF Waiting, Logged
<1>4. LogOrder'
  BY <1>1 DEF OrderInv, LogOrder, RecoveredSegment
<1>5. /\ Increasing(batch') /\ Increasing(taskOps') /\ Increasing(pendingOps') /\ AddsIncreasing(chan')
  BY <1>1 DEF OrderInv, QueueOrder, Increasing, AddsIncreasing
<1> QED BY <1>2, <1>3, <1>4, <1>5 DEF Before

\* So is every step of a call, and a crash.
LEMMA ClientStepOrder ==
  SafeInv /\ SafeInv' /\ OrderInv /\ (CallStep \/ NewCall \/ Crash) => OrderInv' /\ PathStep
<1> SUFFICES ASSUME SafeInv, SafeInv', OrderInv, CallStep \/ NewCall \/ Crash
             PROVE  OrderInv' /\ PathStep
  OBVIOUS
<1> USE DEF chanVars, taskVars, batchVars, walVars, ghostVars
<1>1. /\ WalType /\ CallType /\ AddingType /\ Plumbing /\ chan \in Seq(Command)
      /\ QueueOrder /\ LogOrder /\ issued \in Nat
      /\ Waiting = Range(batch) \cup Rest /\ Before(Logged, Waiting)
      /\ Logged \cup Waiting \subseteq 1..LastOp
  BY TypeParts DEF SafeInv, TypeInv, CallType, OrderInv, QueueOrder, Waiting, Rest
<1>2. LastOp \in Nat /\ (Adding => LastOp + 1 = issued) /\ (~Adding => LastOp = issued)
  BY <1>1 DEF LastOp, AddingType, Op
\* No operation moves; the one being added may be given up.
<1>3. ASSUME UNCHANGED <<taskVars, chanVars, walVars, pendingOps>>, LastOp' \in {LastOp, LastOp + 1}
      PROVE  OrderInv' /\ PathStep
  <2>1. Waiting' = Waiting /\ Logged' = Logged /\ Rest' = Rest /\ ChanOps' = ChanOps
    BY <1>3 DEF Waiting, Logged, Rest, ChanOps
  <2>2. LogOrder' /\ QueueOrder'
    BY <1>1, <1>2, <1>3, <2>1 DEF LogOrder, QueueOrder
  <2>3. PathStep
    BY <1>3, <2>1 DEF PathStep, WritePath!Next, WritePath!Lose
  <2> QED BY <2>2, <2>3 DEF OrderInv
\* An operation is accepted: it joins the end of the queue.
<1>4. ASSUME LastOp' = LastOp + 1, Waiting' = Waiting \cup {LastOp + 1}, UNCHANGED walVars,
             cur' = cur, Increasing(batch'), Increasing(taskOps'), Increasing(pendingOps'),
             AddsIncreasing(chan'), Before(Range(batch'), Rest'), Before(Range(taskOps'), ChanOps')
      PROVE  OrderInv' /\ PathStep
  <2>1. Logged' = Logged /\ LogOrder'
    BY <1>1, <1>4 DEF Logged, LogOrder
  <2>2. Before(Logged', Waiting') /\ Logged' \cup Waiting' \subseteq 1..LastOp'
    BY <1>1, <1>2, <1>4, <2>1 DEF Before
  <2>3. PathStep
    BY <1>4, <2>1 DEF PathStep, WritePath!Next, WritePath!Accept
  <2> QED BY <1>4, <2>1, <2>2, <2>3 DEF OrderInv, QueueOrder
\* Operations are dropped.
<1>5. ASSUME LastOp' \in {LastOp, LastOp + 1}, Waiting' \subseteq Waiting, UNCHANGED walVars,
             cur' \in {0, cur}, Increasing(batch'), Increasing(taskOps'), Increasing(pendingOps'),
             AddsIncreasing(chan'), Before(Range(batch'), Rest'), Before(Range(taskOps'), ChanOps')
      PROVE  OrderInv' /\ PathStep
  <2>1. Logged' = Logged /\ LogOrder'
    BY <1>1, <1>5 DEF Logged, LogOrder
  <2>2. Before(Logged', Waiting') /\ Logged' \cup Waiting' \subseteq 1..LastOp'
    BY <1>1, <1>2, <1>5, <2>1 DEF Before
  <2>3. PathStep
    BY <1>5, <2>1 DEF PathStep, WritePath!Next, WritePath!Lose
  <2> QED BY <1>5, <2>1, <2>2, <2>3 DEF OrderInv, QueueOrder
<1>6. CASE Start \/ SendAddRestart
  <2>1. ~rxOpen /\ pc \in {"idle", "addSend"} /\ UNCHANGED <<issued, walVars>>
    BY <1>1, <1>6 DEF Start, SendAddRestart, Plumbing
  <2>2. /\ LogOrder' /\ Waiting' = Waiting /\ Logged' = Logged
        /\ Increasing(batch') /\ Increasing(taskOps') /\ Increasing(pendingOps')
        /\ AddsIncreasing(chan') /\ Before(Range(batch'), Rest')
        /\ Before(Range(taskOps'), ChanOps')
    BY <1>6, <2>1, SpawnOrder DEF Start, SendAddRestart
  <2>3. LastOp' \in {LastOp, LastOp + 1}
    <3>1. CASE Start
      BY <1>2, <3>1 DEF Start, Spawn, LastOp, Adding
    <3>2. CASE SendAddRestart
      <4>1. Adding /\ issued' = issued
        BY <3>2 DEF SendAddRestart, Adding
      <4>2. LastOp' \in {issued, issued - 1}
        BY <4>1 DEF LastOp
      <4> QED BY <1>1, <1>2, <4>1, <4>2
    <3> QED BY <1>6, <3>1, <3>2
  <2>4. Before(Logged', Waiting') /\ Logged' \cup Waiting' \subseteq 1..LastOp'
    BY <1>1, <1>2, <2>2, <2>3
  <2>5. PathStep
    BY <2>2, <2>3 DEF PathStep, WritePath!Next, WritePath!Lose
  <2> QED BY <2>2, <2>4, <2>5 DEF OrderInv, QueueOrder
<1>7. CASE StoreFalse
  BY <1>3, <1>7 DEF StoreFalse, LastOp, Adding
<1>8. CASE AddOperation
  <2>1. pc = "idle" /\ ~Adding /\ issued' = issued + 1
    BY <1>8 DEF AddOperation, Adding
  <2>2. CASE hasSender
    <3>1. LastOp' = LastOp
      BY <1>1, <1>2, <1>8, <2>1, <2>2 DEF AddOperation, LastOp, Adding
    <3> QED BY <1>3, <1>8, <2>2, <3>1 DEF AddOperation
  <2>3. CASE ~hasSender
    <3>1. /\ pendingOps' = Append(pendingOps, issued + 1) /\ LastOp' = LastOp + 1
          /\ issued + 1 = LastOp + 1 /\ issued + 1 \in Op
          /\ UNCHANGED <<taskVars, walVars, chanVars>>
      BY <1>1, <1>2, <1>8, <2>1, <2>3 DEF AddOperation, LastOp, Adding, Op, CallType
    <3>2. taskOps = <<>> /\ batch = <<>> /\ chan = <<>>
      BY <1>1, <1>8, <2>3 DEF AddOperation, Plumbing
    <3>3. Range(pendingOps') = Range(pendingOps) \cup {LastOp + 1}
      BY <1>1, <3>1, RangeAppend DEF CallType
    <3>4. Before(Range(pendingOps), {issued + 1})
      BY <1>1, <1>2, <3>1 DEF Before, Waiting
    <3>5. Increasing(pendingOps')
      BY <1>1, <3>1, <3>4, IncreasingAppend DEF QueueOrder, CallType
    <3>6. Waiting' = Waiting \cup {LastOp + 1}
      BY <3>1, <3>3 DEF Waiting, ChanOps
    <3>7. ChanOps' = {} /\ Range(batch') = {}
      BY <3>1, <3>2, RangeEmpty DEF ChanOps
    <3> QED BY <1>1, <1>4, <3>1, <3>5, <3>6, <3>7 DEF QueueOrder, Before
  <2> QED BY <2>2, <2>3
<1>9. CASE SendAdd
  <2>1. /\ chan' = Append(chan, Add(issued)) /\ Adding /\ ~Adding' /\ issued \in Op
        /\ UNCHANGED <<pendingOps, taskVars, walVars, issued>>
    BY <1>1, <1>9 DEF SendAdd, Adding, AddingType
  <2>2. LastOp' = LastOp + 1 /\ issued = LastOp + 1
    BY <1>2, <2>1 DEF LastOp
  <2>3. Add(issued) \in Command /\ IsAdd(Add(issued)) /\ Add(issued).op = issued
    BY <2>1, CommandType DEF Add, IsAdd
  <2>4. ChanOps' = ChanOps \cup {LastOp + 1}
    BY <1>1, <2>1, <2>2, <2>3, ChanAppend DEF IsAdd
  <2>5. Before(ChanOps, {issued}) /\ Before(Range(taskOps), {issued}) /\ Before(Range(batch), {issued})
    BY <1>1, <1>2, <2>2 DEF Before, Waiting
  <2>6. AddsIncreasing(chan')
    BY <1>1, <2>1, <2>3, <2>5, AddsAppend DEF QueueOrder
  <2>7. Waiting' = Waiting \cup {LastOp + 1} /\ Rest' = Rest \cup {LastOp + 1}
    BY <2>1, <2>4 DEF Waiting, Rest
  <2>8. Before(Range(batch'), Rest') /\ Before(Range(taskOps'), ChanOps')
    BY <1>1, <2>1, <2>2, <2>4, <2>5, <2>7 DEF QueueOrder, Before
  <2> QED BY <1>1, <1>4, <2>1, <2>2, <2>6, <2>7, <2>8 DEF QueueOrder
<1>10. CASE ResendFails
  <2>1. LastOp' = LastOp + 1
    BY <1>1, <1>2, <1>10 DEF ResendFails, LastOp, Adding
  <2> QED BY <1>3, <1>10, <2>1 DEF ResendFails
<1>11. CASE CallFlush
  BY <1>3, <1>11 DEF CallFlush, LastOp, Adding
\* A command that is not AddOperation.
<1>12. ASSUME NEW c \in {FlushNow, Shutdown}, chan' \in {chan, Append(chan, c)}, LastOp' = LastOp,
              UNCHANGED <<taskVars, walVars, pendingOps>>
       PROVE  OrderInv' /\ PathStep
  <2>1. c \in Command /\ ~IsAdd(c)
    BY <1>12, CommandType DEF IsAdd, FlushNow, Shutdown
  <2>2. ChanOps' = ChanOps /\ AddsIncreasing(chan')
    <3>1. CASE chan' = chan
      BY <1>1, <3>1 DEF ChanOps, QueueOrder
    <3>2. CASE chan' = Append(chan, c)
      BY <1>1, <2>1, <3>2, ChanAppend, AddsAppend DEF QueueOrder, IsAdd
    <3> QED BY <1>12, <3>1, <3>2
  <2>3. Waiting' = Waiting /\ Logged' = Logged /\ Rest' = Rest
    BY <1>12, <2>2 DEF Waiting, Logged, Rest
  <2>4. LogOrder' /\ QueueOrder'
    BY <1>1, <1>12, <2>2, <2>3 DEF LogOrder, QueueOrder
  <2> QED BY <1>12, <2>3, <2>4 DEF OrderInv, PathStep
<1>13. CASE SendFlush
  BY <1>12, <1>13 DEF SendFlush, LastOp, Adding
<1>14. CASE FlushReturns
  BY <1>3, <1>14 DEF FlushReturns, LastOp, Adding
<1>15. CASE CallShutdown
  BY <1>3, <1>15 DEF CallShutdown, LastOp, Adding
<1>16. CASE SendShutdown
  BY <1>12, <1>16 DEF SendShutdown, LastOp, Adding
<1>17. CASE ShutdownReturns
  BY <1>3, <1>17 DEF ShutdownReturns, LastOp, Adding
<1>18. CASE Drop
  <2>1. /\ pendingOps' = <<>> /\ UNCHANGED <<taskVars, walVars, chanVars>> /\ LastOp' = LastOp
        /\ Increasing(pendingOps')
    BY <1>18 DEF Drop, LastOp, Adding, Increasing
  <2>2. Range(pendingOps') = {} /\ ChanOps' = ChanOps
    BY <2>1, RangeEmpty DEF ChanOps
  <2>3. Waiting' \subseteq Waiting /\ Rest' \subseteq Rest
    BY <2>1, <2>2 DEF Waiting, Rest
  <2>4. Before(Range(batch'), Rest') /\ Before(Range(taskOps'), ChanOps')
    BY <1>1, <2>1, <2>2, <2>3 DEF QueueOrder, Before
  <2> QED BY <1>1, <1>5, <2>1, <2>3, <2>4 DEF QueueOrder
<1>19. CASE Reboot
  <2>1. /\ pendingOps' = <<>> /\ chan' = <<>> /\ taskOps' = <<>> /\ batch' = <<>> /\ cur' = 0
        /\ UNCHANGED <<walVars, issued>> /\ ~Adding'
    BY <1>19 DEF Reboot, Adding
  <2>2. LastOp' \in {LastOp, LastOp + 1}
    BY <1>2, <2>1 DEF LastOp
  <2>3. Range(pendingOps') = {} /\ ChanOps' = {} /\ Range(taskOps') = {} /\ Range(batch') = {}
    BY <2>1, RangeEmpty DEF ChanOps
  <2>4. /\ Increasing(batch') /\ Increasing(taskOps') /\ Increasing(pendingOps')
        /\ AddsIncreasing(chan')
    BY <2>1 DEF Increasing, AddsIncreasing
  <2>5. Waiting' \subseteq Waiting /\ Before(Range(batch'), Rest') /\ Before(Range(taskOps'), ChanOps')
    BY <2>3 DEF Waiting, Before
  <2> QED BY <1>5, <2>1, <2>2, <2>4, <2>5
<1> QED BY <1>6, <1>7, <1>8, <1>9, <1>10, <1>11, <1>13, <1>14, <1>15, <1>16, <1>17, <1>18, <1>19
           DEF CallStep, NewCall, Crash, Reopen
-----------------------------------------------------------------------------
\* Initially nothing is queued or logged.
LEMMA OrderInit == Init => OrderInv /\ LastOp = 0 /\ Waiting = {} /\ Logged = {}
<1> SUFFICES ASSUME Init PROVE OrderInv /\ LastOp = 0 /\ Waiting = {} /\ Logged = {}
  OBVIOUS
<1>1. /\ pendingOps = <<>> /\ chan = <<>> /\ taskOps = <<>> /\ batch = <<>> /\ log = <<>>
      /\ cur = 0 /\ issued = 0 /\ ~Adding
  BY DEF Init, Adding
<1>2. LastOp = 0 /\ Waiting = {} /\ Logged = {} /\ ChanOps = {}
  BY <1>1, RangeEmpty DEF LastOp, Waiting, ChanOps, Logged
<1>3. QueueOrder
  BY <1>1, <1>2, RangeEmpty DEF QueueOrder, Increasing, AddsIncreasing, Before
<1>4. LogOrder
  BY <1>1 DEF LogOrder
<1> QED BY <1>2, <1>3, <1>4 DEF OrderInv

\* Every step keeps the order and is a step of OpLog or a stutter.
LEMMA OrderStep == SafeInv /\ OrderInv /\ [Next]_vars => OrderInv' /\ PathStep
<1> SUFFICES ASSUME SafeInv, OrderInv, [Next]_vars PROVE OrderInv' /\ PathStep
  OBVIOUS
<1>1. CASE UNCHANGED vars
  <2>1. UNCHANGED <<issued, pc, inRestart, pendingOps, chan, taskOps, batch, cur, log, segUsed>>
    BY <1>1 DEF vars, clientVars, taskVars, batchVars, walVars, chanVars
  <2>2. UNCHANGED <<LastOp, Waiting, Logged, Rest, ChanOps>>
    BY <2>1 DEF LastOp, Adding, Waiting, Logged, Rest, ChanOps
  <2> QED BY <2>1, <2>2 DEF OrderInv, QueueOrder, LogOrder, PathStep
<1> QED BY <1>1, SafeStep, TaskStepOrder, ClientStepOrder DEF Next

\* The order in the pieces is the order of the log.
LEMMA OrderMeansLogged == TypeInv /\ OrderInv => LoggedInOrder
<1> SUFFICES ASSUME TypeInv, OrderInv,
                    NEW i \in DOMAIN log, NEW j \in DOMAIN log,
                    NEW k \in DOMAIN log[i].ops, NEW l \in DOMAIN log[j].ops,
                    ReadBefore(i, j) \/ (i = j /\ k < l)
             PROVE  log[i].ops[k] < log[j].ops[l]
  BY DEF LoggedInOrder
<1>1. LogOrder /\ log \in Seq(Entry)
  BY TypeParts DEF OrderInv, TypeInv, WalType
<1>2. /\ i \in Nat /\ j \in Nat /\ log[i].seg \in Nat /\ log[j].seg \in Nat
  <2>1. DOMAIN log = 1..Len(log) /\ Len(log) \in Nat
    BY <1>1, LenProperties
  <2>2. log[i] \in Entry /\ log[j] \in Entry
    BY <1>1, <2>1, ElementOfSeq
  <2> QED BY <2>1, <2>2 DEF Entry
<1>3. CASE i = j /\ k < l
  BY <1>1, <1>3 DEF LogOrder, Increasing
<1>4. CASE ReadBefore(i, j)
  <2>1. i < j
    <3>1. CASE log[i].seg < log[j].seg
      BY <1>1, <1>2, <3>1 DEF LogOrder
    <3> QED BY <1>4, <3>1 DEF ReadBefore
  <2>2. log[i].ops[k] \in Range(log[i].ops) /\ log[j].ops[l] \in Range(log[j].ops)
    BY DEF Range
  <2> QED BY <1>1, <2>1, <2>2 DEF LogOrder, Before
<1> QED BY <1>3, <1>4

\* The log, as replay reads it, has the operations in the order of the calls,
\* each of them at most once, over every segment, restart and crash.
THEOREM LogKeepsOrder == Spec => []LoggedInOrder
<1>1. Init => SafeInv /\ OrderInv
  BY SafeInit, OrderInit
<1>2. SafeInv /\ OrderInv /\ [Next]_vars => SafeInv' /\ OrderInv'
  BY SafeStep, OrderStep
<1>3. SafeInv /\ OrderInv => LoggedInOrder
  BY OrderMeansLogged DEF SafeInv
<1> QED BY <1>1, <1>2, <1>3, PTL DEF Spec

\* The processor, its task and the segments implement OpLog: whatever the
\* sizes, limits and failures, an operation is written once, oldest first, and
\* is never taken out of the log.
THEOREM WritePathImplementsOpLog == Spec => ImplementsOpLog
<1>1. Init => SafeInv /\ OrderInv
  BY SafeInit, OrderInit
<1>2. SafeInv /\ OrderInv /\ [Next]_vars => SafeInv' /\ OrderInv'
  BY SafeStep, OrderStep
<1>3. Init => WritePath!Init
  BY OrderInit DEF WritePath!Init
<1>4. SafeInv /\ OrderInv /\ [Next]_vars => [WritePath!Next]_(WritePath!opLogVars)
  BY OrderStep DEF PathStep, WritePath!opLogVars
<1> QED BY <1>1, <1>2, <1>3, <1>4, PTL DEF Spec, ImplementsOpLog, WritePath!Spec

\* What OpLog says of its own variables holds of those of the write path, as no
\* operation waits that is older than one in the log, and none is in both.
PathInv == LastOp \in Nat /\ WritePath!LogIsOldest

LEMMA PathInitially == WritePath!Init => PathInv
  BY DEF WritePath!Init, PathInv, WritePath!LogIsOldest

LEMMA PathStays == PathInv /\ [WritePath!Next]_(WritePath!opLogVars) => PathInv'
<1> SUFFICES ASSUME PathInv, [WritePath!Next]_(WritePath!opLogVars) PROVE PathInv'
  OBVIOUS
<1> USE DEF PathInv, WritePath!LogIsOldest
<1>1. CASE WritePath!Accept
  BY <1>1 DEF WritePath!Accept
<1>2. CASE WritePath!Write
  <2>1. PICK S \in SUBSET Waiting :
          /\ \A s \in S, w \in Waiting \ S : s < w
          /\ Logged' = Logged \cup S /\ Waiting' = Waiting \ S /\ LastOp' = LastOp
    BY <1>2 DEF WritePath!Write
  <2> QED BY <2>1
<1>3. CASE WritePath!Lose
  BY <1>3 DEF WritePath!Lose
<1>4. CASE UNCHANGED WritePath!opLogVars
  BY <1>4 DEF WritePath!opLogVars
<1> QED BY <1>1, <1>2, <1>3, <1>4 DEF WritePath!Next

\* The write path logs no operation after a younger one, and none twice: what
\* waits is younger than everything in the log.
THEOREM LogStaysOldest == Spec => []WritePath!LogIsOldest
<1>1. WritePath!Spec => [][WritePath!Next]_(WritePath!opLogVars) /\ WritePath!Init
  BY PTL DEF WritePath!Spec
<1>2. PathInv => WritePath!LogIsOldest
  BY DEF PathInv
<1> QED
  BY WritePathImplementsOpLog, PathInitially, PathStays, <1>1, <1>2, PTL DEF ImplementsOpLog

\* Nothing that was logged is ever taken out of the log, by no crash either.
THEOREM LogOnlyGrows == Spec => WritePath!LogGrows
<1>1. [WritePath!Next]_(WritePath!opLogVars)
      => [Logged \subseteq Logged']_(WritePath!opLogVars)
  BY DEF WritePath!Next, WritePath!Accept, WritePath!Write, WritePath!Lose, WritePath!opLogVars
<1> QED
  BY WritePathImplementsOpLog, <1>1, PTL DEF ImplementsOpLog, WritePath!Spec, WritePath!LogGrows
=============================================================================
