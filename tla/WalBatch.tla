------------------------------ MODULE WalBatch ------------------------------
(***************************************************************************)
(* WalBatchManager::run_event_loop (src/src/transactions.rs): a task that  *)
(* takes commands from a channel, collects operations in a batch, writes   *)
(* the batch as one transaction on a command, a timer or a limit, and      *)
(* sends responses to another channel.  Both channels are bounded; whoever *)
(* sends waits for room.  (The engine has a task of its own in             *)
(* BatchProcessor.tla, with the same batch and neither of the channels.)   *)
(***************************************************************************)
EXTENDS Naturals, Sequences, SequencesExt, FiniteSets, Folds

CONSTANTS
  Op,         \* operations, records [do, end, length, vector, text, size]
  NoDim,      \* no vector dimension is expected
  Dim,        \* expected_vector_dimension, or NoDim
  MaxText,    \* max_document_text_size
  MaxU32,
  MaxOps,     \* max_operations_per_batch
  MaxBytes,   \* max_batch_size_bytes
  Room,       \* messages a channel holds
  MaxSent     \* bound: commands

WalBatchAssumption ==
  /\ MaxOps \in Nat \ {0} /\ Room \in Nat \ {0} /\ {MaxBytes, MaxText, MaxU32, MaxSent} \subseteq Nat
  /\ \A o \in Op : o.do \in {"add", "remove", "store", "delete"} /\ o.size \in Nat

VARIABLES
  commands,   \* the channel of commands: operations, Flush, Shutdown
  responses,  \* the channel of responses
  client,     \* the ends the client still has: "sender", "receiver"
  sent,       \* commands sent so far
  loop,       \* "select", "limit" (a flush is due after an add) or "ended"
  out,        \* the response the loop is sending, or none
  batch,      \* current_batch, each operation [n, op], n its place among the accepted
  bytes,      \* current_batch_size
  written,    \* transactions written: sequences of operations
  accepted,   \* ghost: operations accepted
  dropped,    \* ghost: operations that a failing flush took, with what it answered
  failed      \* ghost: some flush failed

vars == <<commands, responses, client, sent, loop, out, batch, bytes, written, accepted, dropped, failed>>

\* BatchCommand, beside the operations.
Flush    == [do |-> "flush"]
Shutdown == [do |-> "shutdown"]

Init ==
  /\ commands = <<>> /\ responses = <<>> /\ client = {"sender", "receiver"} /\ sent = 0
  /\ loop = "select" /\ out = <<>> /\ batch = <<>> /\ bytes = 0 /\ written = <<>>
  /\ accepted = 0 /\ dropped = {} /\ failed = FALSE
-----------------------------------------------------------------------------
\* WalOperation::validate
Valid(o) ==
  CASE o.do = "add"   -> /\ o.end <= MaxU32 /\ o.length > 0
                         /\ o.vector.dim > 0 /\ Dim \in {NoDim, o.vector.dim} /\ o.vector.finite
    [] o.do = "store" -> 0 < o.text /\ o.text <= MaxText
    [] OTHER -> TRUE

\* WalTransaction::validate, of a transaction made just now.
ValidTransaction(ops) == ops # <<>> /\ \A i \in DOMAIN ops : Valid(ops[i].op)

SizeOf(ops) == FoldLeft(LAMBDA n, e : n + e.op.size, 0, ops)

\* Mutant of Full: only the number of operations counts.
FullByCount(ops, n) == Len(ops) >= MaxOps
\* add_operation, after it added the operation.
Full(ops, n) == Len(ops) >= MaxOps \/ n > MaxBytes

\* Mutant of Rest: the batch is kept when it is written.
RestKept(ok) == IF ok THEN batch ELSE <<>>
\* flush_batch takes the batch, whatever becomes of it.
Rest(ok) == <<>>

\* flush_batch; the write may fail.  An empty batch writes nothing.
FlushBatch(ok) ==
  IF batch = <<>> THEN ok /\ UNCHANGED <<batch, bytes, written, dropped, failed>>
  ELSE /\ ValidTransaction(batch)
       /\ batch' = Rest(ok)
       /\ bytes' = IF ok THEN 0 ELSE bytes
       /\ written' = IF ok THEN Append(written, batch) ELSE written
       /\ dropped' = IF ok THEN dropped ELSE dropped \cup {e.n : e \in ToSet(batch)}
       /\ failed' = (failed \/ ~ok)

Answer(ok) == IF ok THEN "flushed" ELSE "error"
-----------------------------------------------------------------------------
(***************************************************************************)
(* The client.                                                             *)
(***************************************************************************)
Send(c) ==
  /\ "sender" \in client /\ loop # "ended" /\ sent < MaxSent /\ Len(commands) < Room
  /\ commands' = Append(commands, c) /\ sent' = sent + 1
  /\ UNCHANGED <<responses, client, loop, out, batch, bytes, written, accepted, dropped, failed>>

Receive ==
  /\ "receiver" \in client /\ responses # <<>> /\ responses' = Tail(responses)
  /\ UNCHANGED <<commands, client, sent, loop, out, batch, bytes, written, accepted, dropped, failed>>

Leave(end) ==
  /\ end \in client /\ client' = client \ {end}
  /\ responses' = IF end = "receiver" THEN <<>> ELSE responses
  /\ UNCHANGED <<commands, sent, loop, out, batch, bytes, written, accepted, dropped, failed>>
-----------------------------------------------------------------------------
(***************************************************************************)
(* The loop.  Nothing else happens in it while a response waits for room.  *)
(***************************************************************************)
Selects == loop = "select" /\ out = <<>>

\* A response that nobody can receive any more is dropped.
Respond ==
  /\ out # <<>> /\ ("receiver" \in client => Len(responses) < Room)
  /\ out' = <<>>
  /\ responses' = IF "receiver" \in client THEN Append(responses, Head(out)) ELSE responses
  /\ UNCHANGED <<commands, client, sent, loop, batch, bytes, written, accepted, dropped, failed>>

TakeAdd ==
  /\ Selects /\ commands # <<>> /\ Head(commands) \in Op
  /\ LET o == Head(commands)
         all == Append(batch, [n |-> accepted + 1, op |-> o])
     IN IF Valid(o)
        THEN /\ batch' = all /\ bytes' = bytes + o.size /\ accepted' = accepted + 1
             /\ loop' = IF Full(all, bytes + o.size) THEN "limit" ELSE "select"
             /\ out' = <<"added">>
        ELSE out' = <<"error">> /\ UNCHANGED <<batch, bytes, accepted, loop>>
  /\ commands' = Tail(commands)
  /\ UNCHANGED <<responses, client, sent, written, dropped, failed>>

FlushAtLimit(ok) ==
  /\ loop = "limit" /\ out = <<>> /\ FlushBatch(ok)
  /\ loop' = "select" /\ out' = <<Answer(ok)>>
  /\ UNCHANGED <<commands, responses, client, sent, accepted>>

TakeFlush(ok) ==
  /\ Selects /\ commands # <<>> /\ Head(commands) = Flush /\ FlushBatch(ok)
  /\ commands' = Tail(commands) /\ out' = <<Answer(ok)>>
  /\ UNCHANGED <<responses, client, sent, loop, accepted>>

\* What the flush says is not answered; commands still in the channel are lost.
TakeShutdown(ok) ==
  /\ Selects /\ commands # <<>> /\ Head(commands) = Shutdown /\ FlushBatch(ok)
  /\ commands' = <<>> /\ out' = <<"shutdown">> /\ loop' = "ended"
  /\ UNCHANGED <<responses, client, sent, accepted>>

ChannelClosed(ok) ==
  /\ Selects /\ commands = <<>> /\ "sender" \notin client /\ FlushBatch(ok)
  /\ loop' = "ended"
  /\ UNCHANGED <<commands, responses, client, sent, out, accepted>>

\* The timer fires; an empty batch is not spoken of.
Timer(ok) ==
  /\ Selects /\ batch # <<>> /\ FlushBatch(ok) /\ out' = <<Answer(ok)>>
  /\ UNCHANGED <<commands, responses, client, sent, loop, accepted>>

Next ==
  \/ \E c \in Op \cup {Flush, Shutdown} : Send(c)
  \/ Receive \/ \E end \in {"sender", "receiver"} : Leave(end)
  \/ Respond \/ TakeAdd
  \/ \E ok \in BOOLEAN : FlushAtLimit(ok) \/ TakeFlush(ok) \/ TakeShutdown(ok) \/ ChannelClosed(ok) \/ Timer(ok)

Spec == Init /\ [][Next]_vars
-----------------------------------------------------------------------------
(***************************************************************************)
(* Properties.                                                             *)
(***************************************************************************)
Places(ops) == [i \in DOMAIN ops |-> ops[i].n]
Log == FlattenSeq([i \in DOMAIN written |-> Places(written[i])])

\* Every accepted operation is, once, in a written transaction, in the batch or
\* in a batch whose write failed; those written are in the order in which they
\* were accepted, and before all in the batch.  When the loop has ended nothing
\* is left in the batch.
AcceptedAreKept ==
  LET seen == Log \o Places(batch)
  IN /\ ToSet(seen) \cup dropped = 1..accepted /\ ToSet(seen) \cap dropped = {}
     /\ \A i, j \in DOMAIN seen : i < j => seen[i] < seen[j]
     /\ loop = "ended" => batch = <<>>

\* Whenever the loop waits for a command the batch is below both limits: also
\* after failed writes, whose size stays counted until a write succeeds.
BatchIsBounded ==
  Selects => /\ Len(batch) < MaxOps /\ SizeOf(batch) <= MaxBytes
             /\ bytes >= SizeOf(batch) /\ (~failed => bytes = SizeOf(batch))

\* The event loop of the batch manager keeps every operation and every limit.
BatchHolds == AcceptedAreKept /\ BatchIsBounded
=============================================================================
