---------------------------- MODULE TextService ----------------------------
(***************************************************************************)
(* The two layers the program puts over the text storage: the concurrent   *)
(* one (src/src/concurrent_document_text_storage.rs) with its write queue, *)
(* batch task, concurrency permits and metadata cache, and the             *)
(* asynchronous one (src/src/async_document_text_storage.rs) with its      *)
(* timeouts and its read-ahead buffer.                                     *)
(*                                                                         *)
(* A call stores one text, named by the call.  Batches are taken from the  *)
(* queue and stored by whoever finds it full, by the batch task and by     *)
(* whoever stops or shuts down the service.  Nothing awaits between taking *)
(* a batch and answering it, so neither a timeout nor an abort cuts it.    *)
(*                                                                         *)
(* The storage itself is its map from documents to texts (TextStore has    *)
(* its detail), behind a lock that a batch holds from first to last.       *)
(***************************************************************************)
EXTENDS Naturals, Sequences, FiniteSets, SequencesExt

CONSTANTS
  Doc, Call, Reader,
  MaxBatch,    \* max_batch_size
  MetaSize,    \* metadata_cache_size
  BufferSize,  \* read_ahead_buffer_size
  Permits,     \* max_concurrent_ops
  MaxReads,    \* bound: reads and preloads
  NoText

Background == "background"   \* the batch task
Controller == "controller"   \* stop_background_processor or shutdown
Worker     == Call \cup {Background, Controller}

ASSUME TextServiceAssumption ==
  /\ MaxBatch \in Nat \ {0} /\ MetaSize \in Nat /\ BufferSize \in Nat \ {0}
  /\ Permits \in Nat \ {0} /\ MaxReads \in Nat /\ NoText \notin Call
  /\ Background \notin Call /\ Controller \notin Call

VARIABLES
  text,     \* what the storage holds for each document
  meta,     \* metadata_cache: the text whose length it has, for some documents
  queue,    \* write_queue
  batch,    \* what each worker took from the queue and has not stored
  lock,     \* the worker storing a batch, or "free"
  running,  \* batch_processor is some task
  pc,       \* where each call is
  call,     \* the arguments of each call: [doc, kind]
  answer,   \* sent to each call through its channel, or "none"
  ctl,      \* where the controller is: [op, at]
  buffer,   \* read-ahead buffer: a text for some documents
  order,    \* its access order, the oldest first
  reader,   \* what each reader does: [doc, at, got]
  reads,    \* reads so far
  result,   \* ghost: what each call answered, or "none"
  before,   \* ghost: calls for the same document that had answered Ok when it began
  raced     \* ghost: documents used in a way that may leave an old text buffered

storage == <<text, meta, queue, batch, lock, answer>>
clients == <<pc, call, result, before>>
ahead   == <<buffer, order>>
vars    == <<storage, clients, ahead, running, ctl, reader, reads, raced>>

Kinds == {"async", "batched", "immediate"}

Init ==
  /\ text = [d \in Doc |-> NoText] /\ meta = [d \in {} |-> NoText]
  /\ queue = <<>> /\ batch = [w \in Worker |-> <<>>] /\ lock = "free"
  /\ running = TRUE
  /\ pc = [c \in Call |-> "idle"] /\ call = [c \in Call |-> [doc |-> NoText, kind |-> "none"]]
  /\ answer = [c \in Call |-> "none"] /\ result = answer
  /\ ctl = [op |-> "none", at |-> "idle"]
  /\ buffer = [d \in {} |-> NoText] /\ order = <<>>
  /\ reader = [r \in Reader |-> [doc |-> NoText, at |-> "idle", got |-> NoText]] /\ reads = 0
  /\ before = [c \in Call |-> {}] /\ raced = {}

Goto(c, where) == pc' = [pc EXCEPT ![c] = where]

\* A permit of the limiter is held from acquire to the answer; a read holds one
\* without awaiting anything but the permit.
NeverReleased == {c \in Call : pc[c] \notin {"idle", "acquire"}}
Holding == {c \in Call : pc[c] \in {"queued", "take", "store", "wait"}}
Permitted == Cardinality(Holding) < Permits

Storing(d) == {c \in Call : call[c].doc = d /\ pc[c] \notin {"idle", "returned"}}
Reading(d) == {r \in Reader : reader[r].doc = d /\ reader[r].at # "idle"}
-----------------------------------------------------------------------------
Begin(c, d, k) ==
  /\ pc[c] = "idle" /\ Goto(c, "acquire")
  /\ call' = [call EXCEPT ![c] = [doc |-> d, kind |-> k]]
  /\ before' = [before EXCEPT ![c] = {b \in Call : call[b].doc = d /\ result[b] = "ok"}]
  /\ raced' = IF k # "async" \/ Storing(d) # {} \/ Reading(d) # {} THEN raced \cup {d} ELSE raced
  /\ UNCHANGED <<storage, ahead, running, ctl, reader, reads, result>>

\* store_text_batched: the operation joins the queue.
Enqueue(c) ==
  /\ pc[c] = "acquire" /\ call[c].kind # "immediate" /\ Permitted
  /\ queue' = Append(queue, c) /\ Goto(c, "queued")
  /\ UNCHANGED <<text, meta, batch, lock, answer, call, result, before, ahead, running, ctl, reader, reads, raced>>

\* maybe_trigger_batch_write
CheckFull(c) ==
  /\ pc[c] = "queued" /\ Goto(c, IF Len(queue) >= MaxBatch THEN "take" ELSE "wait")
  /\ UNCHANGED <<storage, call, result, before, ahead, running, ctl, reader, reads, raced>>

\* The callers of process_write_batch_static: each may take now, and goes on.
MayTake(w) ==
  CASE w = Background -> running
    [] w = Controller -> ctl.at \in {"flush", "drain"}
    [] OTHER          -> pc[w] = "take"

Advance(w, where) ==
  /\ IF w \in Call THEN Goto(w, where) ELSE UNCHANGED pc
  /\ IF w = Controller
     THEN ctl' = [ctl EXCEPT !.at = CASE @ = "flush" /\ where = "store" -> "flushing"
                                      [] @ = "drain" /\ where = "store" -> "draining"
                                      [] @ \in {"flush", "flushing"}    -> "abort"
                                      [] OTHER                          -> "clear"]
     ELSE UNCHANGED ctl

RemainingAll(n) == queue
Remaining(n) == SubSeq(queue, n + 1, Len(queue))

\* process_write_batch_static, first half: under the queue's lock.
Take(w) ==
  /\ MayTake(w) /\ batch[w] = <<>>
  /\ w = Background => queue # <<>>
  /\ LET n == IF Len(queue) < MaxBatch THEN Len(queue) ELSE MaxBatch IN
     /\ batch' = [batch EXCEPT ![w] = SubSeq(queue, 1, n)]
     /\ queue' = Remaining(n)
     /\ Advance(w, IF n = 0 THEN "wait" ELSE "store")
  /\ UNCHANGED <<text, meta, lock, answer, call, result, before, ahead, running, reader, reads, raced>>

\* cleanup_metadata_cache keeps the half last accessed: here, any half.
Cleaned(m) ==
  IF Cardinality(DOMAIN m) <= MetaSize THEN {m}
  ELSE {[d \in keep |-> m[d]] : keep \in {k \in SUBSET DOMAIN m : Cardinality(k) = MetaSize \div 2}}

Cached(d, c) == [e \in DOMAIN meta \cup {d} |-> IF e = d THEN c ELSE meta[e]]
FirstCached(d, c) == IF d \in DOMAIN meta THEN meta ELSE Cached(d, c)
WithMeta(d, c) == Cached(d, c)

\* process_write_batch_static, second half: under the storage's write lock, one
\* operation after the other; a store that fails changes nothing a reader sees.
StoreNext(w) ==
  /\ batch[w] # <<>> /\ lock \in {"free", w}
  /\ LET c == Head(batch[w])
         d == call[c].doc
         rest == Tail(batch[w]) IN
     /\ \/ /\ text' = [text EXCEPT ![d] = c] /\ meta' \in Cleaned(WithMeta(d, c))
           /\ answer' = [answer EXCEPT ![c] = "ok"]
        \/ answer' = [answer EXCEPT ![c] = "error"] /\ UNCHANGED <<text, meta>>
     /\ batch' = [batch EXCEPT ![w] = rest]
     /\ IF rest = <<>> THEN lock' = "free" /\ Advance(w, "wait")
        ELSE lock' = w /\ UNCHANGED <<pc, ctl>>
  /\ UNCHANGED <<queue, call, result, before, ahead, running, reader, reads, raced>>

\* store_text_immediate goes past the queue.
StoreImmediate(c) ==
  /\ pc[c] = "acquire" /\ call[c].kind = "immediate" /\ Permitted /\ lock = "free"
  /\ LET d == call[c].doc IN
     \/ /\ text' = [text EXCEPT ![d] = c] /\ meta' = WithMeta(d, c)
        /\ result' = [result EXCEPT ![c] = "ok"]
     \/ result' = [result EXCEPT ![c] = "error"] /\ UNCHANGED <<text, meta>>
  /\ Goto(c, "returned")
  /\ UNCHANGED <<queue, batch, lock, answer, call, before, ahead, running, ctl, reader, reads, raced>>
-----------------------------------------------------------------------------
\* Vec::retain: what of s is in T, in its order.
Kept(s, T) ==
  LET upTo[n \in 0..Len(s)] ==
        IF n = 0 THEN <<>> ELSE IF s[n] \in T THEN Append(upTo[n - 1], s[n]) ELSE upTo[n - 1]
  IN upTo[Len(s)]

\* ReadAheadBuffer::put: a document already there leaves the order before room
\* is made, so room is made for it once more.
Elder(d, c) == IF d \in DOMAIN buffer THEN buffer[d] ELSE c
Newer(d, c) == c
Put(d, c) ==
  LET others == Kept(order, Doc \ {d})
      crowd  == IF Cardinality(DOMAIN buffer) + 1 > BufferSize
                THEN Cardinality(DOMAIN buffer) + 1 - BufferSize ELSE 0
      gone   == IF crowd < Len(others) THEN crowd ELSE Len(others)
      kept   == SubSeq(others, gone + 1, Len(others))
  IN <<[e \in ToSet(kept) \cup {d} |-> IF e = d THEN Newer(d, c) ELSE buffer[e]], Append(kept, d)>>

Buffered(d, c) == buffer' = Put(d, c)[1] /\ order' = Put(d, c)[2]

EvictFrom(ds) ==
  /\ buffer' = [e \in DOMAIN buffer \ ds |-> buffer[e]]
  /\ order' = Kept(order, Doc \ ds)

\* The answer arrives before a timeout: store_text_async buffers a stored text.
Receive(c) ==
  /\ pc[c] = "wait" /\ answer[c] # "none"
  /\ IF call[c].kind = "async" /\ answer[c] = "ok"
     THEN Goto(c, "put") /\ UNCHANGED result
     ELSE Goto(c, "returned") /\ result' = [result EXCEPT ![c] = answer[c]]
  /\ UNCHANGED <<storage, call, before, ahead, running, ctl, reader, reads, raced>>

PutStored(c) ==
  /\ pc[c] = "put" /\ Buffered(call[c].doc, c)
  /\ Goto(c, "returned") /\ result' = [result EXCEPT ![c] = "ok"]
  /\ UNCHANGED <<storage, call, before, running, ctl, reader, reads, raced>>

\* write_timeout and default_timeout: a queued operation stays in the queue.
TimeOut(c) ==
  /\ \/ pc[c] = "wait" /\ answer[c] = "none"
     \/ pc[c] = "acquire" /\ call[c].kind = "async"
  /\ Goto(c, "returned") /\ result' = [result EXCEPT ![c] = "timeout"]
  /\ raced' = raced \cup {call[c].doc}
  /\ UNCHANGED <<storage, call, before, ahead, running, ctl, reader, reads>>
-----------------------------------------------------------------------------
\* get_text_async answers from the buffer, which moves the document to the end
\* of the order, or goes to the storage; warm_read_ahead_buffer always goes;
\* a preload goes when the document is not in the buffer.
ReadHit(d) ==
  /\ reads < MaxReads /\ reads' = reads + 1
  /\ d \in DOMAIN buffer
  /\ order' = Append(Kept(order, Doc \ {d}), d)
  /\ UNCHANGED <<storage, clients, buffer, running, ctl, reader, raced>>

StartRead(r, d) ==
  /\ reader[r].at = "idle" /\ reads < MaxReads /\ reads' = reads + 1
  /\ reader' = [reader EXCEPT ![r] = [doc |-> d, at |-> "read", got |-> NoText]]
  /\ raced' = IF Storing(d) # {} THEN raced \cup {d} ELSE raced
  /\ UNCHANGED <<storage, clients, ahead, running, ctl>>

\* get_text_concurrent, or the timeout while it waits for its permit.
Read(r) ==
  /\ reader[r].at = "read" /\ Permitted /\ lock = "free"
  /\ LET d == reader[r].doc IN
     reader' = [reader EXCEPT ![r] = IF text[d] = NoText THEN [doc |-> NoText, at |-> "idle", got |-> NoText]
                                     ELSE [doc |-> d, at |-> "put", got |-> text[d]]]
  /\ UNCHANGED <<storage, clients, ahead, running, ctl, reads, raced>>

Done(r) == reader' = [reader EXCEPT ![r] = [doc |-> NoText, at |-> "idle", got |-> NoText]]

ReadTimesOut(r) ==
  /\ reader[r].at = "read" /\ Done(r)
  /\ UNCHANGED <<storage, clients, ahead, running, ctl, reads, raced>>

PutRead(r) ==
  /\ reader[r].at = "put" /\ Buffered(reader[r].doc, reader[r].got) /\ Done(r)
  /\ UNCHANGED <<storage, clients, running, ctl, reads, raced>>

\* The lifetime of an entry ends: cleanup_expired, or get finds it so.
Expire(ds) ==
  /\ ds # {} /\ ds \subseteq DOMAIN buffer /\ EvictFrom(ds)
  /\ UNCHANGED <<storage, clients, running, ctl, reader, reads, raced>>
-----------------------------------------------------------------------------
\* shutdown flushes one batch, stops the task and flushes one batch more, if
\* there was a task to stop; stop_background_processor is its second half.
Shutdown ==
  /\ ctl.at = "idle" /\ ctl' = [op |-> "shutdown", at |-> "flush"]
  /\ UNCHANGED <<storage, clients, ahead, running, reader, reads, raced>>

StopTask ==
  /\ ctl.at = "idle" /\ running /\ ctl' = [op |-> "stop", at |-> "abort"]
  /\ UNCHANGED <<storage, clients, ahead, running, reader, reads, raced>>

\* The task is aborted where it waits for its interval.
Abort ==
  /\ ctl.at = "abort" /\ running' = FALSE
  /\ ctl' = [ctl EXCEPT !.at = IF running THEN "drain" ELSE "clear"]
  /\ UNCHANGED <<storage, clients, ahead, reader, reads, raced>>

Clear ==
  /\ ctl.at = "clear"
  /\ IF ctl.op = "shutdown" THEN EvictFrom(Doc) ELSE UNCHANGED ahead
  /\ ctl' = [ctl EXCEPT !.at = "idle"]
  /\ UNCHANGED <<storage, clients, running, reader, reads, raced>>

\* start_background_processor: refused while there is a task; an aborted one
\* has ended before.
StartTask ==
  /\ ctl.at = "idle" /\ ~running /\ batch[Background] = <<>> /\ running' = TRUE
  /\ UNCHANGED <<storage, clients, ahead, ctl, reader, reads, raced>>

Progress ==
  \/ \E c \in Call : Enqueue(c) \/ CheckFull(c) \/ StoreImmediate(c) \/ Receive(c) \/ PutStored(c)
  \/ \E w \in Worker : Take(w) \/ StoreNext(w)

Next ==
  \/ Progress
  \/ \E c \in Call, d \in Doc, k \in Kinds : Begin(c, d, k)
  \/ \E c \in Call : TimeOut(c)
  \/ \E d \in Doc : ReadHit(d)
  \/ \E r \in Reader, d \in Doc : StartRead(r, d)
  \/ \E r \in Reader : Read(r) \/ ReadTimesOut(r) \/ PutRead(r)
  \/ \E ds \in SUBSET Doc : Expire(ds)
  \/ Shutdown \/ StopTask \/ Abort \/ Clear \/ StartTask

\* The runtime polls ready tasks and the interval ticks; no timeout need fire.
Fairness ==
  /\ \A c \in Call : /\ WF_vars(Enqueue(c)) /\ WF_vars(CheckFull(c)) /\ WF_vars(StoreImmediate(c))
                     /\ WF_vars(Receive(c)) /\ WF_vars(PutStored(c))
  /\ \A w \in Worker : WF_vars(Take(w)) /\ WF_vars(StoreNext(w))

Spec == Init /\ [][Next]_vars /\ Fairness
-----------------------------------------------------------------------------
\* The map the storage ends up with respects the order of the calls that were
\* answered Ok, whoever took their batches: a text is never what remains of a
\* document after a call that began when it had been answered.
OkStoresAreLinear ==
  \A c \in Call : result[c] = "ok" => text[call[c].doc] \notin before[c]

\* A length extract_text_substring_concurrent checks its range against is the
\* length of the text it is going to read.
CacheMatchesStorage ==
  \A d \in DOMAIN meta : meta[d] = text[d]

\* Used through the asynchronous layer alone, without timeouts and without two
\* operations on a document at a time, the buffer never answers an old text;
\* its order lists what it holds, within its size.
BufferIsCurrent ==
  /\ \A d \in DOMAIN buffer \ raced : Storing(d) = {} => buffer[d] = text[d]
  /\ ToSet(order) = DOMAIN buffer /\ Len(order) = Cardinality(DOMAIN buffer)
  /\ Len(order) <= BufferSize

\* Neither cache in front of the storage, of lengths or of texts, is behind it.
CachesAreCurrent == CacheMatchesStorage /\ BufferIsCurrent

\* Waiting stores hold their permits, and a full limiter keeps newcomers and
\* readers out: yet every call returns, without a timeout, while the batch task runs.
EveryCallReturns ==
  \A c \in Call : pc[c] # "idle" ~> pc[c] = "returned" \/ ~running
=============================================================================
