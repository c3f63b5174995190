----------------------------- MODULE Statistics -----------------------------
(***************************************************************************)
(* What the engine counts and answers about itself: the performance        *)
(* monitor (src/src/monitoring.rs), the statistics of the engine           *)
(* (src/src/shardex.rs) and the tracker of the context                     *)
(* (src/src/api/context.rs, operations.rs).                                *)
(*                                                                         *)
(* Searches and statistics share the engine, a flush has it alone.  A call *)
(* counts itself with atomic increments and then waits for the lock of the *)
(* samples; its future can be dropped there.  Time is a clock; what a      *)
(* latency histogram answers is taken to be exact.                         *)
(***************************************************************************)
EXTENDS Naturals, Sequences, FiniteSets, SequencesExt

CONSTANTS
  Caller,
  Window,                     \* how long a call counts as recent (60 s)
  Latency, Least, Greatest,   \* latencies; the range of the histogram
  Listing,                    \* what the index may list: sequences of [count, active]
  MaxClock, MaxCalls          \* bounds: time, calls

StatisticsAssumption ==
  /\ Latency \subseteq Nat /\ Window \in Nat /\ Least \in Nat /\ Greatest \in Nat /\ Least <= Greatest

VARIABLES
  clock,
  counted,     \* per kind of call, [ok, failed]: AtomicCounters
  lookups,     \* [hit, miss, falsely]: of bloom filters
  operations,  \* total_operations
  written,     \* bytes_written
  latencies,   \* per kind of call, its histogram
  recent,      \* per kind of call, when: recent_search_times, recent_write_times
  held,        \* is the lock of latencies and recent taken by a reader of both?
  call,        \* per caller, the call it is in
  waiting,     \* operations logged and not applied
  kept,        \* pending_operations of a processor that does not run
  running,     \* does the batch processor run?
  tracker,     \* [on, since, took]: the context's PerformanceTracker
  told,        \* the last answer
  calls,       \* calls so far
  dropped,     \* ghost: per kind of call, calls dropped at the lock
  sampled      \* ghost: per kind of call, when its samples were taken

counters == <<counted, lookups, operations, written>>
samples  == <<latencies, recent, held>>
engine   == <<waiting, kept, running>>
vars == <<clock, counters, samples, engine, call, tracker, told, calls, dropped, sampled>>

Kind == {"search", "write"}
Phase == <<"wal_flush", "shard_apply", "shard_sync", "validation">>
Idle == [at |-> "idle"]

Init ==
  /\ clock = 0 /\ counted = [k \in Kind |-> [ok |-> 0, failed |-> 0]]
  /\ lookups = [hit |-> 0, miss |-> 0, falsely |-> 0] /\ operations = 0 /\ written = 0
  /\ latencies = [k \in Kind |-> <<>>] /\ recent = [k \in Kind |-> <<>>] /\ held = FALSE
  /\ call = [c \in Caller |-> Idle] /\ waiting = 0 /\ kept = 0 /\ running = TRUE
  /\ tracker = [on |-> FALSE, since |-> 0, took |-> <<>>]
  /\ told = [about |-> "nothing"] /\ calls = 0 /\ dropped = [k \in Kind |-> 0] /\ sampled = [k \in Kind |-> <<>>]

Tick == /\ clock < MaxClock /\ clock' = clock + 1
        /\ UNCHANGED <<counters, samples, call, engine, tracker, told, calls, dropped, sampled>>
-----------------------------------------------------------------------------
Busy      == {c \in Caller : call[c] # Idle}
Alone     == Busy = {}
Shared(c) == c \notin Busy /\ \A d \in Busy : call[d].kind # "write"
NewCall   == calls < MaxCalls /\ calls' = calls + 1
Total(f, list) == FoldLeft(LAMBDA n, e : n + e[f], 0, list)

\* search_impl: an error of find_nearest_shards is not recorded.
Search(c) ==
  /\ NewCall /\ Shared(c)
  /\ \E t \in Latency, ok \in BOOLEAN : call' = [call EXCEPT ![c] = [at |-> "count", kind |-> "search", took |-> t, ok |-> ok, bytes |-> 0]]
  /\ UNCHANGED <<clock, counters, samples, engine, tracker, told, dropped, sampled>>

\* remove_documents sends an operation to the processor that is there and has
\* it wait for a flush; one that could not start again keeps it.
RemoveDocuments ==
  /\ NewCall /\ Alone /\ waiting' = waiting + 1
  /\ kept' = IF running THEN kept ELSE kept + 1
  /\ UNCHANGED <<clock, counters, samples, running, call, tracker, told, dropped, sampled>>

RestartFails ==
  /\ NewCall /\ Alone /\ running /\ running' = FALSE
  /\ UNCHANGED <<clock, counters, samples, waiting, kept, call, tracker, told, dropped, sampled>>

\* flush_internal: with the log failing nothing is taken; the operations are
\* taken before the shards are synced and validated.  Only a success is
\* recorded, so that no failed write is ever counted.
SlowestPhase(took) ==   \* max_by_key: the last of the slowest
  LET slowest == {i \in DOMAIN Phase : \A j \in DOMAIN Phase : took[Phase[j]] <= took[Phase[i]]}
  IN Phase[CHOOSE i \in slowest : \A j \in slowest : j <= i]

Flush(c) ==
  /\ NewCall /\ Alone
  /\ \/ running /\ UNCHANGED <<waiting, call, told>>          \* the log failed
     \/ waiting' = 0 /\ UNCHANGED <<call, told>>              \* a shard failed
     \/ \E slow \in ToSet(Phase), t \in Latency, list \in Listing :
          LET took == [p \in ToSet(Phase) |-> IF p = slow THEN t ELSE 0]
          IN /\ waiting' = 0
             /\ told' = [about |-> "flush", took |-> took, all |-> t, applied |-> waiting,
                         shards |-> Len(list), slowest |-> SlowestPhase(took)]
             /\ call' = [call EXCEPT ![c] =
                  [at |-> "count", kind |-> "write", took |-> t, ok |-> TRUE, bytes |-> Total("count", list)]]
  /\ UNCHANGED <<clock, counters, samples, kept, running, tracker, dropped, sampled>>

\* record_search and record_write: the increments; nothing but total_operations
\* and bytes_written is read together with them.
Count(c) ==
  /\ call[c].at = "count"
  /\ counted' = IF call[c].ok THEN [counted EXCEPT ![call[c].kind].ok = @ + 1]
                ELSE [counted EXCEPT ![call[c].kind].failed = @ + 1]
  /\ operations' = operations + 1 /\ written' = written + call[c].bytes
  /\ call' = [call EXCEPT ![c] = [at |-> "sample", kind |-> @.kind, took |-> @.took, now |-> clock]]
  /\ UNCHANGED <<clock, lookups, samples, engine, tracker, told, calls, dropped, sampled>>

\* Mutant of Stamp: the time is taken before the lock.
StampOfCall(c) == call[c].now
Stamp(c) == clock

Clamped(t) == IF t < Least THEN Least ELSE IF t > Greatest THEN Greatest ELSE t

\* Times go from the front until one is recent.
Trimmed(times) ==
  LET old == {i \in DOMAIN times : \A j \in 1..i : clock > times[j] + Window}
  IN SubSeq(times, Cardinality(old) + 1, Len(times))

\* Under the lock.
Sample(c) ==
  /\ call[c].at = "sample" /\ ~held
  /\ latencies' = [latencies EXCEPT ![call[c].kind] = Append(@, Clamped(call[c].took))]
  /\ recent' = [recent EXCEPT ![call[c].kind] = Trimmed(Append(@, Stamp(c)))]
  /\ sampled' = [sampled EXCEPT ![call[c].kind] = Append(@, clock)]
  /\ call' = [call EXCEPT ![c] = Idle]
  /\ UNCHANGED <<clock, counters, held, engine, tracker, told, calls, dropped>>

\* The caller drops its future at the lock.
Drop(c) ==
  /\ call[c].at = "sample"
  /\ dropped' = [dropped EXCEPT ![call[c].kind] = @ + 1] /\ call' = [call EXCEPT ![c] = Idle]
  /\ UNCHANGED <<clock, counters, samples, engine, tracker, told, calls, sampled>>

\* record_bloom_filter_lookup takes no lock.
Lookup(hit, falsely) ==
  /\ NewCall /\ \A d \in Busy : call[d].kind # "write"
  /\ lookups' = [hit |-> lookups.hit + (IF hit THEN 1 ELSE 0), miss |-> lookups.miss + (IF hit THEN 0 ELSE 1),
                 falsely |-> lookups.falsely + (IF falsely THEN 1 ELSE 0)]
  /\ operations' = operations + 1
  /\ UNCHANGED <<clock, counted, written, samples, call, engine, tracker, told, dropped, sampled>>
-----------------------------------------------------------------------------
\* The least latency that so many of a hundred samples do not exceed, and zero
\* when there is none.
Percentile(p, taken) ==
  LET enough == {t \in ToSet(taken) : 100 * Len(SelectSeq(taken, LAMBDA x : x <= t)) >= p * Len(taken)}
  IN IF taken = <<>> THEN 0 ELSE CHOOSE t \in enough : \A u \in enough : t <= u

\* get_detailed_stats, under the lock but for the counters, which others go on
\* incrementing; the times are not trimmed.
Ask(c, detailed) ==
  /\ NewCall /\ Shared(c) /\ ~held /\ held' = TRUE
  /\ call' = [call EXCEPT ![c] =
       [at |-> "ask", kind |-> "search", detailed |-> detailed,
        p50 |-> Percentile(50, latencies["search"]), p95 |-> Percentile(95, latencies["search"]),
        p99 |-> Percentile(99, latencies["search"]),
        reads |-> Len(recent["search"]), writes |-> Len(recent["write"]),
        hit |-> lookups.hit, looked |-> lookups.hit + lookups.miss]]
  /\ UNCHANGED <<clock, counters, latencies, recent, engine, tracker, told, dropped, sampled>>

\* stats and detailed_stats: the totals are those of the list, and its
\* utilization stands for the active postings.
Deleted(e) == IF e.count > e.active THEN e.count - e.active ELSE 0
IndexStats(list, q) ==
  [about |-> "index", shards |-> Len(list), postings |-> Total("count", list), active |-> Total("active", list),
   deleted |-> FoldLeft(LAMBDA n, e : n + Deleted(e), 0, list),
   pending |-> waiting + kept, p50 |-> q.p50, p95 |-> q.p95, p99 |-> q.p99,
   reads |-> q.reads, writes |-> q.writes, hit |-> q.hit, looked |-> q.looked]

\* update_resource_metrics guesses: two files and two mappings a shard, one
\* segment once a processor was started, ten files more and one connection.
Resources(list) ==
  [regions |-> 2 * Len(list), segments |-> 1, descriptors |-> 2 * Len(list) + 1 + 10, connections |-> 1]
DetailedStats(list, q) ==
  IndexStats(list, q) @@ [falsely |-> lookups.falsely, operations |-> operations] @@ Resources(list)

Tell(c) ==
  /\ call[c].at = "ask"
  /\ \E list \in Listing : told' = IF call[c].detailed THEN DetailedStats(list, call[c]) ELSE IndexStats(list, call[c])
  /\ held' = FALSE /\ call' = [call EXCEPT ![c] = Idle]
  /\ UNCHANGED <<clock, counters, latencies, recent, engine, tracker, calls, dropped, sampled>>
-----------------------------------------------------------------------------
(***************************************************************************)
(* The context's tracker; every operation of the context has it alone.     *)
(***************************************************************************)
Track(on) ==   \* start and stop
  /\ NewCall /\ Alone /\ tracker' = [tracker EXCEPT !.on = on, !.since = IF on THEN clock ELSE 0]
  /\ UNCHANGED <<clock, counters, samples, call, engine, told, dropped, sampled>>

ResetTracking ==
  /\ NewCall /\ Alone /\ tracker' = [tracker EXCEPT !.took = <<>>, !.since = IF tracker.on THEN clock ELSE @]
  /\ UNCHANGED <<clock, counters, samples, call, engine, told, dropped, sampled>>

\* record_operation, of a batch that is added: add_postings starts a new
\* processor, and what an old one kept is gone.
BatchAdd ==
  /\ NewCall /\ Alone /\ waiting' = waiting + 1 /\ kept' = 0 /\ running' = TRUE
  /\ \E t \in Latency : tracker' = IF tracker.on THEN [tracker EXCEPT !.took = Append(@, t)] ELSE tracker
  /\ UNCHANGED <<clock, counters, samples, call, told, dropped, sampled>>

Spent == FoldLeft(LAMBDA n, t : n + t, 0, tracker.took)
AverageLatency == IF tracker.took = <<>> THEN 0 ELSE Spent \div Len(tracker.took)

\* GetPerformanceStats: without operations it answers the postings of the
\* index, without latencies the median search, without a rate one per latency.
PerformanceStats(list, p50) ==
  LET tracked == tracker.on /\ tracker.took # <<>>
      latency == IF tracked /\ AverageLatency > 0 THEN AverageLatency ELSE p50
      n       == IF tracked THEN Len(tracker.took) ELSE Total("count", list)
  IN [about |-> "performance", tracked |-> tracked, operations |-> n, latency |-> latency,
      rate |-> IF tracked /\ clock > tracker.since THEN <<n, clock - tracker.since>>
               ELSE IF n > 0 THEN <<1, IF latency > 1 THEN latency ELSE 1>> ELSE <<0, 1>>]

GetPerformanceStats ==
  /\ NewCall /\ Alone
  /\ \E list \in Listing : told' = PerformanceStats(list, Percentile(50, latencies["search"]))
  /\ UNCHANGED <<clock, counters, samples, call, engine, tracker, dropped, sampled>>

Next ==
  \/ \E c \in Caller : \/ Search(c) \/ Flush(c) \/ Count(c) \/ Sample(c) \/ Drop(c) \/ Tell(c)
                       \/ \E detailed \in BOOLEAN : Ask(c, detailed)
  \/ \E hit, falsely \in BOOLEAN : Lookup(hit, falsely)
  \/ \E on \in BOOLEAN : Track(on)
  \/ RemoveDocuments \/ RestartFails \/ ResetTracking \/ BatchAdd \/ GetPerformanceStats \/ Tick

Spec == Init /\ [][Next]_vars
-----------------------------------------------------------------------------
\* Every call that returned is in the counters and in its histogram, however
\* calls overlap; the histogram lags by exactly those at the lock and those
\* that were dropped there.
AtLock(k) == Cardinality({c \in Caller : call[c].at = "sample" /\ call[c].kind = k})
SamplesFollowCounters ==
  /\ \A k \in Kind : counted[k].ok + counted[k].failed = Len(latencies[k]) + AtLock(k) + dropped[k]
  /\ operations = Total("ok", <<counted["search"], counted["write"]>>) + Total("failed", <<counted["search"], counted["write"]>>)
                 + lookups.hit + lookups.miss

\* The times behind the throughput are in order, span no more than the window
\* and miss no call sampled within it: none that waited long for the lock is
\* taken for an old one.
RecentIsRecent ==
  \A k \in Kind :
    /\ \A i, j \in DOMAIN recent[k] : i < j => recent[k][i] <= recent[k][j] /\ recent[k][j] <= recent[k][i] + Window
    /\ Len(recent[k]) >= Len(SelectSeq(sampled[k], LAMBDA t : clock <= t + Window))

\* What the engine and the context answer is consistent in itself: percentiles
\* in order and in the range of the histogram, no more deleted and active
\* postings than there are, and the phase a flush names is the slowest.
AnswersAgree ==
  /\ told.about = "index" =>
       /\ told.p50 <= told.p95 /\ told.p95 <= told.p99 /\ (told.p50 = 0 \/ told.p50 >= Least) /\ told.p99 <= Greatest
       /\ told.active + told.deleted = told.postings /\ told.hit <= told.looked
  /\ told.about = "flush" => \A p \in ToSet(Phase) : told.took[p] <= told.took[told.slowest]

\* What record_*, get_detailed_stats and flush_with_stats tell agrees with what
\* was called, although counters and samples are taken at different moments.
StatisticsAgree == SamplesFollowCounters /\ RecentIsRecent /\ AnswersAgree
=============================================================================
