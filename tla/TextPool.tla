------------------------------ MODULE TextPool ------------------------------
(***************************************************************************)
(* The buffer pools of text_memory_pool.rs: threads take buffers out of a  *)
(* pool of strings and a pool of bytes, buffers come back when they are    *)
(* dropped, on whatever thread.  Each pool has a mutex and the counters    *)
(* have one of their own, taken with a pool's mutex held; everything one   *)
(* critical section does without taking another mutex is one step.         *)
(***************************************************************************)
EXTENDS Naturals, Sequences, FiniteSets, Functions, SequencesExt

CONSTANTS
  Thread,
  Sizes,       \* capacities asked for, and grown to by the users of a buffer
  Grown,       \* (min_capacity * growth_factor) as usize, for each size
  MaxPool, MaxCapacity, \* max_pool_size, max_buffer_capacity
  MaxCalls,    \* bound: calls
  Idle, Free

Kinds == {"string", "byte"}

PoolAssumption ==
  /\ Sizes \subseteq Nat \ {0} /\ Grown \in [Sizes -> Nat] /\ \A n \in Sizes : Grown[n] >= n
  /\ MaxPool \in Nat /\ MaxCapacity \in Nat /\ MaxCalls \in Nat

VARIABLES
  pool,    \* the buffers each pool keeps, [id, cap, empty, old], in order
  held,    \* the buffers each thread has, [id, cap, empty, kind, min]
  lock,    \* the thread that has the mutex of each pool and of the counters
  stats,   \* [requests, hits, misses, discards]
  call,    \* what each thread is doing
  made, calls \* buffers made and calls begun

vars == <<pool, held, lock, stats, call, made, calls>>

Init ==   \* TextMemoryPool::new
  /\ pool = [k \in Kinds |-> <<>>] /\ held = [t \in Thread |-> {}]
  /\ lock = [m \in Kinds \cup {"stats"} |-> Free]
  /\ stats = [requests |-> 0, hits |-> 0, misses |-> 0, discards |-> 0]
  /\ call = [t \in Thread |-> Idle] /\ made = 0 /\ calls = 0
-----------------------------------------------------------------------------
Begins(t) == call[t] = Idle /\ calls < MaxCalls /\ calls' = calls + 1
Becomes(t, c) == call' = [call EXCEPT ![t] = c]
Counts(field) == lock["stats"] = Free /\ stats' = [stats EXCEPT ![field] = @ + 1]

\* swap_remove: the last takes the place of the one removed.
SwapRemoved(s, i) == SubSeq([s EXCEPT ![i] = s[Len(s)]], 1, Len(s) - 1)

\* Mutant of Cleared: what the last user left stays.
Kept(b) == b
Cleared(b) == [b EXCEPT !.empty = TRUE]

\* get_string_buffer and get_byte_buffer: the request is counted first.
Get(t, k, min) ==
  /\ Begins(t) /\ Counts("requests")
  /\ Becomes(t, [do |-> "get", kind |-> k, min |-> min])
  /\ UNCHANGED <<pool, held, lock, made>>

\* From the end, the first that is large enough; else a new one.  The mutex of
\* the pool is kept until the hit or the miss is counted.
Search(t) ==
  /\ call[t] # Idle /\ call[t].do = "get" /\ lock[call[t].kind] = Free
  /\ lock' = [lock EXCEPT ![call[t].kind] = t]
  /\ LET k == call[t].kind
         fits == {i \in DOMAIN pool[k] : pool[k][i].cap >= call[t].min}
         taken == CHOOSE i \in fits : \A j \in fits : j <= i
         Hands(b, field) ==
           /\ held' = [held EXCEPT ![t] = @ \cup {[id |-> b.id, cap |-> b.cap, empty |-> b.empty,
                                                   kind |-> k, min |-> call[t].min]}]
           /\ Becomes(t, [do |-> "count", field |-> field, kind |-> k])
     IN IF fits # {}
        THEN /\ pool' = [pool EXCEPT ![k] = SwapRemoved(@, taken)]
             /\ Hands(Cleared(pool[k][taken]), "hits") /\ UNCHANGED made
        ELSE /\ made' = made + 1
             /\ Hands([id |-> made + 1, cap |-> Grown[call[t].min], empty |-> TRUE], "misses")
             /\ UNCHANGED pool
  /\ UNCHANGED <<stats, calls>>

Count(t) ==
  /\ call[t] # Idle /\ call[t].do = "count" /\ Counts(call[t].field)
  /\ lock' = [lock EXCEPT ![call[t].kind] = Free]
  /\ Becomes(t, Idle)
  /\ UNCHANGED <<pool, held, made, calls>>

\* The user of a buffer fills it, and it may grow.
Use(t) ==
  /\ call[t] = Idle
  /\ \E b \in held[t] : \E cap \in Sizes \cup {b.cap} :
       /\ cap >= b.cap /\ (b.empty \/ cap > b.cap)
       /\ held' = [held EXCEPT ![t] = (@ \ {b}) \cup {[b EXCEPT !.cap = cap, !.empty = FALSE, !.min = 0]}]
  /\ UNCHANGED <<pool, lock, stats, call, made, calls>>

HasRoom(k, n) == Len(pool[k]) + n <= MaxPool
Entry(id, cap, empty) == [id |-> id, cap |-> cap, empty |-> empty, old |-> FALSE]

\* PooledString::drop and PooledBytes::drop.
Drop(t) ==
  /\ call[t] = Idle
  /\ \E b \in held[t] :
       /\ held' = [held EXCEPT ![t] = @ \ {b}]
       /\ IF b.cap <= MaxCapacity
          THEN /\ lock[b.kind] = Free
               /\ pool' = IF HasRoom(b.kind, 1)
                          THEN [pool EXCEPT ![b.kind] = Append(@, Entry(b.id, b.cap, b.empty))]
                          ELSE pool
               /\ UNCHANGED stats
          ELSE Counts("discards") /\ UNCHANGED pool
  /\ UNCHANGED <<lock, call, made, calls>>

\* into_inner: the buffer is the user's for good.
IntoInner(t) ==
  /\ call[t] = Idle
  /\ \E b \in held[t] : held' = [held EXCEPT ![t] = @ \ {b}]
  /\ UNCHANGED <<pool, lock, stats, call, made, calls>>

-----------------------------------------------------------------------------
(***************************************************************************)
(* What goes through the two pools one after the other.                    *)
(***************************************************************************)
\* Mutant of AfterCopy: the counters stay locked while the pools are looked at.
AfterCopyLocked(t) == t
\* get_stats: the guard of the copy is gone at the end of its statement.
AfterCopy(t) == Free

Begin(t, do) ==
  /\ Begins(t)
  /\ IF do = "stats"
     THEN lock["stats"] = Free /\ lock' = [lock EXCEPT !["stats"] = AfterCopy(t)]
     ELSE UNCHANGED lock
  /\ Becomes(t, [do |-> do, left |-> <<"string", "byte">>, owed |-> 0, any |-> FALSE])
  /\ UNCHANGED <<pool, held, stats, made>>

Doing(t, do) == call[t] # Idle /\ call[t].do = do
Turn(t, do)  == Doing(t, do) /\ call[t].left # <<>> /\ lock[Head(call[t].left)] = Free
Onward(t) == [call[t] EXCEPT !.left = Tail(@)]
Ended(t, do) == Doing(t, do) /\ call[t].left = <<>>

\* prewarm: one buffer for each pool that has room, of any capacity.
Prewarm(t) ==
  /\ Turn(t, "prewarm")
  /\ LET k == Head(call[t].left)
     IN IF HasRoom(k, 1)
        THEN /\ \E cap \in Sizes : pool' = [pool EXCEPT ![k] = Append(@, Entry(made + 1, cap, TRUE))]
             /\ made' = made + 1
        ELSE UNCHANGED <<pool, made>>
  /\ Becomes(t, Onward(t))
  /\ UNCHANGED <<held, lock, stats, calls>>

\* cleanup: what is old or too large goes, and each is counted with the mutex
\* of the pool held.
Cleanup(t) ==
  /\ Turn(t, "cleanup") /\ call[t].owed = 0
  /\ LET k == Head(call[t].left)
         keep(b) == ~b.old /\ b.cap <= MaxCapacity
         gone == Len(pool[k]) - Len(SelectSeq(pool[k], keep))
     IN /\ pool' = [pool EXCEPT ![k] = SelectSeq(@, keep)]
        /\ IF gone = 0
           THEN Becomes(t, Onward(t)) /\ UNCHANGED lock
           ELSE /\ Becomes(t, [call[t] EXCEPT !.owed = gone, !.any = TRUE])
                /\ lock' = [lock EXCEPT ![k] = t]
  /\ UNCHANGED <<held, stats, made, calls>>
CountDiscard(t) ==
  /\ Doing(t, "cleanup") /\ call[t].owed > 0 /\ Counts("discards")
  /\ IF call[t].owed = 1
     THEN /\ lock' = [lock EXCEPT ![Head(call[t].left)] = Free]
          /\ Becomes(t, [Onward(t) EXCEPT !.owed = 0])
     ELSE Becomes(t, [call[t] EXCEPT !.owed = @ - 1]) /\ UNCHANGED lock
  /\ UNCHANGED <<pool, held, made, calls>>
CleanupReturns(t) ==
  /\ Ended(t, "cleanup") /\ (call[t].any => lock["stats"] = Free)
  /\ Becomes(t, Idle)
  /\ UNCHANGED <<pool, held, lock, stats, made, calls>>

\* clear: both pools, then reset_stats.
Clear(t) ==
  /\ Turn(t, "clear")
  /\ pool' = [pool EXCEPT ![Head(call[t].left)] = <<>>]
  /\ Becomes(t, Onward(t))
  /\ UNCHANGED <<held, lock, stats, made, calls>>
ClearReturns(t) ==
  /\ Ended(t, "clear") /\ lock["stats"] = Free
  /\ stats' = [f \in DOMAIN stats |-> 0]
  /\ Becomes(t, Idle)
  /\ UNCHANGED <<pool, held, lock, made, calls>>

\* get_stats: the size of each pool as it is when its turn comes.
Look(t) ==
  /\ Turn(t, "stats") /\ Becomes(t, Onward(t))
  /\ UNCHANGED <<pool, held, lock, stats, made, calls>>
PassReturns(t) ==
  /\ Ended(t, "stats") \/ Ended(t, "prewarm")
  /\ Becomes(t, Idle)
  /\ lock' = IF lock["stats"] = t THEN [lock EXCEPT !["stats"] = Free] ELSE lock
  /\ UNCHANGED <<pool, held, stats, made, calls>>

\* Time passes: what is pooled outlives buffer_ttl.
Age ==
  /\ \E k \in Kinds : \E i \in DOMAIN pool[k] :
       ~pool[k][i].old /\ pool' = [pool EXCEPT ![k][i].old = TRUE]
  /\ UNCHANGED <<held, lock, stats, call, made, calls>>

Steps(t) ==
  \/ Search(t) \/ Count(t) \/ Prewarm(t) \/ Cleanup(t) \/ CountDiscard(t) \/ CleanupReturns(t)
  \/ Clear(t) \/ ClearReturns(t) \/ Look(t) \/ PassReturns(t)

Next ==
  \/ \E t \in Thread :
       \/ \E k \in Kinds, min \in Sizes : Get(t, k, min)
       \/ \E do \in {"prewarm", "cleanup", "clear", "stats"} : Begin(t, do)
       \/ Steps(t) \/ Use(t) \/ Drop(t) \/ IntoInner(t)
  \/ Age

Spec == Init /\ [][Next]_vars
-----------------------------------------------------------------------------
(***************************************************************************)
(* Properties.                                                             *)
(***************************************************************************)
Ids(s) == {b.id : b \in ToSet(s)}
Holders == {<<t, b>> \in Thread \X UNION {held[t] : t \in Thread} : b \in held[t]}

\* A buffer handed out is nobody else's and in no pool, as large as was asked
\* for, and empty until its user fills it, whoever filled it before; and the
\* pools never keep more than they may, whatever comes back at once.
BuffersAreClean ==
  /\ \A h1, h2 \in Holders : h1 # h2 => h1[2].id # h2[2].id
  /\ \A h \in Holders :
       /\ \A k \in Kinds : h[2].id \notin Ids(pool[k])
       /\ h[2].min > 0 => h[2].empty /\ h[2].cap >= h[2].min
  /\ \A k \in Kinds : Len(pool[k]) <= MaxPool

\* No thread waits for a mutex whose holder waits in turn: while a call is in
\* progress some call can go on.
SomeCallGoesOn ==
  (\E t \in Thread : call[t] # Idle) => ENABLED (\E t \in Thread : Steps(t))

\* The pool hands out clean buffers of one owner, and it never blocks.
PoolServes == BuffersAreClean /\ SomeCallGoesOn
=============================================================================
