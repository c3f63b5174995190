--------------------------- MODULE ShardIndexProofs ---------------------------
(***************************************************************************)
(* What the shard index promises under its copy-on-write wrapper, for all  *)
(* sets of shards, documents and postings, every capacity and every cache  *)
(* limit: no open shard is behind its files, what writers committed stays  *)
(* reachable until it is removed, and what they deleted stays gone.        *)
(***************************************************************************)
EXTENDS ShardIndex, SequenceTheorems, FiniteSetTheorems, WellFoundedInduction, TLAPS
-----------------------------------------------------------------------------
(***************************************************************************)
(* Numbers.                                                                *)
(***************************************************************************)
\* A set of numbers that is not empty has a least one.
LEMMA NatLeast ==
  ASSUME NEW T \in SUBSET Nat, T # {}
  PROVE  \E x \in T : \A y \in T : x <= y
<1>1. PICK R : R = OpToRel(<, Nat)
  OBVIOUS
<1>2. IsWellFoundedOn(R, Nat)
  BY <1>1, NatLessThanWellFounded
<1>3. \A x, y \in Nat : x < y => <<x, y>> \in R
  BY <1>1 DEF OpToRel
<1>4. PICK x \in T : \A y \in T : ~(<<y, x>> \in R)
  BY <1>2, WFMin
<1>5. \A y \in T : ~(y < x)
  BY <1>3, <1>4
<1>6. \A y \in T : y \in Nat /\ x \in Nat
  OBVIOUS
<1> QED BY <1>5, <1>6
-----------------------------------------------------------------------------
Slot      == [key : Key, deleted : BOOLEAN]
ListEntry == [id : ShardId, count : Nat, active : Nat, writable : BOOLEAN]
OpenShard == [ro : BOOLEAN, count : Nat, known : SUBSET Doc]
Cache     == UNION {[S -> OpenShard] : S \in SUBSET ShardId}
Version   == [list : Seq(ListEntry), cache : Cache, limit : Nat]
Deletion  == [op : {"none", "delete", "remove"}, docs : SUBSET Doc,
              todo : SUBSET ShardId, skipped : SUBSET ShardId]

\* No shard has more slots than its capacity, which only a fresh count of slots
\* keeps.
FilesTyped ==
  /\ DOMAIN slots \subseteq ShardId /\ slots \in [DOMAIN slots -> Seq(Slot)]
  /\ \A s \in DOMAIN slots : Len(slots[s]) <= Capacity

\* An open shard agrees with its files.
Fresh(c) ==
  \A s \in DOMAIN c : s \in DOMAIN slots /\ c[s].count = Len(slots[s]) /\ DocsIn(s) \subseteq c[s].known

\* A version a writer may have: its shards exist, its open shards are fresh.
Good(v) == v \in Version /\ Fresh(v.cache) /\ Listed(v) \subseteq DOMAIN slots

\* A writer has what the published version lists, but for shards taken off.
VersionsInv ==
  /\ current \in Version /\ Listed(current) \subseteq DOMAIN slots
  /\ writer # Closed => Good(writer) /\ Listed(current) \subseteq Listed(writer) \cup dropped

\* Only a writer has work under way and postings of its own.
WriterInv ==
  /\ job \in Deletion /\ gone \in [Doc -> SUBSET (DOMAIN slots)]
  /\ mine \subseteq Key /\ committed \subseteq Key /\ dropped \subseteq ShardId
  /\ writer = Closed => job = NoJob /\ mine = {}
  /\ job.op = "none" => job = NoJob
  /\ job # NoJob => job.todo \subseteq Listed(writer)

\* A posting is live in a shard; no posting of a document is.
HasLive(s, k) == s \in DOMAIN slots /\ \E i \in DOMAIN slots[s] : slots[s][i].key = k /\ ~slots[s][i].deleted
NoneOf(s, d)  == \A i \in DOMAIN slots[s] : slots[s][i].deleted \/ DocOf[slots[s][i].key] # d

\* A deletion under way is done with the shards it has neither still to visit
\* nor had to skip.
DeletionInv ==
  job # NoJob => \A s \in Listed(writer), d \in job.docs :
                   s \notin job.todo \cup job.skipped => NoneOf(s, d)

\* What the open writer added is in a shard it lists, what was committed in one
\* that is published, what was deleted nowhere it was deleted from.
AddedInv == \A k \in mine : \E s \in Listed(writer) \cup dropped : HasLive(s, k)
KeptInv  == \A k \in committed : \E s \in Listed(current) \cup dropped : HasLive(s, k)
GoneInv  == \A d \in Doc : \A s \in gone[d] : NoneOf(s, d)

IndexInv ==
  FilesTyped /\ VersionsInv /\ WriterInv /\ DeletionInv /\ AddedInv /\ KeptInv /\ GoneInv
-----------------------------------------------------------------------------
(***************************************************************************)
(* Versions of the index.                                                  *)
(***************************************************************************)
LEMMA CacheIs ==
  ASSUME NEW c
  PROVE  c \in Cache <=> DOMAIN c \subseteq ShardId /\ c \in [DOMAIN c -> OpenShard]
<1>1. ASSUME c \in Cache PROVE DOMAIN c \subseteq ShardId /\ c \in [DOMAIN c -> OpenShard]
  <2>1. PICK S \in SUBSET ShardId : c \in [S -> OpenShard]
    BY <1>1 DEF Cache
  <2> QED BY <2>1
<1>2. ASSUME DOMAIN c \subseteq ShardId, c \in [DOMAIN c -> OpenShard] PROVE c \in Cache
  BY <1>2 DEF Cache
<1> QED BY <1>1, <1>2

LEMMA ClosedIsNone == Closed \notin Version
<1> SUFFICES ASSUME Closed \in Version PROVE FALSE
  OBVIOUS
<1>1. "cache" \in DOMAIN Closed
  BY DEF Version
<1> QED BY <1>1 DEF Closed

\* Another cache, another list.
LEMMA OtherCache ==
  ASSUME NEW v \in Version, NEW c \in Cache, NEW w, w = [v EXCEPT !.cache = c]
  PROVE  w \in Version /\ w.cache = c /\ w.list = v.list /\ w.limit = v.limit /\ Listed(w) = Listed(v)
<1>1. w \in Version /\ w.cache = c /\ w.list = v.list /\ w.limit = v.limit
  BY DEF Version
<1> QED BY <1>1 DEF Listed

LEMMA ListedIs ==
  ASSUME NEW v \in Version, NEW s
  PROVE  s \in Listed(v) <=> \E i \in DOMAIN v.list : v.list[i].id = s
BY DEF Listed

LEMMA ListedType ==
  ASSUME NEW v \in Version
  PROVE  Listed(v) \subseteq ShardId
<1>1. v.list \in Seq(ListEntry)
  BY DEF Version
<1>2. \A i \in DOMAIN v.list : v.list[i] \in ListEntry
  BY <1>1, ElementOfSeq
<1> QED BY <1>2 DEF Listed, ListEntry

LEMMA IndexOfIs ==
  ASSUME NEW v \in Version, NEW s \in Listed(v)
  PROVE  IndexOf(v, s) \in DOMAIN v.list /\ v.list[IndexOf(v, s)].id = s
BY DEF IndexOf, Listed

\* An entry brought up to date.
IsUpdated(w, v, j, e, c) == w = [v EXCEPT !.list[j] = e, !.cache = c]

LEMMA OtherEntry ==
  ASSUME NEW v \in Version, NEW c \in Cache, NEW j \in DOMAIN v.list, NEW e \in ListEntry,
         e.id = v.list[j].id, NEW w, IsUpdated(w, v, j, e, c)
  PROVE  w \in Version /\ w.cache = c /\ Listed(w) = Listed(v)
<1>1. v.list \in Seq(ListEntry)
  BY DEF Version
<1>2. PICK l : l = [v.list EXCEPT ![j] = e]
  OBVIOUS
<1>3. l \in Seq(ListEntry) /\ DOMAIN l = DOMAIN v.list /\ \A i \in DOMAIN l : l[i].id = v.list[i].id
  BY <1>1, <1>2
<1>4. w \in Version /\ w.cache = c /\ w.list = l
  BY <1>2, <1>3 DEF Version, IsUpdated
<1> QED BY <1>3, <1>4 DEF Listed
-----------------------------------------------------------------------------
(***************************************************************************)
(* Opening shards and looking at them.                                     *)
(***************************************************************************)
LEMMA SlotType ==
  ASSUME FilesTyped, NEW s \in DOMAIN slots
  PROVE  /\ slots[s] \in Seq(Slot) /\ Len(slots[s]) \in Nat /\ DOMAIN slots[s] = 1..Len(slots[s])
         /\ \A i \in DOMAIN slots[s] : slots[s][i] \in Slot /\ slots[s][i].key \in Key
                                       /\ slots[s][i].deleted \in BOOLEAN
                                       /\ DocOf[slots[s][i].key] \in Doc
<1>1. slots[s] \in Seq(Slot)
  BY DEF FilesTyped
<1>2. \A i \in DOMAIN slots[s] : slots[s][i] \in Slot
  BY <1>1, ElementOfSeq
<1> QED BY <1>1, <1>2, ShardIndexAssumption DEF Slot

LEMMA CountsType ==
  ASSUME FilesTyped, NEW s \in DOMAIN slots
  PROVE  UniqueIn(s) \in Nat /\ ActiveIn(s) \in Nat
<1>1. DOMAIN slots[s] = 1..Len(slots[s]) /\ Len(slots[s]) \in Nat
  BY SlotType
<1>2. IsFiniteSet(DOMAIN slots[s])
  BY <1>1, FS_Interval
<1>3. PICK I : I = {i \in DOMAIN slots[s] : Live(s, i)}
  OBVIOUS
<1>4. IsFiniteSet(I) /\ Cardinality(I) \in Nat
  BY <1>2, <1>3, FS_Subset, FS_CardinalityType
<1>5. PICK K : K = LiveKeys({s})
  OBVIOUS
<1>6. \A k \in K : \E i \in I : slots[s][i].key = k
  BY <1>3, <1>5 DEF LiveKeys
<1>7. \A i \in I : slots[s][i].key \in K
  BY <1>3, <1>5 DEF LiveKeys
<1>8. [i \in I |-> slots[s][i].key] \in Surjection(I, K)
  BY <1>6, <1>7 DEF Surjection
<1>9. IsFiniteSet(K)
  BY <1>4, <1>8, FS_Surjection
<1>10. Cardinality(K) \in Nat
  BY <1>9, FS_CardinalityType
<1> QED BY <1>3, <1>4, <1>5, <1>10 DEF UniqueIn, ActiveIn

LEMMA LoadedIsFresh ==
  ASSUME FilesTyped, NEW v \in Version, Fresh(v.cache), NEW s \in DOMAIN slots,
         NEW ro \in BOOLEAN, NEW c \in Loaded(v, s, ro)
  PROVE  c \in Cache /\ Fresh(c) /\ s \in DOMAIN c
<1>1. v.cache \in Cache
  BY DEF Version
<1>2. CASE s \in DOMAIN v.cache
  BY <1>1, <1>2 DEF Loaded
<1>3. CASE s \notin DOMAIN v.cache
  <2>1. PICK x : c = With(Without(v.cache, x), s, Opened(s, ro))
    BY <1>3 DEF Loaded
  <2>2. PICK o : o = Opened(s, ro)
    OBVIOUS
  <2>3. /\ DOMAIN c = (DOMAIN v.cache \ x) \cup {s}
        /\ \A t \in DOMAIN c : c[t] = IF t = s THEN o ELSE v.cache[t]
    BY <2>1, <2>2 DEF With, Without
  <2>4. o.count = Len(slots[s]) /\ o.known = DocsIn(s) /\ o \in OpenShard
    <3>1. DocsIn(s) \subseteq Doc
      BY SlotType DEF DocsIn
    <3> QED BY <2>2, <3>1, SlotType DEF Opened, OpenShard
  <2>5. DOMAIN v.cache \subseteq ShardId /\ v.cache \in [DOMAIN v.cache -> OpenShard] /\ s \in ShardId
    BY <1>1, CacheIs DEF FilesTyped
  <2>6. DOMAIN c \subseteq ShardId /\ \A t \in DOMAIN c : c[t] \in OpenShard
    BY <2>3, <2>4, <2>5
  <2>7. c = [t \in DOMAIN c |-> c[t]]
    BY <2>1 DEF With
  <2>8. c \in Cache
    BY <2>6, <2>7, CacheIs
  <2>9. Fresh(c)
    BY <2>3, <2>4 DEF Fresh
  <2> QED BY <2>3, <2>8, <2>9
<1> QED BY <1>2, <1>3
-----------------------------------------------------------------------------
(***************************************************************************)
(* Refreshing.                                                             *)
(***************************************************************************)
LEMMA RefreshedIsGood ==
  ASSUME FilesTyped, NEW v, Good(v), NEW s \in Listed(v), NEW w \in Refreshed(v, s)
  PROVE  Good(w) /\ Listed(w) = Listed(v)
<1>1. v \in Version /\ Fresh(v.cache) /\ s \in DOMAIN slots
  BY DEF Good
<1>2. PICK j : j = IndexOf(v, s)
  OBVIOUS
<1>3. j \in DOMAIN v.list /\ v.list[j].id = s
  BY <1>1, <1>2, IndexOfIs
<1>4. PICK c \in Loaded(v, s, TRUE) :
        w = [v EXCEPT !.list[j] = [id |-> s, count |-> c[s].count, active |-> UniqueIn(s), writable |-> ~c[s].ro],
                      !.cache = c]
  BY <1>2 DEF Refreshed
<1>5. c \in Cache /\ Fresh(c) /\ s \in DOMAIN c
  BY <1>1, LoadedIsFresh
<1>6. PICK e : e = [id |-> s, count |-> c[s].count, active |-> UniqueIn(s), writable |-> ~c[s].ro]
  OBVIOUS
<1>7. e \in ListEntry /\ e.id = v.list[j].id
  <2>1. c[s] \in OpenShard
    BY <1>5, CacheIs
  <2>2. s \in ShardId /\ UniqueIn(s) \in Nat
    BY <1>1, CountsType DEF FilesTyped
  <2> QED BY <1>3, <1>6, <2>1, <2>2 DEF ListEntry, OpenShard
<1>8. IsUpdated(w, v, j, e, c)
  BY <1>4, <1>6 DEF IsUpdated
<1>9. w \in Version /\ w.cache = c /\ Listed(w) = Listed(v)
  BY <1>1, <1>3, <1>5, <1>7, <1>8, OtherEntry
<1> QED BY <1>1, <1>5, <1>9 DEF Good

\* g says, for each of the first n shards the writer lists, what the index can be
\* when it was refreshed.
Refreshes(g, n) ==
  g = [m \in 0..n |-> IF m = 0 THEN {writer}
                      ELSE UNION {Refreshed(v, writer.list[m].id) : v \in g[m - 1]}]

LEMMA RefreshesExist ==
  ASSUME NEW N \in Nat
  PROVE  \E g : Refreshes(g, N)
<1>1. PICK T : T = {n \in 0..N : ~ \E g : Refreshes(g, n)}
  OBVIOUS
<1>2. CASE T = {}
  BY <1>1, <1>2
<1>3. CASE T # {}
  <2>1. T \in SUBSET Nat
    BY <1>1
  <2>2. PICK n \in T : \A m \in T : n <= m
    BY <1>3, <2>1, NatLeast
  <2>3. n \in 0..N /\ n \in Nat /\ ~ \E g : Refreshes(g, n)
    BY <1>1, <2>1
  <2>4. CASE n = 0
    <3>1. PICK h : h = [m \in 0..0 |-> {writer}]
      OBVIOUS
    <3>2. h = [m \in 0..0 |-> IF m = 0 THEN {writer}
                              ELSE UNION {Refreshed(v, writer.list[m].id) : v \in h[m - 1]}]
      <4>1. \A m \in 0..0 : m = 0
        OBVIOUS
      <4> QED BY <3>1, <4>1
    <3>3. Refreshes(h, n)
      BY <2>4, <3>2 DEF Refreshes
    <3> QED BY <2>3, <3>3
  <2>5. CASE n # 0
    <3>1. n - 1 \in Nat /\ n - 1 \in 0..N /\ ~(n <= n - 1)
      BY <2>3, <2>5
    <3>2. PICK g : Refreshes(g, n - 1)
      BY <1>1, <2>2, <3>1
    <3>3. PICK last : last = UNION {Refreshed(v, writer.list[n].id) : v \in g[n - 1]}
      OBVIOUS
    <3>4. PICK h : h = [m \in 0..n |-> IF m = n THEN last ELSE g[m]]
      OBVIOUS
    <3>5. ASSUME NEW m \in 0..n
          PROVE  h[m] = IF m = 0 THEN {writer}
                        ELSE UNION {Refreshed(v, writer.list[m].id) : v \in h[m - 1]}
      <4>1. CASE m = n
        <5>1. n - 1 \in 0..n /\ n - 1 # n
          BY <2>3, <2>5
        <5>2. h[m] = last /\ h[m - 1] = g[n - 1]
          BY <3>4, <4>1, <5>1
        <5> QED BY <2>5, <3>3, <4>1, <5>2
      <4>2. CASE m # n
        <5>1. m \in 0..(n - 1)
          BY <2>3, <4>2
        <5>2. h[m] = g[m]
          BY <3>4, <4>2
        <5>3. g[m] = IF m = 0 THEN {writer}
                     ELSE UNION {Refreshed(v, writer.list[m].id) : v \in g[m - 1]}
          BY <3>2, <5>1 DEF Refreshes
        <5>4. m # 0 => h[m - 1] = g[m - 1]
          <6>1. m # 0 => m - 1 \in 0..n /\ m - 1 # n
            BY <2>3, <5>1
          <6> QED BY <3>4, <6>1
        <5> QED BY <5>2, <5>3, <5>4
      <4> QED BY <4>1, <4>2
    <3>6. Refreshes(h, n)
      BY <3>4, <3>5 DEF Refreshes
    <3> QED BY <2>3, <3>6
  <2> QED BY <2>4, <2>5
<1> QED BY <1>2, <1>3

\* After any number of them the index is good and lists what it listed.
LEMMA RefreshedUpToIsGood ==
  ASSUME FilesTyped, Good(writer), NEW w \in RefreshedUpTo[Len(writer.list)]
  PROVE  Good(w) /\ Listed(w) = Listed(writer)
<1>1. PICK N : N = Len(writer.list)
  OBVIOUS
<1>2. writer.list \in Seq(ListEntry) /\ N \in Nat /\ DOMAIN writer.list = 1..N
  BY <1>1 DEF Good, Version
<1>3. PICK g : g = RefreshedUpTo
  OBVIOUS
<1>4. Refreshes(g, N)
  <2>1. \E f : Refreshes(f, N)
    BY <1>2, RefreshesExist
  <2>2. Refreshes(CHOOSE f : Refreshes(f, N), N)
    BY <2>1
  <2>3. g = CHOOSE f : Refreshes(f, N)
    BY <1>1, <1>3 DEF RefreshedUpTo, Refreshes
  <2> QED BY <2>2, <2>3
<1>5. PICK T : T = {n \in 0..N : ~ \A v \in g[n] : Good(v) /\ Listed(v) = Listed(writer)}
  OBVIOUS
<1>6. CASE T = {}
  <2>1. N \in 0..N
    BY <1>2
  <2> QED BY <1>1, <1>3, <1>5, <1>6, <2>1
<1>7. CASE T # {}
  <2>1. T \in SUBSET Nat
    BY <1>2, <1>5
  <2>2. PICK n \in T : \A m \in T : n <= m
    BY <1>7, <2>1, NatLeast
  <2>3. n \in 0..N /\ n \in Nat /\ ~ \A v \in g[n] : Good(v) /\ Listed(v) = Listed(writer)
    BY <1>5, <2>1
  <2>4. g[n] = IF n = 0 THEN {writer} ELSE UNION {Refreshed(v, writer.list[n].id) : v \in g[n - 1]}
    BY <1>4, <2>3 DEF Refreshes
  <2>5. CASE n = 0
    BY <2>3, <2>4, <2>5
  <2>6. CASE n # 0
    <3>1. n - 1 \in 0..N /\ ~(n <= n - 1) /\ n \in 1..N
      BY <1>2, <2>3, <2>6
    <3>2. \A v \in g[n - 1] : Good(v) /\ Listed(v) = Listed(writer)
      BY <1>5, <2>2, <3>1
    <3>3. PICK u \in g[n] : ~(Good(u) /\ Listed(u) = Listed(writer))
      BY <2>3
    <3>4. PICK v \in g[n - 1] : u \in Refreshed(v, writer.list[n].id)
      BY <2>4, <2>6, <3>3
    <3>5. Good(v) /\ Listed(v) = Listed(writer) /\ writer.list[n].id \in Listed(v)
      BY <1>2, <3>1, <3>2 DEF Listed
    <3>6. Good(u) /\ Listed(u) = Listed(v)
      BY <3>4, <3>5, RefreshedIsGood
    <3> QED BY <3>3, <3>5, <3>6
  <2> QED BY <2>5, <2>6
<1> QED BY <1>6, <1>7
-----------------------------------------------------------------------------
(***************************************************************************)
(* Steps that leave the files of the shards as they are.                   *)
(***************************************************************************)
LEMMA FilesSame ==
  ASSUME slots' = slots
  PROVE  /\ FilesTyped' <=> FilesTyped
         /\ \A v : Good(v)' <=> Good(v)
         /\ \A s, k : HasLive(s, k)' <=> HasLive(s, k)
         /\ \A s, d : NoneOf(s, d)' <=> NoneOf(s, d)
BY DEF FilesTyped, Good, Fresh, Listed, DocsIn, HasLive, NoneOf

\* The writer has another cache or knows its shards better.
LEMMA WriterMoves ==
  ASSUME IndexInv, UNCHANGED <<slots, current, job, mine, committed, dropped, gone>>,
         writer # Closed, NEW v, Good(v), writer' = v, Listed(v) = Listed(writer)
  PROVE  IndexInv'
<1>1. v # Closed /\ Listed(writer)' = Listed(writer) /\ Listed(current)' = Listed(current)
  BY ClosedIsNone DEF Good, Listed
<1> USE FilesSame DEF IndexInv
<1>2. FilesTyped' /\ VersionsInv'
  BY <1>1 DEF VersionsInv
<1>3. WriterInv' /\ DeletionInv'
  BY <1>1 DEF WriterInv, DeletionInv
<1>4. AddedInv' /\ KeptInv' /\ GoneInv'
  BY <1>1 DEF AddedInv, KeptInv, GoneInv
<1> QED BY <1>2, <1>3, <1>4

LEMMA RefreshSteps ==
  ASSUME IndexInv, (\E s \in ShardId : RefreshMetadata(s)) \/ RefreshAllMetadata
  PROVE  IndexInv'
<1>1. writer # Closed /\ Good(writer) /\ FilesTyped
  BY DEF IndexInv, VersionsInv, RefreshMetadata, RefreshAllMetadata, Change, Idle
<1>2. UNCHANGED <<slots, current, job, mine, committed, dropped, gone>>
  BY DEF RefreshMetadata, RefreshAllMetadata
<1>3. PICK v : v = writer'
  OBVIOUS
<1>4. Good(v) /\ Listed(v) = Listed(writer)
  <2>1. ASSUME NEW s \in ShardId, RefreshMetadata(s) PROVE Good(v) /\ Listed(v) = Listed(writer)
    <3>1. s \in Listed(writer) /\ v \in Refreshed(writer, s)
      BY <1>3, <2>1 DEF RefreshMetadata
    <3> QED BY <1>1, <3>1, RefreshedIsGood
  <2>2. CASE RefreshAllMetadata
    <3>1. v \in RefreshedUpTo[Len(writer.list)]
      BY <1>3, <2>2 DEF RefreshAllMetadata
    <3> QED BY <1>1, <3>1, RefreshedUpToIsGood
  <2> QED BY <2>1, <2>2
<1> QED BY <1>1, <1>2, <1>3, <1>4, WriterMoves

LEMMA SetCacheLimitStep ==
  ASSUME IndexInv, NEW n \in Limits, SetCacheLimit(n)
  PROVE  IndexInv'
<1>1. writer # Closed /\ Good(writer) /\ n \in Nat
  BY ShardIndexAssumption DEF IndexInv, VersionsInv, SetCacheLimit, Change, Idle
<1>2. UNCHANGED <<slots, current, job, mine, committed, dropped, gone>>
  BY DEF SetCacheLimit
<1>3. PICK keep \in SUBSET DOMAIN writer.cache :
        writer' = [writer EXCEPT !.limit = n, !.cache = [s \in keep |-> writer.cache[s]]]
  BY DEF SetCacheLimit
<1>4. PICK c : c = [s \in keep |-> writer.cache[s]]
  OBVIOUS
<1>5. writer.cache \in Cache
  BY <1>1 DEF Good, Version
<1>6. c \in Cache /\ Fresh(c)
  <2>1. DOMAIN c = keep /\ DOMAIN c \subseteq ShardId /\ c \in [DOMAIN c -> OpenShard]
    BY <1>4, <1>5, CacheIs
  <2> QED BY <1>1, <1>4, <2>1, CacheIs DEF Good, Fresh
<1>7. PICK v : v = [writer EXCEPT !.limit = n, !.cache = c]
  OBVIOUS
<1>8. v \in Version /\ v.cache = c /\ v.list = writer.list
  BY <1>1, <1>6, <1>7 DEF Good, Version
<1>9. Good(v) /\ Listed(v) = Listed(writer)
  BY <1>1, <1>6, <1>8 DEF Good, Listed
<1> QED BY <1>1, <1>2, <1>3, <1>4, <1>7, <1>9, WriterMoves

\* As the counts of open shards are those of their files, a flush writes what
\* is there.
LEMMA FlushStep ==
  ASSUME IndexInv, NEW close \in BOOLEAN, Flush(close)
  PROVE  IndexInv'
<1>1. writer # Closed /\ Good(writer) /\ FilesTyped
  BY DEF IndexInv, VersionsInv, Flush, Change, Idle
<1>2. UNCHANGED <<current, job, mine, committed, dropped, gone>>
  BY DEF Flush
<1>3. ASSUME NEW s \in DOMAIN slots, s \in DOMAIN writer.cache
      PROVE  Written(writer.cache, s, <<>>) = slots[s]
  <2>1. PICK q : q = slots[s]
    OBVIOUS
  <2>2. q \in Seq(Slot) /\ writer.cache[s].count = Len(q)
    BY <1>1, <1>3, <2>1, SlotType DEF Good, Fresh
  <2>3. SubSeq(q, 1, Len(q)) \o <<>> = q
    BY <2>2
  <2> QED BY <2>1, <2>2, <2>3 DEF Written
<1>4. slots' = slots
  <2>1. slots' = [s \in DOMAIN slots |-> slots[s]]
    BY <1>3 DEF Flush, Flushed
  <2> QED BY <1>1, <2>1 DEF FilesTyped
<1>5. PICK v : v = writer'
  OBVIOUS
<1>6. Good(v) /\ Listed(v) = Listed(writer)
  <2>1. CASE v = writer
    BY <1>1, <2>1
  <2>2. CASE v = [writer EXCEPT !.cache = Nothing]
    <3>1. Nothing \in Cache /\ Fresh(Nothing)
      <4>1. DOMAIN Nothing = {} /\ Nothing \in [DOMAIN Nothing -> OpenShard]
        BY DEF Nothing
      <4> QED BY <4>1, CacheIs DEF Fresh
    <3> HIDE DEF Nothing
    <3> QED BY <1>1, <2>2, <3>1, OtherCache DEF Good
  <2> QED BY <1>5, <2>1, <2>2 DEF Flush
<1> QED BY <1>1, <1>2, <1>4, <1>5, <1>6, WriterMoves
-----------------------------------------------------------------------------
(***************************************************************************)
(* Shards that join and leave.                                             *)
(***************************************************************************)
NewEntry(s) == [id |-> s, count |-> 0, active |-> 0, writable |-> TRUE]
NewShard    == [ro |-> FALSE, count |-> 0, known |-> {}]

LEMMA AddedIs ==
  ASSUME NEW v \in Version, NEW N \in SUBSET ShardId, NEW ss \in Seq(N), N \cap DOMAIN v.cache = {},
         NEW w, w = Added(v, ss)
  PROVE  /\ w \in Version /\ Listed(v) \subseteq Listed(w) /\ Listed(w) \subseteq Listed(v) \cup N
         /\ \A t \in DOMAIN w.cache : \/ t \in N /\ w.cache[t] = NewShard
                                      \/ t \in DOMAIN v.cache /\ w.cache[t] = v.cache[t]
<1>1. v.list \in Seq(ListEntry) /\ v.cache \in Cache
  BY DEF Version
<1>2. PICK l : l = [i \in DOMAIN ss |-> NewEntry(ss[i])]
  OBVIOUS
<1>3. DOMAIN ss = 1..Len(ss) /\ Len(ss) \in Nat /\ \A i \in DOMAIN ss : ss[i] \in N
  BY ElementOfSeq
<1>4. \A i \in DOMAIN ss : NewEntry(ss[i]) \in ListEntry /\ NewEntry(ss[i]).id = ss[i]
  BY <1>3 DEF NewEntry, ListEntry
<1>5. /\ l \in Seq(ListEntry) /\ Len(l) = Len(ss) /\ DOMAIN l = DOMAIN ss
      /\ \A i \in DOMAIN l : l[i].id \in N
  BY <1>2, <1>3, <1>4
<1>6. PICK room : room = {ss[i] : i \in {j \in DOMAIN ss : Cardinality(DOMAIN v.cache) + j <= v.limit}}
  OBVIOUS
<1>7. room \subseteq N
  BY <1>3, <1>6
<1>8. PICK c : c = [s \in DOMAIN v.cache \cup room |-> IF s \in room THEN NewShard ELSE v.cache[s]]
  OBVIOUS
<1>9. w = [v EXCEPT !.list = v.list \o l, !.cache = c]
  BY <1>2, <1>6, <1>8 DEF Added, NewEntry, NewShard
<1>10. PICK m : m = v.list \o l
  OBVIOUS
<1>11. /\ m \in Seq(ListEntry) /\ Len(m) = Len(v.list) + Len(l) /\ DOMAIN m = 1..Len(v.list) + Len(l)
       /\ \A i \in 1..Len(v.list) : m[i] = v.list[i]
       /\ \A i \in 1..Len(l) : m[Len(v.list) + i] = l[i]
       /\ Len(v.list) \in Nat /\ DOMAIN v.list = 1..Len(v.list) /\ Len(l) \in Nat /\ DOMAIN l = 1..Len(l)
  <2>1. PICK q : q = v.list
    OBVIOUS
  <2>2. q \in Seq(ListEntry) /\ l \in Seq(ListEntry) /\ m = q \o l
    BY <1>1, <1>5, <1>10, <2>1
  <2>3. /\ m \in Seq(ListEntry) /\ Len(m) = Len(q) + Len(l) /\ Len(q) \in Nat /\ Len(l) \in Nat
        /\ DOMAIN q = 1..Len(q) /\ DOMAIN l = 1..Len(l) /\ DOMAIN m = 1..Len(m)
    BY <2>2
  <2>4. /\ \A i \in 1..Len(q) : m[i] = q[i]
        /\ \A i \in 1..Len(l) : m[Len(q) + i] = l[i]
    BY <2>2
  <2> QED BY <2>1, <2>3, <2>4
<1>12. c \in Cache
  <2>1. NewShard \in OpenShard
    BY DEF NewShard, OpenShard
  <2>2. DOMAIN c \subseteq ShardId /\ c \in [DOMAIN c -> OpenShard]
    BY <1>1, <1>7, <1>8, <2>1, CacheIs
  <2> QED BY <2>2, CacheIs
<1>13. w \in Version /\ w.list = m /\ w.cache = c
  BY <1>9, <1>10, <1>11, <1>12 DEF Version
<1>14. ASSUME NEW s \in Listed(v) PROVE s \in Listed(w)
  <2>1. PICK i \in 1..Len(v.list) : v.list[i].id = s
    BY <1>11 DEF Listed
  <2>2. i \in DOMAIN m /\ m[i].id = s
    BY <1>11, <2>1
  <2> QED BY <1>13, <2>2 DEF Listed
<1>15. ASSUME NEW s \in Listed(w) PROVE s \in Listed(v) \cup N
  <2>1. PICK i \in 1..Len(v.list) + Len(l) : m[i].id = s
    BY <1>11, <1>13 DEF Listed
  <2>2. CASE i <= Len(v.list)
    <3>1. i \in 1..Len(v.list)
      BY <1>11, <2>2
    <3> QED BY <1>11, <2>1, <3>1 DEF Listed
  <2>3. CASE i > Len(v.list)
    <3>1. i - Len(v.list) \in 1..Len(l) /\ Len(v.list) + (i - Len(v.list)) = i
      BY <1>11, <2>3
    <3>2. m[i] = l[i - Len(v.list)]
      BY <1>11, <3>1
    <3> QED BY <1>5, <1>11, <2>1, <3>1, <3>2
  <2> QED BY <1>11, <2>2, <2>3
<1>16. \A t \in DOMAIN c : \/ t \in N /\ c[t] = NewShard
                           \/ t \in DOMAIN v.cache /\ c[t] = v.cache[t]
  BY <1>7, <1>8
<1> QED BY <1>13, <1>14, <1>15, <1>16

\* Shards with empty files join.
LEMMA ShardsJoin ==
  ASSUME IndexInv, writer # Closed, job = NoJob, NEW N \in SUBSET ShardId, N \cap DOMAIN slots = {},
         NEW ss \in Seq(N), NEW sl, slots' = sl, sl = [t \in DOMAIN slots \cup N |-> IF t \in DOMAIN slots THEN slots[t] ELSE <<>>],
         writer' = Added(writer, ss), UNCHANGED <<current, job, mine, committed, dropped, gone>>
  PROVE  IndexInv'
<1>1. FilesTyped /\ Good(writer)
  BY DEF IndexInv, VersionsInv
<1>2. /\ DOMAIN sl = DOMAIN slots \cup N /\ DOMAIN slots \subseteq DOMAIN sl
      /\ \A t \in DOMAIN slots : sl[t] = slots[t]
      /\ \A t \in N : sl[t] = <<>>
  OBVIOUS
<1>3. FilesTyped'
  <2>1. <<>> \in Seq(Slot) /\ Len(<<>>) = 0
    OBVIOUS
  <2>2. 0 <= Capacity
    BY ShardIndexAssumption
  <2>3. sl \in [DOMAIN sl -> Seq(Slot)]
    BY <1>1, <1>2, <2>1 DEF FilesTyped
  <2>4. \A t \in DOMAIN sl : Len(sl[t]) <= Capacity
    BY <1>1, <1>2, <2>1, <2>2 DEF FilesTyped
  <2> QED BY <1>1, <1>2, <2>3, <2>4 DEF FilesTyped
<1>4. /\ \A s, k : HasLive(s, k) => HasLive(s, k)'
      /\ \A s \in DOMAIN slots : \A d : NoneOf(s, d) => NoneOf(s, d)'
  BY <1>2 DEF HasLive, NoneOf
<1>5. PICK w : w = Added(writer, ss)
  OBVIOUS
<1>6. /\ w \in Version /\ Listed(writer) \subseteq Listed(w) /\ Listed(w) \subseteq Listed(writer) \cup N
      /\ \A t \in DOMAIN w.cache : \/ t \in N /\ w.cache[t] = NewShard
                                   \/ t \in DOMAIN writer.cache /\ w.cache[t] = writer.cache[t]
  <2>1. N \cap DOMAIN writer.cache = {}
    BY <1>1 DEF Good, Fresh
  <2> QED BY <1>1, <1>5, <2>1, AddedIs DEF Good
<1>7. Good(w)'
  <2>1. ASSUME NEW t \in DOMAIN w.cache
        PROVE  t \in DOMAIN sl /\ w.cache[t].count = Len(sl[t]) /\ DocsIn(t)' \subseteq w.cache[t].known
    <3>1. CASE t \in N /\ w.cache[t] = NewShard
      <4>1. sl[t] = <<>> /\ Len(<<>>) = 0 /\ DOMAIN (<<>>) = {}
        BY <1>2, <3>1
      <4> QED BY <1>2, <3>1, <4>1 DEF NewShard, DocsIn
    <3>2. CASE t \in DOMAIN writer.cache /\ w.cache[t] = writer.cache[t]
      <4>1. t \in DOMAIN slots /\ writer.cache[t].count = Len(slots[t]) /\ DocsIn(t) \subseteq writer.cache[t].known
        BY <1>1, <3>2 DEF Good, Fresh
      <4>2. DocsIn(t)' = DocsIn(t)
        BY <1>2, <4>1 DEF DocsIn
      <4> QED BY <1>2, <3>2, <4>1, <4>2
    <3> QED BY <1>6, <3>1, <3>2
  <2>2. Fresh(w.cache)'
    BY <2>1 DEF Fresh
  <2>3. Listed(w) \subseteq DOMAIN sl
    BY <1>1, <1>2, <1>6 DEF Good
  <2> QED BY <1>6, <2>2, <2>3 DEF Good, Listed
<1>8. writer' = w /\ w # Closed /\ Listed(writer)' = Listed(w) /\ Listed(current)' = Listed(current)
  BY <1>5, <1>6, ClosedIsNone DEF Listed
<1> USE DEF IndexInv
<1>9. VersionsInv'
  BY <1>2, <1>6, <1>7, <1>8 DEF VersionsInv
<1>10. WriterInv' /\ DeletionInv'
  <2>1. gone \in [Doc -> SUBSET DOMAIN sl]
    BY <1>2 DEF WriterInv
  <2> QED BY <1>8, <2>1 DEF WriterInv, DeletionInv
<1>11. AddedInv' /\ KeptInv'
  BY <1>4, <1>6, <1>8 DEF AddedInv, KeptInv
<1>12. GoneInv'
  <2>1. \A d \in Doc : gone[d] \subseteq DOMAIN slots
    BY DEF WriterInv
  <2> QED BY <1>4, <2>1 DEF GoneInv
<1> QED BY <1>3, <1>9, <1>10, <1>11, <1>12

LEMMA AddSteps ==
  ASSUME IndexInv,
         \/ \E s \in ShardId : AddShard(s)
         \/ \E ss \in UNION {SetToSeqs(ss) : ss \in (SUBSET ShardId) \ {{}}} :
              \E n \in 0..Len(ss) : BulkAddShards(ss, n)
  PROVE  IndexInv'
<1>1. ASSUME NEW s \in ShardId, AddShard(s) PROVE IndexInv'
  <2>1. PICK N : N = {s}
    OBVIOUS
  <2>2. /\ writer # Closed /\ job = NoJob /\ s \notin DOMAIN slots /\ slots' = With(slots, s, <<>>)
        /\ writer' = Added(writer, <<s>>) /\ UNCHANGED <<current, job, mine, committed, dropped, gone>>
    BY <1>1 DEF AddShard, Change, Idle
  <2>3. PICK sl : sl = [t \in DOMAIN slots \cup N |-> IF t \in DOMAIN slots THEN slots[t] ELSE <<>>]
    OBVIOUS
  <2>4. slots' = sl
    BY <2>1, <2>2, <2>3 DEF With
  <2>5. N \in SUBSET ShardId /\ N \cap DOMAIN slots = {} /\ <<s>> \in Seq(N)
    BY <2>1, <2>2
  <2> QED BY <2>2, <2>3, <2>4, <2>5, ShardsJoin
<1>2. ASSUME NEW S \in SUBSET ShardId, NEW ss \in SetToSeqs(S), NEW n \in 0..Len(ss), BulkAddShards(ss, n)
      PROVE  IndexInv'
  <2>1. PICK N : N = ToSet(ss)
    OBVIOUS
  <2>2. /\ writer # Closed /\ job = NoJob /\ N \cap DOMAIN slots = {}
        /\ writer' = Added(writer, SubSeq(ss, 1, n)) /\ UNCHANGED <<current, job, mine, committed, dropped, gone>>
    BY <1>2, <2>1 DEF BulkAddShards, Change, Idle
  <2>3. PICK sl : sl = [t \in DOMAIN slots \cup N |-> IF t \in DOMAIN slots THEN slots[t] ELSE <<>>]
    OBVIOUS
  <2>4. slots' = sl
    BY <1>2, <2>1, <2>3 DEF BulkAddShards
  <2>5. ss \in Seq(N) /\ N \in SUBSET ShardId
    <3>1. IsFiniteSet(S)
      BY ShardIndexAssumption, FS_Subset
    <3>2. Cardinality(S) \in Nat
      BY <3>1, FS_CardinalityType
    <3>3. ss \in [1..Cardinality(S) -> S]
      BY DEF SetToSeqs
    <3> QED BY <2>1, <3>2, <3>3 DEF ToSet
  <2>6. PICK a : a = SubSeq(ss, 1, n)
    OBVIOUS
  <2>7. a \in Seq(N)
    BY <2>5, <2>6
  <2> QED BY <2>2, <2>3, <2>4, <2>5, <2>6, <2>7, ShardsJoin
<1>3. ASSUME NEW ss \in UNION {SetToSeqs(ss) : ss \in (SUBSET ShardId) \ {{}}}
      PROVE  \E S \in SUBSET ShardId : ss \in SetToSeqs(S)
  OBVIOUS
<1> QED BY <1>1, <1>2, <1>3

LEMMA RemoveAtIs ==
  ASSUME NEW S, NEW q \in Seq(S), NEW j \in DOMAIN q, NEW m, m = RemoveAt(q, j)
  PROVE  /\ m \in Seq(S)
         /\ \A i \in DOMAIN m : \E h \in DOMAIN q : m[i] = q[h]
         /\ \A h \in DOMAIN q : h # j => \E i \in DOMAIN m : m[i] = q[h]
<1>1. j \in 1..Len(q) /\ Len(q) \in Nat /\ DOMAIN q = 1..Len(q)
  OBVIOUS
<1>2. PICK a : a = SubSeq(q, 1, j - 1)
  OBVIOUS
<1>3. PICK b : b = SubSeq(q, j + 1, Len(q))
  OBVIOUS
<1>4. /\ a \in Seq(S) /\ Len(a) = j - 1 /\ DOMAIN a = 1..j - 1 /\ \A i \in 1..j - 1 : a[i] = q[i]
  BY <1>1, <1>2
<1>5. /\ b \in Seq(S) /\ Len(b) = Len(q) - j /\ DOMAIN b = 1..Len(q) - j
      /\ \A i \in 1..Len(q) - j : b[i] = q[j + i]
  BY <1>1, <1>3
<1>6. m = a \o b
  BY <1>2, <1>3 DEF RemoveAt
<1>7. m \in Seq(S) /\ Len(m) = Len(a) + Len(b) /\ DOMAIN m = 1..Len(m)
  BY <1>4, <1>5, <1>6
<1>8. /\ \A i \in 1..Len(a) : m[i] = a[i]
      /\ \A i \in 1..Len(b) : m[Len(a) + i] = b[i]
  BY <1>4, <1>5, <1>6
<1>9. ASSUME NEW i \in DOMAIN m PROVE \E h \in DOMAIN q : m[i] = q[h]
  <2>1. CASE i <= j - 1
    <3>1. i \in 1..j - 1 /\ i \in DOMAIN q
      BY <1>1, <1>4, <1>5, <1>7, <2>1
    <3> QED BY <1>4, <1>8, <3>1
  <2>2. CASE ~(i <= j - 1)
    <3>1. i - (j - 1) \in 1..Len(b) /\ (j - 1) + (i - (j - 1)) = i /\ j + (i - (j - 1)) = i + 1 /\ i + 1 \in DOMAIN q
      BY <1>1, <1>4, <1>5, <1>7, <2>2
    <3>2. m[i] = b[i - (j - 1)]
      BY <1>4, <1>8, <3>1
    <3>3. b[i - (j - 1)] = q[i + 1]
      BY <1>5, <3>1
    <3> QED BY <3>1, <3>2, <3>3
  <2> QED BY <2>1, <2>2
<1>10. ASSUME NEW h \in DOMAIN q, h # j PROVE \E i \in DOMAIN m : m[i] = q[h]
  <2>1. CASE h < j
    <3>1. h \in 1..j - 1 /\ h \in DOMAIN m
      BY <1>1, <1>4, <1>5, <1>7, <2>1
    <3> QED BY <1>4, <1>8, <3>1
  <2>2. CASE ~(h < j)
    <3>1. h - j \in 1..Len(b) /\ (j - 1) + (h - j) = h - 1 /\ j + (h - j) = h /\ h - 1 \in DOMAIN m
      <4>1. h \in Nat /\ j \in Nat /\ 1 <= j /\ j < h /\ h <= Len(q)
        BY <1>1, <1>10, <2>2
      <4>2. h - j \in 1..(Len(q) - j) /\ (j - 1) + (h - j) = h - 1 /\ j + (h - j) = h
        BY <1>1, <4>1
      <4>3. Len(m) = Len(q) - 1
        BY <1>1, <1>4, <1>5, <1>7
      <4>4. h - 1 \in 1..Len(m)
        BY <1>1, <4>1, <4>3
      <4> QED BY <1>5, <1>7, <4>2, <4>4
    <3>2. m[h - 1] = b[h - j]
      BY <1>4, <1>8, <3>1
    <3>3. b[h - j] = q[h]
      BY <1>5, <3>1
    <3> QED BY <3>1, <3>2, <3>3
  <2> QED BY <2>1, <2>2
<1> QED BY <1>7, <1>9, <1>10

LEMMA RemoveShardStep ==
  ASSUME IndexInv, NEW s \in ShardId, RemoveShard(s)
  PROVE  IndexInv'
<1>1. /\ writer # Closed /\ job = NoJob /\ s \in Listed(writer) /\ dropped' = dropped \cup {s}
      /\ UNCHANGED <<slots, current, job, mine, committed, gone>>
  BY DEF RemoveShard, Change, Idle
<1>2. Good(writer) /\ FilesTyped /\ writer \in Version
  BY <1>1 DEF IndexInv, VersionsInv, Good
<1>3. PICK j : j = IndexOf(writer, s)
  OBVIOUS
<1>4. j \in DOMAIN writer.list /\ writer.list[j].id = s
  BY <1>1, <1>2, <1>3, IndexOfIs
<1>5. PICK m : m = RemoveAt(writer.list, j)
  OBVIOUS
<1>6. writer.list \in Seq(ListEntry) /\ writer.cache \in Cache
  BY <1>2 DEF Version
<1>7. /\ m \in Seq(ListEntry)
      /\ \A i \in DOMAIN m : \E h \in DOMAIN writer.list : m[i] = writer.list[h]
      /\ \A h \in DOMAIN writer.list : h # j => \E i \in DOMAIN m : m[i] = writer.list[h]
  BY <1>4, <1>5, <1>6, RemoveAtIs
<1>8. PICK c : c = Without(writer.cache, {s})
  OBVIOUS
<1>9. c \in Cache /\ Fresh(c)
  <2>1. DOMAIN c \subseteq DOMAIN writer.cache /\ \A t \in DOMAIN c : c[t] = writer.cache[t]
    BY <1>8 DEF Without
  <2>2. DOMAIN c \subseteq ShardId /\ c \in [DOMAIN c -> OpenShard]
    BY <1>6, <1>8, CacheIs DEF Without
  <2> QED BY <1>2, <2>1, <2>2, CacheIs DEF Good, Fresh
<1>10. PICK w : w = [writer EXCEPT !.list = m, !.cache = c]
  OBVIOUS
<1>11. writer' = w
  BY <1>3, <1>5, <1>8, <1>10 DEF RemoveShard
<1>12. w \in Version /\ w.list = m /\ w.cache = c
  BY <1>2, <1>7, <1>9, <1>10 DEF Version
<1>13. Listed(w) \subseteq Listed(writer) /\ Listed(writer) \subseteq Listed(w) \cup {s}
  <2>1. ASSUME NEW t \in Listed(w) PROVE t \in Listed(writer)
    <3>1. PICK i \in DOMAIN m : m[i].id = t
      BY <1>12 DEF Listed
    <3> QED BY <1>7, <3>1 DEF Listed
  <2>2. ASSUME NEW t \in Listed(writer), t # s PROVE t \in Listed(w)
    <3>1. PICK h \in DOMAIN writer.list : writer.list[h].id = t
      BY DEF Listed
    <3>2. PICK i \in DOMAIN m : m[i] = writer.list[h]
      BY <1>4, <1>7, <2>2, <3>1
    <3> QED BY <1>12, <3>1, <3>2 DEF Listed
  <2> QED BY <2>1, <2>2
<1>14. Good(w) /\ w # Closed
  BY <1>2, <1>9, <1>12, <1>13, ClosedIsNone DEF Good
<1>15. Listed(writer)' = Listed(w) /\ Listed(current)' = Listed(current)
  BY <1>1, <1>11 DEF Listed
<1> USE FilesSame DEF IndexInv
<1>16. FilesTyped' /\ VersionsInv'
  BY <1>1, <1>11, <1>13, <1>14, <1>15 DEF VersionsInv
<1>17. WriterInv' /\ DeletionInv'
  BY <1>1, <1>11, <1>14 DEF WriterInv, DeletionInv
<1>18. AddedInv' /\ KeptInv' /\ GoneInv'
  BY <1>1, <1>13, <1>15 DEF AddedInv, KeptInv, GoneInv
<1> QED BY <1>16, <1>17, <1>18
-----------------------------------------------------------------------------
(***************************************************************************)
(* Postings.                                                               *)
(***************************************************************************)
\* A posting joins the file of a shard, behind what is there.
LEMMA PostingJoins ==
  ASSUME IndexInv, writer # Closed, job = NoJob, NEW s \in Listed(writer), NEW k \in Key,
         NEW c \in Cache, Fresh(c), s \in DOMAIN c, c[s].count < Capacity,
         slots' = [slots EXCEPT ![s] = Written(c, s, <<[key |-> k, deleted |-> FALSE]>>)],
         NEW w, writer' = w,
         w = [writer EXCEPT !.cache = [c EXCEPT ![s].count = @ + 1, ![s].known = @ \cup {DocOf[k]}]],
         mine' = mine \cup {k}, gone' = [gone EXCEPT ![DocOf[k]] = @ \ {s}],
         UNCHANGED <<current, job, committed, dropped>>
  PROVE  IndexInv'
<1>1. /\ FilesTyped /\ Good(writer) /\ s \in DOMAIN slots /\ DocOf[k] \in Doc
      /\ slots[s] \in Seq(Slot) /\ Len(slots[s]) \in Nat /\ DOMAIN slots[s] = 1..Len(slots[s])
  <2>1. FilesTyped /\ Good(writer) /\ s \in DOMAIN slots
    BY DEF IndexInv, VersionsInv, Good
  <2> QED BY <2>1, SlotType, ShardIndexAssumption
<1>2. PICK e : e = [key |-> k, deleted |-> FALSE]
  OBVIOUS
<1>3. PICK q : q = Append(slots[s], e)
  OBVIOUS
<1>4. Written(c, s, <<e>>) = q
  <2>1. PICK p : p = slots[s]
    OBVIOUS
  <2>2. p \in Seq(Slot) /\ SubSeq(p, 1, Len(p)) = p /\ p \o <<e>> = Append(p, e)
    BY <1>1, <2>1
  <2>3. c[s].count = Len(p)
    BY <2>1 DEF Fresh
  <2> QED BY <1>3, <2>1, <2>2, <2>3 DEF Written
<1>5. /\ e \in Slot /\ e.key = k /\ e.deleted = FALSE
      /\ q \in Seq(Slot) /\ Len(q) = Len(slots[s]) + 1 /\ DOMAIN q = 1..Len(slots[s]) + 1
      /\ q[Len(slots[s]) + 1] = e /\ \A i \in 1..Len(slots[s]) : q[i] = slots[s][i]
  <2>1. e \in Slot /\ e.key = k /\ e.deleted = FALSE
    BY <1>2 DEF Slot
  <2> QED BY <1>1, <1>3, <2>1
<1>6. PICK sl : sl = slots'
  OBVIOUS
<1>7. DOMAIN sl = DOMAIN slots /\ sl[s] = q /\ \A t \in DOMAIN slots \ {s} : sl[t] = slots[t]
  BY <1>1, <1>2, <1>4, <1>6
<1>8. FilesTyped'
  <2>1. sl \in [DOMAIN sl -> Seq(Slot)]
    BY <1>1, <1>2, <1>4, <1>5, <1>6 DEF FilesTyped
  <2>2. Len(q) <= Capacity
    BY <1>5, ShardIndexAssumption, <1>1 DEF Fresh
  <2>3. \A t \in DOMAIN sl : Len(sl[t]) <= Capacity
    BY <1>1, <1>7, <2>2 DEF FilesTyped
  <2> QED BY <1>1, <1>6, <1>7, <2>1, <2>3 DEF FilesTyped
<1>9. /\ \A t, x : HasLive(t, x) => HasLive(t, x)'
      /\ HasLive(s, k)'
      /\ \A t \in DOMAIN slots : \A d : t # s \/ d # DocOf[k] => (NoneOf(t, d) => NoneOf(t, d)')
  <2>1. ASSUME NEW t, NEW x, HasLive(t, x) PROVE HasLive(t, x)'
    <3>1. CASE t # s
      BY <1>6, <1>7, <2>1, <3>1 DEF HasLive
    <3>2. CASE t = s
      BY <1>1, <1>5, <1>6, <1>7, <2>1, <3>2 DEF HasLive
    <3> QED BY <3>1, <3>2
  <2>2. HasLive(s, k)'
    BY <1>1, <1>5, <1>6, <1>7 DEF HasLive
  <2>3. ASSUME NEW t \in DOMAIN slots, NEW d, t # s \/ d # DocOf[k], NoneOf(t, d) PROVE NoneOf(t, d)'
    <3>1. CASE t # s
      BY <1>6, <1>7, <2>3, <3>1 DEF NoneOf
    <3>2. CASE t = s
      <4>1. \A i \in DOMAIN q : i \in 1..Len(slots[s]) \/ i = Len(slots[s]) + 1
        BY <1>1, <1>5
      <4> QED BY <1>1, <1>5, <1>6, <1>7, <2>3, <3>2, <4>1 DEF NoneOf
    <3> QED BY <3>1, <3>2
  <2> QED BY <2>1, <2>2, <2>3
<1>10. PICK f : f = [c EXCEPT ![s].count = @ + 1, ![s].known = @ \cup {DocOf[k]}]
  OBVIOUS
<1>11. f \in Cache /\ Fresh(f)'
  <2>1. /\ DOMAIN f = DOMAIN c /\ DOMAIN c \subseteq ShardId /\ c \in [DOMAIN c -> OpenShard]
        /\ c[s] \in OpenShard
    BY <1>10, CacheIs
  <2>2. /\ f[s] = [c[s] EXCEPT !.count = @ + 1, !.known = @ \cup {DocOf[k]}]
        /\ \A t \in DOMAIN c \ {s} : f[t] = c[t]
    BY <1>10, <2>1
  <2>3. f[s] \in OpenShard /\ f[s].count = c[s].count + 1 /\ f[s].known = c[s].known \cup {DocOf[k]}
    <3>1. PICK r : r = c[s]
      OBVIOUS
    <3>2. r \in OpenShard /\ f[s] = [r EXCEPT !.count = r.count + 1, !.known = r.known \cup {DocOf[k]}]
      BY <2>1, <2>2, <3>1
    <3>3. r.count \in Nat /\ r.known \subseteq Doc /\ r.known \cup {DocOf[k]} \subseteq Doc
      BY <1>1, <3>2 DEF OpenShard
    <3>4. /\ f[s] \in OpenShard
          /\ f[s].count = r.count + 1 /\ f[s].known = r.known \cup {DocOf[k]}
      <4>1. PICK n : n = r.count + 1
        OBVIOUS
      <4>2. PICK K : K = r.known \cup {DocOf[k]}
        OBVIOUS
      <4>3. n \in Nat /\ K \in SUBSET Doc
        BY <3>3, <4>1, <4>2
      <4>4. f[s] = [r EXCEPT !.count = n, !.known = K]
        BY <3>2, <4>1, <4>2
      <4>5. f[s] \in OpenShard /\ f[s].count = n /\ f[s].known = K
        BY <3>2, <4>3, <4>4 DEF OpenShard
      <4> QED BY <4>1, <4>2, <4>5
    <3> QED BY <3>1, <3>4
  <2>4. f \in Cache
    <3>1. \A t \in DOMAIN f : f[t] \in OpenShard
      BY <2>1, <2>2, <2>3
    <3>2. f = [t \in DOMAIN f |-> f[t]]
      BY <1>10, <2>1
    <3> QED BY <2>1, <3>1, <3>2, CacheIs
  <2>5. ASSUME NEW t \in DOMAIN f
        PROVE  t \in DOMAIN sl /\ f[t].count = Len(sl[t]) /\ DocsIn(t)' \subseteq f[t].known
    <3>1. c[t].count = Len(slots[t]) /\ t \in DOMAIN slots /\ DocsIn(t) \subseteq c[t].known
      BY <2>1 DEF Fresh
    <3>2. CASE t = s
      <4>1. DocsIn(s)' \subseteq DocsIn(s) \cup {DocOf[k]}
        <5>1. \A i \in DOMAIN q : i \in 1..Len(slots[s]) \/ i = Len(slots[s]) + 1
          BY <1>1, <1>5
        <5> QED BY <1>1, <1>5, <1>6, <1>7, <5>1 DEF DocsIn
      <4> QED BY <1>5, <1>7, <2>3, <3>1, <3>2, <4>1
    <3>3. CASE t # s
      <4>1. DocsIn(t)' = DocsIn(t)
        BY <1>6, <1>7, <3>1, <3>3 DEF DocsIn
      <4> QED BY <1>7, <2>1, <2>2, <3>1, <3>3, <4>1
    <3> QED BY <3>2, <3>3
  <2> QED BY <1>6, <2>4, <2>5 DEF Fresh
<1>12. w \in Version /\ w.cache = f /\ Listed(w) = Listed(writer)
  <2>1. w = [writer EXCEPT !.cache = f] /\ writer \in Version
    BY <1>1, <1>10 DEF Good
  <2>2. w \in Version /\ w.cache = f /\ w.list = writer.list
    BY <1>11, <2>1 DEF Version
  <2> QED BY <2>2 DEF Listed
<1>13. Good(w)' /\ w # Closed /\ Listed(writer)' = Listed(w) /\ Listed(current)' = Listed(current)
  <2>1. Fresh(w.cache)'
    BY <1>11, <1>12
  <2>2. Listed(w) \subseteq DOMAIN sl
    BY <1>1, <1>7, <1>12 DEF Good
  <2>3. Good(w)'
    BY <1>6, <1>12, <2>1, <2>2 DEF Good, Listed
  <2> QED BY <1>12, <2>3, ClosedIsNone DEF Listed
<1> USE DEF IndexInv
<1>14. VersionsInv'
  BY <1>6, <1>7, <1>12, <1>13 DEF VersionsInv
<1>15. WriterInv' /\ DeletionInv'
  <2>1. gone' \in [Doc -> SUBSET DOMAIN sl]
    BY <1>1, <1>7 DEF WriterInv
  <2> QED BY <1>6, <1>13, <2>1 DEF WriterInv, DeletionInv
<1>16. AddedInv' /\ KeptInv'
  BY <1>9, <1>12, <1>13 DEF AddedInv, KeptInv
<1>17. GoneInv'
  <2>1. ASSUME NEW d \in Doc, NEW t \in gone'[d] PROVE NoneOf(t, d)'
    <3>1. t \in gone[d] /\ (t # s \/ d # DocOf[k]) /\ t \in DOMAIN slots
      BY <1>1, <2>1 DEF WriterInv
    <3>2. NoneOf(t, d)
      BY <3>1 DEF GoneInv
    <3> QED BY <1>9, <3>1, <3>2
  <2> QED BY <2>1 DEF GoneInv
<1> QED BY <1>8, <1>14, <1>15, <1>16, <1>17

LEMMA AddPostingStep ==
  ASSUME IndexInv, NEW k \in Key, AddPosting(k)
  PROVE  IndexInv'
<1>1. /\ writer # Closed /\ job = NoJob /\ Good(writer) /\ FilesTyped
      /\ UNCHANGED <<current, job, committed, dropped>>
  BY DEF IndexInv, VersionsInv, AddPosting, Change, Idle
<1>2. PICK s \in Targets : \E c \in Loaded(writer, s, FALSE) :
        IF c[s].ro \/ c[s].count >= Capacity
        THEN writer' = [writer EXCEPT !.cache = c] /\ UNCHANGED <<slots, mine, gone>>
        ELSE /\ slots' = [slots EXCEPT ![s] = Written(c, s, <<[key |-> k, deleted |-> FALSE]>>)]
             /\ writer' = [writer EXCEPT !.cache =
                  [c EXCEPT ![s].count = @ + 1, ![s].known = @ \cup {DocOf[k]}]]
             /\ mine' = mine \cup {k} /\ gone' = [gone EXCEPT ![DocOf[k]] = @ \ {s}]
  BY DEF AddPosting
<1>3. PICK c \in Loaded(writer, s, FALSE) :
        IF c[s].ro \/ c[s].count >= Capacity
        THEN writer' = [writer EXCEPT !.cache = c] /\ UNCHANGED <<slots, mine, gone>>
        ELSE /\ slots' = [slots EXCEPT ![s] = Written(c, s, <<[key |-> k, deleted |-> FALSE]>>)]
             /\ writer' = [writer EXCEPT !.cache =
                  [c EXCEPT ![s].count = @ + 1, ![s].known = @ \cup {DocOf[k]}]]
             /\ mine' = mine \cup {k} /\ gone' = [gone EXCEPT ![DocOf[k]] = @ \ {s}]
  BY <1>2
<1>4. s \in Listed(writer) /\ s \in DOMAIN slots
  BY <1>1 DEF Targets, Listed, Good
<1>5. c \in Cache /\ Fresh(c) /\ s \in DOMAIN c
  BY <1>1, <1>4, LoadedIsFresh DEF Good
<1>6. CASE c[s].ro \/ c[s].count >= Capacity
  <2>1. PICK v : v = [writer EXCEPT !.cache = c]
    OBVIOUS
  <2>2. Good(v) /\ Listed(v) = Listed(writer)
    BY <1>1, <1>5, <2>1, OtherCache DEF Good
  <2> QED BY <1>1, <1>3, <1>6, <2>1, <2>2, WriterMoves
<1>7. CASE ~(c[s].ro \/ c[s].count >= Capacity)
  <2>1. c[s].count < Capacity
    <3>1. c[s] \in OpenShard
      BY <1>5, CacheIs
    <3> QED BY <1>7, <3>1, ShardIndexAssumption DEF OpenShard
  <2>2. PICK w : w = [writer EXCEPT !.cache =
                       [c EXCEPT ![s].count = @ + 1, ![s].known = @ \cup {DocOf[k]}]]
    OBVIOUS
  <2> QED BY <1>1, <1>3, <1>4, <1>5, <1>7, <2>1, <2>2, PostingJoins
<1> QED BY <1>6, <1>7
-----------------------------------------------------------------------------
(***************************************************************************)
(* Deletions, shard by shard.                                              *)
(***************************************************************************)
LEMMA StartDeletionStep ==
  ASSUME IndexInv, NEW op \in {"delete", "remove"}, NEW ds \in SUBSET Doc, StartDeletion(op, ds)
  PROVE  IndexInv'
<1>1. /\ writer # Closed /\ UNCHANGED <<slots, current, writer, mine, committed, dropped, gone>>
      /\ job' = [op |-> op, docs |-> ds, skipped |-> {},
                 todo |-> IF op = "delete" THEN Candidates(ds) ELSE Listed(writer)]
  BY DEF StartDeletion, Change, Idle
<1>2. FilesTyped /\ Good(writer)
  BY <1>1 DEF IndexInv, VersionsInv
<1>3. PICK todo : todo = IF op = "delete" THEN Candidates(ds) ELSE Listed(writer)
  OBVIOUS
<1>4. todo \subseteq Listed(writer) /\ todo \subseteq ShardId
  BY <1>2, <1>3, ListedType DEF Candidates, Good
<1>5. ASSUME NEW s \in Listed(writer), s \notin todo, NEW d \in ds PROVE NoneOf(s, d)
  <2>1. ds \cap DocsIn(s) = {}
    BY <1>3, <1>5 DEF Candidates
  <2> QED BY <2>1 DEF DocsIn, NoneOf
<1>6. /\ job' \in Deletion /\ job'.op # "none" /\ job'.docs = ds /\ job'.todo = todo /\ job'.skipped = {}
  BY <1>1, <1>3, <1>4 DEF Deletion
<1>7. Listed(writer)' = Listed(writer) /\ Listed(current)' = Listed(current)
  BY <1>1 DEF Listed
<1> USE FilesSame DEF IndexInv
<1>8. FilesTyped' /\ VersionsInv'
  BY <1>1, <1>7 DEF VersionsInv
<1>9. WriterInv'
  BY <1>1, <1>4, <1>6, <1>7 DEF WriterInv
<1>10. DeletionInv'
  BY <1>1, <1>5, <1>6, <1>7 DEF DeletionInv
<1>11. AddedInv' /\ KeptInv' /\ GoneInv'
  BY <1>1, <1>7 DEF AddedInv, KeptInv, GoneInv
<1> QED BY <1>8, <1>9, <1>10, <1>11

\* A shard that refuses is skipped, or ends the deletion.
LEMMA ShardSkipped ==
  ASSUME IndexInv, writer # Closed, job # NoJob, NEW s \in job.todo,
         NEW v, Good(v), writer' = v, Listed(v) = Listed(writer),
         \/ job' = NoJob
         \/ job' = [job EXCEPT !.todo = @ \ {s}, !.skipped = @ \cup {s}],
         UNCHANGED <<slots, current, mine, committed, dropped, gone>>
  PROVE  IndexInv'
<1>1. v # Closed /\ Listed(writer)' = Listed(writer) /\ Listed(current)' = Listed(current)
  BY ClosedIsNone DEF Good, Listed
<1> USE FilesSame DEF IndexInv
<1>2. FilesTyped' /\ VersionsInv'
  BY <1>1 DEF VersionsInv
<1>3. AddedInv' /\ KeptInv' /\ GoneInv'
  BY <1>1 DEF AddedInv, KeptInv, GoneInv
<1>4. CASE job' = NoJob
  <2>1. NoJob \in Deletion
    BY DEF NoJob, Deletion
  <2> QED BY <1>1, <1>2, <1>3, <1>4, <2>1 DEF WriterInv, DeletionInv
<1>5. CASE job' = [job EXCEPT !.todo = @ \ {s}, !.skipped = @ \cup {s}]
  <2>1. job \in Deletion /\ s \in ShardId /\ job.op # "none" /\ job.todo \subseteq Listed(writer)
    BY DEF WriterInv, Deletion, NoJob
  <2>2. /\ job' \in Deletion /\ job'.op = job.op /\ job'.docs = job.docs
        /\ job'.todo = job.todo \ {s} /\ job'.skipped = job.skipped \cup {s}
    BY <1>5, <2>1 DEF Deletion
  <2>3. WriterInv'
    BY <1>1, <2>1, <2>2 DEF WriterInv
  <2>4. DeletionInv'
    BY <1>1, <2>2 DEF DeletionInv
  <2> QED BY <1>2, <1>3, <2>3, <2>4
<1> QED BY <1>4, <1>5

\* The slots of a shard that are hit get their flag.
Flags(sl, s, hit) ==
  /\ DOMAIN sl = DOMAIN slots /\ s \in DOMAIN slots
  /\ \A t \in DOMAIN slots \ {s} : sl[t] = slots[t]
  /\ sl[s] \in Seq(Slot) /\ Len(sl[s]) = Len(slots[s])
  /\ \A i \in DOMAIN slots[s] : /\ sl[s][i].key = slots[s][i].key
                                /\ sl[s][i].deleted <=> slots[s][i].deleted \/ i \in hit

LEMMA ShardCleared ==
  ASSUME IndexInv, writer # Closed, job # NoJob, NEW s \in job.todo, NEW hit,
         NEW sl, slots' = sl, sl = [t \in DOMAIN sl |-> sl[t]], Flags(sl, s, hit),
         \A i \in DOMAIN slots[s] : i \in hit <=>
            ~slots[s][i].deleted /\ DocOf[slots[s][i].key] \in job.docs,
         NEW keys, keys = {slots[s][i].key : i \in hit}, hit \subseteq DOMAIN slots[s],
         mine' = mine \ keys, committed' = committed \ keys,
         job' = [job EXCEPT !.todo = @ \ {s}],
         NEW v \in Version, writer' = v, Listed(v) = Listed(writer), Fresh(v.cache),
         UNCHANGED <<current, dropped, gone>>
  PROVE  IndexInv'
<1>1. FilesTyped /\ Good(writer) /\ s \in DOMAIN slots
  BY DEF IndexInv, VersionsInv, Flags
<1>2. /\ slots[s] \in Seq(Slot) /\ Len(slots[s]) \in Nat /\ DOMAIN slots[s] = 1..Len(slots[s])
      /\ DOMAIN sl[s] = DOMAIN slots[s]
  BY <1>1, SlotType DEF Flags
<1>3. /\ DOMAIN sl = DOMAIN slots /\ \A t \in DOMAIN slots \ {s} : sl[t] = slots[t]
      /\ Len(sl[s]) = Len(slots[s]) /\ sl[s] \in Seq(Slot)
      /\ \A i \in DOMAIN slots[s] : /\ sl[s][i].key = slots[s][i].key
                                    /\ sl[s][i].deleted <=> slots[s][i].deleted \/ i \in hit
  BY DEF Flags
<1>4. FilesTyped'
  <2>1. \A t \in DOMAIN sl : sl[t] \in Seq(Slot) /\ Len(sl[t]) <= Capacity
    BY <1>1, <1>3 DEF FilesTyped
  <2>2. sl \in [DOMAIN sl -> Seq(Slot)]
    BY <2>1
  <2> QED BY <1>1, <1>3, <2>1, <2>2 DEF FilesTyped
<1>5. /\ \A t, x : HasLive(t, x) /\ x \notin keys => HasLive(t, x)'
      /\ \A t \in DOMAIN slots : \A d : NoneOf(t, d) => NoneOf(t, d)'
      /\ \A d \in job.docs : NoneOf(s, d)'
  <2>1. ASSUME NEW t, NEW x, HasLive(t, x), x \notin keys PROVE HasLive(t, x)'
    <3>1. CASE t # s
      BY <1>3, <2>1, <3>1 DEF HasLive
    <3>2. CASE t = s
      <4>1. PICK i \in DOMAIN slots[s] : slots[s][i].key = x /\ ~slots[s][i].deleted
        BY <2>1, <3>2 DEF HasLive
      <4>2. i \notin hit
        BY <2>1, <4>1
      <4>3. i \in DOMAIN sl[s] /\ sl[s][i].key = x /\ ~sl[s][i].deleted
        BY <1>2, <1>3, <4>1, <4>2
      <4> QED BY <1>1, <1>3, <3>2, <4>3 DEF HasLive
    <3> QED BY <3>1, <3>2
  <2>2. ASSUME NEW t \in DOMAIN slots, NEW d, NoneOf(t, d) PROVE NoneOf(t, d)'
    <3>1. CASE t # s
      BY <1>3, <2>2, <3>1 DEF NoneOf
    <3>2. CASE t = s
      BY <1>2, <1>3, <2>2, <3>2 DEF NoneOf
    <3> QED BY <3>1, <3>2
  <2>3. ASSUME NEW d \in job.docs PROVE NoneOf(s, d)'
    BY <1>2, <1>3 DEF NoneOf
  <2> QED BY <2>1, <2>2, <2>3
<1>6. Good(v)'
  <2>1. ASSUME NEW t \in DOMAIN v.cache
        PROVE  t \in DOMAIN sl /\ v.cache[t].count = Len(sl[t]) /\ DocsIn(t)' \subseteq v.cache[t].known
    <3>1. t \in DOMAIN slots /\ v.cache[t].count = Len(slots[t]) /\ DocsIn(t) \subseteq v.cache[t].known
      BY DEF Fresh
    <3>2. DocsIn(t)' = DocsIn(t)
      <4>1. CASE t # s
        BY <1>3, <3>1, <4>1 DEF DocsIn
      <4>2. CASE t = s
        <5>1. \A i \in DOMAIN slots[s] : DocOf[sl[s][i].key] = DocOf[slots[s][i].key]
          BY <1>3
        <5> QED BY <1>2, <4>2, <5>1 DEF DocsIn
      <4> QED BY <4>1, <4>2
    <3> QED BY <1>3, <3>1, <3>2
  <2>2. Fresh(v.cache)'
    BY <2>1 DEF Fresh
  <2>3. Listed(v) \subseteq DOMAIN sl
    BY <1>1, <1>3 DEF Good
  <2> QED BY <2>2, <2>3 DEF Good, Listed
<1>7. v # Closed /\ Listed(writer)' = Listed(writer) /\ Listed(current)' = Listed(current)
  BY ClosedIsNone DEF Listed
<1>8. job \in Deletion /\ s \in ShardId /\ job.op # "none" /\ job.todo \subseteq Listed(writer)
  BY DEF IndexInv, WriterInv, Deletion, NoJob
<1>9. /\ job' \in Deletion /\ job'.op = job.op /\ job'.docs = job.docs
      /\ job'.todo = job.todo \ {s} /\ job'.skipped = job.skipped
  BY <1>8 DEF Deletion
<1> USE DEF IndexInv
<1>10. VersionsInv'
  BY <1>3, <1>6, <1>7 DEF VersionsInv
<1>11. WriterInv'
  <2>1. gone \in [Doc -> SUBSET DOMAIN sl]
    BY <1>3 DEF WriterInv
  <2> QED BY <1>7, <1>8, <1>9, <2>1 DEF WriterInv
<1>12. DeletionInv'
  <2>1. ASSUME NEW t \in Listed(writer), NEW d \in job.docs, t \notin job'.todo \cup job'.skipped
        PROVE  NoneOf(t, d)'
    <3>1. CASE t = s
      BY <1>5, <3>1
    <3>2. CASE t # s
      <4>1. NoneOf(t, d) /\ t \in DOMAIN slots
        BY <1>1, <1>9, <2>1, <3>2 DEF DeletionInv, Good
      <4> QED BY <1>5, <4>1
    <3> QED BY <3>1, <3>2
  <2> QED BY <1>7, <1>9, <2>1 DEF DeletionInv
<1>13. AddedInv' /\ KeptInv'
  BY <1>5, <1>7 DEF AddedInv, KeptInv
<1>14. GoneInv'
  <2>1. \A d \in Doc : gone[d] \subseteq DOMAIN slots
    BY DEF WriterInv
  <2> QED BY <1>5, <2>1 DEF GoneInv
<1> QED BY <1>4, <1>10, <1>11, <1>12, <1>13, <1>14

\* What DeleteFrom finds and writes.
HitIn(s, c)     == {i \in LiveOf(s, job.docs \cap c[s].known) : i <= c[s].count}
Flagged(s, hit) == [i \in DOMAIN slots[s] |-> [slots[s][i] EXCEPT !.deleted = @ \/ i \in hit]]

LEMMA HitIs ==
  ASSUME FilesTyped, NEW s \in DOMAIN slots, NEW c, Fresh(c), s \in DOMAIN c
  PROVE  /\ HitIn(s, c) \subseteq DOMAIN slots[s]
         /\ \A i \in DOMAIN slots[s] : i \in HitIn(s, c) <=>
              ~slots[s][i].deleted /\ DocOf[slots[s][i].key] \in job.docs
<1>1. c[s].count = Len(slots[s]) /\ DOMAIN slots[s] = 1..Len(slots[s]) /\ Len(slots[s]) \in Nat
  BY SlotType DEF Fresh
<1>2. \A i \in DOMAIN slots[s] : DocOf[slots[s][i].key] \in c[s].known
  BY DEF Fresh, DocsIn
<1>3. \A i \in DOMAIN slots[s] : i <= c[s].count
  BY <1>1
<1> QED BY <1>2, <1>3 DEF HitIn, LiveOf, Live

LEMMA FlaggedIs ==
  ASSUME FilesTyped, NEW s \in DOMAIN slots, NEW hit \in SUBSET DOMAIN slots[s], NEW n, n = Len(slots[s]),
         NEW sl, sl = IF hit = {} THEN slots ELSE [slots EXCEPT ![s] = SubSeq(Flagged(s, hit), 1, n)]
  PROVE  Flags(sl, s, hit) /\ sl = [t \in DOMAIN sl |-> sl[t]]
<1>1. /\ slots[s] \in Seq(Slot) /\ n \in Nat /\ DOMAIN slots[s] = 1..n
      /\ \A i \in DOMAIN slots[s] : slots[s][i] \in Slot /\ slots[s][i].deleted \in BOOLEAN
      /\ slots = [t \in DOMAIN slots |-> slots[t]]
  BY SlotType DEF FilesTyped
<1>2. CASE hit = {}
  BY <1>1, <1>2 DEF Flags
<1>3. CASE hit # {}
  <2>1. PICK q : q = Flagged(s, hit)
    OBVIOUS
  <2>2. DOMAIN q = 1..n
    BY <1>1, <2>1 DEF Flagged
  <2>3. \A i \in 1..n : /\ q[i] \in Slot /\ q[i].key = slots[s][i].key
                        /\ q[i].deleted <=> slots[s][i].deleted \/ i \in hit
    <3> SUFFICES ASSUME NEW i \in 1..n
                 PROVE  /\ q[i] \in Slot /\ q[i].key = slots[s][i].key
                        /\ q[i].deleted <=> slots[s][i].deleted \/ i \in hit
      OBVIOUS
    <3>1. PICK e \in Slot : e = slots[s][i]
      BY <1>1
    <3>2. PICK b \in BOOLEAN : b = (e.deleted \/ i \in hit)
      OBVIOUS
    <3>3. q[i] = [e EXCEPT !.deleted = b]
      BY <1>1, <2>1, <3>1, <3>2 DEF Flagged
    <3>4. q[i] \in Slot /\ q[i].key = e.key /\ q[i].deleted = b
      BY <3>3 DEF Slot
    <3> QED BY <3>1, <3>2, <3>4
  <2>4. q \in Seq(Slot) /\ Len(q) = n
    <3>1. q = [i \in 1..n |-> q[i]]
      BY <1>1, <2>1 DEF Flagged
    <3> QED BY <1>1, <2>2, <2>3, <3>1
  <2>5. SubSeq(q, 1, n) = q
    BY <2>4
  <2>6. sl = [slots EXCEPT ![s] = q]
    BY <1>3, <2>1, <2>5
  <2> QED BY <1>1, <2>3, <2>4, <2>6 DEF Flags
<1> QED BY <1>2, <1>3

LEMMA DeleteFromStep ==
  ASSUME IndexInv, NEW s \in ShardId, DeleteFrom(s)
  PROVE  IndexInv'
<1>1. s \in job.todo /\ job # NoJob
  BY DEF DeleteFrom, NoJob
<1>2. writer # Closed /\ Good(writer) /\ FilesTyped /\ s \in Listed(writer) /\ s \in DOMAIN slots
  BY <1>1 DEF IndexInv, WriterInv, VersionsInv, Good
<1>3. UNCHANGED <<current, dropped, gone>>
  BY DEF DeleteFrom
<1>4. PICK c \in Loaded(writer, s, FALSE) :
        LET hit == HitIn(s, c) IN
        IF c[s].ro
        THEN /\ writer' = [writer EXCEPT !.cache = c] /\ UNCHANGED <<slots, mine, committed>>
             /\ job' = IF job.op = "remove" THEN NoJob
                       ELSE [job EXCEPT !.todo = @ \ {s}, !.skipped = @ \cup {s}]
        ELSE /\ slots' = IF hit = {} THEN slots
                         ELSE [slots EXCEPT ![s] = SubSeq(Flagged(s, hit), 1, c[s].count)]
             /\ mine' = mine \ {slots[s][i].key : i \in hit}
             /\ committed' = committed \ {slots[s][i].key : i \in hit}
             /\ job' = [job EXCEPT !.todo = @ \ {s}]
             /\ writer' = IF hit = {} \/ job.op = "remove" THEN [writer EXCEPT !.cache = c]
                          ELSE [writer EXCEPT !.cache = c, !.list[IndexOf(writer, s)] =
                                  [@ EXCEPT !.count = Len(slots'[s]), !.active = ActiveIn(s)']]
  BY DEF DeleteFrom, HitIn, Flagged
<1>5. c \in Cache /\ Fresh(c) /\ s \in DOMAIN c /\ writer \in Version
  BY <1>2, LoadedIsFresh DEF Good
<1>6. PICK u : u = [writer EXCEPT !.cache = c]
  OBVIOUS
<1>7. u \in Version /\ u.cache = c /\ Listed(u) = Listed(writer)
  BY <1>5, <1>6, OtherCache
<1>8. CASE c[s].ro
  <2>1. Good(u)
    BY <1>2, <1>5, <1>7 DEF Good
  <2>2. /\ writer' = u /\ UNCHANGED <<slots, mine, committed>>
        /\ \/ job' = NoJob
           \/ job' = [job EXCEPT !.todo = @ \ {s}, !.skipped = @ \cup {s}]
    BY <1>4, <1>6, <1>8
  <2> QED BY <1>1, <1>2, <1>3, <1>7, <2>1, <2>2, ShardSkipped
<1>9. CASE ~c[s].ro
  <2>1. PICK hit : hit = HitIn(s, c)
    OBVIOUS
  <2>2. PICK keys : keys = {slots[s][i].key : i \in hit}
    OBVIOUS
  <2>3. PICK sl : sl = slots'
    OBVIOUS
  <2>4. PICK n : n = Len(slots[s])
    OBVIOUS
  <2>5. /\ hit \subseteq DOMAIN slots[s]
        /\ \A i \in DOMAIN slots[s] : i \in hit <=>
             ~slots[s][i].deleted /\ DocOf[slots[s][i].key] \in job.docs
    BY <1>2, <1>5, <2>1, HitIs
  <2>6. sl = IF hit = {} THEN slots ELSE [slots EXCEPT ![s] = SubSeq(Flagged(s, hit), 1, n)]
    <3>1. c[s].count = n
      BY <1>5, <2>4 DEF Fresh
    <3> QED BY <1>4, <1>9, <2>1, <2>3, <3>1
  <2>7. Flags(sl, s, hit) /\ sl = [t \in DOMAIN sl |-> sl[t]]
    BY <1>2, <2>4, <2>5, <2>6, FlaggedIs
  <2>8. /\ mine' = mine \ keys /\ committed' = committed \ keys /\ job' = [job EXCEPT !.todo = @ \ {s}]
        /\ writer' = IF hit = {} \/ job.op = "remove" THEN u
                     ELSE [writer EXCEPT !.cache = c, !.list[IndexOf(writer, s)] =
                             [@ EXCEPT !.count = Len(slots'[s]), !.active = ActiveIn(s)']]
    BY <1>4, <1>6, <1>9, <2>1, <2>2
  <2>9. PICK v : v = writer'
    OBVIOUS
  <2>10. v \in Version /\ v.cache = c /\ Listed(v) = Listed(writer)
    <3>1. CASE v = u
      BY <1>7, <3>1
    <3>2. CASE v # u
      <4>1. PICK j : j = IndexOf(writer, s)
        OBVIOUS
      <4>2. j \in DOMAIN writer.list /\ writer.list[j].id = s
        BY <1>2, <1>5, <4>1, IndexOfIs
      <4>3. PICK m : m = Len(sl[s])
        OBVIOUS
      <4>4. PICK a : a = ActiveIn(s)'
        OBVIOUS
      <4>5. m \in Nat /\ a \in Nat
        <5>1. sl[s] \in Seq(Slot)
          BY <2>7 DEF Flags
        <5>2. m \in Nat /\ DOMAIN sl[s] = 1..m
          BY <4>3, <5>1
        <5>3. PICK I : I = {i \in 1..m : ~sl[s][i].deleted}
          OBVIOUS
        <5>4. IsFiniteSet(I) /\ Cardinality(I) \in Nat
          <6>1. IsFiniteSet(1..m) /\ I \subseteq 1..m
            BY <5>2, <5>3, FS_Interval
          <6>2. IsFiniteSet(I)
            BY <6>1, FS_Subset
          <6> QED BY <6>2, FS_CardinalityType
        <5>5. a = Cardinality(I)
          BY <2>3, <4>4, <5>2, <5>3 DEF ActiveIn, Live
        <5> QED BY <5>2, <5>4, <5>5
      <4>6. PICK r : r = writer.list[j]
        OBVIOUS
      <4>7. r \in ListEntry
        <5>1. writer.list \in Seq(ListEntry)
          BY <1>5 DEF Version
        <5> QED BY <4>2, <4>6, <5>1, ElementOfSeq
      <4>8. PICK e : e = [r EXCEPT !.count = m, !.active = a]
        OBVIOUS
      <4>9. e \in ListEntry /\ e.id = writer.list[j].id
        BY <4>5, <4>6, <4>7, <4>8 DEF ListEntry
      <4>10. IsUpdated(v, writer, j, e, c)
        <5>1. v = [writer EXCEPT !.cache = c, !.list[j] = [@ EXCEPT !.count = m, !.active = a]]
          BY <2>3, <2>8, <2>9, <3>2, <4>1, <4>3, <4>4
        <5> QED BY <1>5, <4>2, <4>6, <4>8, <5>1 DEF IsUpdated, Version
      <4> QED BY <1>5, <4>2, <4>9, <4>10, OtherEntry
    <3> QED BY <3>1, <3>2
  <2>11. Fresh(v.cache)
    BY <1>5, <2>10
  <2> QED BY <1>1, <1>2, <1>3, <2>2, <2>3, <2>5, <2>7, <2>8, <2>9, <2>10, <2>11, ShardCleared
<1> QED BY <1>8, <1>9

LEMMA DeletionDoneStep ==
  ASSUME IndexInv, DeletionDone
  PROVE  IndexInv'
<1>1. /\ job # NoJob /\ job.todo = {} /\ job' = NoJob
      /\ gone' = [d \in Doc |-> IF d \in job.docs THEN gone[d] \cup (Listed(writer) \ job.skipped) ELSE gone[d]]
      /\ UNCHANGED <<slots, current, writer, mine, committed, dropped>>
  BY DEF DeletionDone, NoJob
<1>2. writer # Closed /\ Good(writer) /\ NoJob \in Deletion /\ NoJob.op = "none"
  BY <1>1 DEF IndexInv, WriterInv, VersionsInv, NoJob, Deletion
<1>3. Listed(writer)' = Listed(writer) /\ Listed(current)' = Listed(current)
  BY <1>1 DEF Listed
<1>4. gone' \in [Doc -> SUBSET DOMAIN slots]
  BY <1>1, <1>2 DEF IndexInv, WriterInv, Good
<1> USE FilesSame DEF IndexInv
<1>5. FilesTyped' /\ VersionsInv'
  BY <1>1, <1>3 DEF VersionsInv
<1>6. WriterInv' /\ DeletionInv'
  BY <1>1, <1>2, <1>4 DEF WriterInv, DeletionInv
<1>7. AddedInv' /\ KeptInv'
  BY <1>1, <1>3 DEF AddedInv, KeptInv
<1>8. GoneInv'
  <2>1. ASSUME NEW d \in Doc, NEW t \in gone'[d] PROVE NoneOf(t, d)
    <3>1. CASE t \in gone[d]
      BY <3>1 DEF GoneInv
    <3>2. CASE t \notin gone[d]
      <4>1. d \in job.docs /\ t \in Listed(writer) /\ t \notin job.todo \cup job.skipped
        BY <1>1, <2>1, <3>2
      <4> QED BY <1>1, <4>1 DEF DeletionInv
    <3> QED BY <3>1, <3>2
  <2> QED BY <1>1, <2>1 DEF GoneInv
<1> QED BY <1>5, <1>6, <1>7, <1>8
-----------------------------------------------------------------------------
(***************************************************************************)
(* Versions come and go.                                                   *)
(***************************************************************************)
LEMMA CloneStep ==
  ASSUME IndexInv, CloneForWrite
  PROVE  IndexInv'
<1>1. /\ writer = Closed /\ UNCHANGED <<slots, current, job, mine, committed, dropped, gone>>
      /\ job = NoJob /\ mine = {} /\ current \in Version /\ Listed(current) \subseteq DOMAIN slots
  BY DEF CloneForWrite, IndexInv, WriterInv, VersionsInv
<1>2. PICK v : v = [current EXCEPT !.cache = Nothing]
  OBVIOUS
<1>3. writer' = v
  BY <1>2 DEF CloneForWrite, CacheOf
<1>4. Nothing \in Cache /\ Fresh(Nothing)
  <2>1. DOMAIN Nothing = {} /\ Nothing \in [DOMAIN Nothing -> OpenShard]
    BY DEF Nothing
  <2> QED BY <2>1, CacheIs DEF Fresh
<1>5. Good(v) /\ Listed(v) = Listed(current) /\ v # Closed
  <2>1. PICK c : c = Nothing
    OBVIOUS
  <2>2. v \in Version /\ v.cache = c /\ Listed(v) = Listed(current)
    BY <1>1, <1>2, <1>4, <2>1, OtherCache
  <2> QED BY <1>1, <1>4, <2>1, <2>2, ClosedIsNone DEF Good
<1>6. Listed(writer)' = Listed(v) /\ Listed(current)' = Listed(current)
  BY <1>1, <1>3 DEF Listed
<1> USE FilesSame DEF IndexInv
<1>7. FilesTyped' /\ VersionsInv'
  BY <1>1, <1>3, <1>5, <1>6 DEF VersionsInv
<1>8. WriterInv' /\ DeletionInv'
  BY <1>1, <1>3, <1>5 DEF WriterInv, DeletionInv
<1>9. AddedInv' /\ KeptInv' /\ GoneInv'
  BY <1>1, <1>6 DEF AddedInv, KeptInv, GoneInv
<1> QED BY <1>7, <1>8, <1>9

LEMMA CommitStep ==
  ASSUME IndexInv, Commit
  PROVE  IndexInv'
<1>1. /\ writer # Closed /\ job = NoJob /\ current' = writer /\ writer' = Closed
      /\ committed' = committed \cup mine /\ mine' = {} /\ UNCHANGED <<slots, job, dropped, gone>>
  BY DEF Commit, Idle
<1>2. Good(writer) /\ Listed(current) \subseteq Listed(writer) \cup dropped
  BY <1>1 DEF IndexInv, VersionsInv
<1>3. Listed(current)' = Listed(writer)
  BY <1>1 DEF Listed
<1> USE FilesSame DEF IndexInv
<1>4. FilesTyped' /\ VersionsInv'
  BY <1>1, <1>2, <1>3 DEF VersionsInv, Good
<1>5. WriterInv' /\ DeletionInv'
  BY <1>1 DEF WriterInv, DeletionInv
<1>6. AddedInv' /\ KeptInv' /\ GoneInv'
  BY <1>1, <1>2, <1>3 DEF AddedInv, KeptInv, GoneInv
<1> QED BY <1>4, <1>5, <1>6

LEMMA DiscardStep ==
  ASSUME IndexInv, Discard
  PROVE  IndexInv'
<1>1. /\ job = NoJob /\ writer' = Closed /\ mine' = {}
      /\ UNCHANGED <<slots, current, job, committed, dropped, gone>>
  BY DEF Discard, Idle
<1>2. Listed(current)' = Listed(current)
  BY <1>1 DEF Listed
<1> USE FilesSame DEF IndexInv
<1>3. FilesTyped' /\ VersionsInv'
  BY <1>1, <1>2 DEF VersionsInv
<1>4. WriterInv' /\ DeletionInv'
  BY <1>1 DEF WriterInv, DeletionInv
<1>5. AddedInv' /\ KeptInv' /\ GoneInv'
  BY <1>1, <1>2 DEF AddedInv, KeptInv, GoneInv
<1> QED BY <1>3, <1>4, <1>5

\* open lists every shard there is, so what was listed is listed again.
LEMMA ReopenStep ==
  ASSUME IndexInv, Reopen
  PROVE  IndexInv'
<1>1. /\ writer' = Closed /\ job' = NoJob /\ mine' = {} /\ UNCHANGED <<slots, committed, dropped, gone>>
  BY DEF Reopen
<1>2. PICK order \in SetToSeqs(DOMAIN slots) :
        current' = [list |-> [i \in DOMAIN order |-> Entry(order[i], FALSE)], cache |-> Nothing, limit |-> Limit]
  BY DEF Reopen, Discovered
<1>3. PICK n : n = Cardinality(DOMAIN slots)
  OBVIOUS
<1>4. FilesTyped /\ IsFiniteSet(DOMAIN slots) /\ n \in Nat
  <2>1. FilesTyped /\ DOMAIN slots \subseteq ShardId
    BY DEF IndexInv, FilesTyped
  <2> QED BY <1>3, <2>1, ShardIndexAssumption, FS_Subset, FS_CardinalityType
<1>5. order \in [1..n -> DOMAIN slots] /\ \A i, j \in 1..n : i # j => order[i] # order[j]
  BY <1>3 DEF SetToSeqs
<1>6. \A s \in DOMAIN slots : \E i \in 1..n : order[i] = s
  <2>1. order \in Injection(1..n, DOMAIN slots)
    BY <1>5 DEF Injection, IsInjective
  <2>2. Cardinality(1..n) = n
    BY <1>4, FS_Interval
  <2>3. order \in Surjection(1..n, DOMAIN slots)
    BY <1>3, <1>4, <2>1, <2>2, FS_Injection
  <2> QED BY <2>3 DEF Surjection
<1>7. PICK l : l = [i \in 1..n |-> Entry(order[i], FALSE)]
  OBVIOUS
<1>8. l \in Seq(ListEntry) /\ DOMAIN l = 1..n /\ \A i \in 1..n : l[i].id = order[i]
  <2>1. ASSUME NEW s \in DOMAIN slots PROVE Entry(s, FALSE) \in ListEntry /\ Entry(s, FALSE).id = s
    BY <1>4, SlotType, CountsType DEF Entry, ListEntry, FilesTyped
  <2>2. \A i \in 1..n : l[i] = Entry(order[i], FALSE) /\ order[i] \in DOMAIN slots
    BY <1>5, <1>7
  <2>3. \A i \in 1..n : l[i] \in ListEntry /\ l[i].id = order[i]
    BY <2>1, <2>2
  <2>4. DOMAIN l = 1..n /\ l = [i \in 1..n |-> l[i]]
    BY <1>7
  <2> QED BY <1>4, <2>3, <2>4
<1>9. PICK v : v = [list |-> l, cache |-> Nothing, limit |-> Limit]
  OBVIOUS
<1>10. current' = v /\ v \in Version /\ v.list = l
  <2>1. Nothing \in Cache
    <3>1. DOMAIN Nothing = {} /\ Nothing \in [DOMAIN Nothing -> OpenShard]
      BY DEF Nothing
    <3> QED BY <3>1, CacheIs
  <2>2. DOMAIN order = 1..n
    BY <1>5
  <2>3. current' = v
    BY <1>2, <1>7, <1>9, <2>2
  <2> HIDE DEF Nothing
  <2> QED BY <1>8, <1>9, <2>1, <2>3, ShardIndexAssumption DEF Version
<1>11. Listed(current)' = DOMAIN slots
  <2>1. Listed(v) = DOMAIN slots
    <3>1. \A s : s \in Listed(v) <=> \E i \in 1..n : l[i].id = s
      BY <1>8, <1>10 DEF Listed
    <3>2. \A s : s \in Listed(v) <=> s \in DOMAIN slots
      BY <1>5, <1>6, <1>8, <3>1
    <3> QED BY <3>2
  <2> QED BY <1>10, <2>1 DEF Listed
<1>12. NoJob \in Deletion /\ NoJob.op = "none"
  BY DEF NoJob, Deletion
<1> USE FilesSame DEF IndexInv
<1>13. FilesTyped' /\ VersionsInv'
  BY <1>1, <1>10, <1>11 DEF VersionsInv
<1>14. WriterInv' /\ DeletionInv'
  BY <1>1, <1>12 DEF WriterInv, DeletionInv
<1>15. AddedInv' /\ KeptInv' /\ GoneInv'
  <2>1. \A s, k : HasLive(s, k) => s \in DOMAIN slots
    BY DEF HasLive
  <2> QED BY <1>1, <1>11, <2>1 DEF AddedInv, KeptInv, GoneInv
<1> QED BY <1>13, <1>14, <1>15
-----------------------------------------------------------------------------
(***************************************************************************)
(* The theorems.                                                           *)
(***************************************************************************)
LEMMA IndexInit ==
  ASSUME Init
  PROVE  IndexInv
<1> USE DEF Init
<1>1. DOMAIN Nothing = {} /\ Nothing \in Cache
  <2>1. DOMAIN Nothing = {} /\ Nothing \in [DOMAIN Nothing -> OpenShard]
    BY DEF Nothing
  <2> QED BY <2>1, CacheIs
<1>2. FilesTyped
  <2>1. slots \in [DOMAIN slots -> Seq(Slot)]
    BY DEF Nothing
  <2> QED BY <1>1, <2>1 DEF FilesTyped
<1>3. current \in Version /\ Listed(current) = {}
  <2>1. <<>> \in Seq(ListEntry)
    OBVIOUS
  <2>2. PICK e : e = Nothing
    OBVIOUS
  <2>3. current = [list |-> <<>>, cache |-> e, limit |-> Limit]
    BY <2>2
  <2> HIDE DEF Init
  <2>4. current \in Version /\ current.list = <<>>
    BY <1>1, <2>1, <2>2, <2>3, ShardIndexAssumption DEF Version
  <2> QED BY <2>4 DEF Listed
<1>4. VersionsInv
  BY <1>3 DEF VersionsInv
<1>5. NoJob \in Deletion
  BY DEF NoJob, Deletion
<1>6. WriterInv /\ DeletionInv
  BY <1>5 DEF WriterInv, DeletionInv, NoJob
<1>7. AddedInv /\ KeptInv /\ GoneInv
  BY DEF AddedInv, KeptInv, GoneInv
<1> QED BY <1>2, <1>4, <1>6, <1>7 DEF IndexInv

LEMMA IndexStep ==
  ASSUME IndexInv, [Next]_vars
  PROVE  IndexInv'
<1>1. ASSUME NEW s \in ShardId, AddShard(s) \/ RemoveShard(s) \/ RefreshMetadata(s) \/ DeleteFrom(s)
      PROVE  IndexInv'
  BY <1>1, AddSteps, RemoveShardStep, RefreshSteps, DeleteFromStep
<1>2. CASE \E ss \in UNION {SetToSeqs(ss) : ss \in (SUBSET ShardId) \ {{}}} :
             \E n \in 0..Len(ss) : BulkAddShards(ss, n)
  BY <1>2, AddSteps
<1>3. CASE RefreshAllMetadata
  BY <1>3, RefreshSteps
<1>4. CASE \E n \in Limits : SetCacheLimit(n)
  BY <1>4, SetCacheLimitStep
<1>5. CASE \E close \in BOOLEAN : Flush(close)
  BY <1>5, FlushStep
<1>6. CASE \E k \in Key : AddPosting(k)
  BY <1>6, AddPostingStep
<1>7. CASE \E op \in {"delete", "remove"}, ds \in (SUBSET Doc) \ {{}} : StartDeletion(op, ds)
  BY <1>7, StartDeletionStep
<1>8. CASE DeletionDone \/ CloneForWrite \/ Commit \/ Discard \/ Reopen
  BY <1>8, DeletionDoneStep, CloneStep, CommitStep, DiscardStep, ReopenStep
<1>9. CASE Read \/ ReadDone \/ UNCHANGED vars
  <2>1. UNCHANGED <<slots, current, writer, job, mine, committed, dropped, gone>>
    BY <1>9 DEF Read, ReadDone, vars
  <2>2. Listed(writer)' = Listed(writer) /\ Listed(current)' = Listed(current)
    BY <2>1 DEF Listed
  <2> USE FilesSame DEF IndexInv
  <2>3. FilesTyped' /\ VersionsInv'
    BY <2>1, <2>2 DEF VersionsInv
  <2>4. WriterInv' /\ DeletionInv'
    BY <2>1, <2>2 DEF WriterInv, DeletionInv
  <2>5. AddedInv' /\ KeptInv' /\ GoneInv'
    BY <2>1, <2>2 DEF AddedInv, KeptInv, GoneInv
  <2> QED BY <2>3, <2>4, <2>5
<1> QED BY <1>1, <1>2, <1>3, <1>4, <1>5, <1>6, <1>7, <1>8, <1>9 DEF Next

\* Whatever writers do, cut short or not, and through every reopening: the
\* shards a version lists exist, those it has open agree with their files, and
\* what was added, committed and deleted is where it should be.
THEOREM IndexInvariant == Spec => []IndexInv
<1>1. Init => IndexInv
  BY IndexInit
<1>2. IndexInv /\ [Next]_vars => IndexInv'
  BY IndexStep
<1> QED BY <1>1, <1>2, PTL DEF Spec

\* No shard's file grows beyond its capacity: add_posting asks the instance it
\* has open, and no other one wrote to the file since it was opened.
THEOREM NeverOverfull == Spec => []FilesTyped
<1>1. IndexInv => FilesTyped
  BY DEF IndexInv
<1> QED BY <1>1, IndexInvariant, PTL

\* get_shard_mut answers a shard that knows every slot of its file, whatever
\* earlier versions, discarded writers or evicted instances wrote.
THEOREM OpenShardsAreFresh == Spec => []CacheIsFresh
<1>1. IndexInv => CacheIsFresh
  BY DEF IndexInv, VersionsInv, Good, Fresh, CacheIsFresh
<1> QED BY <1>1, IndexInvariant, PTL

\* A committed posting is live in a published shard until it is removed, and a
\* deleted document stays gone from the shards it was deleted from until it is
\* added to them again.
THEOREM CommitsHold == Spec => []ChangesHold
<1>1. ASSUME IndexInv PROVE CommittedIsListed
  <2>1. ASSUME NEW k \in committed PROVE k \in LiveKeys(Listed(current) \cup dropped)
    <3>1. PICK s \in Listed(current) \cup dropped : HasLive(s, k)
      BY <1>1 DEF IndexInv, KeptInv
    <3> QED BY <3>1 DEF HasLive, LiveKeys, Live
  <2> QED BY <2>1 DEF CommittedIsListed
<1>2. ASSUME IndexInv PROVE DeletedIsGone
  BY <1>2 DEF IndexInv, GoneInv, NoneOf, DeletedIsGone, LiveOf, Live
<1>3. IndexInv => ChangesHold
  BY <1>1, <1>2 DEF ChangesHold
<1> QED BY <1>3, IndexInvariant, PTL
=============================================================================
