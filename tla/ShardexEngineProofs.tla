------------------------- MODULE ShardexEngineProofs -------------------------
(***************************************************************************)
(* What the engine's shards hold, for all sets of documents and postings,  *)
(* all batches of calls, all bounds and all sizes of shards: an operation  *)
(* reaches a shard only from the log, the shards converge to what the log  *)
(* says whatever crash or replay came between, and what was flushed is     *)
(* what a reopened index holds.                                            *)
(***************************************************************************)
EXTENDS ShardexEngine, SequenceTheorems, FiniteSetTheorems, WellFoundedInduction, TLAPS
-----------------------------------------------------------------------------
(***************************************************************************)
(* Sequences.                                                              *)
(***************************************************************************)
\* An element of a sequence is of the sequence's type.
LEMMA ElementType ==
  ASSUME NEW S, NEW s \in Seq(S), NEW i \in DOMAIN s
  PROVE  s[i] \in S
OBVIOUS

\* What the operations on sequences do to the set of their elements.
LEMMA RangeEmpty == Range(<<>>) = {}
BY DEF Range

LEMMA RangeAppend ==
  ASSUME NEW S, NEW s \in Seq(S), NEW e \in S
  PROVE  Range(Append(s, e)) = Range(s) \cup {e}
<1>1. PICK u : u = <<e>>
  OBVIOUS
<1>2. u \in Seq(S) /\ Append(s, e) = s \o u /\ Range(u) = {e}
  BY <1>1 DEF Range
<1> QED BY <1>2, RangeConcatenation

\* They are the head and those of the tail.
LEMMA RangeHeadTail ==
  ASSUME NEW S, NEW s \in Seq(S), s # <<>>
  PROVE  /\ Head(s) \in S /\ Tail(s) \in Seq(S)
         /\ Range(s) = {Head(s)} \cup Range(Tail(s))
<1>1. PICK u, t : u = <<Head(s)>> /\ t = Tail(s)
  OBVIOUS
<1>2. u \in Seq(S) /\ t \in Seq(S) /\ s = u \o t /\ Head(s) \in S
  BY <1>1
<1>3. Range(u) = {Head(s)}
  BY <1>1 DEF Range
<1>4. Range(u \o t) = Range(u) \cup Range(t)
  BY <1>2, RangeConcatenation
<1> QED BY <1>1, <1>2, <1>3, <1>4
-----------------------------------------------------------------------------
\* The entries on their way from a call to the shards, and their numbers.
Staged == Range(pending) \cup Range(made) \cup (IF phase = "applying" THEN Range(todo) ELSE {})
Numbers(es) == {e.n : e \in es} \ {0}

Closing == phase \in {"closed", "replaying"}
Before(A, B) == \A a \in Numbers(A), b \in Numbers(B) : a < b
Ordered(s) == \A i, j \in DOMAIN s : i < j /\ s[i].n # 0 /\ s[j].n # 0 => s[i].n < s[j].n

\* Entries are where the phase has them.
PhaseInv ==
  /\ TypeOK
  /\ phase \in {"starting", "adding"} => last + Len(todo) <= MaxOps
  /\ phase # "adding" => made = <<>>
  /\ phase = "applying" => pending = <<>>
  /\ Closing => pending = <<>> /\ waiting = {}
  /\ phase = "closed" => opens < MaxOpens

\* An entry is its operation; entries stand in the order of their numbers, all
\* of them behind what was applied.
OrderInv ==
  /\ \A e \in Staged : e.n # 0 => e.n \in 1..last /\ ops[e.n] = e.op
  /\ Ordered(pending) /\ Ordered(made) /\ Before(Range(pending), Range(made))
  /\ phase = "applying" => Ordered(todo)
  /\ \A n \in done, m \in Numbers(Staged) : n < m

\* Unless something was lost, a staged operation waits or is in the log, and
\* nothing waits while the pending operations are applied.
LogInv ==
  "lost" \notin faults =>
    /\ Numbers(Staged) \subseteq logged \cup waiting
    /\ phase = "applying" => waiting = {}
    /\ done \subseteq logged

\* The shards between calls, and while a replay goes over what they held before.
Added(k)    == \E n \in logged : ops[n] = AddPosting(k)
Kept(k, ns) == \A n \in ns : ops[n] # RemoveDocument(DocOf[k])
ShardInv ==
  faults \subseteq {"failedCall"} =>
    /\ \A k \in LiveKeys : Added(k)
    /\ ~Closing => LiveKeys = LeftBy(done)
    /\ phase = "replaying" =>
         /\ \A n \in logged : n \in done <=> n <= at
         /\ LeftBy(done) \subseteq LiveKeys
         /\ \A k \in LiveKeys : k \in LeftBy(done) \/ Kept(k, done)

\* Nothing on its way is forgotten; since the last flush nothing was asked for.
KeptInv ==
  faults = {} =>
    /\ ~Closing => logged \cup waiting = done \cup Numbers(Staged)
    /\ kept.on => waiting = {} /\ Staged = {} /\ kept.live = LeftBy(logged)

EngineInv == PhaseInv /\ OrderInv /\ LogInv /\ ShardInv /\ KeptInv
-----------------------------------------------------------------------------
(***************************************************************************)
(* The shards.                                                             *)
(***************************************************************************)
\* An operation adds one posting or removes one document.
LEMMA OperationCases ==
  ASSUME NEW o \in Operation
  PROVE  \/ o.kind = "add" /\ o.key \in Key /\ o = AddPosting(o.key)
         \/ o.kind = "remove" /\ o.doc \in Doc /\ o = RemoveDocument(o.doc)
BY DEF Operation, AddPosting, RemoveDocument

\* A posting is live when a slot of some shard holds it and is not deleted.
LiveIn(s, k) == \E i \in DOMAIN s.slots : ~s.slots[i].deleted /\ s.slots[i].key = k

LEMMA LiveKey ==
  ASSUME NEW k
  PROVE  k \in LiveKeys <=> \E s \in DOMAIN shards : LiveIn(shards[s], k)
BY DEF LiveKeys, Live, LiveIn

\* The same one step later.
LEMMA LiveKeyNext ==
  ASSUME NEW k
  PROVE  k \in LiveKeys' <=> \E s \in DOMAIN shards' : LiveIn(shards'[s], k)
BY DEF LiveKeys, Live, LiveIn

\* Live postings are postings.
LEMMA LiveKeysType ==
  ASSUME ShardsOK
  PROVE  LiveKeys \subseteq Key
<1> SUFFICES ASSUME NEW k \in LiveKeys PROVE k \in Key
  OBVIOUS
<1>1. PICK s \in DOMAIN shards : \E i \in DOMAIN shards[s].slots : shards[s].slots[i].key = k
  BY LiveKey DEF LiveIn
<1>2. PICK i \in DOMAIN shards[s].slots : shards[s].slots[i].key = k
  BY <1>1
<1>3. shards[s].slots \in Seq([key : Key, deleted : BOOLEAN])
  BY DEF ShardsOK, ShardOK
<1>4. shards[s].slots[i] \in [key : Key, deleted : BOOLEAN]
  BY <1>3, ElementType
<1> QED BY <1>2, <1>4

\* There is always an id that no shard has.
LEMMA NewIdIsNew ==
  ASSUME ShardsOK
  PROVE  NewId \in Nat /\ NewId \notin DOMAIN shards
<1> DEFINE D == DOMAIN shards
           I == 1..(Cardinality(D) + 1)
<1>1. Cardinality(D) \in Nat
  BY FS_CardinalityType DEF ShardsOK
<1>2. IsFiniteSet(I) /\ Cardinality(I) = Cardinality(D) + 1
  BY <1>1, FS_Interval
<1>3. \E i \in I : i \notin D
  <2>1. CASE I \subseteq D
    <3>1. Cardinality(I) <= Cardinality(D)
      BY <2>1, FS_Subset DEF ShardsOK
    <3> QED BY <3>1, <1>1, <1>2
  <2> QED BY <2>1
<1>4. NewId \in I /\ NewId \notin D
  BY <1>3 DEF NewId
<1> QED BY <1>4, <1>1

\* A document is removed from all the slots that hold it and from no other.
LEMMA WithoutDocSlots ==
  ASSUME NEW slots \in Seq([key : Key, deleted : BOOLEAN]), NEW d
  PROVE  /\ WithoutDoc(slots, d) \in Seq([key : Key, deleted : BOOLEAN])
         /\ Len(WithoutDoc(slots, d)) = Len(slots)
         /\ DOMAIN WithoutDoc(slots, d) = DOMAIN slots
         /\ \A i \in DOMAIN slots :
              /\ WithoutDoc(slots, d)[i].key = slots[i].key
              /\ WithoutDoc(slots, d)[i].deleted <=> slots[i].deleted \/ DocOf[slots[i].key] = d
<1> DEFINE new == WithoutDoc(slots, d)
<1>0. DOMAIN slots = 1..Len(slots) /\ Len(slots) \in Nat
  OBVIOUS
<1>1. \A i \in DOMAIN slots : slots[i] \in [key : Key, deleted : BOOLEAN]
  BY ElementType
<1>2. ASSUME NEW i \in DOMAIN slots
      PROVE  /\ new[i] = [slots[i] EXCEPT !.deleted = @ \/ i \in SlotsOf(slots, d)]
             /\ i \in SlotsOf(slots, d) <=> DocOf[slots[i].key] = d
  BY DEF WithoutDoc, SlotsOf
<1>3. ASSUME NEW i \in DOMAIN slots
      PROVE  /\ new[i] \in [key : Key, deleted : BOOLEAN] /\ new[i].key = slots[i].key
             /\ new[i].deleted <=> slots[i].deleted \/ DocOf[slots[i].key] = d
  BY <1>1, <1>2
<1>4. DOMAIN new = DOMAIN slots
  BY DEF WithoutDoc
<1> HIDE DEF new
<1>5. new = [i \in 1..Len(slots) |-> new[i]]
  BY <1>0, <1>4 DEF new, WithoutDoc
<1>6. new \in Seq([key : Key, deleted : BOOLEAN]) /\ Len(new) = Len(slots)
  BY <1>0, <1>3, <1>5
<1> QED BY <1>3, <1>4, <1>6 DEF new

\* What it does to a shard.
LEMMA RemoveFromShard ==
  ASSUME NEW s, ShardOK(s), NEW d,
         NEW t, t = [s EXCEPT !.slots = WithoutDoc(@, d)]
  PROVE  ShardOK(t) /\ \A k : LiveIn(t, k) <=> LiveIn(s, k) /\ DocOf[k] # d
<1> DEFINE new == WithoutDoc(s.slots, d)
<1>1. s.slots \in Seq([key : Key, deleted : BOOLEAN])
  BY DEF ShardOK
<1>2. /\ new \in Seq([key : Key, deleted : BOOLEAN]) /\ Len(new) = Len(s.slots)
      /\ DOMAIN new = DOMAIN s.slots
      /\ \A i \in DOMAIN s.slots :
           /\ new[i].key = s.slots[i].key
           /\ new[i].deleted <=> s.slots[i].deleted \/ DocOf[s.slots[i].key] = d
  BY <1>1, WithoutDocSlots
<1> HIDE DEF new
<1>3. /\ t = [home |-> s.home, cap |-> s.cap, nan |-> s.nan, slots |-> t.slots]
      /\ t.home = s.home /\ t.cap = s.cap /\ t.nan = s.nan /\ t.slots = new
  BY DEF ShardOK, new
<1>4. ShardOK(t)
  BY <1>2, <1>3 DEF ShardOK
<1>5. \A k : LiveIn(t, k) <=> LiveIn(s, k) /\ DocOf[k] # d
  BY <1>2, <1>3 DEF LiveIn
<1> QED BY <1>4, <1>5

\* A posting goes to a slot of its own behind the others.
LEMMA AddToShard ==
  ASSUME NEW s, ShardOK(s), HasRoom(s), NEW k \in Key,
         NEW t, t = [s EXCEPT !.slots = Append(@, Slot(k))]
  PROVE  ShardOK(t) /\ \A x : LiveIn(t, x) <=> x = k \/ LiveIn(s, x)
<1> DEFINE S == [key : Key, deleted : BOOLEAN]
<1>1. s.slots \in Seq(S) /\ Slot(k) \in S
  BY DEF ShardOK, Slot
<1>2. /\ t = [home |-> s.home, cap |-> s.cap, nan |-> s.nan, slots |-> t.slots]
      /\ t.home = s.home /\ t.cap = s.cap /\ t.nan = s.nan /\ t.slots = Append(s.slots, Slot(k))
  BY DEF ShardOK
<1> HIDE DEF S
<1>3. /\ t.slots \in Seq(S) /\ Len(t.slots) = Len(s.slots) + 1
      /\ DOMAIN t.slots = 1..Len(s.slots) + 1 /\ DOMAIN s.slots = 1..Len(s.slots)
      /\ Len(s.slots) \in Nat
      /\ t.slots[Len(s.slots) + 1] = Slot(k)
      /\ \A i \in 1..Len(s.slots) : t.slots[i] = s.slots[i]
  BY <1>1, <1>2
<1>4. ShardOK(t)
  BY <1>2, <1>3 DEF ShardOK, HasRoom, S
<1>5. ASSUME NEW x PROVE LiveIn(t, x) <=> x = k \/ LiveIn(s, x)
  <2>1. ~Slot(k).deleted /\ Slot(k).key = k
    BY DEF Slot
  <2>2. Len(s.slots) + 1 \in DOMAIN t.slots /\ DOMAIN s.slots \subseteq DOMAIN t.slots
    BY <1>3
  <2>3. \A i \in DOMAIN t.slots : i = Len(s.slots) + 1 \/ i \in DOMAIN s.slots
    BY <1>3
  <2> QED BY <1>3, <2>1, <2>2, <2>3 DEF LiveIn
<1> QED BY <1>4, <1>5

\* A removal takes the postings of its document off all shards.
Except(ks, d) == {k \in ks : DocOf[k] # d}

LEMMA RemoveApplied ==
  ASSUME ShardsOK, NEW d,
         shards' = [s \in DOMAIN shards |-> [shards[s] EXCEPT !.slots = WithoutDoc(@, d)]]
  PROVE  ShardsOK' /\ LiveKeys' = Except(LiveKeys, d)
<1>1. DOMAIN shards' = DOMAIN shards
  OBVIOUS
<1>2. ASSUME NEW s \in DOMAIN shards
      PROVE  /\ ShardOK(shards'[s])
             /\ \A k : LiveIn(shards'[s], k) <=> LiveIn(shards[s], k) /\ DocOf[k] # d
  <2>1. ShardOK(shards[s]) /\ shards'[s] = [shards[s] EXCEPT !.slots = WithoutDoc(@, d)]
    BY DEF ShardsOK
  <2> QED BY <2>1, RemoveFromShard
<1>3. ShardsOK'
  BY <1>1, <1>2 DEF ShardsOK, ShardOK
<1>4. ASSUME NEW k PROVE k \in LiveKeys' <=> k \in LiveKeys /\ DocOf[k] # d
  BY <1>1, <1>2, LiveKey, LiveKeyNext
<1>5. LiveKeys' = Except(LiveKeys, d)
  BY <1>4 DEF Except
<1> QED BY <1>3, <1>5

\* An addition makes its posting live and no other, in a shard there is
LEMMA AddApplied ==
  ASSUME ShardsOK, NEW k \in Key, NEW n \in DOMAIN shards, HasRoom(shards[n]),
         shards' = [shards EXCEPT ![n].slots = Append(@, Slot(k))]
  PROVE  ShardsOK' /\ LiveKeys' = LiveKeys \cup {k}
<1>1. DOMAIN shards' = DOMAIN shards /\ \A s \in DOMAIN shards \ {n} : shards'[s] = shards[s]
  OBVIOUS
<1>2. ShardOK(shards[n]) /\ shards'[n] = [shards[n] EXCEPT !.slots = Append(@, Slot(k))]
  BY DEF ShardsOK
<1>3. ShardOK(shards'[n]) /\ \A x : LiveIn(shards'[n], x) <=> x = k \/ LiveIn(shards[n], x)
  BY <1>2, AddToShard
<1>4. ShardsOK'
  BY <1>1, <1>3 DEF ShardsOK, ShardOK
<1>5. ASSUME NEW x PROVE x \in LiveKeys' <=> x = k \/ x \in LiveKeys
  BY <1>1, <1>3, LiveKey, LiveKeyNext
<1> QED BY <1>4, <1>5

\* or in one made for it.
LEMMA NewShardApplied ==
  ASSUME ShardsOK, NEW k \in Key, NEW home \in {"shards", "index"}, NEW size \in Nat \ {0},
         shards' = [s \in DOMAIN shards \cup {NewId} |->
                      IF s = NewId THEN NewShard(k, home, size) ELSE shards[s]]
  PROVE  ShardsOK' /\ LiveKeys' = LiveKeys \cup {k}
<1>1. NewId \in Nat /\ NewId \notin DOMAIN shards
  BY NewIdIsNew
<1> DEFINE new == NewShard(k, home, size)
<1>2. Slot(k).key = k /\ ~Slot(k).deleted /\ Slot(k) \in [key : Key, deleted : BOOLEAN]
  BY DEF Slot
<1>3. new.slots = <<Slot(k)>>
  BY DEF NewShard
<1>4. ShardOK(new)
  <2>1. new.slots \in Seq([key : Key, deleted : BOOLEAN]) /\ Len(new.slots) = 1
    BY <1>2, <1>3
  <2> QED BY <2>1 DEF ShardOK, NewShard
<1>5. \A x : LiveIn(new, x) <=> x = k
  <2>1. DOMAIN <<Slot(k)>> = {1} /\ <<Slot(k)>>[1] = Slot(k)
    OBVIOUS
  <2>2. ASSUME NEW x PROVE LiveIn(new, x) <=> \E i \in {1} : ~<<Slot(k)>>[i].deleted /\ <<Slot(k)>>[i].key = x
    BY <1>3, <2>1 DEF LiveIn
  <2> QED BY <1>2, <2>1, <2>2
<1> HIDE DEF new
<1>6. /\ DOMAIN shards' = DOMAIN shards \cup {NewId} /\ shards'[NewId] = new
      /\ \A s \in DOMAIN shards : shards'[s] = shards[s]
  BY <1>1 DEF new
<1>7. ShardsOK'
  <2>1. IsFiniteSet(DOMAIN shards')
    BY <1>6, FS_AddElement DEF ShardsOK
  <2> QED BY <1>1, <1>4, <1>6, <2>1 DEF ShardsOK, ShardOK
<1>8. ASSUME NEW x PROVE x \in LiveKeys' <=> x = k \/ x \in LiveKeys
  BY <1>5, <1>6, LiveKey, LiveKeyNext
<1> QED BY <1>7, <1>8

\* What is not reloaded with its centroid is the same; the slots stay.
LEMMA ReloadOK ==
  ASSUME NEW s, ShardOK(s)
  PROVE  ShardOK(Reload(s)) /\ Reload(s).slots = s.slots /\ Reload(s).home = s.home
<1>1. CentroidIsNaN(s.slots) \in BOOLEAN
  BY DEF CentroidIsNaN
<1>2. CASE s.home = "shards"
  <2>1. Reload(s) = [s EXCEPT !.nan = CentroidIsNaN(s.slots)]
    BY <1>2 DEF Reload
  <2> QED BY <1>1, <2>1 DEF ShardOK
<1>3. CASE s.home # "shards"
  BY <1>3 DEF Reload
<1> QED BY <1>2, <1>3

\* An operation applied to the shards, as far as none of them is full.
LEMMA Applied ==
  ASSUME ShardsOK, NEW o \in Operation, NEW home \in {"shards", "index"}, NEW size \in Nat \ {0},
         NEW known, known \subseteq Faults, Apply(o, home, size, known)
  PROVE  /\ ShardsOK' /\ known \subseteq faults' /\ faults' \subseteq Faults
         /\ \/ "full" \in faults'
            \/ o.kind = "add" /\ LiveKeys' = LiveKeys \cup {o.key}
            \/ o.kind = "remove" /\ LiveKeys' = Except(LiveKeys, o.doc)
<1>1. CASE o.kind = "remove"
  <2>1. /\ shards' = [s \in DOMAIN shards |-> [shards[s] EXCEPT !.slots = WithoutDoc(@, o.doc)]]
        /\ faults' = known
    BY <1>1 DEF Apply
  <2> QED BY <1>1, <2>1, RemoveApplied
<1>2. CASE o.kind = "add" /\ Usable = {}
  <2>1. /\ shards' = [s \in DOMAIN shards \cup {NewId} |->
                        IF s = NewId THEN NewShard(o.key, home, size) ELSE shards[s]]
        /\ faults' = known /\ o.key \in Key
    BY <1>2, OperationCases DEF Apply
  <2> QED BY <1>2, <2>1, NewShardApplied
<1>3. CASE o.kind = "add" /\ Usable # {}
  <2>1. o.key \in Key
    BY <1>3, OperationCases
  <2>2. PICK s \in Usable :
          IF HasRoom(shards[s])
          THEN shards' = [shards EXCEPT ![s].slots = Append(@, Slot(o.key))] /\ faults' = known
          ELSE faults' = known \cup {"full"} /\ UNCHANGED shards
    BY <1>3 DEF Apply
  <2>3. s \in DOMAIN shards
    BY DEF Usable
  <2>4. CASE HasRoom(shards[s])
    BY <1>3, <2>1, <2>2, <2>3, <2>4, AddApplied
  <2>5. CASE ~HasRoom(shards[s])
    BY <2>2, <2>5 DEF ShardsOK, ShardOK, Faults
  <2> QED BY <2>4, <2>5
<1> QED BY <1>1, <1>2, <1>3, OperationCases
-----------------------------------------------------------------------------
(***************************************************************************)
(* The operations and what they leave.                                     *)
(***************************************************************************)
\* What the operations o of the numbers ns leave; LeftBy(ns) for the ones made.
LeftOf(o, ns) ==
  {k \in Key : \E n \in ns : /\ o[n] = AddPosting(k)
                             /\ \A m \in ns : m > n => o[m] # RemoveDocument(DocOf[k])}

LEMMA LeftByIsLeftOf ==
  ASSUME NEW ns
  PROVE  LeftBy(ns) = LeftOf(ops, ns)
BY DEF LeftBy, LeftOf

\* Operations are told apart by what they do and to what.
LEMMA OperationsDiffer ==
  ASSUME NEW k, NEW j, NEW d, NEW e
  PROVE  /\ AddPosting(k) # RemoveDocument(d)
         /\ AddPosting(k) = AddPosting(j) => k = j
         /\ RemoveDocument(d) = RemoveDocument(e) => d = e
BY DEF AddPosting, RemoveDocument

\* The numbers ns and a higher one.
Extended(more, ns, n) ==
  n \in Nat /\ more = ns \cup {n} /\ \A m \in ns : m \in Nat /\ m < n

\* A later addition leaves its posting too,
LEMMA LeftOfAdd ==
  ASSUME NEW o, NEW ns, NEW n, NEW more, Extended(more, ns, n),
         NEW k \in Key, o[n] = AddPosting(k)
  PROVE  LeftOf(o, more) = LeftOf(o, ns) \cup {k}
<1>1. more = ns \cup {n} /\ n \notin ns /\ ~(n > n) /\ \A m \in ns : n > m /\ ~(m > n)
  BY DEF Extended
<1>2. \A d : o[n] # RemoveDocument(d)
  BY OperationsDiffer
<1>3. \A i : o[n] = AddPosting(i) <=> i = k
  BY OperationsDiffer
<1>4. ASSUME NEW j PROVE j \in LeftOf(o, more) <=> j \in LeftOf(o, ns) \cup {k}
  BY <1>1, <1>2, <1>3 DEF LeftOf
<1> QED BY <1>4

\* a later removal all but its document's.
LEMMA LeftOfRemove ==
  ASSUME NEW o, NEW ns, NEW n, NEW more, Extended(more, ns, n),
         NEW d, o[n] = RemoveDocument(d)
  PROVE  LeftOf(o, more) = Except(LeftOf(o, ns), d)
<1>1. more = ns \cup {n} /\ n \notin ns /\ ~(n > n) /\ \A m \in ns : n > m /\ ~(m > n)
  BY DEF Extended
<1>2. \A i : o[n] # AddPosting(i)
  BY OperationsDiffer
<1>3. \A e : o[n] = RemoveDocument(e) <=> e = d
  BY OperationsDiffer
<1>4. ASSUME NEW j PROVE j \in LeftOf(o, more) <=> j \in LeftOf(o, ns) /\ DocOf[j] # d
  BY <1>1, <1>2, <1>3 DEF LeftOf
<1> QED BY <1>4 DEF Except

\* Only the operations of the numbers matter.
LEMMA LeftOfSame ==
  ASSUME NEW o, NEW p, NEW ns, \A n \in ns : o[n] = p[n]
  PROVE  LeftOf(o, ns) = LeftOf(p, ns)
BY DEF LeftOf

\* A set of numbers has a least one.
LEMMA HasLeast ==
  ASSUME NEW T, T \subseteq Nat, T # {}
  PROVE  \E x \in T : \A y \in T : x <= y
<1> DEFINE R == {ss \in Nat \X Nat : ss[1] < ss[2]}
<1>1. IsWellFoundedOn(R, Nat)
  BY NatLessThanWellFounded DEF OpToRel
<1>2. \A x, y \in Nat : x < y => <<x, y>> \in R
  OBVIOUS
<1> HIDE DEF R
<1>3. PICK x \in T : \A y \in T : ~(<<y, x>> \in R)
  BY <1>1, WFMin
<1>4. \A y \in T : ~(y < x)
  BY <1>2, <1>3
<1> QED BY <1>4

\* A replay that finds no further record has read them all.
LEMMA ReplayedAll ==
  ASSUME logged \subseteq Nat, at \in Nat, ~ \E n \in logged : ToReplay(n)
  PROVE  \A n \in logged : n <= at
<1> SUFFICES ASSUME NEW n \in logged, n > at PROVE FALSE
  OBVIOUS
<1> DEFINE T == {m \in logged : m > at}
<1>1. PICK x \in T : \A y \in T : x <= y
  <2>1. T \subseteq Nat /\ T # {}
    OBVIOUS
  <2> QED BY <2>1, HasLeast
<1>2. ToReplay(x)
  BY <1>1 DEF ToReplay
<1> QED BY <1>1, <1>2
-----------------------------------------------------------------------------
(***************************************************************************)
(* Entries in order.                                                       *)
(***************************************************************************)
LEMMA OrderedEmpty == Ordered(<<>>)
BY DEF Ordered

\* A higher number goes to the end.
LEMMA OrderedAppend ==
  ASSUME NEW s \in Seq(Entries), NEW e \in Entries, Ordered(s),
         \A x \in Range(s) : x.n # 0 => x.n < e.n
  PROVE  Ordered(Append(s, e))
<1> DEFINE t == Append(s, e)
<1>1. /\ DOMAIN t = 1..Len(s) + 1 /\ DOMAIN s = 1..Len(s) /\ Len(s) \in Nat
      /\ t[Len(s) + 1] = e /\ \A i \in 1..Len(s) : t[i] = s[i]
  OBVIOUS
<1>2. \A i \in 1..Len(s) : s[i].n # 0 => s[i].n < e.n
  BY <1>1 DEF Range
<1> HIDE DEF t
<1>3. Ordered(t)
  <2> SUFFICES ASSUME NEW i \in 1..Len(s) + 1, NEW j \in 1..Len(s) + 1,
                      i < j, t[i].n # 0, t[j].n # 0
               PROVE  t[i].n < t[j].n
    BY <1>1 DEF Ordered
  <2>1. i \in 1..Len(s) /\ t[i] = s[i]
    BY <1>1
  <2>2. CASE j \in 1..Len(s)
    BY <1>1, <2>1, <2>2 DEF Ordered
  <2>3. CASE j = Len(s) + 1
    BY <1>1, <1>2, <2>1, <2>3
  <2> QED BY <2>2, <2>3, <1>1
<1> QED BY <1>3 DEF t

\* Two sequences, the numbers of the second higher.
LEMMA OrderedConcat ==
  ASSUME NEW s \in Seq(Entries), NEW t \in Seq(Entries), Ordered(s), Ordered(t),
         Before(Range(s), Range(t))
  PROVE  Ordered(s \o t)
<1> DEFINE u == s \o t
<1>1. /\ DOMAIN u = 1..Len(s) + Len(t) /\ DOMAIN s = 1..Len(s) /\ DOMAIN t = 1..Len(t)
      /\ Len(s) \in Nat /\ Len(t) \in Nat
      /\ \A i \in 1..Len(s) + Len(t) : u[i] = IF i <= Len(s) THEN s[i] ELSE t[i - Len(s)]
  OBVIOUS
<1>2. \A i \in 1..Len(s), j \in 1..Len(t) : s[i].n # 0 /\ t[j].n # 0 => s[i].n < t[j].n
  BY <1>1 DEF Range, Before, Numbers
<1> HIDE DEF u
<1>3. Ordered(u)
  <2> SUFFICES ASSUME NEW i \in 1..Len(s) + Len(t), NEW j \in 1..Len(s) + Len(t),
                      i < j, u[i].n # 0, u[j].n # 0
               PROVE  u[i].n < u[j].n
    BY <1>1 DEF Ordered
  <2>1. CASE j <= Len(s)
    BY <1>1, <2>1 DEF Ordered
  <2>2. CASE i > Len(s)
    <3>1. i - Len(s) \in DOMAIN t /\ j - Len(s) \in DOMAIN t /\ i - Len(s) < j - Len(s)
      BY <1>1, <2>2
    <3> QED BY <1>1, <2>2, <3>1 DEF Ordered
  <2>3. CASE i <= Len(s) /\ j > Len(s)
    <3>1. i \in 1..Len(s) /\ j - Len(s) \in 1..Len(t)
      BY <1>1, <2>3
    <3> QED BY <1>1, <1>2, <2>3, <3>1
  <2> QED BY <1>1, <2>1, <2>2, <2>3
<1> QED BY <1>3 DEF u

\* Without the first; the others have higher numbers than it.
LEMMA OrderedTail ==
  ASSUME NEW s \in Seq(Entries), s # <<>>, Ordered(s)
  PROVE  /\ Ordered(Tail(s))
         /\ Head(s).n # 0 => \A m \in Numbers(Range(Tail(s))) : Head(s).n < m
<1>1. /\ DOMAIN s = 1..Len(s) /\ Len(s) \in Nat \ {0}
      /\ DOMAIN Tail(s) = 1..Len(s) - 1
      /\ \A i \in 1..Len(s) - 1 : Tail(s)[i] = s[i + 1] /\ i + 1 \in 1..Len(s)
      /\ Head(s) = s[1] /\ 1 \in 1..Len(s)
  OBVIOUS
<1>2. Ordered(Tail(s))
  BY <1>1 DEF Ordered
<1>3. ASSUME Head(s).n # 0, NEW m \in Numbers(Range(Tail(s))) PROVE Head(s).n < m
  <2>1. PICK i \in 1..Len(s) - 1 : m = Tail(s)[i].n
    BY <1>1 DEF Numbers, Range
  <2>2. m = s[i + 1].n /\ m # 0 /\ 1 < i + 1
    BY <1>1, <2>1 DEF Numbers
  <2> QED BY <1>1, <1>3, <2>2 DEF Ordered
<1> QED BY <1>2, <1>3
-----------------------------------------------------------------------------
(***************************************************************************)
(* Steps that leave the log, the shards and the entries as they are.       *)
(***************************************************************************)
Quiet ==
  /\ phase \notin {"applying", "closed", "replaying"}
  /\ phase' \notin {"applying", "closed", "replaying"}
  /\ UNCHANGED <<logVars, made, pending, indexVars, ghostVars>>

LEMMA QuietSteps ==
  ASSUME PhaseInv,
         \/ \E batch \in Calls : Call(batch)
         \/ StartProcessor \/ CallFlush \/ FlushFails \/ Shutdown \/ ShutdownReturns
  PROVE  Quiet
<1>1. ASSUME NEW batch \in Calls, Call(batch) PROVE Quiet
  BY <1>1 DEF PhaseInv, Call, Quiet, logVars, opLogVars, indexVars, ghostVars
<1>2. CASE StartProcessor
  BY <1>2 DEF StartProcessor, Quiet, logVars, opLogVars, indexVars, ghostVars
<1>3. CASE CallFlush
  BY <1>3 DEF CallFlush, Quiet, logVars, opLogVars, indexVars, ghostVars
<1>4. CASE FlushFails
  BY <1>4 DEF FlushFails, Quiet, logVars, opLogVars, indexVars, ghostVars
<1>5. CASE Shutdown
  BY <1>5 DEF Shutdown, Quiet, logVars, opLogVars, indexVars, ghostVars
<1>6. CASE ShutdownReturns
  BY <1>6 DEF ShutdownReturns, Quiet, logVars, opLogVars, indexVars, ghostVars
<1> QED BY <1>1, <1>2, <1>3, <1>4, <1>5, <1>6

\* Every step is one of these.
LEMMA StepCases ==
  ASSUME PhaseInv, Next
  PROVE  \/ WriteLog \/ LoseOps \/ Quiet \/ AddOperation \/ CallFails \/ CallReturns
         \/ \E r \in Replacements : Replace(r)
         \/ LogFlushed \/ ApplyNext \/ FlushReturns \/ Crash \/ Open
         \/ \E n \in logged : ReplayNext(n)
         \/ ReplayReturns
BY QuietSteps DEF Next
-----------------------------------------------------------------------------
(***************************************************************************)
(* Types, and where the phase has the entries.                             *)
(***************************************************************************)
LEMMA TypeInit ==
  ASSUME Init
  PROVE  PhaseInv
<1>1. /\ last = 0 /\ waiting = {} /\ logged = {} /\ ops = <<>> /\ processor = FALSE
      /\ phase = "idle" /\ todo = <<>> /\ made = <<>> /\ pending = <<>>
      /\ DOMAIN shards = {} /\ at = 0 /\ opens = 0 /\ replaced = 0
      /\ done = {} /\ kept = Off /\ faults = {}
  BY DEF Init, Log!Init
<1>2. ops \in Seq(Operation) /\ Len(ops) = 0 /\ made \in Seq(Entries) /\ pending \in Seq(Entries)
  BY <1>1
<1>3. MaxOps \in Nat /\ MaxReplaced \in Nat /\ MaxOpens \in Nat
  BY EngineAssumption DEF EngineAssumption
<1>4. /\ last \in 0..MaxOps /\ at \in 0..last /\ opens \in 0..MaxOpens /\ replaced \in 0..MaxReplaced
      /\ kept \in [on : BOOLEAN, live : SUBSET Key]
  BY <1>1, <1>3 DEF Off
<1>5. ShardsOK
  BY <1>1, FS_EmptySet DEF ShardsOK
<1>6. TypeOK
  BY <1>1, <1>2, <1>4, <1>5 DEF TypeOK
<1> QED BY <1>1, <1>6 DEF PhaseInv, Closing

\* Shards that stay as they are stay well formed.
LEMMA ShardsKept ==
  ASSUME ShardsOK, UNCHANGED shards
  PROVE  ShardsOK'
BY DEF ShardsOK, ShardOK

\* A reload keeps shards and their slots; those that are not found again go.
LEMMA Reloaded ==
  ASSUME ShardsOK, NEW D, D \subseteq DOMAIN shards, shards' = [s \in D |-> Reload(shards[s])]
  PROVE  /\ ShardsOK' /\ LiveKeys' \subseteq LiveKeys
         /\ D = DOMAIN shards => LiveKeys' = LiveKeys
<1>1. /\ DOMAIN shards' = D
      /\ \A s \in D : shards'[s] = Reload(shards[s]) /\ ShardOK(shards[s])
  BY DEF ShardsOK
<1>2. \A s \in D : ShardOK(shards'[s]) /\ shards'[s].slots = shards[s].slots
  BY <1>1, ReloadOK
<1>3. ShardsOK'
  <2>1. IsFiniteSet(D)
    BY FS_Subset DEF ShardsOK
  <2> QED BY <1>1, <1>2, <2>1 DEF ShardsOK, ShardOK
<1>4. \A s \in D : \A k : LiveIn(shards'[s], k) <=> LiveIn(shards[s], k)
  BY <1>2 DEF LiveIn
<1>5. ASSUME NEW k PROVE k \in LiveKeys' <=> \E s \in D : LiveIn(shards[s], k)
  BY <1>1, <1>4, LiveKeyNext
<1> QED BY <1>3, <1>5, LiveKey

\* The entries of a replacement.
LEMMA ReplacementEntries ==
  ASSUME NEW r \in Replacements
  PROVE  /\ Entry(0, RemoveDocument(r.doc)) \in Entries
         /\ [i \in DOMAIN r.keys |-> Entry(0, AddPosting(r.keys[i]))] \in Seq(Entries)
<1>1. r.doc \in Doc /\ r.keys \in Seq(Key) /\ MaxOps \in Nat
  BY EngineAssumption DEF EngineAssumption
<1>2. \A i \in 1..Len(r.keys) : r.keys[i] \in Key
  BY <1>1
<1>3. \A o \in Operation : Entry(0, o) \in Entries
  BY <1>1 DEF Entry, Entries
<1>4. RemoveDocument(r.doc) \in Operation /\ \A k \in Key : AddPosting(k) \in Operation
  BY <1>1 DEF Operation
<1>5. DOMAIN r.keys = 1..Len(r.keys) /\ Len(r.keys) \in Nat
  BY <1>1
<1> QED BY <1>2, <1>3, <1>4, <1>5

LEMMA PhaseStep ==
  ASSUME PhaseInv, OrderInv, [Next]_vars
  PROVE  PhaseInv'
<1> USE DEF PhaseInv, Closing
<1>0. /\ TypeOK /\ ShardsOK
      /\ last \in 0..MaxOps /\ MaxOps \in Nat /\ ShardSize \in Nat \ {0} /\ RecoverySize \in Nat \ {0}
  BY EngineAssumption DEF TypeOK, EngineAssumption
<1> USE ShardsKept
<1>1. CASE WriteLog
  <2>1. \E S \in SUBSET waiting : logged' = logged \cup S /\ waiting' = waiting \ S
    BY <1>1 DEF WriteLog, Log!Write
  <2>2. UNCHANGED <<last, ops, callVars, indexVars, ghostVars>>
    BY <1>1 DEF WriteLog, Log!Write
  <2> QED BY <2>1, <2>2, <1>0 DEF TypeOK, callVars, indexVars, ghostVars
<1>2. CASE LoseOps
  <2>1. /\ waiting' \subseteq waiting /\ faults' = faults \cup {"lost"}
        /\ UNCHANGED <<last, logged, ops, callVars, indexVars, done, kept>>
    BY <1>2 DEF LoseOps, Log!Lose
  <2> QED BY <2>1, <1>0 DEF TypeOK, callVars, indexVars, Faults
<1>3. ASSUME NEW batch \in Calls, Call(batch) PROVE PhaseInv'
  <2>1. batch \in Seq(Operation)
    BY EngineAssumption DEF EngineAssumption
  <2> QED BY <1>3, <2>1, <1>0
      DEF Call, TypeOK, logVars, opLogVars, indexVars, ghostVars
<1>4. CASE StartProcessor
  BY <1>4, <1>0 DEF StartProcessor, TypeOK, logVars, opLogVars, indexVars, ghostVars
<1>5. CASE AddOperation
  <2>1. todo \in Seq(Operation) /\ todo # <<>> /\ last + Len(todo) <= MaxOps
    BY <1>5 DEF AddOperation, TypeOK
  <2>2. /\ Head(todo) \in Operation /\ Tail(todo) \in Seq(Operation)
        /\ Len(Tail(todo)) = Len(todo) - 1 /\ Len(todo) \in Nat \ {0}
    BY <2>1
  <2>3. last' = last + 1 /\ waiting' = waiting \cup {last + 1} /\ logged' = logged
    BY <1>5 DEF AddOperation, Log!Accept
  <2>4. /\ phase = "adding" /\ ops' = Append(ops, Head(todo)) /\ todo' = Tail(todo)
        /\ made' = Append(made, Entry(last + 1, Head(todo))) /\ kept' = Off
        /\ UNCHANGED <<processor, phase, pending, indexVars, done, faults>>
    BY <1>5 DEF AddOperation
  <2>5. last' \in 0..MaxOps /\ last' + Len(todo') <= MaxOps /\ 1..last \subseteq 1..last'
    BY <2>1, <2>2, <2>3, <2>4, <1>0
  <2>6. ops' \in Seq(Operation) /\ Len(ops') = last'
    BY <2>2, <2>3, <2>4, <1>0 DEF TypeOK
  <2>7. made' \in Seq(Entries)
    <3>1. Entry(last + 1, Head(todo)) \in Entries
      BY <2>2, <2>3, <2>5, <1>0 DEF Entry, Entries
    <3> QED BY <3>1, <2>4, <1>0 DEF TypeOK
  <2>8. kept' \in [on : BOOLEAN, live : SUBSET Key]
    BY <2>4 DEF Off
  <2>9. TypeOK'
    BY <2>2, <2>3, <2>4, <2>5, <2>6, <2>7, <2>8, <1>0 DEF TypeOK, indexVars
  <2> QED BY <2>4, <2>5, <2>9
<1>6. CASE CallFails
  BY <1>6, <1>0
  DEF CallFails, TypeOK, logVars, opLogVars, indexVars, Faults
<1>7. CASE CallReturns
  <2>1. (pending \o made) \in Seq(Entries)
    BY DEF TypeOK
  <2> QED BY <1>7, <2>1, <1>0
      DEF CallReturns, TypeOK, logVars, opLogVars, indexVars, ghostVars
<1>8. ASSUME NEW r \in Replacements, Replace(r) PROVE PhaseInv'
  <2>1. pending' \in Seq(Entries)
    <3> DEFINE e == Entry(0, RemoveDocument(r.doc))
               t == [i \in DOMAIN r.keys |-> Entry(0, AddPosting(r.keys[i]))]
    <3>1. e \in Entries /\ t \in Seq(Entries)
      BY ReplacementEntries
    <3>2. pending' = pending \o <<e>> \o t
      BY <1>8 DEF Replace
    <3> HIDE DEF e, t
    <3>3. <<e>> \in Seq(Entries) /\ pending \in Seq(Entries)
      BY <3>1 DEF TypeOK
    <3>4. (pending \o <<e>>) \in Seq(Entries)
      BY <3>3
    <3> QED BY <3>1, <3>2, <3>4
  <2>2. replaced' \in 0..MaxReplaced
    BY <1>8, <1>0, EngineAssumption DEF Replace, TypeOK, EngineAssumption
  <2>3. kept' \in [on : BOOLEAN, live : SUBSET Key]
    BY <1>8 DEF Replace, Off
  <2> QED BY <1>8, <2>1, <2>2, <2>3, <1>0 DEF Replace, TypeOK, logVars, opLogVars
<1>9. CASE CallFlush
  BY <1>9, <1>0 DEF CallFlush, TypeOK, logVars, opLogVars, indexVars, ghostVars
<1>10. CASE LogFlushed
  <2>1. faults' \subseteq Faults
    BY <1>10 DEF LogFlushed, TypeOK, Faults
  <2> QED BY <1>10, <2>1, <1>0 DEF LogFlushed, TypeOK, logVars, opLogVars, indexVars
<1>11. CASE FlushFails
  BY <1>11, <1>0 DEF FlushFails, TypeOK, logVars, opLogVars, indexVars, ghostVars
<1>12. CASE ApplyNext
  <2>1. todo \in Seq(Entries) /\ todo # <<>> /\ phase = "applying"
    BY <1>12 DEF ApplyNext, TypeOK
  <2>2. Head(todo) \in Entries /\ Tail(todo) \in Seq(Entries)
    BY <2>1
  <2> DEFINE e == Head(todo)
             known == IF e.n = 0 THEN faults \cup {"unlogged"} ELSE faults
  <2>3. known \subseteq Faults /\ e.op \in Operation
    BY <2>2 DEF TypeOK, Faults, Entries
  <2>4. ShardsOK' /\ faults' \subseteq Faults
    BY <1>12, <1>0, <2>3, Applied DEF ApplyNext
  <2>5. done' \subseteq 1..last
    <3>1. e \in Staged
      BY <2>1, RangeHeadTail DEF Staged
    <3>2. e.n # 0 => e.n \in 1..last
      BY <3>1 DEF OrderInv
    <3> QED BY <1>12, <3>2 DEF ApplyNext, TypeOK
  <2>6. /\ todo' = Tail(todo)
        /\ UNCHANGED <<logVars, processor, phase, made, pending, at, opens, replaced, kept>>
    BY <1>12 DEF ApplyNext
  <2> QED BY <2>1, <2>2, <2>4, <2>5, <2>6, <1>0 DEF TypeOK, logVars, opLogVars
<1>13. CASE FlushReturns
  <2>1. kept' \in [on : BOOLEAN, live : SUBSET Key]
    <3>1. LiveKeys \subseteq Key
      BY <1>0, LiveKeysType
    <3> QED BY <1>13, <3>1 DEF FlushReturns, TypeOK
  <2> QED BY <1>13, <2>1, <1>0 DEF FlushReturns, TypeOK, logVars, opLogVars, indexVars
<1>14. CASE Shutdown
  BY <1>14, <1>0 DEF Shutdown, TypeOK, logVars, opLogVars, indexVars, ghostVars
<1>15. CASE ShutdownReturns
  BY <1>15, <1>0 DEF ShutdownReturns, TypeOK, logVars, opLogVars, indexVars, ghostVars
<1>16. CASE Crash
  <2>1. /\ waiting' = {} /\ phase' = "closed" /\ opens < MaxOpens /\ processor' = FALSE
        /\ todo' = <<>> /\ made' = <<>> /\ pending' = <<>>
        /\ UNCHANGED <<last, logged, ops, indexVars, ghostVars>>
    BY <1>16 DEF Crash, Log!Lose
  <2>2. made' \in Seq(Entries) /\ pending' \in Seq(Entries)
    BY <2>1
  <2> QED BY <2>1, <2>2, <1>0 DEF TypeOK, indexVars, ghostVars
<1>17. CASE Open
  <2>1. ShardsOK'
    BY <1>17, <1>0, Reloaded DEF Open, Discovered
  <2>2. opens' \in 0..MaxOpens
    BY <1>17, <1>0, EngineAssumption DEF Open, TypeOK, EngineAssumption
  <2>3. /\ phase = "closed" /\ phase' = "replaying" /\ at' = 0 /\ done' = {}
        /\ UNCHANGED <<logVars, processor, todo, made, pending, replaced, kept, faults>>
    BY <1>17 DEF Open
  <2> QED BY <2>1, <2>2, <2>3, <1>0 DEF TypeOK, logVars, opLogVars
<1>18. ASSUME NEW n \in logged, ReplayNext(n) PROVE PhaseInv'
  <2>1. n \in 1..last /\ ops[n] \in Operation
    BY <1>0 DEF TypeOK
  <2>2. ShardsOK' /\ faults' \subseteq Faults
    <3>1. faults \subseteq Faults /\ Apply(ops[n], "index", RecoverySize, faults)
      BY <1>18, <1>0 DEF ReplayNext, TypeOK
    <3> QED BY <3>1, <2>1, <1>0, Applied
  <2>3. /\ phase = "replaying" /\ at' = n /\ done' = done \cup {n}
        /\ UNCHANGED <<logVars, callVars, opens, replaced, kept>>
    BY <1>18 DEF ReplayNext
  <2> QED BY <2>1, <2>2, <2>3, <1>0 DEF TypeOK, logVars, opLogVars, callVars
<1>19. CASE ReplayReturns
  <2>1. ShardsOK'
    BY <1>19, <1>0, Reloaded DEF ReplayReturns
  <2>2. /\ phase = "replaying" /\ phase' = "idle"
        /\ UNCHANGED <<logVars, processor, todo, made, pending, at, opens, replaced, ghostVars>>
    BY <1>19 DEF ReplayReturns
  <2> QED BY <2>1, <2>2, <1>0 DEF TypeOK, logVars, opLogVars, ghostVars
<1>20. CASE UNCHANGED vars
  BY <1>20, <1>0
  DEF vars, TypeOK, logVars, opLogVars, callVars, indexVars, ghostVars
<1> QED BY <1>1, <1>2, <1>3, <1>4, <1>5, <1>6, <1>7, <1>8, <1>9, <1>10, <1>11, <1>12, <1>13,
           <1>14, <1>15, <1>16, <1>17, <1>18, <1>19, <1>20 DEF Next
-----------------------------------------------------------------------------
(***************************************************************************)
(* The order of the entries.                                               *)
(***************************************************************************)
\* Entries staged are entries; their numbers are numbers.
LEMMA StagedType ==
  ASSUME PhaseInv
  PROVE  Staged \subseteq Entries /\ Numbers(Staged) \subseteq Nat
<1>1. \A s \in Seq(Entries) : Range(s) \subseteq Entries
  BY RangeOfSeq
<1>2. Staged \subseteq Entries
  <2>1. phase = "applying" => todo \in Seq(Entries)
    BY DEF PhaseInv, TypeOK
  <2> QED BY <1>1, <2>1 DEF PhaseInv, TypeOK, Staged
<1> QED BY <1>2 DEF Numbers, Entries

\* Nothing is staged while the index is closed or a replay goes on.
LEMMA NothingStaged ==
  ASSUME PhaseInv, Closing
  PROVE  Staged = {}
BY RangeEmpty DEF PhaseInv, Closing, Staged

\* Fewer entries keep the numbers they have.
LEMMA NumbersOf ==
  ASSUME NEW A, NEW B
  PROVE  /\ A \subseteq B => Numbers(A) \subseteq Numbers(B)
         /\ Numbers(A \cup B) = Numbers(A) \cup Numbers(B)
BY DEF Numbers

\* What a flush in progress stages is the rest of its operations.
LEMMA ApplyingStaged ==
  ASSUME PhaseInv, phase = "applying"
  PROVE  /\ todo \in Seq(Entries) /\ Staged = Range(todo)
         /\ todo # <<>> =>
              /\ Head(todo) \in Entries /\ Tail(todo) \in Seq(Entries)
              /\ Staged = {Head(todo)} \cup Range(Tail(todo))
<1>1. todo \in Seq(Entries) /\ made = <<>> /\ pending = <<>>
  BY DEF PhaseInv, TypeOK
<1>2. Staged = Range(todo)
  BY <1>1, RangeEmpty DEF Staged
<1> QED BY <1>1, <1>2, RangeHeadTail

\* What becomes of the staged entries.
LEMMA StagedNext ==
  ASSUME PhaseInv
  PROVE  /\ WriteLog \/ LoseOps \/ Quiet \/ CallReturns \/ LogFlushed => Staged' = Staged
         /\ AddOperation => Staged' = Staged \cup {Entry(last + 1, Head(todo))}
         /\ CallFails => Staged' \subseteq Staged /\ (made = <<>> => Staged' = Staged)
         /\ \A r \in Replacements : Replace(r) =>
              Staged \subseteq Staged' /\ \A x \in Staged' : x \in Staged \/ x.n = 0
         /\ ApplyNext => Staged' = Range(Tail(todo))
         /\ FlushReturns \/ Open \/ ReplayReturns => Staged = {} /\ Staged' = {}
         /\ Crash => Staged' = {}
         /\ \A n \in logged : ReplayNext(n) => Staged = {} /\ Staged' = {}
<1>0. /\ made \in Seq(Entries) /\ pending \in Seq(Entries)
      /\ phase # "adding" => made = <<>>
      /\ phase = "applying" => pending = <<>>
  BY DEF PhaseInv, TypeOK
<1>1. WriteLog \/ LoseOps \/ Quiet => Staged' = Staged
  BY DEF WriteLog, LoseOps, Quiet, Staged, callVars
<1>2. CallReturns => Staged' = Staged
  BY <1>0, RangeConcatenation, RangeEmpty DEF CallReturns, Staged
<1>3. LogFlushed => Staged' = Staged
  BY <1>0, RangeEmpty DEF LogFlushed, Staged
<1>4. ASSUME AddOperation PROVE Staged' = Staged \cup {Entry(last + 1, Head(todo))}
  <2>1. /\ phase = "adding" /\ phase' = phase /\ pending' = pending
        /\ made' = Append(made, Entry(last + 1, Head(todo)))
    BY <1>4 DEF AddOperation
  <2>2. Entry(last + 1, Head(todo)) \in Entries
    <3>1. todo \in Seq(Operation) /\ todo # <<>> /\ last + Len(todo) <= MaxOps
      BY <1>4 DEF AddOperation, PhaseInv, TypeOK
    <3>2. Head(todo) \in Operation /\ Len(todo) \in Nat \ {0}
      BY <3>1
    <3>3. last \in 0..MaxOps /\ MaxOps \in Nat
      BY EngineAssumption DEF PhaseInv, TypeOK, EngineAssumption
    <3> QED BY <3>1, <3>2, <3>3 DEF Entry, Entries
  <2>3. Range(made') = Range(made) \cup {Entry(last + 1, Head(todo))}
    BY <2>1, <2>2, <1>0, RangeAppend
  <2> QED BY <2>1, <2>3 DEF Staged
<1>5. CallFails => Staged' \subseteq Staged /\ (made = <<>> => Staged' = Staged)
  BY RangeEmpty DEF CallFails, Staged
<1>6. ASSUME NEW r \in Replacements, Replace(r)
      PROVE  Staged \subseteq Staged' /\ \A x \in Staged' : x \in Staged \/ x.n = 0
  <2> DEFINE e == Entry(0, RemoveDocument(r.doc))
             t == [i \in DOMAIN r.keys |-> Entry(0, AddPosting(r.keys[i]))]
  <2>1. e \in Entries /\ t \in Seq(Entries)
    BY ReplacementEntries
  <2>2. e.n = 0 /\ \A x \in Range(t) : x.n = 0
    <3>1. e.n = 0
      BY DEF Entry
    <3>2. ASSUME NEW x \in Range(t) PROVE x.n = 0
      <4>1. PICK i \in DOMAIN r.keys : x = Entry(0, AddPosting(r.keys[i]))
        BY DEF Range
      <4> QED BY <4>1 DEF Entry
    <3> QED BY <3>1, <3>2
  <2>3. pending' = pending \o <<e>> \o t /\ made' = made /\ phase = "idle" /\ phase' = "flushing"
    BY <1>6 DEF Replace
  <2> HIDE DEF e, t
  <2> DEFINE u == <<e>>
  <2>4. u \in Seq(Entries) /\ Range(u) = {e}
    BY <2>1 DEF Range
  <2>5. pending' = (pending \o u) \o t
    BY <2>3
  <2> HIDE DEF u
  <2> DEFINE w == pending \o u
  <2>6. w \in Seq(Entries) /\ Range(w) = Range(pending) \cup {e}
    BY <2>4, <1>0, RangeConcatenation
  <2> HIDE DEF w
  <2>7. Range(pending') = Range(pending) \cup {e} \cup Range(t)
    <3>1. Range(w \o t) = Range(w) \cup Range(t)
      BY <2>1, <2>6, RangeConcatenation
    <3> QED BY <2>5, <2>6, <3>1 DEF w
  <2>8. Staged' = Staged \cup {e} \cup Range(t)
    BY <2>3, <2>7 DEF Staged
  <2> QED BY <2>2, <2>8
<1>7. ASSUME ApplyNext PROVE Staged' = Range(Tail(todo))
  BY <1>0, <1>7, RangeEmpty DEF ApplyNext, Staged
<1>8. ASSUME FlushReturns PROVE Staged = {} /\ Staged' = {}
  BY <1>0, <1>8, RangeEmpty DEF FlushReturns, Staged
<1>9. Crash => Staged' = {}
  BY RangeEmpty DEF Crash, Staged
<1>10. ASSUME Open \/ ReplayReturns \/ \E n \in logged : ReplayNext(n)
       PROVE  Staged = {} /\ Staged' = {}
  <2>1. phase \in {"closed", "replaying"} /\ phase' # "applying" /\ UNCHANGED <<made, pending>>
    BY <1>10 DEF Open, ReplayReturns, ReplayNext, callVars
  <2>2. made = <<>> /\ pending = <<>>
    BY <2>1 DEF PhaseInv, Closing
  <2> QED BY <2>1, <2>2, RangeEmpty DEF Staged
<1> QED BY <1>1, <1>2, <1>3, <1>4, <1>5, <1>6, <1>7, <1>8, <1>9, <1>10

\* Each part of the order, one step later.
LEMMA EntriesStep ==
  ASSUME PhaseInv, OrderInv, Next
  PROVE  \A e \in Staged' : e.n # 0 => e.n \in 1..last' /\ ops'[e.n] = e.op
<1>0. /\ \A e \in Staged : e.n # 0 => e.n \in 1..last /\ ops[e.n] = e.op
      /\ last \in Nat /\ ops \in Seq(Operation) /\ Len(ops) = last
  BY EngineAssumption DEF OrderInv, PhaseInv, TypeOK, EngineAssumption
<1>1. CASE WriteLog \/ LoseOps \/ Quiet \/ CallReturns \/ LogFlushed
  <2>1. UNCHANGED <<last, ops>>
    BY <1>1 DEF WriteLog, Log!Write, LoseOps, Quiet, CallReturns, LogFlushed, logVars, opLogVars
  <2> QED BY <1>0, <1>1, <2>1, StagedNext
<1>2. CASE AddOperation
  <2>1. todo \in Seq(Operation) /\ todo # <<>>
    BY <1>2 DEF AddOperation, PhaseInv, TypeOK
  <2>2. last' = last + 1 /\ ops' = Append(ops, Head(todo))
    BY <1>2 DEF AddOperation, Log!Accept
  <2>3. /\ \A n \in 1..last : n \in 1..last' /\ ops'[n] = ops[n]
        /\ ops'[last + 1] = Head(todo) /\ last + 1 \in 1..last'
    BY <1>0, <2>1, <2>2
  <2>4. Staged' = Staged \cup {Entry(last + 1, Head(todo))}
    BY <1>2, StagedNext
  <2> QED BY <1>0, <2>3, <2>4 DEF Entry
<1>3. CASE CallFails
  <2>1. UNCHANGED <<last, ops>>
    BY <1>3 DEF CallFails, logVars, opLogVars
  <2> QED BY <1>0, <1>3, <2>1, StagedNext
<1>4. ASSUME NEW r \in Replacements, Replace(r), NEW e \in Staged', e.n # 0
      PROVE  e.n \in 1..last' /\ ops'[e.n] = e.op
  <2>1. UNCHANGED <<last, ops, made>> /\ phase' # "applying" /\ phase # "applying"
    BY <1>4 DEF Replace, logVars, opLogVars
  <2>2. e \in Staged
    BY <1>4, StagedNext
  <2> QED BY <1>0, <1>4, <2>1, <2>2
<1>5. ASSUME ApplyNext, NEW e \in Staged' PROVE e \in Staged /\ UNCHANGED <<last, ops>>
  <2>1. phase = "applying" /\ todo # <<>> /\ UNCHANGED <<last, ops>>
    BY <1>5 DEF ApplyNext, logVars, opLogVars
  <2> QED BY <1>5, <2>1, StagedNext, ApplyingStaged
<1>6. ASSUME FlushReturns \/ Crash \/ Open \/ ReplayReturns \/ \E n \in logged : ReplayNext(n)
      PROVE  Staged' = {}
  BY <1>6, StagedNext
<1> QED BY <1>0, <1>1, <1>2, <1>3, <1>4, <1>5, <1>6, StepCases

LEMMA OrderedStep ==
  ASSUME PhaseInv, OrderInv, Next
  PROVE  /\ Ordered(pending') /\ Ordered(made') /\ Before(Range(pending'), Range(made'))
         /\ phase' = "applying" => Ordered(todo')
<1>0. /\ made \in Seq(Entries) /\ pending \in Seq(Entries)
      /\ phase # "adding" => made = <<>>
      /\ Ordered(pending) /\ Ordered(made) /\ Before(Range(pending), Range(made))
      /\ phase = "applying" => Ordered(todo) /\ pending = <<>>
  BY DEF PhaseInv, TypeOK, OrderInv
<1>1. \A s : Before(s, Range(<<>>)) /\ Before(Range(<<>>), s)
  BY RangeEmpty DEF Before, Numbers
<1>2. CASE WriteLog \/ LoseOps \/ Quiet \/ FlushReturns \/ Open \/ ReplayReturns \/ \E n \in logged : ReplayNext(n)
  <2>1. UNCHANGED <<made, pending>> /\ (phase' = "applying" => UNCHANGED <<phase, todo>>)
    BY <1>2 DEF WriteLog, LoseOps, Quiet, FlushReturns, Open, ReplayReturns, ReplayNext, callVars
  <2> QED BY <1>0, <2>1
<1>3. CASE AddOperation
  <2> DEFINE e == Entry(last + 1, Head(todo))
  <2>1. pending' = pending /\ made' = Append(made, e) /\ phase' = phase /\ phase = "adding"
    BY <1>3 DEF AddOperation
  <2>2. e \in Entries /\ e.n = last + 1 /\ last \in Nat
    <3>1. todo \in Seq(Operation) /\ todo # <<>> /\ last + Len(todo) <= MaxOps
      BY <1>3 DEF AddOperation, PhaseInv, TypeOK
    <3>2. Head(todo) \in Operation /\ Len(todo) \in Nat \ {0}
      BY <3>1
    <3>3. last \in 0..MaxOps /\ MaxOps \in Nat
      BY EngineAssumption DEF PhaseInv, TypeOK, EngineAssumption
    <3> QED BY <3>1, <3>2, <3>3 DEF Entry, Entries
  <2>3. \A x \in Staged : x.n # 0 => x.n \in 1..last
    BY DEF OrderInv
  <2> HIDE DEF e
  <2>4. \A x \in Range(made) \cup Range(pending) : x.n # 0 => x.n < e.n
    BY <2>2, <2>3 DEF Staged
  <2>5. Ordered(made')
    BY <1>0, <2>1, <2>2, <2>4, OrderedAppend
  <2>6. Range(made') = Range(made) \cup {e}
    BY <1>0, <2>1, <2>2, RangeAppend
  <2>7. Before(Range(pending), Range(made'))
    BY <1>0, <2>4, <2>6 DEF Before, Numbers
  <2> QED BY <1>0, <2>1, <2>5, <2>7
<1>4. CASE CallFails \/ Crash
  BY <1>0, <1>1, <1>4, OrderedEmpty DEF CallFails, Crash
<1>5. CASE CallReturns
  BY <1>0, <1>1, <1>5, OrderedEmpty, OrderedConcat DEF CallReturns
<1>6. ASSUME NEW r \in Replacements, Replace(r) PROVE Ordered(pending') /\ made' = <<>> /\ phase' # "applying"
  <2> DEFINE e == Entry(0, RemoveDocument(r.doc))
             u == <<e>>
             t == [i \in DOMAIN r.keys |-> Entry(0, AddPosting(r.keys[i]))]
             w == pending \o u
  <2>1. e \in Entries /\ t \in Seq(Entries)
    BY ReplacementEntries
  <2>2. e.n = 0 /\ \A i \in DOMAIN t : t[i].n = 0
    BY DEF Entry
  <2>3. u \in Seq(Entries) /\ \A i \in DOMAIN u : u[i].n = 0
    <3>1. DOMAIN <<e>> = {1} /\ <<e>>[1] = e
      OBVIOUS
    <3> QED BY <2>1, <2>2, <3>1
  <2>4. pending' = w \o t /\ made' = made /\ phase = "idle" /\ phase' = "flushing"
    BY <1>6 DEF Replace
  <2> HIDE DEF u, t
  <2>5. ASSUME NEW s, \A i \in DOMAIN s : s[i].n = 0
        PROVE  Ordered(s) /\ \A x : Before(x, Range(s))
    BY <2>5 DEF Ordered, Before, Numbers, Range
  <2>6. w \in Seq(Entries) /\ Ordered(w)
    BY <1>0, <2>3, <2>5, OrderedConcat
  <2> HIDE DEF w
  <2>7. Ordered(w \o t)
    BY <2>1, <2>2, <2>5, <2>6, OrderedConcat
  <2> QED BY <1>0, <2>4, <2>7
<1>7. CASE LogFlushed
  BY <1>0, <1>1, <1>7, OrderedEmpty DEF LogFlushed
<1>8. CASE ApplyNext
  <2>1. /\ phase = "applying" /\ todo # <<>> /\ todo' = Tail(todo)
        /\ UNCHANGED <<made, pending>>
    BY <1>8 DEF ApplyNext
  <2> QED BY <1>0, <2>1, ApplyingStaged, OrderedTail
<1> QED BY <1>0, <1>1, <1>2, <1>3, <1>4, <1>5, <1>6, <1>7, <1>8, OrderedEmpty, StepCases

LEMMA BehindStep ==
  ASSUME PhaseInv, OrderInv, Next
  PROVE  \A n \in done', m \in Numbers(Staged') : n < m
<1>0. /\ \A n \in done, m \in Numbers(Staged) : n < m
      /\ done \subseteq 1..last /\ last \in Nat
  BY EngineAssumption DEF OrderInv, PhaseInv, TypeOK, EngineAssumption
<1>1. CASE WriteLog \/ LoseOps \/ Quiet \/ CallReturns \/ LogFlushed \/ CallFails
  <2>1. done' = done /\ Staged' \subseteq Staged
    BY <1>1, StagedNext
    DEF WriteLog, LoseOps, Quiet, CallReturns, LogFlushed, CallFails, ghostVars
  <2> QED BY <1>0, <2>1, NumbersOf
<1>2. CASE AddOperation
  <2>1. done' = done /\ Staged' = Staged \cup {Entry(last + 1, Head(todo))}
    BY <1>2, StagedNext DEF AddOperation
  <2> QED BY <1>0, <2>1 DEF Numbers, Entry
<1>3. ASSUME NEW r \in Replacements, Replace(r) PROVE done' = done /\ Numbers(Staged') = Numbers(Staged)
  BY <1>3, StagedNext DEF Replace, Numbers
<1>4. CASE ApplyNext
  <2>1. phase = "applying" /\ todo # <<>> /\ done' = done \cup ({Head(todo).n} \ {0})
    BY <1>4 DEF ApplyNext
  <2>2. /\ todo \in Seq(Entries) /\ Staged = {Head(todo)} \cup Range(Tail(todo))
        /\ Ordered(todo) /\ Staged' = Range(Tail(todo))
    BY <1>4, <2>1, ApplyingStaged, StagedNext DEF OrderInv
  <2>3. Head(todo).n # 0 => \A m \in Numbers(Staged') : Head(todo).n < m
    BY <2>1, <2>2, OrderedTail
  <2>4. Numbers(Staged') \subseteq Numbers(Staged)
    BY <2>2, NumbersOf
  <2> QED BY <1>0, <2>1, <2>3, <2>4
<1>5. CASE FlushReturns \/ Crash \/ Open \/ ReplayReturns \/ \E n \in logged : ReplayNext(n)
  BY <1>5, StagedNext DEF Numbers
<1> QED BY <1>0, <1>1, <1>2, <1>3, <1>4, <1>5, StepCases

LEMMA OrderStep ==
  ASSUME PhaseInv, OrderInv, Next
  PROVE  OrderInv'
BY EntriesStep, OrderedStep, BehindStep DEF OrderInv, Ordered, Before, Numbers
-----------------------------------------------------------------------------
(***************************************************************************)
(* What is staged and what was applied is in the log.                      *)
(***************************************************************************)
\* An operation applied adds to the faults that are known.
LEMMA ApplyFaults ==
  ASSUME NEW o, NEW home, NEW size, NEW known, Apply(o, home, size, known)
  PROVE  known \subseteq faults'
BY DEF Apply

\* What went wrong once stays wrong.
LEMMA FaultsStay ==
  ASSUME Next
  PROVE  faults \subseteq faults'
<1>1. CASE WriteLog \/ LoseOps \/ AddOperation \/ CallFails \/ CallReturns \/ LogFlushed \/ FlushReturns
  BY <1>1 DEF WriteLog, LoseOps, AddOperation, CallFails, CallReturns, LogFlushed, FlushReturns, ghostVars
<1>2. CASE StartProcessor \/ CallFlush \/ FlushFails \/ Shutdown \/ ShutdownReturns
  BY <1>2 DEF StartProcessor, CallFlush, FlushFails, Shutdown, ShutdownReturns, ghostVars
<1>3. CASE Crash \/ Open \/ ReplayReturns
  BY <1>3 DEF Crash, Open, ReplayReturns, ghostVars
<1>4. ASSUME NEW batch \in Calls, Call(batch) PROVE UNCHANGED faults
  BY <1>4 DEF Call, ghostVars
<1>5. ASSUME NEW r \in Replacements, Replace(r) PROVE UNCHANGED faults
  BY <1>5 DEF Replace
<1>6. CASE ApplyNext
  BY <1>6, ApplyFaults DEF ApplyNext
<1>7. ASSUME NEW n \in logged, ReplayNext(n) PROVE faults \subseteq faults'
  BY <1>7, ApplyFaults DEF ReplayNext
<1> QED BY <1>1, <1>2, <1>3, <1>4, <1>5, <1>6, <1>7 DEF Next

\* What the steps do to the log.
LEMMA LogNext ==
  /\ WriteLog => /\ logged \subseteq logged' /\ logged' \cup waiting' = logged \cup waiting
                 /\ waiting' \subseteq waiting /\ waiting # {} /\ UNCHANGED <<last, ops>>
  /\ LoseOps \/ Crash => waiting' \subseteq waiting /\ UNCHANGED <<last, ops, logged>>
  /\ AddOperation => /\ last' = last + 1 /\ waiting' = waiting \cup {last + 1} /\ logged' = logged
                     /\ ops' = Append(ops, Head(todo))
  /\ Quiet \/ CallFails \/ CallReturns \/ LogFlushed \/ ApplyNext \/ FlushReturns \/ Open \/ ReplayReturns
       => UNCHANGED <<last, ops, logged, waiting>>
  /\ \A r \in Replacements : Replace(r) => UNCHANGED <<last, ops, logged, waiting>>
  /\ \A n \in logged : ReplayNext(n) => UNCHANGED <<last, ops, logged, waiting>>
<1>1. ASSUME WriteLog
      PROVE  /\ logged \subseteq logged' /\ logged' \cup waiting' = logged \cup waiting
             /\ waiting' \subseteq waiting /\ waiting # {} /\ UNCHANGED <<last, ops>>
  <2>1. PICK S \in SUBSET waiting : logged' = logged \cup S /\ waiting' = waiting \ S
    BY <1>1 DEF WriteLog, Log!Write
  <2> QED BY <1>1, <2>1 DEF WriteLog, Log!Write
<1>2. LoseOps \/ Crash => waiting' \subseteq waiting /\ UNCHANGED <<last, ops, logged>>
  BY DEF LoseOps, Crash, Log!Lose
<1>3. AddOperation => /\ last' = last + 1 /\ waiting' = waiting \cup {last + 1} /\ logged' = logged
                      /\ ops' = Append(ops, Head(todo))
  BY DEF AddOperation, Log!Accept
<1>4. ASSUME UNCHANGED logVars PROVE UNCHANGED <<last, ops, logged, waiting>>
  BY <1>4 DEF logVars, opLogVars
<1>5. Quiet \/ CallFails \/ CallReturns \/ LogFlushed => UNCHANGED logVars
  BY DEF Quiet, CallFails, CallReturns, LogFlushed
<1>6. ApplyNext \/ FlushReturns \/ Open \/ ReplayReturns => UNCHANGED logVars
  BY DEF ApplyNext, FlushReturns, Open, ReplayReturns
<1>7. \A r \in Replacements : Replace(r) => UNCHANGED logVars
  BY DEF Replace
<1>8. \A n \in logged : ReplayNext(n) => UNCHANGED logVars
  BY DEF ReplayNext
<1> QED BY <1>1, <1>2, <1>3, <1>4, <1>5, <1>6, <1>7, <1>8

LEMMA LogStep ==
  ASSUME PhaseInv, OrderInv, LogInv, Next
  PROVE  LogInv'
<1> SUFFICES ASSUME "lost" \notin faults'
             PROVE  /\ Numbers(Staged') \subseteq logged' \cup waiting'
                    /\ phase' = "applying" => waiting' = {}
                    /\ done' \subseteq logged'
  BY DEF LogInv, Numbers
<1>0. /\ Numbers(Staged) \subseteq logged \cup waiting
      /\ phase = "applying" => waiting = {}
      /\ done \subseteq logged
      /\ last \in Nat /\ 0 \notin logged
  BY FaultsStay, EngineAssumption DEF LogInv, PhaseInv, TypeOK, EngineAssumption
<1>1. CASE WriteLog \/ Quiet \/ CallReturns \/ CallFails
  <2>1. Numbers(Staged') \subseteq Numbers(Staged) /\ done' = done
    BY <1>1, StagedNext, NumbersOf DEF WriteLog, Quiet, CallReturns, CallFails, ghostVars
  <2>2. phase' = "applying" => phase = "applying"
    BY <1>1 DEF WriteLog, Quiet, CallReturns, CallFails, callVars
  <2> QED BY <1>0, <1>1, <2>1, <2>2, LogNext
<1>2. CASE LoseOps
  BY <1>2 DEF LoseOps
<1>3. CASE AddOperation
  <2>1. Numbers(Staged') \subseteq Numbers(Staged) \cup {last + 1}
    BY <1>3, StagedNext DEF Numbers, Entry
  <2>2. done' = done /\ phase' = "adding"
    BY <1>3 DEF AddOperation
  <2> QED BY <1>0, <1>3, <2>1, <2>2, LogNext
<1>4. ASSUME NEW r \in Replacements, Replace(r)
      PROVE  /\ Numbers(Staged') = Numbers(Staged) /\ done' = done /\ phase' # "applying"
             /\ UNCHANGED <<logged, waiting>>
  BY <1>4, StagedNext, LogNext DEF Replace, Numbers
<1>5. CASE LogFlushed
  <2>1. waiting = {} /\ done' = done
    BY <1>5 DEF LogFlushed, LogSettled
  <2> QED BY <1>0, <1>5, <2>1, StagedNext, LogNext
<1>6. CASE ApplyNext
  <2>1. phase = "applying" /\ todo # <<>> /\ done' = done \cup ({Head(todo).n} \ {0})
    BY <1>6 DEF ApplyNext
  <2>2. Staged = {Head(todo)} \cup Staged'
    BY <1>6, <2>1, ApplyingStaged, StagedNext
  <2>3. Numbers(Staged) = ({Head(todo).n} \ {0}) \cup Numbers(Staged')
    BY <2>2 DEF Numbers
  <2> QED BY <1>0, <1>6, <2>1, <2>3, LogNext
<1>7. CASE FlushReturns \/ Crash \/ Open \/ ReplayReturns
  <2>1. Numbers(Staged') = {} /\ phase' # "applying" /\ done' \subseteq done
    BY <1>7, StagedNext DEF FlushReturns, Crash, Open, ReplayReturns, ghostVars, Numbers
  <2> QED BY <1>0, <1>7, <2>1, LogNext
<1>8. ASSUME NEW n \in logged, ReplayNext(n)
      PROVE  /\ Numbers(Staged') = {} /\ phase' # "applying" /\ done' = done \cup {n}
             /\ UNCHANGED <<logged, waiting>>
  BY <1>8, StagedNext, LogNext DEF ReplayNext, callVars, Numbers
<1> QED BY <1>0, <1>1, <1>2, <1>3, <1>4, <1>5, <1>6, <1>7, <1>8, StepCases
-----------------------------------------------------------------------------
(***************************************************************************)
(* What the shards hold.                                                   *)
(***************************************************************************)
\* The live postings depend on the shards alone.
LEMMA SameShards ==
  ASSUME UNCHANGED shards
  PROVE  LiveKeys' = LiveKeys
BY DEF LiveKeys, Live

\* The operations there are stay as they are.
LEMMA OpsStay ==
  ASSUME PhaseInv, Next
  PROVE  last <= last' /\ \A n \in 1..last : ops'[n] = ops[n]
<1>0. last \in Nat /\ ops \in Seq(Operation) /\ Len(ops) = last
  BY EngineAssumption DEF PhaseInv, TypeOK, EngineAssumption
<1>1. CASE AddOperation
  <2>1. todo \in Seq(Operation) /\ todo # <<>>
    BY <1>1 DEF AddOperation, PhaseInv, TypeOK
  <2>2. Head(todo) \in Operation
    BY <2>1
  <2>3. last' = last + 1 /\ ops' = Append(ops, Head(todo))
    BY <1>1, LogNext
  <2> QED BY <1>0, <2>2, <2>3
<1>2. CASE ~AddOperation
  <2>1. UNCHANGED <<last, ops>>
    BY <1>2, LogNext, StepCases
  <2> QED BY <1>0, <2>1
<1> QED BY <1>1, <1>2

\* An operation applied behind all others.
Landed(n, ns, more) ==
  \/ \E k \in Key : /\ ops[n] = AddPosting(k)
                    /\ LiveKeys' = LiveKeys \cup {k}
                    /\ LeftBy(more) = LeftBy(ns) \cup {k}
  \/ \E d \in Doc : /\ ops[n] = RemoveDocument(d)
                    /\ LiveKeys' = Except(LiveKeys, d)
                    /\ LeftBy(more) = Except(LeftBy(ns), d)

LEMMA LeftNext ==
  ASSUME ShardsOK, NEW ns, NEW n, NEW more, Extended(more, ns, n),
         ops[n] \in Operation, NEW home \in {"shards", "index"}, NEW size \in Nat \ {0},
         NEW known, known \subseteq Faults, Apply(ops[n], home, size, known)
  PROVE  "full" \in faults' \/ Landed(n, ns, more)
<1>1. LeftBy(more) = LeftOf(ops, more) /\ LeftBy(ns) = LeftOf(ops, ns)
  BY LeftByIsLeftOf
<1>2. \/ "full" \in faults'
      \/ ops[n].kind = "add" /\ LiveKeys' = LiveKeys \cup {ops[n].key}
      \/ ops[n].kind = "remove" /\ LiveKeys' = Except(LiveKeys, ops[n].doc)
  BY Applied
<1>3. ASSUME NEW k \in Key, ops[n] = AddPosting(k)
      PROVE  LeftBy(more) = LeftBy(ns) \cup {k}
  BY <1>1, <1>3, LeftOfAdd
<1>4. ASSUME NEW d, ops[n] = RemoveDocument(d)
      PROVE  LeftBy(more) = Except(LeftBy(ns), d)
  <2>1. LeftOf(ops, more) = Except(LeftOf(ops, ns), d)
    BY <1>4, LeftOfRemove
  <2> QED BY <1>1, <2>1
<1> QED BY <1>2, <1>3, <1>4, OperationCases DEF Landed

LEMMA ShardStep ==
  ASSUME PhaseInv, OrderInv, LogInv, ShardInv, LogInv', Next
  PROVE  ShardInv'
<1> SUFFICES ASSUME faults' \subseteq {"failedCall"} PROVE ShardInv'
  BY DEF ShardInv
<1>0. /\ ShardsOK /\ last \in Nat /\ logged \subseteq 1..last /\ done \subseteq 1..last
      /\ at \in Nat /\ \A n \in 1..last : ops[n] \in Operation
      /\ faults \subseteq faults' /\ faults \subseteq {"failedCall"}
      /\ \A n \in logged : n \in Nat /\ n > 0
  <2>1. last \in Nat /\ ops \in Seq(Operation) /\ Len(ops) = last
    BY EngineAssumption DEF PhaseInv, TypeOK, EngineAssumption
  <2>2. ShardsOK /\ logged \subseteq 1..last /\ done \subseteq 1..last /\ at \in 0..last
    BY DEF PhaseInv, TypeOK
  <2>3. \A n \in 1..last : ops[n] \in Operation
    BY <2>1
  <2>4. \A n \in logged : n \in Nat /\ n > 0
    BY <2>2
  <2>5. faults \subseteq faults' /\ faults \subseteq {"failedCall"}
    BY FaultsStay
  <2> QED BY <2>1, <2>2, <2>3, <2>4, <2>5
<1>1. /\ \A k \in LiveKeys : Added(k)
      /\ ~Closing => LiveKeys = LeftBy(done)
      /\ phase = "replaying" =>
           /\ \A n \in logged : n \in done <=> n <= at
           /\ LeftBy(done) \subseteq LiveKeys
           /\ \A k \in LiveKeys : k \in LeftBy(done) \/ Kept(k, done)
  BY <1>0 DEF ShardInv
<1>2. done \subseteq logged /\ done' \subseteq logged' /\ logged \subseteq logged'
  <2>1. "lost" \notin faults' /\ "lost" \notin faults
    BY <1>0
  <2>2. logged \subseteq logged'
    BY LogNext, StepCases
  <2> QED BY <2>1, <2>2 DEF LogInv
<1>3. \A n \in 1..last : ops'[n] = ops[n]
  BY OpsStay
<1>4. ASSUME \A k \in LiveKeys' : k \in LiveKeys PROVE \A k \in LiveKeys' : Added(k)'
  BY <1>0, <1>1, <1>2, <1>3, <1>4 DEF Added
<1>5. CASE WriteLog \/ LoseOps \/ Quiet \/ AddOperation \/ CallFails \/ CallReturns \/ LogFlushed
           \/ FlushReturns \/ \E r \in Replacements : Replace(r)
  <2>1. UNCHANGED <<shards, done>>
    BY <1>5 DEF WriteLog, LoseOps, Quiet, AddOperation, CallFails, CallReturns, LogFlushed,
                FlushReturns, Replace, indexVars, ghostVars
  <2>2. ~Closing /\ ~Closing'
    <3>1. WriteLog => waiting # {} /\ UNCHANGED phase
      BY LogNext DEF WriteLog, callVars
    <3>2. ~LoseOps
      BY DEF LoseOps
    <3> QED BY <1>5, <3>1, <3>2
        DEF PhaseInv, Closing, Quiet, AddOperation, CallFails, CallReturns, LogFlushed, FlushReturns, Replace
  <2>3. LeftBy(done)' = LeftBy(done)
    BY <1>0, <1>3, <2>1 DEF LeftBy
  <2> QED BY <1>1, <1>4, <2>1, <2>2, <2>3, SameShards DEF ShardInv, Closing
<1>6. CASE ApplyNext
  <2> DEFINE n == Head(todo).n
             known == IF n = 0 THEN faults \cup {"unlogged"} ELSE faults
  <2>1. /\ phase = "applying" /\ todo # <<>> /\ phase' = phase /\ done' = done \cup ({n} \ {0})
        /\ Apply(Head(todo).op, "shards", ShardSize, known)
    BY <1>6 DEF ApplyNext
  <2>2. Head(todo) \in Staged /\ Head(todo) \in Entries
    BY <2>1, ApplyingStaged
  <2>3. ShardSize \in Nat \ {0} /\ known \subseteq Faults /\ Head(todo).op \in Operation
    BY <2>2, EngineAssumption DEF EngineAssumption, PhaseInv, TypeOK, Faults, Entries
  <2>4. n # 0
    <3>1. known \subseteq faults'
      BY <2>1, ApplyFaults
    <3> QED BY <3>1
  <2>5. n \in 1..last /\ ops[n] = Head(todo).op /\ n \in Numbers(Staged)
    BY <2>2, <2>4 DEF OrderInv, Numbers
  <2>6. n \in Nat /\ \A m \in done : m \in Nat /\ m < n
    BY <1>0, <2>5 DEF OrderInv
  <2>0. PICK more : more = done \cup {n}
    OBVIOUS
  <2>7. done' = more /\ n \in logged'
    BY <2>0, <2>1, <2>4, <1>2
  <2>8. Landed(n, done, more)
    <3>1. ops[n] \in Operation /\ Apply(ops[n], "shards", ShardSize, known)
      BY <2>1, <2>3, <2>5
    <3>2. "full" \notin faults'
      OBVIOUS
    <3> HIDE DEF n, known
    <3>3. Extended(more, done, n)
      BY <2>6, <2>0 DEF Extended
    <3>4. "shards" \in {"shards", "index"}
      OBVIOUS
    <3> QED BY <1>0, <2>3, <3>1, <3>2, <3>3, <3>4, LeftNext
  <2>9. LiveKeys' = LeftBy(more)
    BY <1>1, <2>1, <2>8 DEF Closing, Landed
  <2>10. LeftBy(done)' = LeftBy(more)
    BY <1>0, <1>3, <2>5, <2>7, <2>0 DEF LeftBy
  <2>11. \A k \in LiveKeys' : k \in LiveKeys \/ ops[n] = AddPosting(k)
    BY <2>8 DEF Except, Landed
  <2>12. \A k \in LiveKeys' : Added(k)'
    BY <1>0, <1>1, <1>2, <1>3, <2>5, <2>7, <2>11 DEF Added
  <2> QED BY <2>1, <2>9, <2>10, <2>12 DEF ShardInv, Closing
<1>7. CASE Crash
  <2>1. UNCHANGED shards /\ phase' = "closed"
    BY <1>7 DEF Crash, indexVars
  <2> QED BY <1>4, <2>1, SameShards DEF ShardInv, Closing
<1>8. CASE Open
  <2>1. LiveKeys' \subseteq LiveKeys
    BY <1>0, <1>8, Reloaded DEF Open, Discovered
  <2>2. phase' = "replaying" /\ done' = {} /\ at' = 0 /\ UNCHANGED logged
    BY <1>8, LogNext DEF Open
  <2>3. \A n \in logged' : n \in done' <=> n <= at'
    <3>1. \A n \in logged : ~(n <= 0)
      BY <1>0
    <3> QED BY <2>2, <3>1
  <2>4. LeftBy(done)' = {}
    BY <2>2 DEF LeftBy
  <2>5. \A k \in LiveKeys' : Kept(k, done)'
    BY <2>2 DEF Kept
  <2> QED BY <1>4, <2>1, <2>2, <2>3, <2>4, <2>5 DEF ShardInv, Closing
<1>9. ASSUME NEW n \in logged, ReplayNext(n) PROVE ShardInv'
  <2>1. /\ phase = "replaying" /\ phase' = phase /\ ToReplay(n) /\ at' = n /\ done' = done \cup {n}
        /\ Apply(ops[n], "index", RecoverySize, faults) /\ UNCHANGED <<logged, ops>>
    BY <1>9, LogNext DEF ReplayNext, callVars
  <2>2. RecoverySize \in Nat \ {0} /\ faults \subseteq Faults
    BY EngineAssumption DEF EngineAssumption, PhaseInv, TypeOK
  <2>3. n \in Nat /\ \A m \in done : m \in Nat /\ m < n
    <3>1. n > at /\ \A m \in done : m \in logged /\ m <= at
      BY <1>1, <1>2, <2>1 DEF ToReplay
    <3>2. n \in Nat /\ \A m \in logged : m \in Nat
      BY <1>0
    <3> QED BY <1>0, <3>1, <3>2
  <2>0. PICK more : more = done \cup {n}
    OBVIOUS
  <2>4. Landed(n, done, more)
    <3>1. ops[n] \in Operation /\ "full" \notin faults'
      BY <1>0
    <3>2. Extended(more, done, n)
      BY <2>3, <2>0 DEF Extended
    <3>3. "index" \in {"shards", "index"}
      OBVIOUS
    <3> QED BY <1>0, <2>1, <2>2, <3>1, <3>2, <3>3, LeftNext
  <2>5. LeftBy(done)' = LeftBy(more)
    BY <2>1, <2>0 DEF LeftBy
  <2>6. \A m \in logged' : m \in done' <=> m <= at'
    <3>1. \A m \in logged : m <= n <=> m <= at \/ m = n
      BY <1>0, <2>1 DEF ToReplay
    <3> QED BY <1>1, <2>1, <3>1
  <2>7. LeftBy(done)' \subseteq LiveKeys'
    BY <1>1, <2>1, <2>4, <2>5 DEF Except, Landed
  <2>8. ASSUME NEW k \in LiveKeys' PROVE k \in LeftBy(done)' \/ Kept(k, done)'
    <3>1. CASE k \in LiveKeys /\ Kept(k, done) /\ ops[n] # RemoveDocument(DocOf[k])
      BY <3>1, <2>1 DEF Kept
    <3>2. CASE ops[n] = RemoveDocument(DocOf[k])
      BY <3>2, <2>4, OperationsDiffer DEF Except, Landed
    <3>3. CASE k \in LeftBy(done) /\ ops[n] # RemoveDocument(DocOf[k])
      BY <3>3, <2>4, <2>5, OperationsDiffer DEF Except, Landed
    <3>4. CASE k \notin LiveKeys
      BY <3>4, <2>4, <2>5 DEF Except, Landed
    <3> QED BY <1>1, <2>1, <3>1, <3>2, <3>3, <3>4
  <2>9. \A k \in LiveKeys' : k \in LiveKeys \/ ops[n] = AddPosting(k)
    BY <2>4 DEF Except, Landed
  <2>10. \A k \in LiveKeys' : Added(k)'
    BY <1>1, <2>1, <2>9 DEF Added
  <2> QED BY <2>1, <2>6, <2>7, <2>8, <2>10 DEF ShardInv, Closing
<1>10. CASE ReplayReturns
  <2>1. LiveKeys' = LiveKeys
    BY <1>0, <1>10, Reloaded DEF ReplayReturns
  <2>2. /\ phase = "replaying" /\ phase' = "idle" /\ ~ \E n \in logged : ToReplay(n)
        /\ UNCHANGED <<done, ops>>
    BY <1>10, LogNext DEF ReplayReturns, ghostVars
  <2>3. done = logged
    <3>1. \A n \in logged : n <= at
      BY <1>0, <2>2, ReplayedAll
    <3> QED BY <1>1, <1>2, <2>2, <3>1
  <2>4. ASSUME NEW k \in LiveKeys, Kept(k, done) PROVE k \in LeftBy(done)
    <3>1. k \in Key
      BY <1>0, LiveKeysType
    <3> QED BY <1>1, <2>3, <2>4, <3>1 DEF Added, Kept, LeftBy
  <2>5. LiveKeys = LeftBy(done)
    BY <1>1, <2>2, <2>4
  <2>6. LeftBy(done)' = LeftBy(done)
    BY <2>2 DEF LeftBy
  <2> QED BY <1>4, <2>1, <2>2, <2>5, <2>6 DEF ShardInv, Closing
<1> QED BY <1>5, <1>6, <1>7, <1>8, <1>9, <1>10, StepCases
-----------------------------------------------------------------------------
(***************************************************************************)
(* What the last flush left.                                               *)
(***************************************************************************)
LEMMA KeptStep ==
  ASSUME PhaseInv, OrderInv, LogInv, ShardInv, KeptInv, Next
  PROVE  KeptInv'
<1> SUFFICES ASSUME faults' = {} PROVE KeptInv'
  BY DEF KeptInv
<1>0. /\ faults = {} /\ last \in Nat /\ logged \subseteq 1..last /\ done \subseteq 1..last
  BY FaultsStay, EngineAssumption DEF PhaseInv, TypeOK, EngineAssumption
<1>1. /\ ~Closing => logged \cup waiting = done \cup Numbers(Staged)
      /\ kept.on => waiting = {} /\ Staged = {} /\ kept.live = LeftBy(logged)
  BY <1>0 DEF KeptInv
<1>2. ASSUME UNCHANGED logged PROVE LeftBy(logged)' = LeftBy(logged)
  <2>1. \A n \in logged : ops'[n] = ops[n]
    BY <1>0, OpsStay
  <2> QED BY <1>2, <2>1 DEF LeftBy
<1>3. CASE WriteLog
  <2>1. Staged' = Staged /\ UNCHANGED <<kept, done, phase>>
    BY <1>3, StagedNext DEF WriteLog, callVars, ghostVars
  <2>2. logged' \cup waiting' = logged \cup waiting /\ waiting # {}
    BY <1>3, LogNext
  <2>3. Numbers(Staged') = Numbers(Staged)
    BY <2>1
  <2> QED BY <1>1, <2>1, <2>2, <2>3 DEF KeptInv, Closing, Numbers
<1>4. CASE LoseOps \/ (LogFlushed /\ waiting # {})
  BY <1>4 DEF LoseOps, LogFlushed, LogSettled
<1>5. CASE Quiet \/ CallReturns \/ (LogFlushed /\ waiting = {}) \/ (CallFails /\ made = <<>>)
  <2>1. Staged' = Staged /\ UNCHANGED <<kept, done>> /\ ~Closing
    BY <1>5, StagedNext DEF Quiet, CallReturns, LogFlushed, CallFails, Closing, ghostVars
  <2>2. UNCHANGED <<logged, waiting>>
    BY <1>5, LogNext
  <2> QED BY <1>1, <1>2, <2>1, <2>2 DEF KeptInv, Numbers
<1>6. CASE CallFails /\ made # <<>>
  BY <1>6 DEF CallFails
<1>7. CASE AddOperation
  <2>1. Staged' = Staged \cup {Entry(last + 1, Head(todo))} /\ UNCHANGED <<done, phase>> /\ kept' = Off
    BY <1>7, StagedNext DEF AddOperation
  <2>2. logged' = logged /\ waiting' = waiting \cup {last + 1}
    BY <1>7, LogNext
  <2>3. Numbers(Staged') = Numbers(Staged) \cup {last + 1}
    <3>1. Entry(last + 1, Head(todo)).n = last + 1 /\ last + 1 # 0
      BY <1>0 DEF Entry
    <3> QED BY <2>1, <3>1 DEF Numbers
  <2>4. ~Closing
    BY <1>7 DEF AddOperation, Closing
  <2>5. ~kept.on'
    BY <2>1 DEF Off
  <2> QED BY <1>1, <2>1, <2>2, <2>3, <2>4, <2>5 DEF KeptInv, Numbers
<1>8. ASSUME NEW r \in Replacements, Replace(r) PROVE KeptInv'
  <2>1. Numbers(Staged') = Numbers(Staged) /\ UNCHANGED done /\ ~kept.on' /\ ~Closing
    BY <1>8, StagedNext DEF Replace, Numbers, Off, Closing
  <2>2. UNCHANGED <<logged, waiting>>
    BY <1>8, LogNext
  <2> QED BY <1>1, <2>1, <2>2 DEF KeptInv, Numbers
<1>9. CASE ApplyNext
  <2>1. /\ phase = "applying" /\ todo # <<>> /\ done' = done \cup ({Head(todo).n} \ {0})
        /\ UNCHANGED kept
    BY <1>9 DEF ApplyNext
  <2>2. Staged = {Head(todo)} \cup Staged'
    BY <1>9, <2>1, ApplyingStaged, StagedNext
  <2>3. Numbers(Staged) = ({Head(todo).n} \ {0}) \cup Numbers(Staged')
    BY <2>2 DEF Numbers
  <2>4. UNCHANGED <<logged, waiting>>
    BY <1>9, LogNext
  <2>5. ~kept.on
    BY <1>1, <2>2
  <2>6. logged' \cup waiting' = done' \cup Numbers(Staged')
    BY <1>1, <2>1, <2>3, <2>4 DEF Closing
  <2> QED BY <2>1, <2>5, <2>6 DEF KeptInv, Numbers
<1>10. CASE FlushReturns
  <2>1. Staged = {} /\ Staged' = {} /\ Numbers({}) = {}
    BY <1>10, StagedNext DEF Numbers
  <2>2. /\ phase = "applying" /\ UNCHANGED done
        /\ kept' = kept \/ kept' = [on |-> TRUE, live |-> LiveKeys]
    BY <1>10 DEF FlushReturns
  <2>3. waiting = {} /\ UNCHANGED <<logged, waiting>>
    BY <1>0, <1>10, <2>2, LogNext DEF LogInv
  <2>4. logged = done /\ LiveKeys = LeftBy(done)
    BY <1>0, <1>1, <2>1, <2>2, <2>3 DEF Closing, ShardInv
  <2>5. kept'.on => kept'.live = LeftBy(logged)
    BY <1>1, <2>2, <2>4
  <2>6. LeftBy(logged)' = LeftBy(logged)
    BY <1>2, <2>3
  <2> QED BY <2>1, <2>2, <2>3, <2>4, <2>5, <2>6 DEF KeptInv, Numbers
<1>11. CASE Crash
  <2>1. Staged' = {} /\ waiting' = {} /\ phase' = "closed" /\ UNCHANGED <<kept, logged>>
    BY <1>11, StagedNext, LogNext DEF Crash, ghostVars
  <2> QED BY <1>1, <1>2, <2>1 DEF KeptInv, Closing
<1>12. ASSUME Open \/ \E n \in logged : ReplayNext(n) PROVE KeptInv'
  <2>1. Staged' = {} /\ Staged = {} /\ phase' = "replaying"
    BY <1>12, StagedNext DEF Open, ReplayNext, callVars
  <2>2. UNCHANGED <<kept, logged, waiting>>
    BY <1>12, LogNext DEF Open, ReplayNext
  <2> QED BY <1>1, <1>2, <2>1, <2>2 DEF KeptInv, Closing
<1>13. CASE ReplayReturns
  <2>1. Staged' = {} /\ Staged = {} /\ Numbers({}) = {}
    BY <1>13, StagedNext DEF Numbers
  <2>2. /\ phase = "replaying" /\ ~ \E n \in logged : ToReplay(n)
        /\ UNCHANGED <<kept, done, logged, waiting>>
    BY <1>13, LogNext DEF ReplayReturns, ghostVars
  <2>3. waiting = {}
    BY <2>2 DEF PhaseInv, Closing
  <2>4. done = logged
    <3>1. \A n \in logged : n <= at
      <4>1. logged \subseteq Nat /\ at \in Nat
        BY <1>0 DEF PhaseInv, TypeOK
      <4> QED BY <2>2, <4>1, ReplayedAll
    <3>2. done \subseteq logged /\ \A n \in logged : n \in done <=> n <= at
      BY <1>0, <2>2 DEF ShardInv, LogInv
    <3> QED BY <3>1, <3>2
  <2> QED BY <1>1, <1>2, <2>1, <2>2, <2>3, <2>4 DEF KeptInv, Numbers
<1> QED BY <1>3, <1>4, <1>5, <1>6, <1>7, <1>8, <1>9, <1>10, <1>11, <1>12, <1>13, StepCases
-----------------------------------------------------------------------------
(***************************************************************************)
(* The theorems.                                                           *)
(***************************************************************************)
LEMMA EngineInit ==
  ASSUME Init
  PROVE  EngineInv
<1>1. PhaseInv
  BY TypeInit
<1>2. /\ logged = {} /\ waiting = {} /\ phase = "idle" /\ todo = <<>> /\ made = <<>>
      /\ pending = <<>> /\ DOMAIN shards = {} /\ done = {} /\ kept = Off /\ faults = {}
  BY DEF Init, Log!Init
<1>3. Staged = {} /\ Numbers(Staged) = {}
  BY <1>2, RangeEmpty DEF Staged, Numbers
<1>4. OrderInv
  BY <1>2, <1>3, RangeEmpty, OrderedEmpty DEF OrderInv, Before, Numbers
<1>5. LiveKeys = {} /\ LeftBy(done) = {}
  BY <1>2 DEF LiveKeys, LeftBy
<1>6. LogInv /\ ShardInv /\ KeptInv
  BY <1>2, <1>3, <1>5 DEF LogInv, ShardInv, KeptInv, Closing, Off
<1> QED BY <1>1, <1>4, <1>6 DEF EngineInv

\* A step that changes nothing changes no part of the invariant.
LEMMA EngineStutters ==
  ASSUME EngineInv, UNCHANGED vars
  PROVE  EngineInv'
<1>1. /\ UNCHANGED <<last, waiting, logged, ops, phase, todo, made, pending, shards, at, opens>>
      /\ UNCHANGED <<done, kept, faults>>
  BY DEF vars, logVars, opLogVars, callVars, indexVars, ghostVars
<1>2. PhaseInv'
  BY PhaseStep DEF EngineInv
<1>3. Staged' = Staged /\ LiveKeys' = LiveKeys
  BY <1>1, SameShards DEF Staged
<1>4. OrderInv'
  BY <1>1, <1>3 DEF EngineInv, OrderInv, Ordered, Before, Numbers
<1>5. LogInv'
  BY <1>1, <1>3 DEF EngineInv, LogInv, Numbers
<1>6. LeftBy(done)' = LeftBy(done) /\ LeftBy(logged)' = LeftBy(logged)
  BY <1>1 DEF LeftBy
<1>7. ShardInv'
  BY <1>1, <1>3, <1>6 DEF EngineInv, ShardInv, Closing, Added, Kept
<1>8. KeptInv'
  BY <1>1, <1>3, <1>6 DEF EngineInv, KeptInv, Closing, Numbers
<1> QED BY <1>2, <1>4, <1>5, <1>7, <1>8 DEF EngineInv

\* Types, the order of the entries, the log ahead of the shards, the postings
\* the shards hold and what a flush left: an inductive invariant.
THEOREM EngineInvariant == Spec => []EngineInv
<1>1. Init => EngineInv
  BY EngineInit
<1>2. EngineInv /\ [Next]_vars => EngineInv'
  <2> SUFFICES ASSUME EngineInv, [Next]_vars PROVE EngineInv'
    OBVIOUS
  <2>1. CASE Next
    <3>1. PhaseInv' /\ OrderInv' /\ LogInv'
      BY <2>1, PhaseStep, OrderStep, LogStep DEF EngineInv
    <3> QED BY <2>1, <3>1, ShardStep, KeptStep DEF EngineInv
  <2>2. CASE UNCHANGED vars
    BY <2>2, EngineStutters
  <2> QED BY <2>1, <2>2
<1> QED BY <1>1, <1>2, PTL DEF Spec

\* The variables have their types, and no shard holds more than it has room for.
THEOREM TypeCorrect == Spec => []TypeOK
<1>1. EngineInv => TypeOK
  BY DEF EngineInv, PhaseInv
<1> QED BY <1>1, EngineInvariant, PTL

\* What reached a shard is in the log, unless operations were lost on the way:
\* the flush waits for the log before it applies anything.
THEOREM LogIsFirst == Spec => []LogFirst
<1>1. EngineInv => LogFirst
  BY DEF EngineInv, LogInv, LogFirst
<1> QED BY <1>1, EngineInvariant, PTL

\* Between calls the live postings are those that the operations applied would
\* leave if each were applied once in its order, after any crashes and replays.
THEOREM ShardsConverge == Spec => []ConvergesToLog
<1>1. EngineInv => ConvergesToLog
  BY DEF EngineInv, ShardInv, ConvergesToLog, Closing
<1> QED BY <1>1, EngineInvariant, PTL

\* What the last flush left is live in every index opened later, as long as
\* nothing more was asked for.
THEOREM FlushIsDurable == Spec => []FlushedSurvives
<1>1. EngineInv => FlushedSurvives
  <2> SUFFICES ASSUME EngineInv, phase = "idle", faults = {}, kept.on PROVE LiveKeys = kept.live
    BY DEF FlushedSurvives
  <2>1. waiting = {} /\ Staged = {} /\ kept.live = LeftBy(logged) /\ LiveKeys = LeftBy(done)
    BY DEF EngineInv, KeptInv, ShardInv, Closing
  <2>2. logged = done
    BY <2>1 DEF EngineInv, KeptInv, Closing, Numbers
  <2> QED BY <2>1, <2>2
<1> QED BY <1>1, EngineInvariant, PTL

\* The engine uses the write path only as module OpLog lets it: what is proved
\* of that module's log holds of the one the engine replays.
THEOREM EngineKeepsLog == Spec => Log!Spec
<1>1. Init => Log!Init
  BY DEF Init
<1>2. [Next]_vars => [Log!Next]_(Log!opLogVars)
  <2> SUFFICES ASSUME [Next]_vars PROVE Log!Next \/ UNCHANGED opLogVars
    BY DEF opLogVars, Log!opLogVars
  <2>1. CASE WriteLog \/ LoseOps \/ AddOperation \/ Crash
    BY <2>1 DEF WriteLog, LoseOps, AddOperation, Crash, Log!Next
  <2>2. CASE \/ StartProcessor \/ CallFails \/ CallReturns \/ CallFlush \/ LogFlushed \/ FlushFails
             \/ ApplyNext \/ FlushReturns
    BY <2>2 DEF StartProcessor, CallFails, CallReturns, CallFlush, LogFlushed, FlushFails,
                ApplyNext, FlushReturns, logVars
  <2>3. CASE Shutdown \/ ShutdownReturns \/ Open \/ ReplayReturns \/ UNCHANGED vars
    BY <2>3 DEF Shutdown, ShutdownReturns, Open, ReplayReturns, vars, logVars
  <2>4. ASSUME \/ \E batch \in Calls : Call(batch)
               \/ \E r \in Replacements : Replace(r)
               \/ \E n \in logged : ReplayNext(n)
        PROVE  UNCHANGED opLogVars
    BY <2>4 DEF Call, Replace, ReplayNext, logVars
  <2> QED BY <2>1, <2>2, <2>3, <2>4 DEF Next
<1> QED BY <1>1, <1>2, PTL DEF Spec, Log!Spec
=============================================================================
