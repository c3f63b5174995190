---------------------------- MODULE ShardProofs ----------------------------
(***************************************************************************)
(* Theorems of Shard and of its bloom filter, for all documents, postings, *)
(* hashes, capacities and halvings: the two files stay in step, a shard    *)
(* holds what was added and not removed, and an intact shard validates.    *)
(***************************************************************************)
EXTENDS Shard, SequenceTheorems, FiniteSetTheorems, FunctionTheorems, WellFoundedInduction, TLAPS

USE ShardAssumption DEF ShardAssumption
-----------------------------------------------------------------------------
(***************************************************************************)
(* Numbers.                                                                *)
(***************************************************************************)
\* A set of numbers that is not empty has a least one.
LEMMA NatLeast ==
  ASSUME NEW T \in SUBSET Nat, T # {}
  PROVE  \E x \in T : \A y \in T : x <= y
<1>1. PICK R : R = OpToRel(<, Nat)
  OBVIOUS
<1>2. IsWellFoundedOn(R, Nat)
  BY <1>1, NatLessThanWellFounded
<1>3. \A x, y \in Nat : x < y => <<x, y>> \in R
  BY <1>1 DEF OpToRel
<1>4. PICK x \in T : \A y \in T : ~(<<y, x>> \in R)
  BY <1>2, WFMin
<1>5. \A y \in T : ~(y < x)
  BY <1>3, <1>4
<1>6. \A y \in T : y \in Nat /\ x \in Nat
  OBVIOUS
<1> QED BY <1>5, <1>6

\* If it has a bound it has a greatest one.
LEMMA NatGreatest ==
  ASSUME NEW T \in SUBSET Nat, T # {}, NEW b \in Nat, \A x \in T : x <= b
  PROVE  \E x \in T : \A y \in T : y <= x
<1>1. PICK U : U = {n \in Nat : b - n \in T}
  OBVIOUS
<1>2. \A x \in T : b - x \in U
  <2>1. \A x \in T : b - x \in Nat /\ b - (b - x) = x
    OBVIOUS
  <2> QED BY <1>1, <2>1
<1>3. U \in SUBSET Nat /\ U # {}
  BY <1>1, <1>2
<1>4. PICK n \in U : \A m \in U : n <= m
  BY <1>3, NatLeast
<1>5. n \in Nat /\ b - n \in T
  BY <1>1
<1>6. ASSUME NEW y \in T PROVE y <= b - n
  <2>1. n <= b - y /\ y \in Nat
    BY <1>2, <1>4
  <2> QED BY <1>5, <2>1
<1> QED BY <1>5, <1>6
-----------------------------------------------------------------------------
Row == [key : Key, deleted : BOOLEAN]
-----------------------------------------------------------------------------
(***************************************************************************)
(* The bloom filter.                                                       *)
(***************************************************************************)
\* What is found in f includes ds.
Holds(f, ds) == \A d \in ds : B!Contains(f, d)

\* Insert sets every bit of its document and clears none; a merge clears none
\* of either filter; a filter filled with documents has the bits of each.
LEMMA BitsStay ==
  ASSUME NEW f \in B!Filter, NEW g \in B!Filter, NEW d \in Doc
  PROVE  /\ HashBits[d] \cup f.bits = B!Insert(f, d).bits
         /\ f.bits \subseteq B!Merged(f, g).bits /\ g.bits \subseteq B!Merged(f, g).bits
BY DEF B!Insert, B!Merged

LEMMA FilledHolds ==
  ASSUME NEW ds, NEW n, NEW d \in ds
  PROVE  B!Contains(B!Filled(ds, n), d)
BY DEF B!Contains, B!Filled

\* A filter that holds documents goes on holding them: insert and merge have no
\* false negatives, and an empty filter holds nothing it would have to find.
THEOREM NoFalseNegatives ==
  ASSUME NEW f \in B!Filter, NEW g \in B!Filter, NEW ds \in SUBSET Doc, NEW es \in SUBSET Doc,
         NEW d \in Doc, Holds(f, ds), Holds(g, es)
  PROVE  /\ Holds(B!Empty, {})
         /\ Holds(B!Insert(f, d), ds \cup {d})
         /\ Holds(B!Merged(f, g), ds \cup es)
<1>1. Holds(B!Empty, {})
  BY DEF Holds
<1>2. Holds(B!Insert(f, d), ds \cup {d})
  BY BitsStay DEF Holds, B!Contains
<1>3. Holds(B!Merged(f, g), ds \cup es)
  BY BitsStay DEF Holds, B!Contains
<1> QED BY <1>1, <1>2, <1>3

\* Filters stay filters.
LEMMA FilterTypes ==
  /\ B!Empty \in B!Filter
  /\ \A f \in B!Filter, d \in Doc : B!Insert(f, d) \in B!Filter
<1>1. \A d \in Doc : HashBits[d] \subseteq Bit
  BY DEF B!BloomAssumption
<1> QED BY <1>1 DEF B!Filter, B!Empty, B!Insert

LEMMA FilledType ==
  ASSUME NEW ds \in SUBSET Doc, NEW n \in Nat
  PROVE  B!Filled(ds, n) \in B!Filter
<1>1. UNION {HashBits[d] : d \in ds} \subseteq Bit
  BY DEF B!BloomAssumption
<1> QED BY <1>1 DEF B!Filter, B!Filled
-----------------------------------------------------------------------------
(***************************************************************************)
(* The invariant.                                                          *)
(***************************************************************************)
\* An open shard is whole, counts its slots and knows their documents.
OpenInv ==
  phase = "open" =>
    /\ ~torn /\ Len(vectors) = Len(postings) /\ count = Len(postings)
    /\ Len(weight) = Len(postings)
    /\ \A i \in Slots : B!Contains(bloom, DocOf[postings[i].key])

\* The vector file is written first: no posting is without a vector, and none
\* is flagged whose vector is a number.
FirstInv ==
  /\ Len(vectors) >= Len(postings)
  /\ \A i \in Slots : postings[i].deleted => ~vectors[i]

\* What could be opened agrees, but for the faults.
AgreeInv ==
  Readable /\ faults \cap {"halfRemoved", "revived"} = {} => \A i \in Slots : ~Mismatch(i)

LiveSlots == {i \in Slots : Live(i)}
CountInv ==
  Readable /\ faults = {} => vActive = Cardinality(LiveSlots) /\ pActive = vActive

\* What a shard holds, open or not.
AddedInv   == \A k \in present : \E i \in Latest : postings[i].key = k /\ Live(i)
RemovedInv == "revived" \notin faults =>
                \A d \in gone : \A i \in Slots : Live(i) => DocOf[postings[i].key] # d

\* The running mean is that of the live slots.
MeanInv ==
  phase = "open" /\ faults = {} /\ ~renewed =>
    averaged = vActive /\ \A i \in Slots : weight[i] = IF Live(i) THEN 1 ELSE 0

ShardInv == /\ TypeOK /\ OpenInv /\ FirstInv /\ AgreeInv /\ CountInv
            /\ AddedInv /\ RemovedInv /\ MeanInv
-----------------------------------------------------------------------------
(***************************************************************************)
(* Slots.                                                                  *)
(***************************************************************************)
LEMMA SlotTypes ==
  ASSUME TypeOK
  PROVE  /\ postings \in Seq(Row) /\ Slots = 1..Len(postings) /\ Len(postings) \in Nat
         /\ DOMAIN vectors = 1..Len(vectors) /\ Len(vectors) \in Nat
         /\ IsFiniteSet(Slots)
         /\ \A i \in Slots : i \in Nat /\ postings[i] \in Row /\ postings[i].key \in Key
                             /\ DocOf[postings[i].key] \in Doc
         /\ \A i \in DOMAIN vectors : vectors[i] \in BOOLEAN
<1>1. postings \in Seq(Row) /\ vectors \in Seq(BOOLEAN)
  BY DEF TypeOK, Row
<1>2. Slots = 1..Len(postings) /\ Len(postings) \in Nat
  BY <1>1 DEF Slots
<1>3. IsFiniteSet(Slots)
  BY <1>2, FS_Interval
<1>4. \A i \in Slots : i \in Nat /\ postings[i] \in Row
  BY <1>1, <1>2
<1>5. \A i \in Slots : postings[i].key \in Key /\ DocOf[postings[i].key] \in Doc
  BY <1>4 DEF Row
<1> QED BY <1>1, <1>2, <1>3, <1>4, <1>5

\* Every key has a latest slot.
LEMMA LatestOfKey ==
  ASSUME TypeOK, NEW i \in Slots
  PROVE  \E j \in Latest : postings[j].key = postings[i].key
<1>1. PICK T : T = {j \in Slots : postings[j].key = postings[i].key}
  OBVIOUS
<1>2. T \in SUBSET Nat /\ T # {} /\ Len(postings) \in Nat /\ \A j \in T : j <= Len(postings)
  BY <1>1, SlotTypes
<1>3. PICK j \in T : \A k \in T : k <= j
  BY <1>2, NatGreatest
<1>4. ASSUME NEW k \in Slots, k > j PROVE postings[k].key # postings[j].key
  <2>1. k \notin T
    BY <1>2, <1>3, <1>4, SlotTypes
  <2> QED BY <1>1, <2>1
<1> QED BY <1>1, <1>4 DEF Latest

\* It has one.
LEMMA LatestOnce ==
  ASSUME TypeOK, NEW i \in Latest, NEW j \in Latest, postings[i].key = postings[j].key
  PROVE  i = j
<1>1. i \in Nat /\ j \in Nat
  BY SlotTypes DEF Latest
<1>2. ~(j > i) /\ ~(i > j)
  BY DEF Latest
<1> QED BY <1>1, <1>2

\* Flagging slots and overwriting their vectors.
LEMMA Flagging ==
  ASSUME TypeOK, FirstInv, NEW slots \in SUBSET Slots, NEW more \in SUBSET Slots,
         postings' = FlagAt(slots), vectors' = NaNAt(more)
  PROVE  /\ postings' \in Seq(Row) /\ Len(postings') = Len(postings) /\ Slots' = Slots
         /\ vectors' \in Seq(BOOLEAN) /\ Len(vectors') = Len(vectors)
         /\ \A i \in Slots : /\ postings'[i].key = postings[i].key
                             /\ postings'[i].deleted = (postings[i].deleted \/ i \in slots)
                             /\ vectors'[i] = (vectors[i] /\ i \notin more)
         /\ Latest' = Latest
<1>1. postings' \in Seq(Row) /\ Len(postings') = Len(postings)
  <2>1. \A i \in Slots : [postings[i] EXCEPT !.deleted = @ \/ i \in slots] \in Row
    BY SlotTypes DEF Row
  <2>2. postings' = [i \in 1..Len(postings) |-> [postings[i] EXCEPT !.deleted = @ \/ i \in slots]]
    BY SlotTypes DEF FlagAt
  <2> QED BY <2>1, <2>2, SlotTypes
<1>2. Slots' = Slots
  BY <1>1, SlotTypes DEF Slots
<1>3. vectors' \in Seq(BOOLEAN) /\ Len(vectors') = Len(vectors)
  BY SlotTypes DEF NaNAt
<1>4. \A i \in Slots : /\ postings'[i].key = postings[i].key
                       /\ postings'[i].deleted = (postings[i].deleted \/ i \in slots)
  BY SlotTypes DEF FlagAt, Row
<1>5. \A i \in Slots : vectors'[i] = (vectors[i] /\ i \notin more)
  BY SlotTypes DEF NaNAt, FirstInv
<1>6. Latest' = Latest
  BY <1>2, <1>4 DEF Latest
<1> QED BY <1>1, <1>2, <1>3, <1>4, <1>5, <1>6

\* What is live once slots are flagged.
LEMMA LiveAfter ==
  ASSUME TypeOK, FirstInv, NEW slots \in SUBSET Slots, NEW more \in SUBSET Slots,
         postings' = FlagAt(slots), vectors' = NaNAt(more)
  PROVE  /\ IsFiniteSet(LiveSlots) /\ Cardinality(LiveSlots) \in Nat
         /\ LiveSlots' = LiveSlots \ slots
         /\ slots \subseteq LiveSlots => /\ Cardinality(slots) \in Nat
                                         /\ Cardinality(slots) <= Cardinality(LiveSlots)
                                         /\ Cardinality(LiveSlots') = Cardinality(LiveSlots) - Cardinality(slots)
                                         /\ Cardinality(slots) = Cardinality(LiveSlots) => slots = LiveSlots
<1>1. IsFiniteSet(LiveSlots) /\ Cardinality(LiveSlots) \in Nat
  <2>1. LiveSlots \subseteq Slots
    BY DEF LiveSlots
  <2> QED BY <2>1, SlotTypes, FS_Subset, FS_CardinalityType
<1>2. LiveSlots' = LiveSlots \ slots
  <2>1. Slots' = Slots /\ \A i \in Slots : postings'[i].deleted = (postings[i].deleted \/ i \in slots)
    BY Flagging
  <2>2. \A i \in Slots : postings[i].deleted \in BOOLEAN
    BY SlotTypes DEF Row
  <2>3. \A i \in Slots : Live(i)' <=> Live(i) /\ i \notin slots
    BY <2>1, <2>2 DEF Live
  <2> QED BY <2>1, <2>3 DEF LiveSlots
<1>3. ASSUME slots \subseteq LiveSlots
      PROVE  /\ Cardinality(slots) \in Nat
             /\ Cardinality(slots) <= Cardinality(LiveSlots)
             /\ Cardinality(LiveSlots \ slots) = Cardinality(LiveSlots) - Cardinality(slots)
             /\ Cardinality(slots) = Cardinality(LiveSlots) => slots = LiveSlots
  <2>1. LiveSlots \cap slots = slots
    BY <1>3
  <2>2. IsFiniteSet(slots)
    BY <1>1, <1>3, FS_Subset
  <2>3. Cardinality(slots) \in Nat
    BY <2>2, FS_CardinalityType
  <2>4. /\ Cardinality(slots) <= Cardinality(LiveSlots)
        /\ Cardinality(LiveSlots) = Cardinality(slots) => LiveSlots = slots
    BY <1>1, <1>3, FS_Subset
  <2>5. Cardinality(LiveSlots \ slots) = Cardinality(LiveSlots) - Cardinality(LiveSlots \cap slots)
    BY <1>1, FS_Difference
  <2> QED BY <2>1, <2>3, <2>4, <2>5
<1> QED BY <1>1, <1>2, <1>3

\* What a shard holds after flagging slots, when what was in them is removed.
LEMMA HeldAfter ==
  ASSUME TypeOK, FirstInv, AddedInv, RemovedInv,
         NEW slots \in SUBSET Slots, NEW more \in SUBSET Slots,
         postings' = FlagAt(slots), vectors' = NaNAt(more), faults \subseteq faults',
         present' \subseteq present, \A i \in slots : postings[i].key \notin present',
         \A d \in gone' \ gone : \A i \in Slots \ slots : Live(i) => DocOf[postings[i].key] # d
  PROVE  AddedInv' /\ RemovedInv'
<1>1. \A i \in Slots : Live(i)' <=> Live(i) /\ i \notin slots
  BY Flagging, SlotTypes DEF Live, Row
<1>2. AddedInv'
  <2>1. ASSUME NEW k \in present' PROVE \E i \in Latest' : postings'[i].key = k /\ Live(i)'
    <3>1. PICK i \in Latest : postings[i].key = k /\ Live(i)
      BY <2>1 DEF AddedInv
    <3>2. i \in Slots /\ i \notin slots
      BY <3>1 DEF Latest
    <3> QED BY <1>1, <3>1, <3>2, Flagging
  <2> QED BY <2>1 DEF AddedInv
<1>3. RemovedInv'
  <2> SUFFICES ASSUME "revived" \notin faults', NEW d \in gone', NEW i \in Slots', Live(i)'
               PROVE  DocOf[postings'[i].key] # d
    BY DEF RemovedInv
  <2>1. i \in Slots \ slots /\ Live(i) /\ postings'[i].key = postings[i].key
    BY <1>1, Flagging
  <2>2. CASE d \in gone
    BY <2>1, <2>2 DEF RemovedInv
  <2>3. CASE d \notin gone
    BY <2>1, <2>3
  <2> QED BY <2>2, <2>3
<1> QED BY <1>2, <1>3
-----------------------------------------------------------------------------
(***************************************************************************)
(* add_posting.                                                            *)
(***************************************************************************)
LEMMA AddStep ==
  ASSUME ShardInv, NEW k \in Key, AddPosting(k)
  PROVE  ShardInv'
<1> DEFINE n == Len(postings)
<1> DEFINE row == [key |-> k, deleted |-> FALSE]
<1> DEFINE sum == IF averaged = 0 THEN [i \in DOMAIN weight |-> 0] ELSE weight
<1> USE DEF ShardInv
<1>1. /\ phase = "open" /\ ~torn /\ Len(vectors) = n /\ count = n /\ Len(weight) = n
      /\ n < cap /\ n \in Nat /\ \A i \in Slots : B!Contains(bloom, DocOf[postings[i].key])
  BY SlotTypes DEF AddPosting, OpenInv
<1>2. /\ vectors' = Append(vectors, TRUE) /\ postings' = Append(postings, row)
      /\ vActive' = vActive + 1 /\ pActive' = pActive + 1
      /\ bloom' = B!Insert(bloom, DocOf[k]) /\ Refresh
      /\ averaged' = averaged + 1 /\ nan' = (nan /\ averaged # 0) /\ weight' = Append(sum, 1)
      /\ present' = present \cup {k} /\ gone' = gone \ {DocOf[k]}
      /\ UNCHANGED <<torn, cap, phase, faults, renewed>>
  BY <1>1 DEF AddPosting, CentroidAdd
<1>3. row \in Row /\ DocOf[k] \in Doc /\ row.key = k /\ row.deleted = FALSE
  BY DEF Row
<1>4. /\ postings \in Seq(Row) /\ vectors \in Seq(BOOLEAN) /\ Slots = 1..n /\ DOMAIN vectors = 1..n
  BY <1>1, SlotTypes DEF TypeOK
<1>5. /\ postings' \in Seq(Row) /\ Len(postings') = n + 1
      /\ vectors' \in Seq(BOOLEAN) /\ Len(vectors') = n + 1
      /\ postings'[n + 1] = row /\ vectors'[n + 1] = TRUE
      /\ \A i \in 1..n : postings'[i] = postings[i] /\ vectors'[i] = vectors[i]
  <2>1. PICK r : r = row
    OBVIOUS
  <2>2. /\ Append(postings, r) \in Seq(Row) /\ Len(Append(postings, r)) = n + 1
        /\ Append(postings, r)[n + 1] = r /\ \A i \in 1..n : Append(postings, r)[i] = postings[i]
    BY <1>1, <1>3, <1>4, <2>1
  <2>3. /\ Append(vectors, TRUE) \in Seq(BOOLEAN) /\ Len(Append(vectors, TRUE)) = n + 1
        /\ Append(vectors, TRUE)[n + 1] = TRUE /\ \A i \in 1..n : Append(vectors, TRUE)[i] = vectors[i]
    <3>1. PICK v \in BOOLEAN : v = TRUE
      OBVIOUS
    <3>2. /\ Append(vectors, v) \in Seq(BOOLEAN) /\ Len(Append(vectors, v)) = n + 1
          /\ Append(vectors, v)[n + 1] = v /\ \A i \in 1..n : Append(vectors, v)[i] = vectors[i]
      BY <1>1, <1>4, AppendProperties
    <3> QED BY <3>1, <3>2
  <2> QED BY <1>2, <2>1, <2>2, <2>3
<1>6. Slots' = Slots \cup {n + 1} /\ n + 1 \notin Slots
  BY <1>1, <1>4, <1>5 DEF Slots
<1>7. /\ weight' \in Seq(Int) /\ Len(weight') = n + 1 /\ weight'[n + 1] = 1
      /\ \A i \in 1..n : weight'[i] = IF averaged = 0 THEN 0 ELSE weight[i]
  <2>1. weight \in Seq(Int) /\ DOMAIN weight = 1..n
    BY <1>1 DEF TypeOK
  <2>2. sum \in Seq(Int) /\ Len(sum) = n /\ \A i \in 1..n : sum[i] = IF averaged = 0 THEN 0 ELSE weight[i]
    BY <1>1, <2>1
  <2> HIDE DEF sum
  <2> QED BY <1>1, <1>2, <2>2
<1>8. count' = n + 1
  BY <1>1, <1>2, <1>5 DEF Refresh, Most
<1>9. TypeOK'
  <2>1. bloom' \in B!Filter
    BY <1>2, <1>3, FilterTypes DEF TypeOK
  <2>2. nan' \in BOOLEAN /\ averaged' \in Nat /\ vActive' \in Nat /\ pActive' \in Nat
    BY <1>2 DEF TypeOK
  <2>3. present' \subseteq Key /\ gone' \subseteq Doc
    BY <1>2 DEF TypeOK
  <2>4. cap' \in Nat \ {0} /\ n + 1 <= cap' /\ n + 1 \in 0..cap'
    BY <1>1, <1>2 DEF TypeOK
  <2> QED BY <1>2, <1>5, <1>7, <1>8, <2>1, <2>2, <2>3, <2>4 DEF TypeOK, Row
<1>10. OpenInv'
  <2>1. B!Contains(bloom', DocOf[k]) /\ \A i \in Slots : B!Contains(bloom', DocOf[postings[i].key])
    BY <1>1, <1>2 DEF B!Contains, B!Insert
  <2> QED BY <1>1, <1>2, <1>3, <1>4, <1>5, <1>6, <1>7, <1>8, <2>1 DEF OpenInv
<1>11. FirstInv'
  BY <1>1, <1>3, <1>4, <1>5, <1>6 DEF FirstInv
<1>12. AgreeInv'
  BY <1>1, <1>2, <1>3, <1>4, <1>5, <1>6 DEF AgreeInv, Mismatch, Readable
<1>13. LiveSlots' = LiveSlots \cup {n + 1} /\ n + 1 \notin LiveSlots
  BY <1>3, <1>4, <1>5, <1>6 DEF LiveSlots, Live
<1>14. CountInv'
  <2>1. IsFiniteSet(LiveSlots)
    BY SlotTypes, FS_Subset DEF LiveSlots
  <2>2. Cardinality(LiveSlots') = Cardinality(LiveSlots) + 1
    BY <1>13, <2>1, FS_AddElement
  <2> QED BY <1>1, <1>2, <2>2 DEF CountInv, Readable
<1>15. \A i \in Slots' : i \in Latest' <=> i = n + 1 \/ (i \in Latest /\ postings[i].key # k)
  BY <1>1, <1>3, <1>4, <1>5, <1>6 DEF Latest
<1>16. AddedInv'
  <2>1. ASSUME NEW h \in present' PROVE \E i \in Latest' : postings'[i].key = h /\ Live(i)'
    <3>1. CASE h = k
      BY <1>3, <1>5, <1>6, <1>15, <3>1 DEF Live
    <3>2. CASE h # k
      <4>1. PICK i \in Latest : postings[i].key = h /\ Live(i)
        BY <1>2, <3>2 DEF AddedInv
      <4>2. i \in Slots /\ postings'[i] = postings[i]
        BY <1>4, <1>5 DEF Latest
      <4> QED BY <1>6, <1>15, <3>2, <4>1, <4>2 DEF Live
    <3> QED BY <3>1, <3>2
  <2> QED BY <2>1 DEF AddedInv
<1>17. RemovedInv'
  BY <1>2, <1>3, <1>4, <1>5, <1>6 DEF RemovedInv, Live
<1>18. MeanInv'
  <2> SUFFICES ASSUME faults = {}, ~renewed
               PROVE  averaged' = vActive' /\ \A i \in Slots' : weight'[i] = IF Live(i)' THEN 1 ELSE 0
    BY <1>2 DEF MeanInv
  <2>1. averaged = vActive /\ \A i \in Slots : weight[i] = IF Live(i) THEN 1 ELSE 0
    BY <1>1 DEF MeanInv
  <2>2. averaged = 0 => LiveSlots = {}
    <3>1. IsFiniteSet(LiveSlots)
      BY SlotTypes, FS_Subset DEF LiveSlots
    <3>2. averaged = Cardinality(LiveSlots)
      BY <1>1, <2>1 DEF CountInv, Readable
    <3> QED BY <3>1, <3>2, FS_EmptySet
  <2>3. \A i \in Slots : weight'[i] = IF Live(i) THEN 1 ELSE 0
    BY <1>4, <1>7, <2>1, <2>2 DEF LiveSlots
  <2>4. \A i \in Slots : Live(i)' <=> Live(i)
    BY <1>4, <1>5 DEF Live
  <2>5. ASSUME NEW i \in Slots', i \notin Slots PROVE weight'[i] = 1 /\ Live(i)'
    <3>1. i = n + 1
      BY <1>6, <2>5
    <3> QED BY <1>3, <1>5, <1>7, <3>1 DEF Live
  <2>6. \A i \in Slots' : weight'[i] = IF Live(i)' THEN 1 ELSE 0
    BY <2>3, <2>4, <2>5
  <2> QED BY <1>2, <2>1, <2>6
<1> QED BY <1>9, <1>10, <1>11, <1>12, <1>14, <1>16, <1>17, <1>18
-----------------------------------------------------------------------------
(***************************************************************************)
(* The removals.                                                           *)
(***************************************************************************)
\* update_centroid_remove keeps its types.
LEMMA CentroidTypes ==
  ASSUME TypeOK, NEW slots \in SUBSET Slots, NEW poison \in BOOLEAN, CentroidRemove(slots, poison)
  PROVE  /\ averaged' \in Nat /\ nan' \in BOOLEAN
         /\ weight' \in Seq(Int) /\ Len(weight') = Len(weight)
<1>1. Cardinality(slots) \in Nat /\ averaged \in Nat /\ nan \in BOOLEAN
  BY SlotTypes, FS_Subset, FS_CardinalityType DEF TypeOK
<1>2. weight \in Seq(Int) /\ DOMAIN weight = 1..Len(weight) /\ Len(weight) \in Nat
  BY DEF TypeOK
<1>3. averaged' \in Nat /\ nan' \in BOOLEAN
  <2>1. PICK c \in Nat : c = Cardinality(slots)
    BY <1>1
  <2>2. CASE c >= averaged
    <3>1. averaged' = 0 /\ nan' = (averaged = 0 /\ nan)
      BY <2>1, <2>2 DEF CentroidRemove
    <3> QED BY <3>1
  <2>3. CASE ~(c >= averaged)
    <3>1. averaged' = averaged - c /\ nan' = (nan \/ poison)
      BY <2>1, <2>3 DEF CentroidRemove
    <3>2. averaged - c \in Nat
      BY <1>1, <2>3
    <3> QED BY <3>1, <3>2
  <2> QED BY <2>2, <2>3
<1>4. \/ weight' = [i \in DOMAIN weight |-> 0]
      \/ weight' = [i \in DOMAIN weight |-> IF i \in slots THEN weight[i] - 1 ELSE weight[i]]
  BY DEF CentroidRemove
<1>5. weight' \in Seq(Int) /\ Len(weight') = Len(weight)
  <2>1. CASE weight' = [i \in DOMAIN weight |-> 0]
    BY <1>2, <2>1
  <2>2. CASE weight' = [i \in DOMAIN weight |-> IF i \in slots THEN weight[i] - 1 ELSE weight[i]]
    <3>1. \A i \in 1..Len(weight) : weight[i] \in Int /\ weight[i] - 1 \in Int
      BY <1>2
    <3> QED BY <1>2, <2>2, <3>1
  <2> QED BY <1>4, <2>1, <2>2
<1> QED BY <1>3, <1>5

\* It keeps the running mean that of the live slots.
LEMMA MeanAfter ==
  ASSUME ShardInv, phase = "open", faults = {}, ~renewed,
         NEW slots \in SUBSET LiveSlots, NEW poison,
         postings' = FlagAt(slots), vectors' = NaNAt(slots), CentroidRemove(slots, poison),
         vActive' = Gone(vActive, Cardinality(slots))
  PROVE  averaged' = vActive' /\ \A i \in Slots' : weight'[i] = IF Live(i)' THEN 1 ELSE 0
<1> USE DEF ShardInv
<1>1. slots \in SUBSET Slots
  BY DEF LiveSlots
<1>2. /\ averaged = vActive /\ vActive = Cardinality(LiveSlots)
      /\ \A i \in Slots : weight[i] = IF Live(i) THEN 1 ELSE 0
      /\ DOMAIN weight = Slots
  BY SlotTypes DEF MeanInv, CountInv, OpenInv, Readable, TypeOK
<1>3. /\ Cardinality(slots) \in Nat /\ Cardinality(LiveSlots) \in Nat
      /\ Cardinality(slots) <= Cardinality(LiveSlots)
      /\ Cardinality(slots) = Cardinality(LiveSlots) => slots = LiveSlots
  BY <1>1, LiveAfter
<1>4. Slots' = Slots /\ \A i \in Slots : Live(i)' <=> Live(i) /\ i \notin slots
  BY <1>1, Flagging, SlotTypes DEF Live, Row
<1>5. vActive' = Cardinality(LiveSlots) - Cardinality(slots)
  BY <1>2, <1>3 DEF Gone
<1>6. CASE Cardinality(slots) >= averaged
  <2>1. slots = LiveSlots /\ averaged' = 0 /\ weight' = [i \in Slots |-> 0]
    BY <1>2, <1>3, <1>6 DEF CentroidRemove
  <2>2. \A i \in Slots : ~Live(i)'
    BY <1>4, <2>1 DEF LiveSlots
  <2> QED BY <1>2, <1>3, <1>4, <1>5, <1>6, <2>1, <2>2
<1>7. CASE Cardinality(slots) < averaged
  <2>1. /\ averaged' = averaged - Cardinality(slots)
        /\ weight' = [i \in Slots |-> IF i \in slots THEN weight[i] - 1 ELSE weight[i]]
    BY <1>2, <1>3, <1>7 DEF CentroidRemove
  <2>2. \A i \in slots : Live(i)
    BY DEF LiveSlots
  <2> QED BY <1>1, <1>2, <1>4, <1>5, <2>1, <2>2
<1> QED BY <1>2, <1>3, <1>6, <1>7

\* The parts of the invariant that only depend on which slots are flagged.
LEMMA FilesAfter ==
  ASSUME ShardInv, NEW slots \in SUBSET Slots,
         postings' = FlagAt(slots), vectors' = NaNAt(slots),
         faults \subseteq faults', torn => torn'
  PROVE  FirstInv' /\ AgreeInv'
<1> USE DEF ShardInv
<1>1. /\ Len(vectors') = Len(vectors) /\ Len(postings') = Len(postings) /\ Slots' = Slots
      /\ \A i \in Slots : /\ postings'[i].deleted = (postings[i].deleted \/ i \in slots)
                          /\ vectors'[i] = (vectors[i] /\ i \notin slots)
  BY Flagging
<1>2. FirstInv'
  BY <1>1 DEF FirstInv
<1>3. AgreeInv'
  <2> SUFFICES ASSUME Readable', faults' \cap {"halfRemoved", "revived"} = {}, NEW i \in Slots'
               PROVE  ~Mismatch(i)'
    BY DEF AgreeInv
  <2>1. Readable /\ faults \cap {"halfRemoved", "revived"} = {} /\ i \in Slots
    BY <1>1 DEF Readable
  <2>2. ~Mismatch(i)
    BY <2>1 DEF AgreeInv
  <2>3. vectors[i] \in BOOLEAN /\ postings[i].deleted \in BOOLEAN
    <3>1. i \in DOMAIN vectors /\ postings[i] \in Row
      BY <2>1, SlotTypes DEF FirstInv
    <3> QED BY <3>1, SlotTypes DEF Row
  <2> QED BY <1>1, <2>1, <2>2, <2>3 DEF Mismatch
<1> QED BY <1>2, <1>3

LEMMA RemovePostingStep ==
  ASSUME ShardInv, NEW i \in Slots, RemovePosting(i)
  PROVE  ShardInv'
<1> USE DEF ShardInv
<1>1. /\ phase = "open" /\ ~torn /\ Len(vectors) = Len(postings) /\ count = Len(postings)
      /\ Len(weight) = Len(postings) /\ DOMAIN vectors = Slots
      /\ \A j \in Slots : B!Contains(bloom, DocOf[postings[j].key])
  BY SlotTypes DEF RemovePosting, OpenInv
<1>2. /\ vectors' = NaNAt({i}) /\ postings' = FlagAt({i})
      /\ vActive' = Gone(vActive, 1) /\ pActive' = Gone(pActive, 1)
      /\ CentroidRemove({i}, ~vectors[i]) /\ Refresh
      /\ present' = present \ {postings[i].key}
      /\ faults' = IF Live(i) THEN faults ELSE faults \cup {"removedTwice"}
      /\ UNCHANGED <<torn, cap, phase, bloom, gone, renewed>>
  BY DEF RemovePosting
<1>3. {i} \in SUBSET Slots /\ Cardinality({i}) = 1 /\ vectors[i] \in BOOLEAN
  BY <1>1, SlotTypes, FS_Singleton
<1>4. /\ postings' \in Seq(Row) /\ Len(postings') = Len(postings) /\ Slots' = Slots
      /\ vectors' \in Seq(BOOLEAN) /\ Len(vectors') = Len(vectors)
      /\ \A j \in Slots : postings'[j].key = postings[j].key
  BY <1>2, <1>3, Flagging
<1>5. count' = Len(postings)
  BY <1>1, <1>2, <1>4, SlotTypes DEF Refresh, Most
<1>6. /\ averaged' \in Nat /\ nan' \in BOOLEAN
      /\ weight' \in Seq(Int) /\ Len(weight') = Len(weight)
  BY <1>2, <1>3, CentroidTypes
<1>7. TypeOK'
  <2>1. vActive' \in Nat /\ pActive' \in Nat
    BY <1>2 DEF TypeOK, Gone
  <2>2. faults' \subseteq Faults /\ present' \subseteq Key
    BY <1>2 DEF TypeOK, Faults
  <2>3. count' \in 0..cap'
    BY <1>1, <1>2, <1>5 DEF TypeOK
  <2> QED BY <1>2, <1>4, <1>6, <2>1, <2>2, <2>3 DEF TypeOK, Row
<1>8. OpenInv'
  BY <1>1, <1>2, <1>4, <1>5, <1>6 DEF OpenInv
<1>9. FirstInv' /\ AgreeInv'
  BY <1>2, <1>3, FilesAfter
<1>10. CountInv'
  <2> SUFFICES ASSUME faults' = {} PROVE vActive' = Cardinality(LiveSlots') /\ pActive' = vActive'
    BY DEF CountInv
  <2>1. faults = {} /\ i \in LiveSlots
    BY <1>2 DEF LiveSlots
  <2>2. vActive = Cardinality(LiveSlots) /\ pActive = vActive
    BY <1>1, <2>1 DEF CountInv, Readable
  <2>3. /\ Cardinality(LiveSlots') = Cardinality(LiveSlots) - 1 /\ 1 <= Cardinality(LiveSlots)
        /\ Cardinality(LiveSlots) \in Nat
    BY <1>2, <1>3, <2>1, LiveAfter
  <2> QED BY <1>2, <2>2, <2>3 DEF Gone
<1>11. AddedInv' /\ RemovedInv'
  BY <1>2, <1>3, HeldAfter
<1>12. MeanInv'
  <2> SUFFICES ASSUME faults' = {}, ~renewed'
               PROVE  averaged' = vActive' /\ \A j \in Slots' : weight'[j] = IF Live(j)' THEN 1 ELSE 0
    BY DEF MeanInv
  <2>1. faults = {} /\ {i} \in SUBSET LiveSlots /\ ~renewed
    BY <1>2 DEF LiveSlots
  <2> QED BY <1>1, <1>2, <1>3, <2>1, MeanAfter
<1> QED BY <1>7, <1>8, <1>9, <1>10, <1>11, <1>12

LEMMA RemoveDocumentStep ==
  ASSUME ShardInv, NEW d \in Doc, RemoveDocument(d)
  PROVE  ShardInv'
<1> DEFINE slots == LiveSlotsOf(d)
<1> DEFINE n == Cardinality(slots)
<1> USE DEF ShardInv
<1>1. /\ phase = "open" /\ ~torn /\ Len(vectors) = Len(postings) /\ count = Len(postings)
      /\ Len(weight) = Len(postings) /\ DOMAIN vectors = Slots
      /\ \A j \in Slots : B!Contains(bloom, DocOf[postings[j].key])
  BY SlotTypes DEF RemoveDocument, OpenInv
<1>2. slots = {i \in Slots : Live(i) /\ DocOf[postings[i].key] = d}
  BY <1>1 DEF LiveSlotsOf, Both, Slots
<1>3. /\ present' = {k \in present : DocOf[k] # d} /\ gone' = gone \cup {d}
      /\ UNCHANGED <<torn, cap, phase, bloom, faults, renewed>>
  BY DEF RemoveDocument
<1>4. CASE ~B!Contains(bloom, d)
  <2>1. UNCHANGED <<vectors, postings, vActive, pActive, count, averaged, nan, weight>>
    BY <1>4 DEF RemoveDocument
  <2>2. \A i \in Slots : DocOf[postings[i].key] # d
    BY <1>1, <1>4
  <2>3. TypeOK'
    BY <1>3, <2>1 DEF TypeOK
  <2>4. OpenInv' /\ FirstInv' /\ AgreeInv' /\ CountInv' /\ MeanInv'
    BY <1>3, <2>1 DEF OpenInv, FirstInv, AgreeInv, CountInv, MeanInv, Readable, Mismatch, LiveSlots, Live, Slots
  <2>5. AddedInv'
    BY <1>3, <2>1 DEF AddedInv, Latest, Live, Slots
  <2>6. RemovedInv'
    BY <1>3, <2>1, <2>2 DEF RemovedInv, Live, Slots
  <2> QED BY <2>3, <2>4, <2>5, <2>6
<1>5. CASE B!Contains(bloom, d)
  <2>1. /\ vectors' = NaNAt(slots) /\ postings' = FlagAt(slots)
        /\ vActive' = Gone(vActive, n) /\ pActive' = Gone(pActive, n)
        /\ IF n = 0 THEN UNCHANGED <<averaged, nan, weight>> ELSE CentroidRemove(slots, FALSE)
        /\ Refresh
    BY <1>5 DEF RemoveDocument
  <2>2. slots \in SUBSET Slots /\ slots \in SUBSET LiveSlots
    BY <1>2 DEF LiveSlots
  <2>3. /\ n \in Nat /\ n <= Cardinality(LiveSlots) /\ Cardinality(LiveSlots) \in Nat
        /\ Cardinality(LiveSlots') = Cardinality(LiveSlots) - n
    BY <2>1, <2>2, LiveAfter
  <2>4. /\ postings' \in Seq(Row) /\ Len(postings') = Len(postings) /\ Slots' = Slots
        /\ vectors' \in Seq(BOOLEAN) /\ Len(vectors') = Len(vectors)
        /\ \A j \in Slots : postings'[j].key = postings[j].key
    BY <2>1, <2>2, Flagging
  <2>5. count' = Len(postings)
    BY <1>1, <2>1, <2>4, SlotTypes DEF Refresh, Most
  <2>6. /\ averaged' \in Nat /\ nan' \in BOOLEAN
        /\ weight' \in Seq(Int) /\ Len(weight') = Len(weight)
    BY <2>1, <2>2, CentroidTypes DEF TypeOK
  <2>7. TypeOK'
    <3>1. vActive' \in Nat /\ pActive' \in Nat
      BY <2>1, <2>3 DEF TypeOK, Gone
    <3>2. present' \subseteq Key /\ gone' \subseteq Doc
      BY <1>3 DEF TypeOK
    <3>3. count' \in 0..cap'
      BY <1>1, <1>3, <2>5 DEF TypeOK
    <3> QED BY <1>3, <2>4, <2>6, <3>1, <3>2, <3>3 DEF TypeOK, Row
  <2>8. OpenInv'
    BY <1>1, <1>3, <2>4, <2>5, <2>6 DEF OpenInv
  <2>9. FirstInv' /\ AgreeInv'
    BY <1>3, <2>1, <2>2, FilesAfter
  <2>10. CountInv'
    <3> SUFFICES ASSUME faults' = {} PROVE vActive' = Cardinality(LiveSlots') /\ pActive' = vActive'
      BY DEF CountInv
    <3>1. vActive = Cardinality(LiveSlots) /\ pActive = vActive
      BY <1>1, <1>3 DEF CountInv, Readable
    <3> QED BY <2>1, <2>3, <3>1 DEF Gone
  <2>11. AddedInv' /\ RemovedInv'
    <3>1. \A i \in slots : postings[i].key \notin present'
      BY <1>2, <1>3
    <3>2. \A e \in gone' \ gone : \A i \in Slots \ slots : Live(i) => DocOf[postings[i].key] # e
      BY <1>2, <1>3
    <3> QED BY <1>3, <2>1, <2>2, <3>1, <3>2, HeldAfter
  <2>12. MeanInv'
    <3> SUFFICES ASSUME faults' = {}, ~renewed'
                 PROVE  averaged' = vActive' /\ \A j \in Slots' : weight'[j] = IF Live(j)' THEN 1 ELSE 0
      BY DEF MeanInv
    <3>1. CASE n = 0
      <4>1. slots = {}
        <5>1. IsFiniteSet(slots)
          BY <2>2, SlotTypes, FS_Subset
        <5> QED BY <3>1, <5>1, FS_EmptySet
      <4>2. \A j \in Slots : Live(j)' <=> Live(j)
        BY <2>1, <2>2, <4>1, Flagging, SlotTypes DEF Live, Row
      <4>3. vActive' = vActive
        BY <2>1, <3>1 DEF Gone, TypeOK
      <4> QED BY <1>1, <1>3, <2>1, <2>4, <3>1, <4>2, <4>3 DEF MeanInv
    <3>2. CASE n # 0
      BY <1>1, <1>3, <2>1, <2>2, <3>2, MeanAfter
    <3> QED BY <3>1, <3>2
  <2> QED BY <2>7, <2>8, <2>9, <2>10, <2>11, <2>12
<1> QED BY <1>4, <1>5
-----------------------------------------------------------------------------
(***************************************************************************)
(* split.                                                                  *)
(***************************************************************************)
\* The order of slots lists each once.
LEMMA BackwardOnto ==
  ASSUME TypeOK, NEW slots \in SUBSET Slots, NEW order \in Backward(slots)
  PROVE  /\ Cardinality(slots) \in Nat /\ order \in [1..Cardinality(slots) -> slots]
         /\ \A m, n \in 1..Cardinality(slots) : order[m] = order[n] => m = n
         /\ \A i \in slots : \E n \in 1..Cardinality(slots) : order[n] = i
<1>1. IsFiniteSet(slots)
  BY SlotTypes, FS_Subset
<1>2. PICK c \in Nat : c = Cardinality(slots)
  BY <1>1, FS_CardinalityType
<1>3. order \in [1..c -> slots] /\ \A m, n \in 1..c : m < n => order[m] > order[n]
  BY <1>2 DEF Backward
<1>4. ASSUME NEW m \in 1..c, NEW n \in 1..c, order[m] = order[n] PROVE m = n
  <2>1. order[m] \in Nat
    BY <1>3, SlotTypes
  <2>2. ~(m < n) /\ ~(n < m)
    BY <1>3, <1>4, <2>1
  <2> QED BY <2>2
<1>5. order \in Injection(1..c, slots)
  BY <1>3, <1>4, Fun_IsInj
<1>6. Cardinality(1..c) = c
  BY FS_Interval
<1>7. order \in Surjection(1..c, slots)
  BY <1>1, <1>2, <1>5, <1>6, FS_Injection
<1>8. \A i \in slots : \E n \in 1..c : order[n] = i
  BY <1>7, Fun_SurjectionProperties
<1> QED BY <1>2, <1>3, <1>4, <1>8

LEMMA ClustersOfLatest ==
  ASSUME TypeOK, NEW half \in Clusters
  PROVE  half \subseteq Latest
<1>1. Latest \in SUBSET Slots
  BY DEF Latest
<1>2. ASSUME NEW order \in Backward(Latest), half \in Halves(order) PROVE half \subseteq Latest
  <2>1. PICK c \in Nat : c = Cardinality(Latest)
    BY <1>1, <1>2, BackwardOnto
  <2>2. order \in [1..c -> Latest] /\ DOMAIN order = 1..c
    BY <1>1, <1>2, <2>1, BackwardOnto
  <2>3. Cardinality(DOMAIN order) = c
    BY <2>2, FS_Interval
  <2>4. PICK mid \in Nat : mid = c \div 2
    OBVIOUS
  <2>5. half = {order[n] : n \in 1..mid} \/ half = {order[n] : n \in 1..c \ (1..mid)}
    BY <1>2, <2>2, <2>3, <2>4 DEF Halves
  <2>6. 1..mid \subseteq 1..c
    BY <2>4
  <2> QED BY <2>2, <2>5, <2>6
<1>3. CASE \E order \in Backward(Latest) : half \in Halves(order)
  BY <1>2, <1>3
<1>4. CASE half \in SUBSET Latest
  BY <1>4
<1>5. half \in (UNION {Halves(order) : order \in Backward(Latest)}) \/ half \in SUBSET Latest
  <2>1. PICK A : A = UNION {Halves(order) : order \in Backward(Latest)}
    OBVIOUS
  <2>2. Clusters = A \cup (IF Cardinality(Latest) <= EvenSplit THEN {} ELSE (SUBSET Latest) \ {{}, Latest})
    BY <2>1 DEF Clusters
  <2>3. half \in A \/ half \in SUBSET Latest
    BY <2>2
  <2> QED BY <2>1, <2>3
<1>6. half \in (UNION {Halves(order) : order \in Backward(Latest)})
        => \E order \in Backward(Latest) : half \in Halves(order)
  OBVIOUS
<1> QED BY <1>3, <1>4, <1>5, <1>6

LEMMA SplitStep ==
  ASSUME ShardInv, Split
  PROVE  ShardInv'
<1> USE DEF ShardInv
<1>0. PICK half \in Clusters :
        /\ Cardinality(half) <= HalfCapacity
        /\ \E order \in Backward(half) : Become(half, order)
        /\ present' = present \cap KeysOf(half)
        /\ faults' = IF \A i \in half : vectors[i] THEN faults ELSE faults \cup {"revived"}
  BY Zenon DEF Split, Moved
<1> PICK order \in Backward(half) : Become(half, order)
  BY <1>0
<1> DEFINE n == Cardinality(half)
<1>1. /\ vectors'  = [j \in 1..n |-> vectors[order[j]]]
      /\ postings' = [j \in 1..n |-> [key |-> postings[order[j]].key, deleted |-> FALSE]]
      /\ vActive' = n /\ pActive' = n /\ cap' = HalfCapacity
      /\ bloom' = FilterOf(half)
      /\ averaged' = n /\ nan' = (\E i \in half : ~vectors[i]) /\ weight' = [j \in 1..n |-> 1]
      /\ Refresh
  BY DEF Become
<1>2. /\ phase = "open" /\ ~torn /\ Len(vectors) = Len(postings) /\ DOMAIN vectors = Slots
      /\ UNCHANGED <<torn, phase, gone>> /\ renewed' = FALSE /\ ActiveCount >= 2
  <2>1. phase = "open" /\ UNCHANGED <<torn, phase, gone>> /\ renewed' = FALSE /\ ActiveCount >= 2
    BY DEF Split
  <2>2. ~torn /\ Len(vectors) = Len(postings)
    BY <2>1 DEF OpenInv
  <2> QED BY <2>1, <2>2, SlotTypes
<1>3. half \in SUBSET Latest /\ half \in SUBSET Slots /\ IsFiniteSet(half) /\ n \in Nat
  BY ClustersOfLatest, SlotTypes, FS_Subset, FS_CardinalityType DEF Latest
<1>4. /\ order \in [1..n -> half]
      /\ \A l, m \in 1..n : order[l] = order[m] => l = m
      /\ \A i \in half : \E m \in 1..n : order[m] = i
  BY <1>3, BackwardOnto
<1>5. /\ postings' \in Seq(Row) /\ Len(postings') = n /\ Slots' = 1..n
      /\ \A j \in 1..n : postings'[j].key = postings[order[j]].key /\ postings'[j].deleted = FALSE
      /\ \A j \in 1..n : Live(j)'
  <2>1. \A j \in 1..n : [key |-> postings[order[j]].key, deleted |-> FALSE] \in Row
    BY <1>3, <1>4, SlotTypes DEF Row
  <2>2. postings' \in Seq(Row) /\ Len(postings') = n /\ DOMAIN postings' = 1..n
    BY <1>1, <1>3, <2>1
  <2>3. \A j \in 1..n : postings'[j].key = postings[order[j]].key /\ postings'[j].deleted = FALSE
    BY <1>1
  <2> QED BY <2>2, <2>3 DEF Slots, Live
<1>6. /\ vectors' \in Seq(BOOLEAN) /\ Len(vectors') = n
      /\ \A j \in 1..n : vectors'[j] = vectors[order[j]]
  <2>1. \A j \in 1..n : vectors[order[j]] \in BOOLEAN
    BY <1>2, <1>3, <1>4, SlotTypes
  <2> QED BY <1>1, <1>3, <2>1
<1>7. count' = n
  BY <1>1, <1>3, <1>5, <1>6 DEF Refresh, Most
<1>8. cap' \in Nat \ {0}
  <2>1. IsFiniteSet(Latest) /\ Latest \in SUBSET Slots
    BY SlotTypes, FS_Subset DEF Latest
  <2>2. PICK c \in Nat : c = Cardinality(Latest)
    BY <2>1, FS_CardinalityType
  <2>3. c # 0
    <3>1. Latest # {}
      <4>1. SUFFICES ASSUME Latest = {} PROVE FALSE
        OBVIOUS
      <4>2. PICK T : T = {i \in Latest : Live(i) /\ ~Mismatch(i)}
        OBVIOUS
      <4>3. T = {}
        BY <4>1, <4>2
      <4>4. ActiveCount = Cardinality(T)
        BY <4>2 DEF ActiveCount
      <4> QED BY <1>2, <4>3, <4>4, FS_EmptySet
    <3> QED BY <2>1, <2>2, <3>1, FS_EmptySet
  <2>4. cap \div 2 \in Nat /\ (c + 1) \div 2 \in Nat \ {0}
    BY <2>3 DEF TypeOK
  <2> QED BY <1>1, <2>2, <2>4 DEF HalfCapacity, Most
<1>9. TypeOK'
  <2>1. bloom' \in B!Filter
    <3>1. {DocOf[postings[i].key] : i \in half} \in SUBSET Doc
      BY <1>3, SlotTypes
    <3> QED BY <1>1, <1>3, <3>1, FilledType DEF FilterOf
  <2>2. weight' \in Seq(Int)
    BY <1>1, <1>3
  <2>3. faults' \subseteq Faults /\ present' \subseteq Key
    BY <1>0 DEF TypeOK, Faults
  <2>4. nan' \in BOOLEAN /\ renewed' \in BOOLEAN
    <3>1. CASE \E i \in half : ~vectors[i]
      BY <1>1, <1>2, <3>1, Zenon
    <3>2. CASE ~\E i \in half : ~vectors[i]
      BY <1>1, <1>2, <3>2, Zenon
    <3> QED BY <3>1, <3>2
  <2>5. n <= cap' /\ n \in 0..cap'
    BY <1>0, <1>1, <1>3, <1>8
  <2> QED BY <1>1, <1>2, <1>5, <1>6, <1>7, <1>8, <2>1, <2>2, <2>3, <2>4, <2>5 DEF TypeOK, Row
<1>10. OpenInv'
  <2>1. Len(weight') = n
    BY <1>1, <1>3
  <2>2. \A j \in 1..n : B!Contains(bloom', DocOf[postings'[j].key])
    BY <1>1, <1>4, <1>5, FilledHolds DEF FilterOf
  <2> QED BY <1>2, <1>5, <1>6, <1>7, <2>1, <2>2 DEF OpenInv
<1>11. FirstInv'
  BY <1>5, <1>6 DEF FirstInv
<1>12. "revived" \notin faults' => \A i \in half : vectors[i] /\ Live(i)
  BY <1>0, <1>3 DEF FirstInv, Live
<1>13. AgreeInv'
  BY <1>4, <1>5, <1>6, <1>12 DEF AgreeInv, Mismatch
<1>14. CountInv'
  <2>1. LiveSlots' = 1..n
    BY <1>5 DEF LiveSlots
  <2>2. Cardinality(1..n) = n
    BY <1>3, FS_Interval
  <2> QED BY <1>1, <2>1, <2>2 DEF CountInv
<1>15. AddedInv'
  <2>1. ASSUME NEW k \in present' PROVE \E j \in Latest' : postings'[j].key = k /\ Live(j)'
    <3>1. PICK i \in half : postings[i].key = k
      BY <1>0, <2>1 DEF KeysOf
    <3>2. PICK j \in 1..n : order[j] = i
      BY <1>4
    <3>3. postings'[j].key = k /\ Live(j)' /\ j \in Slots'
      BY <1>5, <3>1, <3>2
    <3>4. ASSUME NEW m \in Slots', m > j PROVE postings'[m].key # postings'[j].key
      <4>1. m \in 1..n /\ m # j
        BY <1>5, <3>4
      <4>2. order[m] \in Latest /\ order[j] \in Latest /\ order[m] # order[j]
        BY <1>3, <1>4, <4>1
      <4>3. postings[order[m]].key # postings[order[j]].key
        BY <4>2, LatestOnce
      <4> QED BY <1>5, <4>1, <4>3
    <3>5. j \in Latest'
      BY <3>3, <3>4 DEF Latest
    <3> QED BY <3>3, <3>5
  <2> QED BY <2>1 DEF AddedInv
<1>16. RemovedInv'
  <2> SUFFICES ASSUME "revived" \notin faults', NEW d \in gone', NEW j \in Slots'
               PROVE  DocOf[postings'[j].key] # d
    BY DEF RemovedInv
  <2>1. "revived" \notin faults /\ d \in gone /\ j \in 1..n
    BY <1>0, <1>2, <1>5
  <2>2. order[j] \in Slots /\ Live(order[j])
    BY <1>3, <1>4, <1>12, <2>1
  <2> QED BY <1>5, <2>1, <2>2 DEF RemovedInv
<1>17. MeanInv'
  BY <1>1, <1>3, <1>5 DEF MeanInv
<1> QED BY <1>9, <1>10, <1>11, <1>13, <1>14, <1>15, <1>16, <1>17
-----------------------------------------------------------------------------
(***************************************************************************)
(* Kills and reopening.                                                    *)
(***************************************************************************)
\* Nothing in memory is something in memory.
LEMMA Forgotten ==
  ASSUME Forget, cap' \in Nat
  PROVE  /\ phase' \in {"open", "closed", "failed"} /\ count' \in 0..cap'
         /\ bloom' \in B!Filter /\ averaged' \in Nat /\ nan' \in BOOLEAN /\ weight' \in Seq(Int)
<1>1. phase' \in {"open", "closed", "failed"} /\ count' \in 0..cap' /\ averaged' \in Nat
  BY DEF Forget
<1>2. bloom' \in B!Filter
  BY FilterTypes DEF Forget
<1>3. weight' = <<>> /\ nan' = FALSE
  BY DEF Forget
<1>4. << >> \in Seq(Int)
  OBVIOUS
<1>5. weight' \in Seq(Int)
  BY <1>3, <1>4, Zenon
<1> QED BY <1>1, <1>2, <1>3, <1>5

LEMMA CloseStep ==
  ASSUME ShardInv, Close
  PROVE  ShardInv'
<1> USE DEF ShardInv
<1>1. /\ phase' = "closed" /\ count' = 0 /\ bloom' = B!Empty
      /\ averaged' = 0 /\ nan' = FALSE /\ weight' = <<>>
      /\ UNCHANGED <<files, ghosts>>
  BY DEF Close, Forget
<1>2. TypeOK'
  <2>1. UNCHANGED <<vectors, postings, vActive, pActive, torn, cap, present, gone, faults, renewed>>
    BY <1>1 DEF files, ghosts
  <2>2. Forget /\ cap' \in Nat
    BY <2>1 DEF Close, TypeOK
  <2> QED BY <2>1, <2>2, Forgotten DEF TypeOK
<1>3. FirstInv' /\ AgreeInv' /\ CountInv' /\ AddedInv' /\ RemovedInv'
  BY <1>1 DEF files, ghosts, FirstInv, AgreeInv, CountInv, AddedInv, RemovedInv, Readable, Mismatch,
              LiveSlots, Live, Latest, Slots
<1> QED BY <1>1, <1>2, <1>3 DEF OpenInv, MeanInv

LEMMA KillInAddStep ==
  ASSUME ShardInv, NEW k \in Key, KillInAdd(k)
  PROVE  ShardInv'
<1> USE DEF ShardInv
<1>1. /\ phase' = "closed" /\ count' = 0 /\ bloom' = B!Empty
      /\ averaged' = 0 /\ nan' = FALSE /\ weight' = <<>>
      /\ gone' = gone \ {DocOf[k]}
      /\ UNCHANGED <<postings, pActive, cap, present, faults, renewed>>
  BY DEF KillInAdd, Forget
<1>2. /\ Len(vectors) = Len(postings) /\ Len(postings) < cap /\ DOMAIN vectors = Slots
      /\ Len(vectors) \in Nat
  BY SlotTypes DEF KillInAdd, OpenInv
<1>3. /\ ~Readable' /\ FirstInv' /\ torn' \in BOOLEAN /\ vActive' \in Nat
      /\ vectors' \in Seq(BOOLEAN) /\ Len(vectors') <= cap
  <2>1. CASE torn' = TRUE /\ UNCHANGED <<vectors, vActive>>
    BY <1>1, <1>2, <2>1 DEF FirstInv, Slots, Readable, TypeOK
  <2>2. CASE vectors' = Append(vectors, TRUE) /\ vActive' = vActive + 1 /\ UNCHANGED torn
    <3>1. PICK v \in BOOLEAN : v = TRUE
      OBVIOUS
    <3>2. /\ vectors' \in Seq(BOOLEAN) /\ Len(vectors') = Len(vectors) + 1
          /\ \A i \in 1..Len(vectors) : vectors'[i] = vectors[i]
      BY <2>2, <3>1, AppendProperties DEF TypeOK
    <3>3. FirstInv'
      BY <1>1, <1>2, <3>2, SlotTypes DEF FirstInv, Slots
    <3> QED BY <1>1, <1>2, <2>2, <3>2, <3>3 DEF Readable, TypeOK
  <2> QED BY <2>1, <2>2 DEF KillInAdd
<1>4. TypeOK'
  <2>1. Forget /\ cap' \in Nat
    BY <1>1 DEF KillInAdd, TypeOK
  <2> QED BY <1>1, <1>3, <2>1, Forgotten DEF TypeOK
<1>5. AddedInv' /\ RemovedInv'
  BY <1>1 DEF AddedInv, RemovedInv, Latest, Slots, Live
<1> QED BY <1>1, <1>3, <1>4, <1>5 DEF OpenInv, AgreeInv, CountInv, MeanInv

LEMMA KillInRemoveStep ==
  ASSUME ShardInv, NEW d \in Doc, KillInRemove(d)
  PROVE  ShardInv'
<1> USE DEF ShardInv
<1>1. /\ phase' = "closed" /\ count' = 0 /\ bloom' = B!Empty
      /\ averaged' = 0 /\ nan' = FALSE /\ weight' = <<>>
      /\ present' = {k \in present : DocOf[k] # d}
      /\ UNCHANGED <<cap, gone, renewed>>
  BY DEF KillInRemove, Forget
<1>2. PICK m \in LiveSlotsOf(d) :
        LET done == {i \in LiveSlotsOf(d) : i > m}
            n    == Cardinality(done)
        IN /\ postings' = FlagAt(done) /\ pActive' = Gone(pActive, n)
           /\ \/ /\ vectors' = NaNAt(done) /\ vActive' = Gone(vActive, n)
                 /\ torn' \in BOOLEAN /\ UNCHANGED faults
              \/ /\ vectors' = NaNAt(done \cup {m}) /\ vActive' = Gone(vActive, n + 1)
                 /\ faults' = faults \cup {"halfRemoved"} /\ UNCHANGED torn
  BY DEF KillInRemove
<1>3. PICK done : done = {i \in LiveSlotsOf(d) : i > m}
  OBVIOUS
<1>4. PICK n : n = Cardinality(done)
  OBVIOUS
<1>5. /\ postings' = FlagAt(done) /\ pActive' = Gone(pActive, n)
      /\ \/ /\ vectors' = NaNAt(done) /\ vActive' = Gone(vActive, n)
            /\ torn' \in BOOLEAN /\ UNCHANGED faults
         \/ /\ vectors' = NaNAt(done \cup {m}) /\ vActive' = Gone(vActive, n + 1)
            /\ faults' = faults \cup {"halfRemoved"} /\ UNCHANGED torn
  BY <1>2, <1>3, <1>4
<1>6. /\ ~torn /\ Len(vectors) = Len(postings) /\ phase = "open"
  BY DEF KillInRemove, OpenInv
<1>7. /\ done \in SUBSET Slots /\ done \in SUBSET LiveSlots /\ m \in Slots
      /\ \A i \in done : DocOf[postings[i].key] = d
  BY <1>3 DEF LiveSlotsOf, LiveSlots, Both, Slots
<1>8. PICK more \in SUBSET Slots : vectors' = NaNAt(more) /\ (more = done \/ more = done \cup {m})
  BY <1>5, <1>7
<1>9. /\ postings' \in Seq(Row) /\ Len(postings') = Len(postings) /\ Slots' = Slots
      /\ vectors' \in Seq(BOOLEAN) /\ Len(vectors') = Len(vectors)
      /\ \A i \in Slots : /\ postings'[i].key = postings[i].key
                          /\ postings'[i].deleted = (postings[i].deleted \/ i \in done)
                          /\ vectors'[i] = (vectors[i] /\ i \notin more)
  BY <1>5, <1>7, <1>8, Flagging
<1>10. /\ n \in Nat /\ n <= Cardinality(LiveSlots) /\ Cardinality(LiveSlots) \in Nat
       /\ Cardinality(LiveSlots') = Cardinality(LiveSlots) - n
  BY <1>4, <1>5, <1>7, <1>8, LiveAfter
<1>11. faults \subseteq faults' /\ faults' \subseteq Faults
  BY <1>5 DEF TypeOK, Faults
<1>12. TypeOK'
  <2>1. vActive' \in Nat /\ pActive' \in Nat /\ torn' \in BOOLEAN
    BY <1>5, <1>10 DEF TypeOK, Gone
  <2>2. present' \subseteq Key /\ gone' \subseteq Doc
    BY <1>1 DEF TypeOK
  <2>3. Forget /\ cap' \in Nat
    BY <1>1 DEF KillInRemove, TypeOK
  <2> QED BY <1>1, <1>9, <1>11, <2>1, <2>2, <2>3, Forgotten DEF TypeOK, Row
<1>13. FirstInv'
  BY <1>8, <1>9 DEF FirstInv
<1>14. AddedInv' /\ RemovedInv'
  <2>1. \A i \in done : postings[i].key \notin present'
    BY <1>1, <1>7
  <2> QED BY <1>1, <1>5, <1>7, <1>8, <1>11, <2>1, HeldAfter
<1>15. AgreeInv' /\ CountInv'
  <2>1. CASE vectors' = NaNAt(done) /\ vActive' = Gone(vActive, n) /\ UNCHANGED faults
    <3>1. AgreeInv'
      BY <1>5, <1>6, <1>7, <2>1, FilesAfter
    <3>2. CountInv'
      <4> SUFFICES ASSUME faults' = {} PROVE vActive' = Cardinality(LiveSlots') /\ pActive' = vActive'
        BY DEF CountInv
      <4>1. vActive = Cardinality(LiveSlots) /\ pActive = vActive
        BY <1>6, <2>1 DEF CountInv, Readable
      <4> QED BY <1>5, <1>10, <2>1, <4>1 DEF Gone
    <3> QED BY <3>1, <3>2
  <2>2. CASE faults' = faults \cup {"halfRemoved"}
    BY <2>2 DEF AgreeInv, CountInv
  <2> QED BY <1>5, <2>1, <2>2
<1> QED BY <1>1, <1>12, <1>13, <1>14, <1>15 DEF OpenInv, MeanInv

LEMMA OpenStep ==
  ASSUME ShardInv, Open
  PROVE  ShardInv'
<1> USE DEF ShardInv
<1>1. /\ phase = "closed" /\ UNCHANGED <<files, present, gone, faults>>
      /\ renewed' = (\E i \in Slots : i \notin Latest \/ ~Live(i))
  BY DEF Open
<1>2. /\ UNCHANGED <<vectors, postings, vActive, pActive, torn, cap>>
      /\ Slots' = Slots /\ Latest' = Latest /\ LiveSlots' = LiveSlots
  BY <1>1 DEF files, Slots, Latest, LiveSlots, Live
<1>3. FirstInv' /\ AgreeInv' /\ CountInv' /\ AddedInv' /\ RemovedInv'
  BY <1>1, <1>2 DEF FirstInv, AgreeInv, CountInv, AddedInv, RemovedInv, Readable, Mismatch, Live
<1>4. renewed' \in BOOLEAN
  BY <1>1, Zenon
<1>5. CASE ~Readable
  <2>1. phase' = "failed" /\ UNCHANGED memory
    BY <1>5 DEF Open
  <2> QED BY <1>1, <1>2, <1>3, <1>4, <2>1 DEF TypeOK, OpenInv, MeanInv, memory
<1>6. CASE Readable
  <2>1. /\ phase' = "open" /\ bloom' = FilterOf(Latest)
        /\ count' = Most(Len(vectors), Len(postings))
        /\ IF vActive = 0
           THEN averaged' = 0 /\ nan' = FALSE /\ weight' = [i \in Slots |-> 0]
           ELSE /\ averaged' = Cardinality(Latest) /\ nan' = (\E i \in Latest : ~vectors[i])
                /\ weight' = [i \in Slots |-> IF i \in Latest THEN 1 ELSE 0]
    BY <1>6 DEF Open, KnownAtOpen
  <2>2. count' = Len(postings) /\ Len(vectors) = Len(postings) /\ ~torn
    BY <1>6, <2>1, SlotTypes DEF Most, Readable
  <2>3. Latest \in SUBSET Slots /\ Cardinality(Latest) \in Nat
    BY SlotTypes, FS_Subset, FS_CardinalityType DEF Latest
  <2>4. bloom' \in B!Filter
    <3>1. {DocOf[postings[i].key] : i \in Latest} \in SUBSET Doc
      BY <2>3, SlotTypes
    <3> QED BY <2>1, <2>3, <3>1, FilledType DEF FilterOf
  <2>5. averaged' \in Nat /\ weight' \in Seq(Int) /\ Len(weight') = Len(postings)
    <3>1. PICK c \in Nat : c = Cardinality(Latest)
      BY <2>3
    <3>2. Slots = 1..Len(postings) /\ Len(postings) \in Nat
      BY SlotTypes
    <3>3. CASE vActive = 0
      <4>1. averaged' = 0 /\ weight' = [i \in 1..Len(postings) |-> 0]
        BY <2>1, <3>2, <3>3
      <4> QED BY <3>2, <4>1
    <3>4. CASE vActive # 0
      <4>1. averaged' = c /\ weight' = [i \in 1..Len(postings) |-> IF i \in Latest THEN 1 ELSE 0]
        BY <2>1, <3>1, <3>2, <3>4
      <4> QED BY <3>2, <4>1
    <3> QED BY <3>3, <3>4
  <2>6. nan' \in BOOLEAN
    <3>1. CASE vActive = 0
      BY <2>1, <3>1
    <3>2. CASE vActive # 0
      <4>1. nan' = (\E i \in Latest : ~vectors[i])
        BY <2>1, <3>2
      <4> QED BY <4>1, Zenon
    <3> QED BY <3>1, <3>2
  <2>7. TypeOK'
    BY <1>1, <1>2, <1>4, <2>1, <2>2, <2>4, <2>5, <2>6 DEF TypeOK
  <2>8. ASSUME NEW i \in Slots PROVE B!Contains(bloom', DocOf[postings[i].key])
    <3>1. PICK j \in Latest : postings[j].key = postings[i].key
      BY LatestOfKey
    <3> QED BY <2>1, <3>1, FilledHolds DEF FilterOf
  <2>9. OpenInv'
    BY <1>2, <2>1, <2>2, <2>5, <2>8 DEF OpenInv
  <2>10. MeanInv'
    <3> SUFFICES ASSUME faults' = {}, ~renewed'
                 PROVE  averaged' = vActive' /\ \A i \in Slots' : weight'[i] = IF Live(i)' THEN 1 ELSE 0
      BY DEF MeanInv
    <3>1. Latest = Slots /\ LiveSlots = Slots
      BY <1>1, <2>3 DEF LiveSlots
    <3>2. vActive = Cardinality(Slots) /\ \A i \in Slots : Live(i)' 
      BY <1>1, <1>2, <1>6, <3>1 DEF CountInv, LiveSlots
    <3>3. vActive = 0 => Slots = {}
      BY <3>2, SlotTypes, FS_EmptySet
    <3> QED BY <1>2, <2>1, <3>1, <3>2, <3>3
  <2> QED BY <1>3, <2>7, <2>9, <2>10
<1> QED BY <1>5, <1>6
-----------------------------------------------------------------------------
(***************************************************************************)
(* The theorems.                                                           *)
(***************************************************************************)
LEMMA ShardInit == Init => ShardInv
<1> SUFFICES ASSUME Init PROVE ShardInv
  OBVIOUS
<1>1. Slots = {} /\ Latest = {} /\ LiveSlots = {} /\ Len(postings) = 0 /\ Len(vectors) = 0
      /\ Len(weight) = 0
  BY DEF Init, Slots, Latest, LiveSlots
<1>2. TypeOK
  <2>1. vectors = <<>> /\ postings = <<>> /\ weight = <<>>
    BY DEF Init
  <2>2. << >> \in Seq(BOOLEAN) /\ << >> \in Seq([key : Key, deleted : BOOLEAN]) /\ << >> \in Seq(Int)
    OBVIOUS
  <2>3. vectors \in Seq(BOOLEAN) /\ postings \in Seq([key : Key, deleted : BOOLEAN]) /\ weight \in Seq(Int)
    BY <2>1, <2>2, Zenon
  <2>4. vActive \in Nat /\ pActive \in Nat /\ cap \in Nat \ {0} /\ count \in 0..cap /\ averaged \in Nat
    BY DEF Init
  <2>5. torn \in BOOLEAN /\ nan \in BOOLEAN /\ renewed \in BOOLEAN /\ phase \in {"open", "closed", "failed"}
    BY DEF Init
  <2>6. present \subseteq Key /\ gone \subseteq Doc /\ faults \subseteq Faults
    BY DEF Init
  <2>7. bloom \in B!Filter
    BY FilterTypes DEF Init
  <2> QED BY <1>1, <2>3, <2>4, <2>5, <2>6, <2>7 DEF TypeOK
<1>3. CountInv
  BY <1>1, FS_EmptySet DEF Init, CountInv
<1> QED BY <1>1, <1>2, <1>3
        DEF ShardInv, Init, OpenInv, FirstInv, AgreeInv, AddedInv, RemovedInv, MeanInv

LEMMA ShardStep == ShardInv /\ [Next]_vars => ShardInv'
<1> SUFFICES ASSUME ShardInv, [Next]_vars PROVE ShardInv'
  OBVIOUS
<1>1. CASE \E k \in Key : AddPosting(k)
  BY <1>1, AddStep
<1>2. CASE \E k \in Key : KillInAdd(k)
  BY <1>2, KillInAddStep
<1>3. CASE \E d \in Doc : RemoveDocument(d)
  BY <1>3, RemoveDocumentStep
<1>4. CASE \E d \in Doc : KillInRemove(d)
  BY <1>4, KillInRemoveStep
<1>5. CASE \E i \in Slots : RemovePosting(i)
  BY <1>5, RemovePostingStep
<1>6. CASE Split
  BY <1>6, SplitStep
<1>7. CASE Close
  BY <1>7, CloseStep
<1>8. CASE Open
  BY <1>8, OpenStep
<1>9. CASE UNCHANGED vars
  <2>1. UNCHANGED <<vectors, postings, vActive, pActive, torn, cap, phase, count, bloom, averaged,
                    nan, weight, present, gone, faults, renewed>>
    BY <1>9 DEF vars, files, memory, ghosts
  <2>2. TypeOK' /\ OpenInv' /\ FirstInv' /\ MeanInv'
    BY <2>1 DEF ShardInv, TypeOK, OpenInv, FirstInv, MeanInv, Slots, Live
  <2>3. AgreeInv' /\ CountInv' /\ AddedInv' /\ RemovedInv'
    BY <2>1 DEF ShardInv, AgreeInv, CountInv, AddedInv, RemovedInv, Readable, Mismatch, LiveSlots, Live,
                Latest, Slots
  <2> QED BY <2>2, <2>3 DEF ShardInv
<1> QED BY <1>1, <1>2, <1>3, <1>4, <1>5, <1>6, <1>7, <1>8, <1>9 DEF Next

\* Whatever is added, removed, split, killed or reopened, the invariant holds: in
\* particular every variable has its type.
THEOREM ShardInvariant == Spec => []ShardInv
BY ShardInit, ShardStep, PTL DEF Spec

\* The two files of a shard and the active counts of their headers stay in step.
THEOREM FilesStayInStep == Spec => []FilesAgree
<1>1. ASSUME ShardInv PROVE FilesAgree
  <2> USE <1>1 DEF ShardInv
  <2>1. SlotsAgree
    BY DEF SlotsAgree, OpenInv, AgreeInv, Readable
  <2>2. ActiveIsLive
    BY DEF ActiveIsLive, OpenInv, CountInv, Readable, LiveSlots
  <2> QED BY <2>1, <2>2 DEF FilesAgree
<1> QED BY <1>1, ShardInvariant, PTL

\* A shard holds what was added to it and not removed since, and nothing else.
THEOREM HoldsWhatWasAdded == Spec => []ContentsHold
<1>1. ASSUME ShardInv PROVE ContentsHold
  <2> USE <1>1 DEF ShardInv
  <2>1. AddedIsLive
    BY DEF AddedIsLive, AddedInv
  <2>2. RemovedHasNone
    <3> SUFFICES ASSUME "revived" \notin faults, NEW d \in gone, NEW i \in LiveSlotsOf(d) PROVE FALSE
      BY DEF RemovedHasNone
    <3>1. i \in Slots /\ Live(i) /\ DocOf[postings[i].key] = d
      BY DEF LiveSlotsOf, Both, Slots
    <3> QED BY <3>1 DEF RemovedInv
  <2> QED BY <2>1, <2>2 DEF ContentsHold
<1> QED BY <1>1, ShardInvariant, PTL

\* As many keys as slots: no key twice.
LEMMA KeysOnce ==
  ASSUME TypeOK, Cardinality(KeysOf(LiveSlots)) = Cardinality(LiveSlots),
         NEW i \in LiveSlots, NEW j \in LiveSlots, postings[i].key = postings[j].key
  PROVE  i = j
<1>1. IsFiniteSet(LiveSlots)
  BY SlotTypes, FS_Subset DEF LiveSlots
<1>2. PICK T : T = KeysOf(LiveSlots)
  OBVIOUS
<1>3. PICK f : f = [l \in LiveSlots |-> postings[l].key]
  OBVIOUS
<1>4. f \in [LiveSlots -> T] /\ \A k \in T : \E l \in LiveSlots : f[l] = k
  BY <1>2, <1>3 DEF KeysOf
<1>5. f \in Surjection(LiveSlots, T)
  BY <1>4, Fun_IsSurj
<1>6. f \in Injection(LiveSlots, T)
  BY <1>1, <1>2, <1>5, FS_Surjection
<1>7. f[i] = f[j]
  BY <1>3
<1> QED BY <1>6, <1>7, Fun_InjectionProperties

\* An intact shard validates: no add, removal, split or reopening of it makes a
\* comparison of validate_integrity fail.
THEOREM IntactShardValidates == Spec => []IntactValidates
<1>1. ASSUME ShardInv PROVE IntactValidates
  <2> USE <1>1 DEF ShardInv
  <2> SUFFICES ASSUME phase = "open", faults = {}, ~renewed,
                      Cardinality(KeysOf(LiveSlots)) = Cardinality(LiveSlots)
               PROVE  Validates
    BY DEF IntactValidates, LiveSlots
  <2>1. /\ ~torn /\ Len(vectors) = Len(postings) /\ DOMAIN vectors = Slots /\ Slots = 1..Len(postings)
        /\ Len(postings) \in Nat /\ Len(postings) <= cap /\ cap \in Nat
    BY SlotTypes DEF OpenInv, TypeOK
  <2>2. \A i \in Slots : ~Mismatch(i)
    BY <2>1 DEF AgreeInv, Readable
  <2>3. vActive = Cardinality(LiveSlots) /\ pActive = vActive
    BY <2>1 DEF CountInv, Readable
  <2>4. averaged = vActive /\ \A i \in Slots : weight[i] = IF Live(i) THEN 1 ELSE 0
    BY DEF MeanInv
  <2>5. \A i \in Slots : vectors[i] <=> Live(i)
    <3>1. \A i \in Slots : vectors[i] \in BOOLEAN /\ postings[i].deleted \in BOOLEAN
      BY <2>1, SlotTypes DEF Row
    <3> QED BY <2>2, <3>1 DEF Mismatch, Live
  <2>6. {i \in DOMAIN vectors : vectors[i]} = LiveSlots
    BY <2>1, <2>5 DEF LiveSlots
  <2>7. vActive \in Nat /\ vActive <= Len(postings)
    <3>1. LiveSlots \subseteq 1..Len(postings)
      BY <2>1 DEF LiveSlots
    <3>2. PICK n \in Nat : n = Len(postings)
      BY <2>1
    <3>3. Cardinality(1..n) = n /\ IsFiniteSet(1..n)
      BY FS_Interval
    <3> QED BY <2>3, <3>1, <3>2, <3>3, FS_Subset, FS_CardinalityType
  <2>8. VectorFileValid
    BY <2>1, <2>3, <2>6, <2>7 DEF VectorFileValid, HeaderValid
  <2>9. PostingFileValid
    BY <2>1, <2>3, <2>7 DEF PostingFileValid, HeaderValid, LiveSlots
  <2>10. CentroidAgrees
    <3> SUFFICES ASSUME ~Expected.nan
                 PROVE  \A i \in Slots : weight[i] * Expected.averaged = (IF i \in Latest THEN averaged ELSE 0)
      BY DEF CentroidAgrees
    <3>1. \A i \in Latest : i \in LiveSlots
      <4>1. \A i \in Latest : vectors[i] /\ i \in Slots
        BY DEF Expected, Latest
      <4> QED BY <2>5, <4>1 DEF LiveSlots
    <3>2. ASSUME NEW i \in LiveSlots PROVE i \in Latest
      <4>1. PICK j \in Latest : postings[j].key = postings[i].key
        BY LatestOfKey DEF LiveSlots
      <4> QED BY <3>1, <4>1, KeysOnce
    <3>3. Latest = LiveSlots
      BY <3>1, <3>2
    <3>4. Expected.averaged = averaged
      BY <2>3, <2>4, <3>3 DEF Expected
    <3>5. \A i \in Slots : weight[i] = IF i \in Latest THEN 1 ELSE 0
      BY <2>4, <3>3 DEF LiveSlots
    <3> QED BY <2>4, <2>7, <3>4, <3>5
  <2> QED BY <2>1, <2>2, <2>3, <2>4, <2>8, <2>9, <2>10 DEF Validates
<1> QED BY <1>1, ShardInvariant, PTL
=============================================================================
