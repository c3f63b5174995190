------------------------------- MODULE Shard -------------------------------
(***************************************************************************)
(* One shard (src/src/shard.rs): a vector file and a posting file that     *)
(* must stay in step (vector_storage.rs, posting_storage.rs), and what the *)
(* open shard keeps in memory about them: counts, bloom filter, centroid.  *)
(*                                                                         *)
(* Slots are append-only.  A removed posting keeps its slot: its vector is *)
(* overwritten with NaN and its flag is set, in two writes to two files.   *)
(* Every write to a file is followed by a write of the header that holds   *)
(* its checksum; a kill between them leaves the file torn, and open        *)
(* refuses it.  Files are memory-mapped: a killed process leaves what it   *)
(* wrote.  All of this runs under exclusive access to the shard.           *)
(*                                                                         *)
(* A vector is a number or NaN, the numbers in general position: two means *)
(* are equal only when they are of the same vectors, as often.             *)
(***************************************************************************)
EXTENDS Integers, Sequences, FiniteSets

CONSTANTS
  Doc, Key,       \* documents; postings by (document_id, start, length)
  DocOf,          \* document of each posting
  Capacity,       \* slots of the shard when it is created
  SplitFloor,     \* least capacity of a half (5 in the code)
  SplitBuffer,    \* extra slots of a half when there were duplicates (5)
  Bit, HashBits,  \* the bits of the bloom filter, and those of each document
  EvenSplit       \* up to this many postings are halved unclustered (4)

B == INSTANCE BloomFilter WITH Item <- Doc

ASSUME ShardAssumption ==
  /\ DocOf \in [Key -> Doc] /\ B!BloomAssumption
  /\ Capacity \in Nat \ {0} /\ SplitFloor \in Nat \ {0}
  /\ SplitBuffer \in Nat /\ EvenSplit \in Nat

VARIABLES
  vectors,    \* vector file: per slot, is the vector a number?
  postings,   \* posting file: per slot, its key and whether it is flagged deleted
  vActive,    \* active_count in the header of the vector file
  pActive,    \* active_count in the header of the posting file
  torn,       \* a file's checksum is not that of its data
  cap,        \* capacity
  phase,      \* "open", "closed", or "failed": Shard::open answered an error
  count,      \* metadata.current_count
  bloom,      \* metadata.bloom_filter
  averaged,   \* active_vector_count: how many vectors the centroid averages
  nan,        \* is the centroid NaN?
  weight,     \* per slot, how often its vector is in the sum of the centroid
  present,    \* ghost: postings added, not removed since
  gone,       \* ghost: documents removed, not added since
  faults,     \* ghost: what happened that the code does not survive intact
  renewed     \* ghost: did open average slots that are deleted, or only the latest of some?

files  == <<vectors, postings, vActive, pActive, torn, cap>>
memory == <<count, bloom, averaged, nan, weight>>
ghosts == <<present, gone, faults, renewed>>
vars == <<files, phase, memory, ghosts>>

\* A kill between the two files of a removal; a split that moved a removed
\* posting; a removal by index of a posting already removed.
Faults == {"halfRemoved", "revived", "removedTwice"}

Slots   == DOMAIN postings
Live(i) == ~postings[i].deleted
Both    == DOMAIN vectors \cap DOMAIN postings
Most(a, b) == IF a > b THEN a ELSE b

\* iter_unique_postings_backward: the last slot of each key, deleted or not.
Latest  == {i \in Slots : \A j \in Slots : j > i => postings[j].key # postings[i].key}
KeysOf(slots) == {postings[i].key : i \in slots}
FilterOf(slots) == B!Filled({DocOf[postings[i].key] : i \in slots}, Cardinality(slots))

\* is_deleted answers an error where the two files disagree.
Mismatch(i) == vectors[i] = postings[i].deleted
LiveSlotsOf(d) == {i \in Both : Live(i) /\ DocOf[postings[i].key] = d}

Init ==   \* Shard::create
  /\ vectors = <<>> /\ postings = <<>> /\ vActive = 0 /\ pActive = 0 /\ torn = FALSE
  /\ cap = Capacity /\ phase = "open"
  /\ count = 0 /\ bloom = B!Empty /\ averaged = 0 /\ nan = FALSE /\ weight = <<>>
  /\ present = {} /\ gone = {} /\ faults = {} /\ renewed = FALSE
-----------------------------------------------------------------------------
\* update_from_storages, with the files as the step leaves them.
Refresh == count' = Most(Len(vectors'), Len(postings'))

\* update_centroid_add of a number: the first vector replaces the centroid.
CentroidAdd ==
  /\ averaged' = averaged + 1
  /\ nan' = (nan /\ averaged # 0)
  /\ weight' = Append(IF averaged = 0 THEN [i \in DOMAIN weight |-> 0] ELSE weight, 1)

\* Mutant of CentroidRemove: the sum loses one vector only.
CentroidRemoveOne(slots, poison) ==
  IF Cardinality(slots) >= averaged
  THEN averaged' = 0 /\ nan' = (averaged = 0 /\ nan) /\ weight' = [i \in DOMAIN weight |-> 0]
  ELSE /\ averaged' = averaged - Cardinality(slots) /\ nan' = (nan \/ poison)
       /\ weight' = [weight EXCEPT ![CHOOSE i \in slots : TRUE] = @ - 1]

\* update_centroid_remove of the vectors of some slots, the centroid becoming
\* NaN if one was; removing the last vector resets it, with none to remove it
\* is left alone.
CentroidRemove(slots, poison) ==
  IF Cardinality(slots) >= averaged
  THEN averaged' = 0 /\ nan' = (averaged = 0 /\ nan) /\ weight' = [i \in DOMAIN weight |-> 0]
  ELSE /\ averaged' = averaged - Cardinality(slots) /\ nan' = (nan \/ poison)
       /\ weight' = [i \in DOMAIN weight |-> IF i \in slots THEN weight[i] - 1 ELSE weight[i]]

\* Mutant of Gone: a document is subtracted once.
GoneOnce(active, n) == IF n > 0 /\ active > 0 THEN active - 1 ELSE active
Gone(active, n) == IF n > active THEN 0 ELSE active - n

NaNAt(slots)  == [i \in DOMAIN vectors |-> vectors[i] /\ i \notin slots]
FlagAt(slots) == [i \in Slots |-> [postings[i] EXCEPT !.deleted = @ \/ i \in slots]]
-----------------------------------------------------------------------------
\* add_posting.  The indices the two files answer are equal unless their
\* counts differ; then both new slots are tombstoned and metadata is left stale.
AddPosting(k) ==
  /\ phase = "open" /\ count < cap
  /\ Len(vectors) < cap /\ Len(postings) < cap
  /\ LET ok == Len(vectors) = Len(postings)
     IN /\ vectors' = Append(vectors, ok)
        /\ postings' = Append(postings, [key |-> k, deleted |-> ~ok])
        /\ IF ok
           THEN /\ vActive' = vActive + 1 /\ pActive' = pActive + 1
                /\ bloom' = B!Insert(bloom, DocOf[k])
                /\ CentroidAdd /\ Refresh
                /\ present' = present \cup {k} /\ gone' = gone \ {DocOf[k]}
           ELSE /\ weight' = Append(weight, 0)
                /\ UNCHANGED <<vActive, pActive, count, bloom, averaged, nan, present, gone>>
  /\ UNCHANGED <<torn, cap, phase, faults, renewed>>

\* remove_posting: neither the shard nor the files ask whether the posting is
\* already deleted.
RemovePosting(i) ==
  /\ phase = "open" /\ i <= count /\ i \in Both
  /\ vectors' = NaNAt({i}) /\ postings' = FlagAt({i})
  /\ vActive' = Gone(vActive, 1) /\ pActive' = Gone(pActive, 1)
  /\ CentroidRemove({i}, ~vectors[i]) /\ Refresh
  /\ present' = present \ {postings[i].key}
  /\ faults' = IF Live(i) THEN faults ELSE faults \cup {"removedTwice"}
  /\ UNCHANGED <<torn, cap, phase, bloom, gone, renewed>>

\* remove_document: nothing is done for a document the bloom filter does not
\* know, nor, with an error, when some slot's deletion state is inconsistent.
RemoveDocument(d) ==
  LET slots == LiveSlotsOf(d)
      n     == Cardinality(slots)
  IN /\ phase = "open"
     /\ IF B!Contains(bloom, d)
        THEN /\ \A i \in 1..count : i \in Both /\ ~Mismatch(i)
             /\ vectors' = NaNAt(slots) /\ postings' = FlagAt(slots)
             /\ vActive' = Gone(vActive, n) /\ pActive' = Gone(pActive, n)
             /\ (IF n = 0 THEN UNCHANGED <<averaged, nan, weight>> ELSE CentroidRemove(slots, FALSE))
             /\ Refresh
        ELSE UNCHANGED <<vectors, postings, vActive, pActive, count, averaged, nan, weight>>
     /\ present' = {k \in present : DocOf[k] # d} /\ gone' = gone \cup {d}
     /\ UNCHANGED <<torn, cap, phase, bloom, faults, renewed>>
-----------------------------------------------------------------------------
(***************************************************************************)
(* split: the latest slot of every key, deleted or not, is added to one of *)
(* two fresh shards.  The original is left as it is; the model goes on     *)
(* with one of the halves.  When a half has too little room split fails.   *)
(***************************************************************************)
Backward(slots) ==   \* the slots, most recent first: one sequence
  {f \in [1..Cardinality(slots) -> slots] : \A m, n \in DOMAIN f : m < n => f[m] > f[n]}

\* cluster_unique_vectors: the first or the second half of few postings; any
\* side k-means may choose otherwise, but never an empty one.
Halves(order) ==
  LET mid == Cardinality(DOMAIN order) \div 2
  IN {{order[n] : n \in 1..mid}, {order[n] : n \in DOMAIN order \ (1..mid)}}

Clusters ==
  (UNION {Halves(order) : order \in Backward(Latest)})
  \cup (IF Cardinality(Latest) <= EvenSplit THEN {} ELSE (SUBSET Latest) \ {{}, Latest})

ActiveCount == Cardinality({i \in Latest : Live(i) /\ ~Mismatch(i)})

HalfCapacity ==
  IF count > Cardinality(Latest)
  THEN Most(cap \div 2, (Cardinality(Latest) + 1) \div 2 + SplitBuffer)
  ELSE Most(cap \div 2, SplitFloor)

\* Mutant of Moved: the oldest slot of the half stays behind.
MovedButOne(slots) == slots \ {CHOOSE i \in slots : \A j \in slots : i <= j}
Moved(slots) == slots

\* A fresh shard, with the postings of a half added in some order.
Become(half, order) ==
  LET n == Cardinality(half)
  IN /\ vectors'  = [j \in 1..n |-> vectors[order[j]]]
     /\ postings' = [j \in 1..n |-> [key |-> postings[order[j]].key, deleted |-> FALSE]]
     /\ vActive' = n /\ pActive' = n
     /\ cap' = HalfCapacity
     /\ bloom' = FilterOf(half)
     /\ averaged' = n /\ nan' = (\E i \in half : ~vectors[i]) /\ weight' = [j \in 1..n |-> 1]
     /\ Refresh

Split ==
  /\ phase = "open" /\ ActiveCount >= 2
  /\ \E half \in Clusters :
       /\ Cardinality(half) <= HalfCapacity /\ Cardinality(Latest \ half) <= HalfCapacity
       /\ \E order \in Backward(Moved(half)) : Become(Moved(half), order)
       /\ present' = present \cap KeysOf(half)
       /\ faults' = IF \A i \in half : vectors[i] THEN faults ELSE faults \cup {"revived"}
  /\ renewed' = FALSE
  /\ UNCHANGED <<torn, phase, gone>>
-----------------------------------------------------------------------------
(***************************************************************************)
(* Kills and reopening.                                                    *)
(***************************************************************************)
\* What was in memory is gone.
Forget == /\ phase' = "closed" /\ count' = 0 /\ bloom' = B!Empty
          /\ averaged' = 0 /\ nan' = FALSE /\ weight' = <<>>

\* The process ends between two operations.
Close ==
  /\ phase = "open" /\ Forget
  /\ UNCHANGED <<files, ghosts>>

\* It ends inside add_posting: before a header is written, or between the files.
KillInAdd(k) ==
  /\ phase = "open" /\ count < cap /\ Len(vectors) = Len(postings)
  /\ Forget
  /\ \/ torn' = TRUE /\ UNCHANGED <<vectors, vActive>>
     \/ vectors' = Append(vectors, TRUE) /\ vActive' = vActive + 1 /\ UNCHANGED torn
  /\ gone' = gone \ {DocOf[k]}
  /\ UNCHANGED <<postings, pActive, cap, present, faults, renewed>>

\* It ends inside remove_document, which goes from the last slot to the first:
\* between two slots, before a header is written, or between the files.
KillInRemove(d) ==
  /\ phase = "open" /\ B!Contains(bloom, d)
  /\ \A i \in 1..count : i \in Both /\ ~Mismatch(i)
  /\ \E m \in LiveSlotsOf(d) :
       LET done == {i \in LiveSlotsOf(d) : i > m}
           n    == Cardinality(done)
       IN /\ postings' = FlagAt(done) /\ pActive' = Gone(pActive, n)
          /\ \/ /\ vectors' = NaNAt(done) /\ vActive' = Gone(vActive, n)
                /\ torn' \in BOOLEAN /\ UNCHANGED faults
             \/ /\ vectors' = NaNAt(done \cup {m}) /\ vActive' = Gone(vActive, n + 1)
                /\ faults' = faults \cup {"halfRemoved"} /\ UNCHANGED torn
  /\ Forget
  /\ present' = {k \in present : DocOf[k] # d}
  /\ UNCHANGED <<cap, gone, renewed>>

\* Mutant of Readable: nobody reads the postings at open.
ReadableByChecksum == ~torn
Readable == ~torn /\ Len(vectors) = Len(postings)

\* Mutant of KnownAtOpen: the filter is not rebuilt.
KnownAtCreate == B!Empty
\* populate_bloom_filter
KnownAtOpen == FilterOf(Latest)

\* Shard::open: a torn file is refused, and so are files of different lengths,
\* by populate_bloom_filter, which fails on the first unreadable posting.  The
\* centroid is averaged over the latest slots, deleted ones included, unless no
\* vector is active.
Open ==
  /\ phase = "closed"
  /\ IF ~Readable
     THEN phase' = "failed" /\ UNCHANGED memory
     ELSE /\ phase' = "open" /\ bloom' = KnownAtOpen
          /\ count' = Most(Len(vectors), Len(postings))
          /\ IF vActive = 0
             THEN averaged' = 0 /\ nan' = FALSE /\ weight' = [i \in Slots |-> 0]
             ELSE /\ averaged' = Cardinality(Latest) /\ nan' = (\E i \in Latest : ~vectors[i])
                  /\ weight' = [i \in Slots |-> IF i \in Latest THEN 1 ELSE 0]
  /\ renewed' = (\E i \in Slots : i \notin Latest \/ ~Live(i))
  /\ UNCHANGED <<files, present, gone, faults>>

Next == \/ \E k \in Key : AddPosting(k) \/ KillInAdd(k)
        \/ \E d \in Doc : RemoveDocument(d) \/ KillInRemove(d)
        \/ \E i \in Slots : RemovePosting(i)
        \/ Split \/ Close \/ Open

Spec == Init /\ [][Next]_vars
-----------------------------------------------------------------------------
(***************************************************************************)
(* Validation of an open shard.  What is only arithmetic on the offsets of *)
(* the files, and the sanity of each posting's range, is left out: the     *)
(* files are made with them and nothing changes them.                      *)
(***************************************************************************)
\* PostingStorageHeader::validate, and that of vectors: counts are in order.
HeaderValid(active, n) == active <= n /\ n <= cap

\* VectorStorage::validate_integrity: header, checksum, and the active count is
\* that of the numbers.
VectorFileValid ==
  /\ HeaderValid(vActive, Len(vectors)) /\ ~torn
  /\ vActive = Cardinality({i \in DOMAIN vectors : vectors[i]})

\* PostingStorage::validate_integrity
PostingFileValid ==
  /\ HeaderValid(pActive, Len(postings)) /\ ~torn
  /\ pActive = Cardinality({i \in Slots : Live(i)})

\* calculate_centroid, the mean of the latest slots, is NaN if one is.
Expected == [nan |-> \E i \in Latest : ~vectors[i], averaged |-> Cardinality(Latest)]

\* The stored centroid and the fresh one differ by no more than a tolerance in
\* each component; no NaN differs from anything.
CentroidAgrees ==
  \/ nan \/ Expected.nan
  \/ \A i \in Slots : weight[i] * Expected.averaged = (IF i \in Latest THEN averaged ELSE 0)

\* Shard::validate_integrity
Validates ==
  /\ VectorFileValid /\ PostingFileValid
  /\ Len(vectors) = Len(postings) /\ vActive = pActive
  /\ \A i \in Slots : ~Mismatch(i)
  /\ averaged = vActive /\ CentroidAgrees
-----------------------------------------------------------------------------
(***************************************************************************)
(* Properties.                                                             *)
(***************************************************************************)
TypeOK ==
  /\ vectors \in Seq(BOOLEAN)
  /\ postings \in Seq([key : Key, deleted : BOOLEAN])
  /\ vActive \in Nat /\ pActive \in Nat /\ torn \in BOOLEAN
  /\ cap \in Nat \ {0} /\ Len(vectors) <= cap /\ Len(postings) <= cap
  /\ phase \in {"open", "closed", "failed"}
  /\ count \in 0..cap /\ bloom \in B!Filter /\ averaged \in Nat /\ nan \in BOOLEAN
  /\ weight \in Seq(Int) /\ renewed \in BOOLEAN
  /\ present \subseteq Key /\ gone \subseteq Doc /\ faults \subseteq Faults

\* In an open shard the two files have the same slots and agree on which are
\* deleted, whatever was killed and reopened before: so is_deleted never
\* answers Corruption and remove_document never gets stuck.  The exceptions
\* are a kill between the two writes of one removal, and a split.
SlotsAgree ==
  phase = "open" /\ faults \cap {"halfRemoved", "revived"} = {} =>
    /\ Len(vectors) = Len(postings) /\ count = Len(postings)
    /\ \A i \in Slots : ~Mismatch(i)

\* The active counts in both headers are the number of live slots, except
\* after one of the faults (a posting removed twice is subtracted twice).
ActiveIsLive ==
  phase = "open" /\ faults = {} =>
    vActive = Cardinality({i \in Slots : Live(i)}) /\ pActive = vActive

\* The two files of a shard and the counts in their headers stay in step, through
\* add_posting, the removals, split, close, open and kills.
FilesAgree == SlotsAgree /\ ActiveIsLive

\* A posting that add_posting accepted is in an open shard, live in the latest
\* slot of its key, until it is removed: no reopening, no split and no kill in
\* the middle of another operation hides it.
AddedIsLive ==
  phase = "open" =>
    \A k \in present : \E i \in Latest : postings[i].key = k /\ Live(i)

\* A document that remove_document removed has no live posting, not even an
\* older version of one, until it is added again; in particular the rebuilt
\* bloom filter never hides a posting from it.
RemovedHasNone ==
  phase = "open" /\ "revived" \notin faults => \A d \in gone : LiveSlotsOf(d) = {}

\* A shard holds what was added and not removed since, and nothing else.
ContentsHold == AddedIsLive /\ RemovedHasNone

\* Validation accepts every shard that nothing happened to: after adds,
\* removals, splits and reopenings the counts of the two headers, the slots and
\* the running mean agree with what is computed afresh, so its Corruption
\* errors are no false alarms.  The exceptions are the faults, a posting live
\* in two slots (the running mean has both, the fresh one the last) and a shard
\* opened with a slot that was deleted or added again.
IntactValidates ==
  LET live == {i \in Slots : Live(i)}
  IN phase = "open" /\ faults = {} /\ ~renewed /\ Cardinality(KeysOf(live)) = Cardinality(live)
       => Validates
=============================================================================
