------------------------- MODULE TextRecoveryProofs -------------------------
(***************************************************************************)
(* Theorems of TextStore and TextRecovery, for all documents, texts, sizes *)
(* and settings: what a store put into the files is what is read, through  *)
(* kills, and the recovery manager keeps a backup at hand.                 *)
(***************************************************************************)
EXTENDS TextRecovery, FiniteSetTheorems, WellFoundedInduction, TLAPS

USE TextStoreAssumption, TextRecoveryAssumption DEF TextStoreAssumption, TextRecoveryAssumption
-----------------------------------------------------------------------------
(***************************************************************************)
(* Numbers.                                                                *)
(***************************************************************************)
\* A set of numbers that is not empty has a least one.
LEMMA NatLeast ==
  ASSUME NEW T \in SUBSET Nat, T # {}
  PROVE  \E x \in T : \A y \in T : x <= y
<1>1. PICK R : R = OpToRel(<, Nat)
  OBVIOUS
<1>2. IsWellFoundedOn(R, Nat)
  BY <1>1, NatLessThanWellFounded
<1>3. \A x, y \in Nat : x < y => <<x, y>> \in R
  BY <1>1 DEF OpToRel
<1>4. PICK x \in T : \A y \in T : ~(<<y, x>> \in R)
  BY <1>2, WFMin
<1>5. \A y \in T : ~(y < x)
  BY <1>3, <1>4
<1>6. \A y \in T : y \in Nat /\ x \in Nat
  OBVIOUS
<1> QED BY <1>5, <1>6

\* If it has a bound it has a greatest one.
LEMMA NatGreatest ==
  ASSUME NEW T \in SUBSET Nat, T # {}, NEW b \in Nat, \A x \in T : x <= b
  PROVE  \E x \in T : \A y \in T : y <= x
<1>1. PICK U : U = {n \in Nat : b - n \in T}
  OBVIOUS
<1>2. \A x \in T : b - x \in U
  <2>1. \A x \in T : b - x \in Nat /\ b - (b - x) = x
    OBVIOUS
  <2> QED BY <1>1, <2>1
<1>3. U \in SUBSET Nat /\ U # {}
  BY <1>1, <1>2
<1>4. PICK n \in U : \A m \in U : n <= m
  BY <1>3, NatLeast
<1>5. n \in Nat /\ b - n \in T
  BY <1>1
<1>6. ASSUME NEW y \in T PROVE y <= b - n
  <2>1. n <= b - y /\ y \in Nat
    BY <1>2, <1>4
  <2> QED BY <1>5, <2>1
<1> QED BY <1>5, <1>6
-----------------------------------------------------------------------------
Recovered == {"recovered"} \X Nat
Header == [count : Nat, next : Nat]
Block  == [len : Nat, text : Nat]
Entry  == [doc : Doc \cup Recovered, off : Nat, len : Nat]
-----------------------------------------------------------------------------
(***************************************************************************)
(* The invariant of the files.                                             *)
(***************************************************************************)
FileTypes ==
  /\ dataNext \in Nat /\ dataTotal \in Nat /\ short \in BOOLEAN
  /\ DOMAIN blocks \in SUBSET Nat /\ \A o \in DOMAIN blocks : blocks[o] \in Block
  /\ DOMAIN slots \in SUBSET Nat /\ \A i \in DOMAIN slots : slots[i] \in Entry
  /\ disk \in Header

MemoryTypes ==
  /\ header \in Header /\ maxSize \in Nat /\ at \in Nat
  /\ pc \in {"idle", "entry", "header", "scan", "scanned", "failed"}
  /\ job \in Entry \cup {NoEntry}

GhostTypes ==
  /\ calls \in Nat /\ latest \in [Doc -> Nat \cup {NoText}] /\ given \in [Doc -> SUBSET Nat]
  /\ changed \subseteq {"rebuilt", "truncated"}

StoreTypeOK == FileTypes /\ MemoryTypes /\ GhostTypes

\* An entry lies before the end of the data, with the length it has there.
Points(e) == e.off \in DOMAIN blocks /\ e.off < dataNext /\ blocks[e.off].len = e.len

\* The text it points to was given for its document.
Own(e) == e.off \in DOMAIN blocks /\ e.off < dataNext /\ blocks[e.off].text \in given[e.doc]

Storing == pc \in {"entry", "header"}

\* A store has appended its text before it writes the entry; only a rebuild scans.
PhaseInv ==
  /\ Storing => job \in Entry /\ job.doc \in Doc /\ Points(job)
  /\ pc \in {"scan", "scanned"} => "rebuilt" \in changed
  /\ pc = "scanned" => job \in Entry

\* Without a rebuild the header in memory is that in the file, and behind every
\* entry is the slot of the next.
HeaderInv ==
  "rebuilt" \notin changed => header = disk /\ header.next = header.count + 1 /\ pc # "failed"

\* The last entry of a document points to the text it was last stored with.
LatestIs(d) ==
  \/ Hit(header, d) = {} /\ latest[d] = NoText
  \/ \E i \in Hit(header, d) : /\ \A j \in Hit(header, d) : j <= i
                               /\ latest[d] = blocks[slots[i].off].text

IntactInv ==
  changed = {} =>
    /\ \A i \in 1..header.count : i \in DOMAIN slots /\ Points(slots[i])
    /\ pc = "header" => header.count + 1 \in DOMAIN slots /\ slots[header.count + 1] = job
    /\ \A d \in Doc : LatestIs(d)

\* An entry for a caller's document, counted or not, points to a text of it.
OwnInv ==
  "truncated" \notin changed =>
    /\ \A i \in DOMAIN slots : slots[i].doc \in Doc => Own(slots[i])
    /\ Storing => Own(job)

TotalInv == dataTotal <= dataNext

StoreInv == StoreTypeOK /\ PhaseInv /\ HeaderInv /\ IntactInv /\ OwnInv /\ TotalInv
-----------------------------------------------------------------------------
(***************************************************************************)
(* The operations of the storage.                                          *)
(***************************************************************************)
LEMMA MinOf ==
  ASSUME NEW S \in SUBSET Nat, S # {}
  PROVE  Min(S) \in S
<1>1. PICK m \in S : \A y \in S : m <= y
  BY NatLeast
<1> QED BY <1>1 DEF Min

LEMMA MaxIs ==
  ASSUME NEW S \in SUBSET Nat, NEW m \in S, \A y \in S : y <= m
  PROVE  Max(S) = m
<1>1. \A x \in S : (\A y \in S : x >= y) => x = m
  OBVIOUS
<1>2. \A y \in S : m >= y
  OBVIOUS
<1> QED BY <1>1, <1>2 DEF Max

\* A new text leaves those before the end of the data where they are.
LEMMA AppendedBlocks ==
  ASSUME FileTypes, NEW len \in Nat, calls' \in Nat, Appended(len)
  PROVE  /\ dataNext' = dataNext + 1 + len /\ dataTotal' = dataTotal + len /\ short' = FALSE
         /\ DOMAIN blocks' \in SUBSET Nat /\ \A o \in DOMAIN blocks' : blocks'[o] \in Block
         /\ \A o \in DOMAIN blocks : o < dataNext => o \in DOMAIN blocks' /\ blocks'[o] = blocks[o]
         /\ dataNext \in DOMAIN blocks' /\ blocks'[dataNext] = [len |-> len, text |-> calls']
<1> DEFINE new == [len |-> len, text |-> calls']
<1> DEFINE D == {p \in DOMAIN blocks : p < dataNext} \cup {dataNext}
<1>1. PICK b : b = new
  OBVIOUS
<1>2. b \in Block
  BY <1>1 DEF Block
<1>3. /\ blocks' = [o \in D |-> IF o = dataNext THEN b ELSE blocks[o]]
      /\ dataNext' = dataNext + 1 + len /\ dataTotal' = dataTotal + len /\ short' = FALSE
  BY <1>1 DEF Appended
<1>4. D \in SUBSET Nat /\ dataNext \in Nat
  BY DEF FileTypes
<1>5. DOMAIN blocks' = D
  BY <1>3
<1>6. \A o \in DOMAIN blocks' : blocks'[o] \in Block
  BY <1>2, <1>3 DEF FileTypes
<1>7. \A o \in DOMAIN blocks : o < dataNext => o \in DOMAIN blocks' /\ blocks'[o] = blocks[o]
  BY <1>3, <1>4, <1>5
<1>8. blocks'[dataNext] = b
  BY <1>3
<1> QED BY <1>1, <1>3, <1>4, <1>5, <1>6, <1>7, <1>8

LEMMA StoreStepInv ==
  ASSUME StoreInv, NEW d \in Doc, NEW len \in Lens, Store(d, len)
  PROVE  StoreInv'
<1> USE DEF StoreInv
<1> PICK e : e = [doc |-> d, off |-> dataNext, len |-> len]
  OBVIOUS
<1>1. /\ pc = "idle" /\ calls' = calls + 1 /\ len \in Nat
      /\ given' = [given EXCEPT ![d] = @ \cup {calls'}]
      /\ Appended(len)
      /\ IF EntryValid(e) THEN pc' = "entry" /\ job' = e ELSE UNCHANGED <<pc, job>>
      /\ UNCHANGED <<slots, disk, header, maxSize, at, latest, changed>>
  BY DEF Store
<1>2. calls' \in Nat /\ FileTypes /\ dataNext \in Nat
  BY <1>1 DEF StoreTypeOK, GhostTypes, FileTypes
<1>3. /\ dataNext' = dataNext + 1 + len /\ dataTotal' = dataTotal + len /\ short' = FALSE
      /\ DOMAIN blocks' \in SUBSET Nat /\ \A o \in DOMAIN blocks' : blocks'[o] \in Block
      /\ \A o \in DOMAIN blocks : o < dataNext => o \in DOMAIN blocks' /\ blocks'[o] = blocks[o]
      /\ dataNext \in DOMAIN blocks' /\ blocks'[dataNext] = [len |-> len, text |-> calls']
  BY <1>1, <1>2, AppendedBlocks
<1>4. e \in Entry /\ e.doc = d /\ e.off = dataNext /\ e.len = len
  BY <1>1, <1>2 DEF Entry
<1>5. /\ given' \in [Doc -> SUBSET Nat] /\ calls' \in given'[d]
      /\ \A x \in Doc : given[x] \subseteq given'[x]
  BY <1>1, <1>2 DEF StoreTypeOK, GhostTypes
<1>6. \/ pc' = "entry" /\ job' = e
      \/ pc' = "idle" /\ job' = job
  BY <1>1
<1>7. StoreTypeOK'
  <2>1. FileTypes'
    <3>1. dataNext' \in Nat /\ dataTotal' \in Nat
      <4>1. dataNext \in Nat /\ dataTotal \in Nat /\ len \in Nat
        BY <1>1, <1>2 DEF FileTypes
      <4>2. dataNext' = dataNext + 1 + len /\ dataTotal' = dataTotal + len
        BY <1>3
      <4> QED BY <4>1, <4>2
    <3>2. short' \in BOOLEAN
      BY <1>3
    <3> QED BY <1>1, <1>2, <1>3, <3>1, <3>2 DEF FileTypes
  <2>2. MemoryTypes'
    BY <1>1, <1>4, <1>6 DEF StoreTypeOK, MemoryTypes
  <2>3. GhostTypes'
    BY <1>1, <1>2, <1>5 DEF StoreTypeOK, GhostTypes
  <2> QED BY <2>1, <2>2, <2>3 DEF StoreTypeOK
<1>8. \A x \in Entry : Points(x) => Points(x)'
  BY <1>1, <1>2, <1>3 DEF Points, Entry
<1>9. \A x \in Entry : x.doc \in Doc /\ Own(x) => Own(x)'
  BY <1>1, <1>2, <1>3, <1>5 DEF Own, Entry
<1>10. Points(e)' /\ Own(e)'
  <2>1. blocks'[dataNext].len = len /\ blocks'[dataNext].text = calls'
    BY <1>3
  <2>2. dataNext < dataNext'
    BY <1>1, <1>2, <1>3
  <2> QED BY <1>3, <1>5, <2>1, <2>2 DEF Points, Own
<1>11. PhaseInv'
  BY <1>4, <1>6, <1>10 DEF PhaseInv, Storing
<1>12. HeaderInv'
  BY <1>1, <1>6 DEF HeaderInv
<1>13. IntactInv'
  <2> SUFFICES ASSUME changed = {}
               PROVE  /\ \A i \in 1..header.count : i \in DOMAIN slots /\ Points(slots[i])'
                      /\ \A x \in Doc : LatestIs(x)'
    BY <1>1, <1>6 DEF IntactInv
  <2>1. \A i \in 1..header.count : i \in DOMAIN slots /\ slots[i] \in Entry /\ Points(slots[i])
    BY DEF IntactInv, StoreTypeOK, FileTypes
  <2>2. \A i \in 1..header.count : blocks'[slots[i].off] = blocks[slots[i].off]
    BY <1>3, <2>1 DEF Points
  <2>3. ASSUME NEW x \in Doc PROVE LatestIs(x)'
    <3>1. Hit(header, x)' = Hit(header, x) /\ Hit(header, x) \subseteq 1..header.count
      BY <1>1 DEF Hit
    <3>2. LatestIs(x)
      BY DEF IntactInv
    <3> QED BY <1>1, <2>2, <3>1, <3>2 DEF LatestIs
  <2>4. \A i \in 1..header.count : Points(slots[i])'
    BY <1>1, <1>8, <2>1
  <2> QED BY <2>1, <2>3, <2>4
<1>14. OwnInv'
  <2> SUFFICES ASSUME "truncated" \notin changed
               PROVE  /\ \A i \in DOMAIN slots : slots[i].doc \in Doc => Own(slots[i])'
                      /\ Storing' => Own(job)'
    BY <1>1 DEF OwnInv
  <2>1. \A i \in DOMAIN slots : slots[i] \in Entry /\ (slots[i].doc \in Doc => Own(slots[i]))
    BY DEF OwnInv, StoreTypeOK, FileTypes
  <2>2. \A i \in DOMAIN slots : slots[i].doc \in Doc => Own(slots[i])'
    BY <1>1, <1>9, <2>1
  <2>3. Storing' => job' = e
    BY <1>6 DEF Storing
  <2> QED BY <1>10, <2>2, <2>3
<1>15. TotalInv'
  BY <1>1, <1>2, <1>3 DEF TotalInv, FileTypes
<1> QED BY <1>7, <1>11, <1>12, <1>13, <1>14, <1>15

\* An entry goes into its slot; without a rebuild that is behind those counted.
LEMMA WriteEntryInv ==
  ASSUME StoreInv, WriteEntry
  PROVE  StoreInv'
<1> USE DEF StoreInv
<1> PICK at0 : at0 = Slot(header)
  OBVIOUS
<1>1. /\ pc = "entry" /\ pc' = "header"
      /\ slots' = [i \in DOMAIN slots \cup {at0} |-> IF i = at0 THEN job ELSE slots[i]]
      /\ disk' = IF at0 = 0 THEN Torn ELSE disk
      /\ UNCHANGED <<blocks, dataNext, dataTotal, short, header, maxSize, job, at>>
      /\ UNCHANGED <<calls, latest, given, changed>>
  BY DEF WriteEntry, SlotWritten, ghosts
<1>2. /\ at0 \in Nat /\ at0 = header.next /\ header.count \in Nat
      /\ job \in Entry /\ job.doc \in Doc /\ Points(job)
  BY <1>1 DEF Slot, StoreTypeOK, MemoryTypes, Header, PhaseInv, Storing
<1>3. /\ DOMAIN slots' = DOMAIN slots \cup {at0} /\ slots'[at0] = job
      /\ \A i \in DOMAIN slots : i # at0 => slots'[i] = slots[i]
  BY <1>1
<1>4. \A x : Points(x)' = Points(x) /\ Own(x)' = Own(x)
  BY <1>1 DEF Points, Own
<1>5. StoreTypeOK'
  <2>1. Torn \in Header
    BY DEF Torn, Header
  <2>2. FileTypes'
    BY <1>1, <1>2, <1>3, <2>1 DEF StoreTypeOK, FileTypes
  <2>3. MemoryTypes' /\ GhostTypes'
    BY <1>1 DEF StoreTypeOK, MemoryTypes, GhostTypes
  <2> QED BY <2>2, <2>3 DEF StoreTypeOK
<1>6. PhaseInv'
  BY <1>1, <1>2, <1>4 DEF PhaseInv, Storing
<1>7. HeaderInv'
  BY <1>1, <1>2 DEF HeaderInv
<1>8. IntactInv'
  <2> SUFFICES ASSUME changed = {}
               PROVE  /\ \A i \in 1..header.count : i \in DOMAIN slots' /\ Points(slots[i])'
                      /\ header.count + 1 \in DOMAIN slots' /\ slots'[header.count + 1] = job
                      /\ \A x \in Doc : LatestIs(x)'
    BY <1>1 DEF IntactInv
  <2>1. at0 = header.count + 1
    BY <1>2 DEF HeaderInv
  <2>2. \A i \in 1..header.count : i \in DOMAIN slots /\ slots'[i] = slots[i] /\ Points(slots[i])
    BY <1>2, <1>3, <2>1 DEF IntactInv
  <2>3. \A i \in 1..header.count : i \in DOMAIN slots' /\ Points(slots[i])'
    BY <1>1, <1>3, <2>2 DEF Points
  <2>4. ASSUME NEW x \in Doc PROVE LatestIs(x)'
    <3>1. Hit(header, x)' = Hit(header, x) /\ Hit(header, x) \subseteq 1..header.count
      BY <1>1, <1>3, <2>2 DEF Hit
    <3>2. LatestIs(x)
      BY DEF IntactInv
    <3> QED BY <1>1, <2>2, <3>1, <3>2 DEF LatestIs
  <2> QED BY <1>3, <2>1, <2>3, <2>4
<1>9. OwnInv'
  <2> SUFFICES ASSUME "truncated" \notin changed
               PROVE  /\ \A i \in DOMAIN slots' : slots'[i].doc \in Doc => Own(slots[i])'
                      /\ Own(job)'
    BY <1>1 DEF OwnInv
  <2>1. Own(job)
    BY <1>1 DEF OwnInv, Storing
  <2> QED BY <1>1, <1>3, <2>1 DEF OwnInv, Own
<1>10. TotalInv'
  BY <1>1 DEF TotalInv
<1> QED BY <1>5, <1>6, <1>7, <1>8, <1>9, <1>10

\* What the header written with the count changes.
LEMMA HeaderWrittenTypes ==
  ASSUME FileTypes, NEW h \in Header, HeaderWritten(h), UNCHANGED <<blocks, dataNext, dataTotal, short>>
  PROVE  /\ FileTypes' /\ header' = h /\ disk' = h
         /\ DOMAIN slots' = DOMAIN slots \ {0} /\ \A i \in DOMAIN slots' : slots'[i] = slots[i]
<1>1. /\ header' = h /\ disk' = h /\ slots' = [i \in DOMAIN slots \ {0} |-> slots[i]]
  BY DEF HeaderWritten
<1>2. DOMAIN slots' = DOMAIN slots \ {0} /\ \A i \in DOMAIN slots' : slots'[i] = slots[i]
  BY <1>1
<1>3. FileTypes'
  BY <1>1, <1>2 DEF FileTypes
<1> QED BY <1>1, <1>2, <1>3

LEMMA EntryAddedType ==
  ASSUME NEW h \in Header
  PROVE  /\ EntryAdded(h) \in Header
         /\ EntryAdded(h).count = h.count + 1 /\ EntryAdded(h).next = h.next + 1
BY DEF EntryAdded, Header

LEMMA WriteHeaderInv ==
  ASSUME StoreInv, WriteHeader
  PROVE  StoreInv'
<1> USE DEF StoreInv
<1>1. /\ pc = "header" /\ HeaderWritten(EntryAdded(header))
      /\ latest' = [latest EXCEPT ![job.doc] = blocks[job.off].text]
      /\ pc' = "idle" /\ job' = NoEntry
      /\ UNCHANGED <<blocks, dataNext, dataTotal, short, maxSize, at, calls, given, changed>>
  BY DEF WriteHeader
<1>2. header \in Header /\ header.count \in Nat /\ FileTypes
  BY DEF StoreTypeOK, MemoryTypes, Header
<1>3. /\ header' \in Header /\ disk' = header' /\ FileTypes'
      /\ header'.count = header.count + 1 /\ header'.next = header.next + 1
      /\ DOMAIN slots' = DOMAIN slots \ {0} /\ \A i \in DOMAIN slots' : slots'[i] = slots[i]
  BY <1>1, <1>2, HeaderWrittenTypes, EntryAddedType
<1>4. job \in Entry /\ job.doc \in Doc /\ Points(job)
  BY <1>1 DEF PhaseInv, Storing
<1>5. \A x : Points(x)' = Points(x) /\ Own(x)' = Own(x)
  BY <1>1 DEF Points, Own
<1>6. StoreTypeOK'
  <2>1. MemoryTypes'
    BY <1>1, <1>3 DEF StoreTypeOK, MemoryTypes
  <2>2. blocks[job.off].text \in Nat
    BY <1>2, <1>4 DEF FileTypes, Points, Block
  <2>3. GhostTypes'
    BY <1>1, <2>2 DEF StoreTypeOK, GhostTypes
  <2> QED BY <1>3, <2>1, <2>3 DEF StoreTypeOK
<1>7. PhaseInv'
  BY <1>1 DEF PhaseInv, Storing
<1>8. HeaderInv'
  BY <1>1, <1>3 DEF HeaderInv
<1>9. IntactInv'
  <2> SUFFICES ASSUME changed = {}
               PROVE  /\ \A i \in 1..header'.count : i \in DOMAIN slots' /\ Points(slots[i])'
                      /\ \A x \in Doc : LatestIs(x)'
    BY <1>1 DEF IntactInv
  <2> PICK n \in Nat : n = header.count
    BY <1>2
  <2>1. n + 1 \in DOMAIN slots' /\ slots'[n + 1] = job
    BY <1>1, <1>3 DEF IntactInv
  <2>2. \A i \in 1..n : i \in DOMAIN slots' /\ slots'[i] = slots[i] /\ i \in DOMAIN slots /\ Points(slots[i])
    BY <1>3 DEF IntactInv
  <2>3. \A i \in 1..n + 1 : i \in DOMAIN slots' /\ Points(slots[i])'
    <3>1. ASSUME NEW i \in 1..n + 1 PROVE i \in DOMAIN slots' /\ Points(slots[i])'
      <4>1. CASE i = n + 1
        BY <1>1, <1>4, <2>1, <4>1 DEF Points
      <4>2. CASE i \in 1..n
        BY <1>1, <2>2, <4>2 DEF Points
      <4> QED BY <4>1, <4>2
    <3> QED BY <3>1
  <2>4. ASSUME NEW x \in Doc PROVE LatestIs(x)'
    <3>1. /\ Hit(header, x) = {i \in 1..n : slots[i].doc = x}
          /\ Hit(header, x)' = {i \in 1..n + 1 : slots'[i].doc = x}
      BY <1>3, <2>2, <2>3 DEF Hit
    <3>2. CASE x = job.doc
      <4>1. n + 1 \in Hit(header, x)' /\ \A j \in Hit(header, x)' : j <= n + 1
        BY <2>1, <3>1, <3>2
      <4>2. latest'[x] = blocks'[slots'[n + 1].off].text
        BY <1>1, <1>4, <2>1, <3>2 DEF StoreTypeOK, GhostTypes
      <4> QED BY <4>1, <4>2 DEF LatestIs
    <3>3. CASE x # job.doc
      <4>1. \A i : i \in Hit(header, x)' <=> i \in Hit(header, x)
        BY <2>1, <2>2, <3>1, <3>3
      <4>2. latest'[x] = latest[x]
        BY <1>1, <3>3 DEF StoreTypeOK, GhostTypes
      <4>3. LatestIs(x)
        BY DEF IntactInv
      <4>4. CASE Hit(header, x) = {} /\ latest[x] = NoText
        BY <4>1, <4>2, <4>4 DEF LatestIs
      <4>5. ASSUME NEW i \in Hit(header, x), \A j \in Hit(header, x) : j <= i,
                   latest[x] = blocks[slots[i].off].text
            PROVE  LatestIs(x)'
        <5>1. i \in Hit(header, x)' /\ \A j \in Hit(header, x)' : j <= i
          BY <4>1, <4>5
        <5>2. slots'[i] = slots[i]
          BY <2>2, <3>1
        <5>3. latest'[x] = blocks'[slots'[i].off].text
          BY <1>1, <4>2, <4>5, <5>2
        <5> QED BY <5>1, <5>3 DEF LatestIs
      <4> QED BY <4>3, <4>4, <4>5 DEF LatestIs
    <3> QED BY <3>2, <3>3
  <2> QED BY <1>3, <2>3, <2>4
<1>10. OwnInv'
  BY <1>1, <1>3, <1>5 DEF OwnInv, Storing
<1>11. TotalInv'
  BY <1>1 DEF TotalInv
<1> QED BY <1>3, <1>6, <1>7, <1>8, <1>9, <1>10, <1>11
-----------------------------------------------------------------------------
(***************************************************************************)
(* Rebuilding, truncating, reading back, kills.                            *)
(***************************************************************************)
LEMMA StartRebuildInv ==
  ASSUME StoreInv, pc = "idle", StartRebuild
  PROVE  StoreInv'
<1> USE DEF StoreInv
<1>1. /\ header' = Reset /\ at' = 0 /\ pc' \in {"idle", "scan"} /\ changed' = changed \cup {"rebuilt"}
      /\ UNCHANGED <<blocks, dataNext, dataTotal, short, slots, disk>>
      /\ UNCHANGED <<maxSize, job, calls, latest, given>>
  BY DEF StartRebuild, files
<1>2. StoreTypeOK'
  BY <1>1 DEF StoreTypeOK, FileTypes, MemoryTypes, GhostTypes, Reset, Header
<1>3. PhaseInv' /\ HeaderInv' /\ IntactInv' /\ TotalInv'
  BY <1>1 DEF PhaseInv, HeaderInv, IntactInv, TotalInv, Storing
<1>4. OwnInv'
  BY <1>1 DEF OwnInv, Own, Storing
<1> QED BY <1>2, <1>3, <1>4

\* A scan writes entries under ids that are no caller's.
LEMMA ScanEntryInv ==
  ASSUME StoreInv, ScanEntry
  PROVE  StoreInv'
<1> USE DEF StoreInv
<1> PICK at0 : at0 = Slot(header)
  OBVIOUS
<1> PICK off : off = Min(Ahead)
  OBVIOUS
<1> PICK e : e = [doc |-> RecoveredId(off), off |-> off, len |-> blocks[off].len]
  OBVIOUS
<1>1. /\ pc = "scan" /\ pc' = "scanned" /\ Ahead # {}
      /\ job' = e /\ at' = off + 1 + e.len
      /\ slots' = [i \in DOMAIN slots \cup {at0} |-> IF i = at0 THEN e ELSE slots[i]]
      /\ disk' = IF at0 = 0 THEN Torn ELSE disk
      /\ UNCHANGED <<blocks, dataNext, dataTotal, short, header, maxSize>>
      /\ UNCHANGED <<calls, latest, given, changed>>
  BY DEF ScanEntry, SlotWritten, ghosts
<1>2. off \in DOMAIN blocks /\ off \in Nat /\ blocks[off].len \in Nat
  <2>1. Ahead \in SUBSET Nat /\ Ahead \subseteq DOMAIN blocks
    BY DEF Ahead, StoreTypeOK, FileTypes
  <2>2. off \in Ahead
    BY <1>1, <2>1, MinOf
  <2>3. blocks[off] \in Block
    BY <2>1, <2>2 DEF StoreTypeOK, FileTypes
  <2> QED BY <2>1, <2>2, <2>3 DEF Block
<1>3. e \in Entry /\ e.doc \notin Doc /\ at0 \in Nat /\ e.len \in Nat
  <2>1. Fresh(off) \in Recovered
    BY <1>2 DEF Fresh, Recovered
  <2>2. e.doc = Fresh(off) /\ e.off = off /\ e.len = blocks[off].len
    BY DEF RecoveredId
  <2>3. e \in Entry
    BY <1>2, <2>1 DEF Entry, RecoveredId
  <2>4. Fresh(off) \notin Doc
    BY <2>1 DEF Recovered
  <2> QED BY <1>2, <2>2, <2>3, <2>4 DEF Slot, StoreTypeOK, MemoryTypes, Header
<1>4. /\ DOMAIN slots' = DOMAIN slots \cup {at0} /\ slots'[at0] = e
      /\ \A i \in DOMAIN slots : i # at0 => slots'[i] = slots[i]
  BY <1>1
<1>5. StoreTypeOK'
  <2>1. Torn \in Header
    BY DEF Torn, Header
  <2>2. FileTypes'
    BY <1>1, <1>3, <1>4, <2>1 DEF StoreTypeOK, FileTypes
  <2>3. at' \in Nat
    BY <1>1, <1>2, <1>3
  <2>4. MemoryTypes' /\ GhostTypes'
    BY <1>1, <1>3, <2>3 DEF StoreTypeOK, MemoryTypes, GhostTypes
  <2> QED BY <2>2, <2>4 DEF StoreTypeOK
<1>6. PhaseInv' /\ HeaderInv' /\ IntactInv' /\ TotalInv'
  BY <1>1, <1>3 DEF PhaseInv, HeaderInv, IntactInv, TotalInv, Storing
<1>7. OwnInv'
  BY <1>1, <1>3, <1>4 DEF OwnInv, Own, Storing
<1> QED BY <1>5, <1>6, <1>7

LEMMA ScanHeaderInv ==
  ASSUME StoreInv, ScanHeader \/ ScanEnd
  PROVE  StoreInv'
<1> USE DEF StoreInv
<1>1. /\ pc \in {"scan", "scanned"} /\ pc' \in {"scan", "idle"} /\ job' \in {job, NoEntry}
      /\ \E h \in {header, EntryAdded(header)} : HeaderWritten(h)
      /\ UNCHANGED <<blocks, dataNext, dataTotal, short, maxSize, at>>
      /\ UNCHANGED <<calls, latest, given, changed>>
  BY DEF ScanHeader, ScanEnd, ghosts
<1>2. header \in Header /\ EntryAdded(header) \in Header /\ FileTypes
  BY EntryAddedType DEF StoreTypeOK, MemoryTypes
<1>3. /\ FileTypes' /\ header' \in Header
      /\ DOMAIN slots' = DOMAIN slots \ {0} /\ \A i \in DOMAIN slots' : slots'[i] = slots[i]
  BY <1>1, <1>2, HeaderWrittenTypes
<1>4. StoreTypeOK'
  BY <1>1, <1>3 DEF StoreTypeOK, MemoryTypes, GhostTypes
<1>5. PhaseInv' /\ HeaderInv' /\ IntactInv' /\ TotalInv'
  BY <1>1 DEF PhaseInv, HeaderInv, IntactInv, TotalInv, Storing
<1>6. OwnInv'
  BY <1>1, <1>3 DEF OwnInv, Own, Storing
<1> QED BY <1>3, <1>4, <1>5, <1>6

LEMMA TruncateInv ==
  ASSUME StoreInv, Truncate
  PROVE  StoreInv'
<1> USE DEF StoreInv
<1> PICK cut : cut = Min(Unreadable)
  OBVIOUS
<1>1. /\ pc = "idle" /\ Unreadable # {}
      /\ blocks' = [o \in {p \in DOMAIN blocks : p < cut} |-> blocks[o]]
      /\ dataNext' = cut /\ dataTotal' = CutTotal(dataNext - cut, cut) /\ short' = TRUE
      /\ changed' = changed \cup {"truncated"}
      /\ UNCHANGED <<slots, disk, header, maxSize, pc, job, at, calls, latest, given>>
  BY DEF Truncate
<1>2. cut \in Nat /\ cut < dataNext /\ dataNext \in Nat /\ dataTotal \in Nat
  <2>1. Unreadable \in SUBSET Nat /\ \A o \in Unreadable : o < dataNext
    BY DEF Unreadable, StoreTypeOK, FileTypes
  <2>2. cut \in Unreadable
    BY <1>1, <2>1, MinOf
  <2> QED BY <2>1, <2>2 DEF StoreTypeOK, FileTypes
<1>3. dataTotal' \in Nat /\ dataTotal' <= dataNext'
  BY <1>1, <1>2 DEF CutTotal, TotalInv
<1>4. DOMAIN blocks' \subseteq DOMAIN blocks /\ \A o \in DOMAIN blocks' : blocks'[o] = blocks[o]
  BY <1>1
<1>5. StoreTypeOK'
  <2>1. FileTypes'
    BY <1>1, <1>2, <1>3, <1>4 DEF StoreTypeOK, FileTypes
  <2>2. MemoryTypes' /\ GhostTypes'
    BY <1>1 DEF StoreTypeOK, MemoryTypes, GhostTypes
  <2> QED BY <2>1, <2>2 DEF StoreTypeOK
<1>6. PhaseInv' /\ HeaderInv' /\ IntactInv' /\ OwnInv' /\ TotalInv'
  BY <1>1, <1>3 DEF PhaseInv, HeaderInv, IntactInv, OwnInv, TotalInv, Storing
<1> QED BY <1>5, <1>6

\* The header read back is that in memory unless the index was rebuilt.
LEMMA ReadBackInv ==
  ASSUME StoreInv, pc = "idle", header' = disk,
         UNCHANGED <<blocks, dataNext, dataTotal, short, slots, disk, maxSize, pc, job, at, calls,
                     latest, given, changed>>
  PROVE  StoreInv'
<1> USE DEF StoreInv
<1>1. StoreTypeOK'
  BY DEF StoreTypeOK, FileTypes, MemoryTypes, GhostTypes
<1>2. PhaseInv' /\ HeaderInv' /\ OwnInv' /\ TotalInv'
  BY DEF PhaseInv, HeaderInv, OwnInv, TotalInv, Storing, Own, Points
<1>3. IntactInv'
  <2> SUFFICES ASSUME changed = {}
               PROVE  /\ \A i \in 1..header.count : i \in DOMAIN slots /\ Points(slots[i])'
                      /\ \A x \in Doc : LatestIs(x)'
    BY DEF IntactInv, HeaderInv
  <2>1. header' = header
    BY DEF HeaderInv
  <2>2. \A i \in 1..header.count : i \in DOMAIN slots /\ Points(slots[i])'
    BY DEF IntactInv, Points
  <2>3. ASSUME NEW x \in Doc PROVE LatestIs(x)'
    BY <2>1 DEF IntactInv, LatestIs, Hit
  <2> QED BY <2>2, <2>3
<1> QED BY <1>1, <1>2, <1>3

LEMMA SetMaxInv ==
  ASSUME StoreInv, NEW n \in {CreateMax, OpenMax}, SetMax(n)
  PROVE  StoreInv'
<1> USE DEF StoreInv
<1>1. /\ maxSize' \in Nat
      /\ UNCHANGED <<blocks, dataNext, dataTotal, short, slots, disk, header, pc, job, at, calls,
                     latest, given, changed>>
  BY DEF SetMax, files, ghosts
<1>2. StoreTypeOK'
  BY <1>1 DEF StoreTypeOK, FileTypes, MemoryTypes, GhostTypes
<1>3. PhaseInv' /\ HeaderInv' /\ OwnInv' /\ TotalInv' /\ IntactInv'
  BY <1>1 DEF PhaseInv, HeaderInv, OwnInv, TotalInv, IntactInv, LatestIs, Hit, Storing, Own, Points
<1> QED BY <1>2, <1>3

LEMMA KillInv ==
  ASSUME StoreInv, Kill
  PROVE  StoreInv'
<1> USE DEF StoreInv
<1>1. /\ \/ pc' = "idle" /\ header' = disk /\ maxSize' = OpenMax
         \/ ~ValidHeader(disk) /\ pc' = "failed" /\ UNCHANGED <<header, maxSize>>
      /\ job' = NoEntry /\ at' = 0
      /\ UNCHANGED <<blocks, dataNext, dataTotal, short, slots, disk, calls, latest, given, changed>>
  BY DEF Kill, ValidDataHeader, files, ghosts, StoreTypeOK, FileTypes
<1>2. "rebuilt" \notin changed => pc' = "idle" /\ header' = header
  <2>1. "rebuilt" \notin changed => ValidHeader(disk)
    BY DEF HeaderInv, ValidHeader, StoreTypeOK, MemoryTypes, Header
  <2> QED BY <1>1, <2>1 DEF HeaderInv
<1>3. StoreTypeOK'
  BY <1>1 DEF StoreTypeOK, FileTypes, MemoryTypes, GhostTypes
<1>4. PhaseInv' /\ HeaderInv' /\ TotalInv'
  BY <1>1, <1>2 DEF PhaseInv, HeaderInv, TotalInv, Storing
<1>5. OwnInv'
  BY <1>1 DEF OwnInv, Own, Storing
<1>6. IntactInv'
  <2> SUFFICES ASSUME changed = {}
               PROVE  /\ \A i \in 1..header.count : i \in DOMAIN slots /\ Points(slots[i])'
                      /\ \A x \in Doc : LatestIs(x)'
    BY <1>1, <1>2 DEF IntactInv
  <2>1. \A i \in 1..header.count : i \in DOMAIN slots /\ Points(slots[i])'
    BY <1>1 DEF IntactInv, Points
  <2>2. ASSUME NEW x \in Doc PROVE LatestIs(x)'
    BY <1>1, <1>2 DEF IntactInv, LatestIs, Hit
  <2> QED BY <2>1, <2>2
<1> QED BY <1>3, <1>4, <1>5, <1>6

\* Every step of the storage.
LEMMA StorageStep ==
  ASSUME StoreInv, StoreStep \/ Kill \/ UNCHANGED storeVars \/ (pc = "idle" /\ StartRebuild)
  PROVE  StoreInv'
<1>1. CASE \E d \in Doc, len \in Lens : Store(d, len)
  BY <1>1, StoreStepInv
<1>2. CASE WriteEntry \/ WriteHeader \/ ScanEntry \/ ScanHeader \/ ScanEnd \/ Truncate
  BY <1>2, WriteEntryInv, WriteHeaderInv, ScanEntryInv, ScanHeaderInv, TruncateInv
<1>3. CASE VerifyChecksums \/ Reload
  BY <1>3, ReadBackInv DEF VerifyChecksums, Reload, files, ghosts
<1>4. CASE \E n \in {CreateMax, OpenMax} : SetMax(n)
  BY <1>4, SetMaxInv
<1>5. CASE Kill
  BY <1>5, KillInv
<1>6. CASE UNCHANGED storeVars
  <2>1. UNCHANGED <<blocks, dataNext, dataTotal, short, slots, disk, header, maxSize, pc, job, at,
                    calls, latest, given, changed>>
    BY <1>6 DEF storeVars, files, memory, ghosts
  <2>2. StoreTypeOK'
    BY <2>1 DEF StoreInv, StoreTypeOK, FileTypes, MemoryTypes, GhostTypes
  <2>3. PhaseInv' /\ HeaderInv' /\ OwnInv' /\ TotalInv' /\ IntactInv'
    BY <2>1 DEF StoreInv, PhaseInv, HeaderInv, OwnInv, TotalInv, IntactInv, LatestIs, Hit, Storing, Own, Points
  <2> QED BY <2>2, <2>3 DEF StoreInv
<1>7. CASE pc = "idle" /\ StartRebuild
  BY <1>7, StartRebuildInv
<1> QED BY <1>1, <1>2, <1>3, <1>4, <1>5, <1>6, <1>7 DEF StoreStep

LEMMA StorageInit == Init => StoreInv
<1> SUFFICES ASSUME Init PROVE StoreInv
  OBVIOUS
<1>1. /\ DOMAIN blocks = {} /\ DOMAIN slots = {} /\ header = [count |-> 0, next |-> 1] /\ disk = header
      /\ dataNext = 0 /\ dataTotal = 0 /\ short = FALSE /\ maxSize = CreateMax /\ pc = "idle"
      /\ job = NoEntry /\ at = 0 /\ calls = 0 /\ changed = {}
      /\ latest = [d \in Doc |-> NoText] /\ given = [d \in Doc |-> {}]
  BY DEF Init
<1>2. header \in Header /\ header.count = 0 /\ header.next = 1
  BY <1>1 DEF Header
<1>3. StoreTypeOK
  BY <1>1, <1>2 DEF StoreTypeOK, FileTypes, MemoryTypes, GhostTypes
<1>4. \A d \in Doc : Hit(header, d) = {} /\ latest[d] = NoText
  BY <1>1, <1>2 DEF Hit
<1>5. PhaseInv /\ HeaderInv /\ IntactInv /\ OwnInv /\ TotalInv
  BY <1>1, <1>2, <1>4 DEF PhaseInv, HeaderInv, IntactInv, OwnInv, TotalInv, LatestIs, Storing
<1> QED BY <1>3, <1>5 DEF StoreInv
-----------------------------------------------------------------------------
(***************************************************************************)
(* The recovery and backup managers.                                       *)
(***************************************************************************)
ManagerTypes ==
  /\ step \in {"none", "backup", "analyse", "treat", "validate", "rebuild"} \cup Answers
  /\ kind \in Corruption \cup Other /\ began \in Nat /\ now \in Nat /\ began <= now /\ total \in Nat
  /\ step = "treat" => kind \in Other
  /\ backups \subseteq 0..now

\* From the backup a conservative recovery makes until it returns, it is there.
BackupInv ==
  BackupFirst /\ Conservative /\ step \in {"analyse", "validate", "rebuild"} =>
    \E b \in backups : b >= began

ManagerInv == ManagerTypes /\ BackupInv

\* The retention policy keeps the backup just made.
LEMMA NewBackupStays ==
  ASSUME ManagerTypes, MaxBackups > 0, Backup, now' = now
  PROVE  now \in backups' /\ backups' \subseteq 0..now'
<1> DEFINE bs == backups \cup {now}
<1>1. backups' = {b \in bs : Cardinality({c \in bs : c > b}) < MaxBackups /\ now - b <= MaxAge}
  BY DEF Backup, Retained
<1>2. {c \in bs : c > now} = {}
  <2>1. now \in Nat /\ backups \subseteq 0..now
    BY DEF ManagerTypes
  <2>2. ASSUME NEW c \in bs PROVE c \in Nat /\ c <= now
    <3>1. CASE c \in backups
      <4>1. c \in 0..now
        BY <2>1, <3>1
      <4> QED BY <2>1, <4>1
    <3> QED BY <2>1, <3>1
  <2>3. \A c \in bs : ~(c > now)
    BY <2>1, <2>2
  <2> QED BY <2>3
<1>3. Cardinality({c \in bs : c > now}) = 0
  BY <1>2, FS_EmptySet
<1>4. now - now <= MaxAge
  BY DEF ManagerTypes
<1>5. now \in bs /\ bs \subseteq 0..now
  BY DEF ManagerTypes
<1> HIDE DEF bs
<1> QED BY <1>1, <1>3, <1>4, <1>5

\* Some of them go.
LEMMA BackupsAreOld ==
  ASSUME ManagerTypes, Backup, now' = now
  PROVE  backups' \subseteq 0..now'
<1>1. backups' \subseteq backups \cup {now}
  BY DEF Backup, Retained
<1> QED BY <1>1 DEF ManagerTypes

\* What an attempt does next to the files is done by the storage.
LEMMA ManagerOnStorage ==
  ASSUME StoreInv, RecoveryNext
  PROVE  StoreInv'
<1>1. CASE StoreStep \/ Kill
  BY <1>1, StorageStep
<1>2. CASE UNCHANGED storeVars
  BY <1>2, StorageStep
<1>3. CASE pc = "idle" /\ StartRebuild
  BY <1>3, StorageStep
<1>4. CASE TreatRange
  <2>1. /\ pc = "idle" /\ header' \in {header, disk}
        /\ UNCHANGED <<blocks, dataNext, dataTotal, short, slots, disk, maxSize, pc, job, at,
                       calls, latest, given, changed>>
    BY <1>4 DEF TreatRange, files, ghosts
  <2>2. CASE header' = header
    <3>1. UNCHANGED storeVars
      BY <2>1, <2>2 DEF storeVars, files, memory, ghosts
    <3> QED BY <3>1, StorageStep
  <2>3. CASE header' = disk
    BY <2>1, <2>3, ReadBackInv
  <2> QED BY <2>1, <2>2, <2>3
<1>5. CASE KillAll
  BY <1>1, <1>5 DEF KillAll
<1>6. CASE RecoverIndex \/ ValidateEntries
  BY <1>2, <1>3, <1>6 DEF RecoverIndex, ValidateEntries
<1>7. CASE (\E k \in Corruption \cup Other : Begin(k)) \/ Return \/ BackedUp \/ BackupFails
  BY <1>2, <1>7 DEF Begin, Return, BackedUp, BackupFails
<1>8. CASE RebuildDone \/ RecoverData \/ CountEntries \/ RecoverUnknown \/ Treat
  BY <1>2, <1>8 DEF RebuildDone, RecoverData, CountEntries, RecoverUnknown, Treat
<1>9. CASE (\E b \in backups : Restore(b)) \/ Tick
  BY <1>2, <1>9 DEF Restore, Tick
<1> QED BY <1>1, <1>4, <1>5, <1>6, <1>7, <1>8, <1>9 DEF RecoveryNext

LEMMA ManagerStep ==
  ASSUME MaxBackups > 0, StoreInv, ManagerInv, [RecoveryNext]_vars
  PROVE  ManagerInv'
<1> USE DEF ManagerInv
<1>1. CASE UNCHANGED <<manager, backups, now>>
  BY <1>1 DEF manager, ManagerTypes, BackupInv
<1>2. CASE UNCHANGED <<backups, now>> /\ step' \in {"none"} \cup Answers /\ total' \in Nat
           /\ began' \in {0, began} /\ kind' \in {"none", kind}
  <2>1. began' \in Nat /\ began' <= now'
    BY <1>2 DEF ManagerTypes
  <2>2. ManagerTypes'
    BY <1>2, <2>1 DEF ManagerTypes, Answers, Other
  <2> QED BY <1>2, <2>2 DEF BackupInv, Answers
<1>13. ASSUME NEW r \in Answers, Answer(r), UNCHANGED <<backups, now>> PROVE ManagerInv'
  <2>1. step' \in Answers /\ kind' = "none" /\ began' = 0 /\ total' = 0
    BY <1>13 DEF Answer
  <2> QED BY <1>2, <1>13, <2>1
<1>3. CASE UNCHANGED <<kind, began, backups, now>> /\ step = "analyse" /\ total' \in Nat
           /\ step' \in {"validate", "rebuild"}
  BY <1>3 DEF ManagerTypes, BackupInv
<1>4. ASSUME NEW k \in Corruption \cup Other, Begin(k) PROVE ManagerInv'
  <2>1. /\ kind' = k /\ began' = now /\ UNCHANGED <<total, backups, now>>
        /\ step' = IF k \notin Corruption THEN "treat" ELSE IF BackupFirst THEN "backup" ELSE "analyse"
    BY <1>4 DEF Begin
  <2> QED BY <2>1 DEF ManagerTypes, BackupInv
<1>5. CASE BackedUp
  <2>1. Backup /\ step' = "analyse" /\ UNCHANGED <<kind, began, total, now>>
    BY <1>5 DEF BackedUp, Continue
  <2>2. now \in backups' /\ backups' \subseteq 0..now'
    BY <2>1, NewBackupStays
  <2> QED BY <2>1, <2>2 DEF ManagerTypes, BackupInv
<1>6. CASE BackupFails
  <2>1. UNCHANGED <<backups, now>>
    BY <1>6 DEF BackupFails
  <2>2. CASE Conservative
    BY <1>13, <1>6, <2>1, <2>2 DEF BackupFails, Answers
  <2>3. CASE ~Conservative
    BY <1>6, <2>1, <2>3 DEF BackupFails, Continue, ManagerTypes, BackupInv
  <2> QED BY <2>2, <2>3
<1>7. CASE \E b \in backups : Restore(b)
  <2>1. Backup /\ step = "none" /\ UNCHANGED <<step, kind, began, total, now>>
    BY <1>7 DEF Restore, manager
  <2>2. backups' \subseteq 0..now'
    BY <2>1, BackupsAreOld
  <2> QED BY <2>1, <2>2 DEF ManagerTypes, BackupInv
<1>8. CASE Tick
  <2>1. now' = now + 1 /\ UNCHANGED <<step, kind, began, total, backups>>
    BY <1>8 DEF Tick, manager
  <2>2. now' \in Nat /\ began' <= now' /\ backups' \subseteq 0..now'
    BY <2>1 DEF ManagerTypes
  <2> QED BY <2>1, <2>2 DEF ManagerTypes, BackupInv
<1>9. CASE Return \/ RebuildDone \/ RecoverData \/ RecoverUnknown \/ KillAll
  <2>1. CASE Return
    BY <1>2, <2>1 DEF Return, ManagerTypes
  <2>2. CASE RebuildDone \/ RecoverUnknown
    BY <1>13, <2>2 DEF RebuildDone, RecoverUnknown, Answers
  <2>3. CASE RecoverData
    <3>1. (\E r \in Answers : Answer(r)) /\ UNCHANGED <<backups, now>>
      BY <2>3 DEF RecoverData, Synced, Answers
    <3> QED BY <1>13, <3>1
  <2>4. CASE KillAll
    BY <1>2, <2>4 DEF KillAll
  <2> QED BY <1>9, <2>1, <2>2, <2>3, <2>4
<1>10. CASE Treat \/ TreatRange
  <2>1. CASE Treat
    <3>1. kind \in {"io", "tooLarge", "none"}
      BY <2>1 DEF Treat, ManagerTypes, Other
    <3>2. \E r \in Answers : Answer(r) /\ UNCHANGED <<backups, now>>
      BY <2>1, <3>1 DEF Treat, Synced, Answers
    <3> QED BY <1>13, <3>2
  <2>2. CASE TreatRange
    <3>1. (\E r \in Answers : Answer(r)) /\ UNCHANGED <<backups, now>>
      BY <2>2 DEF TreatRange, Synced, Answers
    <3> QED BY <1>13, <3>1
  <2> QED BY <1>10, <2>1, <2>2
<1>11. CASE RecoverIndex \/ CountEntries
  <2>1. header.count \in Nat
    BY DEF StoreInv, StoreTypeOK, MemoryTypes, Header
  <2> QED BY <1>3, <1>11, <2>1 DEF RecoverIndex, CountEntries, Continue, ManagerTypes
<1>12. CASE ValidateEntries
  <2>1. step = "validate" /\ UNCHANGED <<backups, now>>
    BY <1>12 DEF ValidateEntries
  <2>2. CASE step' = "rebuild" /\ UNCHANGED <<kind, began, total>>
    BY <2>1, <2>2 DEF ManagerTypes, BackupInv
  <2>3. CASE \E r \in Answers : Answer(r)
    BY <1>13, <2>1, <2>3
  <2> QED BY <1>12, <2>1, <2>2, <2>3 DEF ValidateEntries, Continue, Answers
<1> QED BY <1>1, <1>4, <1>5, <1>6, <1>7, <1>8, <1>9, <1>10, <1>11, <1>12 DEF RecoveryNext, vars
-----------------------------------------------------------------------------
(***************************************************************************)
(* The theorems.                                                           *)
(***************************************************************************)
\* The files and the headers in memory keep what DocumentTextStorage relies on,
\* whatever is stored, rebuilt, truncated, reloaded or killed.
THEOREM StorageInvariant == RecoverySpec => []StoreInv
<1>1. RecoveryInit => StoreInv
  BY StorageInit DEF RecoveryInit
<1>2. StoreInv /\ [RecoveryNext]_vars => StoreInv'
  BY ManagerOnStorage, StorageStep DEF vars
<1> QED BY <1>1, <1>2, PTL DEF RecoverySpec

\* What a store answered is what is read until a recovery touches the files; no
\* document reads another's text unless they were truncated; and the health
\* check calls them corrupted for their size only.
THEOREM TextsHold == RecoverySpec => []FilesHold
<1>1. ASSUME StoreInv PROVE FilesHold
  <2> USE <1>1 DEF StoreInv
  <2>1. header.count \in Nat
    BY DEF StoreTypeOK, MemoryTypes, Header
  <2>2. StoredIsReadable
    <3> SUFFICES ASSUME changed = {}, NEW d \in Doc PROVE GetText(d) = latest[d]
      BY DEF StoredIsReadable
    <3>1. Bad(header) = {} /\ Hit(header, d) \in SUBSET Nat
      BY <2>1 DEF IntactInv, Bad, Hit
    <3>2. CASE Hit(header, d) = {} /\ latest[d] = NoText
      BY <3>1, <3>2 DEF GetText
    <3>3. ASSUME NEW i \in Hit(header, d), \A j \in Hit(header, d) : j <= i,
                 latest[d] = blocks[slots[i].off].text
          PROVE  GetText(d) = latest[d]
      <4>1. Max(Hit(header, d)) = i
        BY <3>1, <3>3, MaxIs
      <4>2. Hit(header, d) \cup Bad(header) = Hit(header, d) /\ Hit(header, d) # {}
        BY <3>1
      <4>3. GetText(d) = Read(slots[i])
        BY <3>1, <4>1, <4>2 DEF GetText
      <4>4. Points(slots[i])
        BY DEF IntactInv, Hit
      <4> QED BY <3>3, <4>3, <4>4 DEF Read, Points
    <3>4. LatestIs(d)
      BY DEF IntactInv
    <3> QED BY <3>2, <3>3, <3>4 DEF LatestIs
  <2>3. NoForeignText
    <3> SUFFICES ASSUME "truncated" \notin changed, NEW d \in Doc
                 PROVE  GetText(d) \in given[d] \cup {NoText, Corrupt}
      BY DEF NoForeignText
    <3> PICK seen : seen = Hit(header, d) \cup Bad(header)
      OBVIOUS
    <3>1. CASE seen = {}
      BY <3>1 DEF GetText
    <3>2. CASE seen # {}
      <4>1. seen \in SUBSET Nat /\ \A i \in seen : i <= header.count
        BY <2>1 DEF Hit, Bad
      <4>2. PICK m \in seen : \A i \in seen : i <= m
        BY <2>1, <3>2, <4>1, NatGreatest
      <4>3. Max(seen) = m
        BY <4>1, <4>2, MaxIs
      <4>4. GetText(d) = IF m \in Bad(header) THEN Corrupt ELSE Read(slots[m])
        BY <3>2, <4>3 DEF GetText
      <4>5. CASE m \in Hit(header, d)
        <5>1. Own(slots[m]) /\ slots[m].doc = d
          BY <4>5 DEF OwnInv, Hit
        <5>2. Read(slots[m]) \in given[d] \cup {Corrupt}
          BY <5>1 DEF Read, Own
        <5> QED BY <4>4, <5>2
      <4> QED BY <4>4, <4>5
    <3> QED BY <3>1, <3>2
  <2>4. CorruptedOnlyIfLarge
    <3>1. dataTotal <= dataNext
      BY DEF TotalInv
    <3>2. Health = "corrupted" => ~FileIntegrity
      BY DEF Health
    <3>3. header.count <= Limit.entries /\ dataTotal <= Limit.total => FileIntegrity
      BY <3>1 DEF FileIntegrity
    <3>4. header.count \in Nat /\ dataTotal \in Nat /\ Limit.entries \in Nat /\ Limit.total \in Nat
      BY <2>1 DEF StoreTypeOK, FileTypes
    <3> QED BY <3>2, <3>3, <3>4 DEF CorruptedOnlyIfLarge
  <2> QED BY <2>2, <2>3, <2>4 DEF FilesHold, ReadsItsOwn
<1> QED BY <1>1, StorageInvariant, PTL

\* No kill leaves files that open refuses but one in a rebuild of the index.
THEOREM OnlyRebuildsBreakFiles == RecoverySpec => []OpensUnlessRebuilt
<1>1. ASSUME StoreInv PROVE OpensUnlessRebuilt
  BY <1>1 DEF OpensUnlessRebuilt, StoreInv, HeaderInv, ValidHeader, StoreTypeOK, MemoryTypes, Header
<1> QED BY <1>1, StorageInvariant, PTL

\* With room for one backup, a conservative recovery has one of its own at hand
\* when it rebuilds the index.
THEOREM RebuildsAreBackedUp ==
  ASSUME MaxBackups > 0
  PROVE  RecoverySpec => []RebuildIsBackedUp
<1>1. RecoveryInit => ManagerInv
  BY DEF RecoveryInit, ManagerInv, ManagerTypes, BackupInv, Other
<1>2. StoreInv /\ ManagerInv /\ [RecoveryNext]_vars => ManagerInv'
  BY ManagerStep
<1>3. ManagerInv => RebuildIsBackedUp
  BY DEF ManagerInv, BackupInv, RebuildIsBackedUp
<1> QED BY <1>1, <1>2, <1>3, StorageInvariant, PTL DEF RecoverySpec
=============================================================================
