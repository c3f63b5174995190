---------------------------- MODULE BloomFilter ----------------------------
(***************************************************************************)
(* The bloom filter of a shard (src/src/bloom_filter.rs) as a value: the   *)
(* bits that are set and how often something was inserted.  A document has *)
(* one bit per hash function, not necessarily distinct.                    *)
(***************************************************************************)
EXTENDS Naturals, FiniteSets

CONSTANTS
  Item,      \* documents
  Bit,       \* the bits of the array, at least one
  HashBits   \* the bits of each document, at least one

BloomAssumption == /\ IsFiniteSet(Bit) /\ Bit # {}
                   /\ HashBits \in [Item -> (SUBSET Bit) \ {{}}]

Filter == [bits : SUBSET Bit, inserted : Nat]
Empty  == [bits |-> {}, inserted |-> 0]   \* new, clear

Insert(f, d)   == [bits |-> f.bits \cup HashBits[d], inserted |-> f.inserted + 1]
Contains(f, d) == HashBits[d] \subseteq f.bits

\* n times Insert from empty, of the documents ds.
Filled(ds, n) == [bits |-> UNION {HashBits[d] : d \in ds}, inserted |-> n]

\* merge, of two filters of one configuration.
Merged(f, g) == [bits |-> f.bits \cup g.bits, inserted |-> f.inserted + g.inserted]
=============================================================================
