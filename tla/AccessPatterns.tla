--------------------------- MODULE AccessPatterns ---------------------------
(***************************************************************************)
(* AccessPatternTracker (src/src/async_document_text_storage.rs): which    *)
(* texts a read loads ahead.  It keeps the last accesses and, per document,*)
(* how strongly others are linked to it; TextService.tla loads any document*)
(* ahead, this module says which.                                          *)
(*                                                                         *)
(* A weight is a multiple of 1 / Unit.  Of equally weighted documents the  *)
(* order of a hash map chooses.                                            *)
(***************************************************************************)
EXTENDS Integers, Sequences, SequencesExt, FiniteSets

CONSTANTS
  Doc,          \* documents, numbers: their identifiers are ordered
  MaxHistory,   \* max_history_size
  MaxPatterns,  \* max_cooccurrence_patterns
  Considered,   \* how many of the last accesses are linked to a new one (10)
  Unit,
  Weak,         \* patterns weaker than this are cleaned up (0.1)
  Limits,       \* prediction_count
  MaxAccesses   \* bound: accesses

PatternsAssumption ==
  /\ Doc \subseteq Nat /\ Limits \subseteq Nat
  /\ {MaxHistory, MaxPatterns, Considered, Unit} \subseteq Nat \ {0} /\ {Weak, MaxAccesses} \subseteq Nat
  /\ \A n \in 2..MaxHistory + 1 : Unit % n = 0

VARIABLES
  history,   \* access_history: documents, oldest first
  patterns,  \* cooccurrence: per document, the weights of those linked to it
  accesses,  \* accesses so far
  before     \* ghost: pairs <<d, e>>, e accessed before some access of d

vars == <<history, patterns, accesses, before>>

NoLinks == [e \in {} |-> 0]
Links(d) == IF d \in DOMAIN patterns THEN patterns[d] ELSE NoLinks

Init == /\ history = <<>> /\ patterns = [d \in {} |-> NoLinks]
        /\ accesses = 0 /\ before = {}
-----------------------------------------------------------------------------
(***************************************************************************)
(* Recording.                                                              *)
(***************************************************************************)
LastN(s, n) == SubSeq(s, (IF Len(s) > n THEN Len(s) - n ELSE 0) + 1, Len(s))

\* rposition: the last access of a document counts, for every one of them.
WeightOf(h, e) ==
  LET pos == CHOOSE i \in DOMAIN h : h[i] = e /\ \A j \in DOMAIN h : j > i => h[j] # e
  IN Unit \div (Len(h) - pos + 2)

Heavier(links, e, w) ==
  [f \in DOMAIN links \cup {e} |->
     (IF f \in DOMAIN links THEN links[f] ELSE 0) + (IF f = e THEN w ELSE 0)]

\* Mutant of Evicted: nothing is.
EvictedNone(links) == {links}
\* A document with too many links loses a weakest, perhaps the new one.
Evicted(links) ==
  IF Cardinality(DOMAIN links) <= MaxPatterns THEN {links}
  ELSE {[f \in DOMAIN links \ {e} |-> links[f]] :
          e \in {e \in DOMAIN links : \A f \in DOMAIN links : links[e] <= links[f]}}

\* record_cooccurrence, for each of the recent accesses in turn.
LinksAfter(h, d, recent) ==
  FoldLeft(LAMBDA all, e : IF e = d THEN all ELSE UNION {Evicted(Heavier(m, e, WeightOf(h, e))) : m \in all},
           {Links(d)}, Reverse(recent))

\* The last accesses that are young enough, the new one among them.
Linked(h, young) == LastN(h, young)

RecordAccess(d) ==
  /\ accesses < MaxAccesses /\ accesses' = accesses + 1
  /\ history' = LastN(Append(history, d), MaxHistory)
  /\ \E young \in 1..Considered :
       /\ young <= Len(history')
       /\ \E links \in LinksAfter(history', d, Linked(history', young)) :
            patterns' = IF links = NoLinks THEN patterns
                        ELSE [e \in DOMAIN patterns \cup {d} |-> IF e = d THEN links ELSE patterns[e]]
  /\ before' = before \cup {<<d, e>> : e \in ToSet(history)}

\* cleanup: accesses that are too old and links that are too weak go.
Strong(links) == {e \in DOMAIN links : links[e] >= Weak}
Cleanup ==
  /\ \E n \in 0..Len(history) : history' = SubSeq(history, n + 1, Len(history))
  /\ patterns' = [d \in {d \in DOMAIN patterns : Strong(patterns[d]) # {}} |->
                    [e \in Strong(patterns[d]) |-> patterns[d][e]]]
  /\ UNCHANGED <<accesses, before>>

Next == Cleanup \/ \E d \in Doc : RecordAccess(d)

Spec == Init /\ [][Next]_vars
-----------------------------------------------------------------------------
(***************************************************************************)
(* Predicting.                                                             *)
(***************************************************************************)
\* Mutant of After: the access itself.
AfterItself(d) == {i \in DOMAIN history : history[i] = d}
\* Where the documents are that followed an access of d.
After(d) == {i + 1 : i \in {i \in DOMAIN history : history[i] = d /\ i < Len(history)}}

Followers(d) == {history[i] : i \in After(d)}
FollowerWeights(d) ==
  [e \in Followers(d) |->
     LET at == SetToSeq({i \in After(d) : history[i] = e})
     IN FoldLeft(LAMBDA w, i : w + Unit \div (Len(history) - i + 2), 0, at)]

\* The heaviest n, in every way to choose among equals.
Top(weights, n) ==
  {ds \in SUBSET DOMAIN weights :
     /\ Cardinality(ds) = (IF Cardinality(DOMAIN weights) < n THEN Cardinality(DOMAIN weights) ELSE n)
     /\ \A e \in ds, f \in DOMAIN weights \ ds : weights[e] >= weights[f]}

Least(ds, n) == {d \in ds : Cardinality({e \in ds : e < d}) < n}

\* predict_next_documents: sorted by identifier before it is cut to the limit.
Predictions(d, limit) ==
  {Least((a \cup b) \ {d}, limit) : a \in Top(FollowerWeights(d), limit \div 2), b \in Top(Links(d), limit)}
-----------------------------------------------------------------------------
(***************************************************************************)
(* Properties.                                                             *)
(***************************************************************************)
\* A document is linked with no more than the limit, never with itself, and
\* only with what was accessed before it, however the history was cut.
LinksArePast ==
  \A d \in DOMAIN patterns :
    /\ Cardinality(DOMAIN patterns[d]) \in 1..MaxPatterns
    /\ \A e \in DOMAIN patterns[d] : e # d /\ <<d, e>> \in before

\* A document that was always followed by the same other one predicts it, as long
\* as no more are linked with it than are asked for: else the identifiers decide.
FollowerPredicted ==
  \A d \in Doc, limit \in Limits :
    LET followed == {history[i + 1] : i \in {i \in 1..Len(history) - 1 : history[i] = d}}
    IN /\ limit >= 2 /\ Cardinality(followed) = 1 /\ Cardinality((followed \ {d}) \cup DOMAIN Links(d)) <= limit
       => \A ds \in Predictions(d, limit) : followed \ {d} \subseteq ds /\ d \notin ds

\* What record_access keeps is sound, and predict_next_documents finds it.
PatternsHold == LinksArePast /\ FollowerPredicted
=============================================================================
