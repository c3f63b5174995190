-------------------------------- MODULE OpLog --------------------------------
(***************************************************************************)
(* What the write path up to the write-ahead log promises the engine above *)
(* it.  Operations are numbered in the order in which they are given to    *)
(* add_operation.  An accepted operation waits; the waiting operations are *)
(* written to the log oldest first, in groups; one may be lost on the way, *)
(* but none that was written ever is, and none is written twice.           *)
(*                                                                         *)
(* Module BatchProcessor implements this one (ImplementsOpLog) and module  *)
(* ShardexEngine is built on it.                                           *)
(***************************************************************************)
EXTENDS Naturals

VARIABLES
  last,      \* number of the latest operation accepted or refused
  waiting,   \* accepted, not yet in the log
  logged     \* in the log

opLogVars == <<last, waiting, logged>>

Init == last = 0 /\ waiting = {} /\ logged = {}

Accept ==
  /\ last' = last + 1
  /\ waiting' = waiting \cup {last + 1}
  /\ UNCHANGED logged

\* A batch is written: the oldest of what waits, all of it or none.
Write ==
  \E S \in SUBSET waiting :
    /\ \A s \in S, w \in waiting \ S : s < w
    /\ logged' = logged \cup S /\ waiting' = waiting \ S
    /\ UNCHANGED last

\* Waiting operations are dropped, by a refused append, a failed validation, a
\* task that ends or a crash; a call to add_operation may end with an error.
Lose ==
  /\ waiting' \in SUBSET waiting
  /\ last' \in {last, last + 1}
  /\ UNCHANGED logged

Next == Accept \/ Write \/ Lose

Spec == Init /\ [][Next]_opLogVars
-----------------------------------------------------------------------------
\* The log grows in the order of the calls: whatever waits is younger than
\* everything in the log, so no operation is ever logged out of order or twice.
LogIsOldest ==
  /\ waiting \subseteq 1..last /\ logged \subseteq 1..last
  /\ \A l \in logged, w \in waiting : l < w

\* What is in the log stays there.
LogGrows == [][logged \subseteq logged']_opLogVars
=============================================================================
