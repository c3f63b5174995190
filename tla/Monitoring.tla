----------------------------- MODULE Monitoring -----------------------------
(***************************************************************************)
(* The monitoring of files by an IntegrityManager (integrity.rs): files    *)
(* are added and removed, and a caller has those validated whose last      *)
(* validation is an interval old.  The world changes the files meanwhile.  *)
(***************************************************************************)
EXTENDS Naturals, Sequences, SequencesExt

CONSTANTS
  Files,
  MaxCount,   \* bound: how far the counters count
  Unwatched, Idle

MonitoringAssumption == MaxCount \in Nat \ {0} /\ Idle \notin Seq(Files)

VARIABLES
  content,   \* per file: "sound", "corrupt", "short" or "gone"
  watched,   \* monitored_files: [healthy, failures] or Unwatched
  due,       \* files whose last_validation is an interval old
  order,     \* the order of the hash map
  periodic,  \* is there a periodic_validation_interval?
  todo,      \* the files perform_periodic_validation still has to look at, or Idle
  stats,     \* total_validations and corruptions_detected
  recovered  \* the last answer of attempt_recovery

vars == <<content, watched, due, order, periodic, todo, stats, recovered>>

Init ==
  /\ content = [f \in Files |-> "sound"]
  /\ watched = [f \in Files |-> Unwatched] /\ due = {}
  /\ order \in SetToSeqs(Files)
  /\ periodic \in BOOLEAN
  /\ todo = Idle /\ stats = [validations |-> 0, corruptions |-> 0] /\ recovered = FALSE

Bumped(n) == IF n < MaxCount THEN n + 1 ELSE n
-----------------------------------------------------------------------------
\* The disk and whoever else writes it.
Change(f) ==
  /\ \E c \in {"sound", "corrupt", "short", "gone"} \ {content[f]} : content' = [content EXCEPT ![f] = c]
  /\ UNCHANGED <<watched, due, order, periodic, todo, stats, recovered>>

\* validate_file: only a validation that finds nothing is counted.
Valid(f) == content[f] = "sound"
Counted(f) == [stats EXCEPT !.validations = IF Valid(f) THEN Bumped(@) ELSE @]

\* What validate_file reports of a file, as far as a recovery looks at it: a
\* checksum mismatch behind the header has severity 0.8 and is recoverable, a
\* file that is too short is not.
Corruption(f) ==
  IF content[f] = "corrupt"
  THEN [type |-> "data", recoverable |-> TRUE, behindHeader |-> TRUE, severity |-> 8, small |-> TRUE]
  ELSE [type |-> "truncation", recoverable |-> FALSE, behindHeader |-> FALSE, severity |-> 10, small |-> TRUE]

\* recover_data_corruption, recover_file_truncation
RecoverData(c)       == c.behindHeader /\ c.severity < 8 /\ c.small
RecoverTruncation(c) == c.severity < 5

\* add_to_monitoring validates the file; one that cannot be opened is an error.
Add(f) ==
  /\ todo = Idle /\ content[f] # "gone"
  /\ watched' = [watched EXCEPT ![f] = [healthy |-> Valid(f), failures |-> IF Valid(f) THEN 0 ELSE 1]]
  /\ due' = due \ {f} /\ stats' = Counted(f)
  /\ UNCHANGED <<content, order, periodic, todo, recovered>>

Unwatch(f) ==
  /\ todo = Idle /\ watched[f] # Unwatched
  /\ watched' = [watched EXCEPT ![f] = Unwatched] /\ due' = due \ {f}
  /\ UNCHANGED <<content, order, periodic, todo, stats, recovered>>

\* The interval passes.
Ages(f) ==
  /\ watched[f] # Unwatched /\ f \notin due /\ due' = due \cup {f}
  /\ UNCHANGED <<content, watched, order, periodic, todo, stats, recovered>>

\* perform_periodic_validation: the files are chosen first.
BeginRound ==
  /\ todo = Idle /\ periodic /\ due # {}
  /\ todo' = SelectSeq(order, LAMBDA f : f \in due)
  /\ UNCHANGED <<content, watched, due, order, periodic, stats, recovered>>

Rest == IF Len(todo) = 1 THEN Idle ELSE Tail(todo)

\* A file that cannot be opened ends the round with an error: the files behind
\* it stay due, and it stays due itself.
Unopenable(f) == content[f] = "gone"

Abort ==
  /\ todo # Idle /\ Unopenable(Head(todo))
  /\ todo' = Idle
  /\ UNCHANGED <<content, watched, due, order, periodic, stats, recovered>>

\* Mutant of Looked: a corrupt file is counted but stays healthy.
LookedOnly(w, f) == [w EXCEPT !.failures = Bumped(@)]
Looked(w, f) ==
  IF Valid(f) THEN [healthy |-> TRUE, failures |-> 0]
              ELSE [healthy |-> FALSE, failures |-> Bumped(w.failures)]

Look ==
  /\ todo # Idle /\ ~Unopenable(Head(todo))
  /\ LET f == Head(todo)
     IN /\ watched' = [watched EXCEPT ![f] = Looked(@, f)]
        /\ due' = due \ {f}
        /\ stats' = IF Valid(f) THEN Counted(f) ELSE [stats EXCEPT !.corruptions = Bumped(@)]
  /\ todo' = Rest
  /\ UNCHANGED <<content, order, periodic, recovered>>

\* attempt_recovery of a file found unsound.
Recover(f) ==
  /\ todo = Idle /\ watched[f] # Unwatched /\ content[f] \in {"corrupt", "short"}
  /\ LET c == Corruption(f)
     IN recovered' = (/\ c.recoverable
                      /\ IF c.type = "data" THEN RecoverData(c) ELSE RecoverTruncation(c))
  /\ UNCHANGED <<content, watched, due, order, periodic, todo, stats>>

Next ==
  \/ \E f \in Files : Change(f) \/ Add(f) \/ Unwatch(f) \/ Ages(f) \/ Recover(f)
  \/ BeginRound \/ Abort \/ Look

\* Time passes, and whoever monitors the files calls again.
Fairness ==
  /\ \A f \in Files : WF_vars(Ages(f))
  /\ WF_vars(BeginRound) /\ WF_vars(Abort \/ Look)

Spec == Init /\ [][Next]_vars /\ Fairness
-----------------------------------------------------------------------------
\* A file that is monitored and stays unsound is found unhealthy in the end,
\* unless some monitored file is missing: that one ends every round with an
\* error, and files behind it in the hash map may never be looked at again.
Unsound(f) == periodic /\ watched[f] # Unwatched /\ content[f] \in {"corrupt", "short"}
Noticed(f) ==
  \/ ~Unsound(f) \/ ~watched[f].healthy
  \/ \E g \in Files : watched[g] # Unwatched /\ Unopenable(g)

\* No unsound file that perform_periodic_check has the chance to look at keeps
\* the verdict "healthy" for ever.
DamageIsNoticed == \A f \in Files : Unsound(f) ~> Noticed(f)
=============================================================================
