--------------------------- MODULE MCTextService ---------------------------
(***************************************************************************)
(* Bounds for checking TextService with TLC and, each on its own, the      *)
(* monitoring of files: both promise that something happens in the end.    *)
(***************************************************************************)
EXTENDS TextService

CONSTANTS d1, d2, c1, c2, r1, f1, f2, Unwatched, AtRest

VARIABLES
  which,
  content, watched, due, files, periodic, todo, stats, recovered

monitoring == <<content, watched, due, files, periodic, todo, stats, recovered>>

M == INSTANCE Monitoring WITH Files <- {f1, f2}, MaxCount <- 2, Idle <- AtRest, order <- files
ASSUME M!MonitoringAssumption

BothInit ==
  /\ which \in {"texts", "monitoring"} /\ Init /\ M!Init
  /\ which = "texts" => ~periodic /\ files = <<f1, f2>>

BothNext ==
  \/ which = "texts" /\ Next /\ UNCHANGED <<which, monitoring>>
  \/ which = "monitoring" /\ M!Next /\ UNCHANGED <<which, vars>>

\* In the initial state of either one none of its fair actions is enabled, so
\* the fairness of one asks nothing of the behaviours of the other.
BothSpec == BothInit /\ [][BothNext]_<<which, vars, monitoring>> /\ Fairness /\ M!Fairness

\* An unsound file that is monitored is found unhealthy in the end.
DamageIsNoticed == M!DamageIsNoticed
=============================================================================
