------------------------------- MODULE Repair -------------------------------
(***************************************************************************)
(* Repair (IntegrityChecker::attempt_repair, integrity.rs) of what a       *)
(* verification (Integrity.tla) reported, while the process that owns the  *)
(* files (ShardFiles.tla) may write them.                                  *)
(*                                                                         *)
(* The issues are those of the last report, however old it is, or some     *)
(* that the caller made up.  Most repairs answer without touching the      *)
(* disk, several of them that they repaired something; one writes: the     *)
(* checksum of a file said to mismatch becomes one of its data alone.      *)
(***************************************************************************)
EXTENDS Integrity

CONSTANT Callers   \* issues that callers make, as the tests of the source do

VARIABLES
  enabled,    \* repair_enabled
  repairing   \* attempt_repair: the issues [todo] it has before it and its
              \* answer so far, all_critical_[resolved]; or Idle

repairVars == <<enabled, repairing>>
allVars == <<vars, repairVars>>

RepairInit ==
  /\ Init /\ repairing = Idle
  /\ enabled \in BOOLEAN          \* IntegrityChecker::new, new_read_only
-----------------------------------------------------------------------------
(***************************************************************************)
(* What a report says of each kind of issue: its CorruptionType, its       *)
(* severity in tenths, whether it is_recoverable, and whether it names an  *)
(* offset.                                                                 *)
(***************************************************************************)
Facts(type, severity, recoverable, located) ==
  [type |-> type, severity |-> severity, recoverable |-> recoverable, located |-> located]

About(what) ==
  CASE what = "checksum"   -> Facts("data", 8, TRUE, TRUE)
    [] what = "header"     -> Facts("header", 10, FALSE, TRUE)
    [] what = "truncation" -> Facts("truncation", 10, FALSE, TRUE)
    [] what = "nan"        -> Facts("data", 8, TRUE, FALSE)
    [] what \in {"zeros", "active"} -> Facts("data", 6, TRUE, FALSE)
    [] what = "lengths"    -> Facts("data", 4, TRUE, FALSE)
    [] what = "excess"     -> Facts("data", 7, TRUE, FALSE)
    [] what = "ids"        -> Facts("data", 8, TRUE, FALSE)
    [] what \in {"overflow", "bounds"} -> Facts("data", 9, TRUE, FALSE)
    [] what = "order"      -> Facts("data", 5, TRUE, FALSE)
    [] what = "capacity"   -> Facts("cross", 8, TRUE, FALSE)
    [] what = "count"      -> Facts("cross", 7, TRUE, FALSE)
    [] what = "noVectors"  -> Facts("cross", 9, FALSE, FALSE)
    [] what = "noPostings" -> Facts("cross", 7, TRUE, FALSE)
    \* Of callers: NaN at an offset, a small patch of bytes, a small region
    \* behind the headers, a short cut, an index structure, and a wrong offset.
    [] what = "nanAt"      -> Facts("data", 8, TRUE, TRUE)
    [] what = "patch"      -> Facts("data", 4, TRUE, FALSE)
    [] what = "region"     -> Facts("partial", 5, TRUE, TRUE)
    [] what = "cut"        -> Facts("truncation", 4, TRUE, TRUE)
    [] what \in {"index", "pointer"} -> Facts("structure", 9, TRUE, TRUE)

\* calculate_priority: the smaller is repaired first.
Priority(i) ==
  LET a == About(i.what)
  IN CASE a.type \in {"header", "structure"}   -> 1
       [] a.type \in {"cross", "truncation"}   -> 2
       [] a.type = "data"    -> IF a.severity > 8 THEN 1 ELSE 2
       [] a.type = "partial" -> IF a.severity > 5 THEN 3 ELSE 4

\* is_auto_repairable; callers may set the flag themselves.
AutoRepairable(i) ==
  \/ i \in Callers
  \/ About(i.what).type \in {"data", "partial", "cross"} /\ About(i.what).recoverable
-----------------------------------------------------------------------------
(***************************************************************************)
(* The answers of the repairs that write nothing.                          *)
(***************************************************************************)
\* repair_vector_quality_issues
QualityAnswer(i) == FALSE

\* repair_data_corruption: NaN at an offset is for the vectors' repair; a small
\* patch of low severity is said to be filled with zeros.
DataAnswer(i) == IF i.what = "nanAt" THEN QualityAnswer(i) ELSE i.what = "patch"

\* repair_partial_corruption, can_isolate_corruption
PartialAnswer(i) == i.what = "region"

\* repair_cross_validation: nothing is rebuilt and no file is created.
CapacityAnswer(i)  == FALSE
CountAnswer(i)     == About(i.what).severity < 8
MissingAnswer(i)   == i.what \in {"noVectors", "noPostings"}
CrossAnswer(i) ==
  CASE i.what = "capacity" -> CapacityAnswer(i)
    [] i.what = "count"    -> CountAnswer(i)
    [] OTHER               -> MissingAnswer(i)

\* repair_header_corruption
HeaderAnswer(i) == FALSE

\* can_reconstruct_truncated_data, repair_file_truncation
Reconstructible(i) == About(i.what).severity < 5
TruncationAnswer(i) == About(i.what).severity <= 8 /\ Reconstructible(i)

\* can_rebuild_index_structure looks at the name of the file.
Rebuildable(i) == i.kind = "postings"

\* validate_generic_file_pointers, which the names of shard files lead to: the
\* data_offset is inside the file and a multiple of eight.  What a damaged
\* header says is anyone's guess.
PointerAnswers(i) ==
  CASE ~Exists(i.shard, i.kind) -> {FALSE}
    [] OTHER -> LET f == file[i.shard][i.kind]
                IN IF f.head = "fields" \/ ~f.long THEN BOOLEAN ELSE {TRUE}

StructureAnswers(i) ==
  IF i.what = "index" THEN {Rebuildable(i)} ELSE PointerAnswers(i)

Answers(i) ==
  LET a == About(i.what)
  IN CASE a.type = "data"       -> {DataAnswer(i)}
       [] a.type = "partial"    -> {PartialAnswer(i)}
       [] a.type = "cross"      -> {CrossAnswer(i)}
       [] a.type = "header"     -> {HeaderAnswer(i)}
       [] a.type = "truncation" -> {TruncationAnswer(i)}
       [] a.type = "structure"  -> StructureAnswers(i)
-----------------------------------------------------------------------------
(***************************************************************************)
(* attempt_repair.                                                         *)
(***************************************************************************)
Sorted(issues) ==
  {q \in SetToSeqs(issues) : \A m, n \in DOMAIN q : m < n => Priority(q[m]) <= Priority(q[n])}

\* A report is taken whole; a caller's own issues come one at a time.
Attempt(issues) ==
  /\ check = Idle /\ repairing = Idle /\ enabled /\ issues # {}
  /\ \E q \in Sorted(issues) : repairing' = [todo |-> q, resolved |-> TRUE]
  /\ UNCHANGED <<vars, enabled>>

AttemptReported == report # NoReport /\ Attempt(report.issues)
AttemptCallers  == \E i \in Callers : Attempt({i})

\* The issue in hand.
First == Head(repairing.todo)

\* add_repair_result
Answered(success) ==
  /\ repairing' = IF Len(repairing.todo) = 1 THEN Idle
                  ELSE [todo |-> Tail(repairing.todo),
                        resolved |-> repairing.resolved /\ (success \/ About(First.what).severity < 8)]
  /\ UNCHANGED enabled

\* repair_single_issue writes the checksum of a file whose issue names one.
\* Mutant: of any file with corrupt data.
WritesChecksumOfAll(i) == About(i.what).type = "data" /\ i.kind \in Kind
WritesChecksum(i) == i.what = "checksum" /\ About(i.what).located /\ i.kind \in Kind

\* An answer alone.
AnswersFor(i) ==
  CASE ~AutoRepairable(i)    -> {FALSE}
    [] i.kind = "segments"   -> BOOLEAN    \* not one of the files modelled
    [] OTHER                 -> Answers(i)

Answer ==
  /\ repairing # Idle /\ ~(AutoRepairable(First) /\ WritesChecksum(First))
  /\ \E success \in AnswersFor(First) : Answered(success)
  /\ UNCHANGED vars

\* repair_checksum_mismatch.
Target == file[First.shard][First.kind]
Mismatched == repairing # Idle /\ AutoRepairable(First) /\ WritesChecksum(First)

\* The file is gone; or its data_offset, if damaged, is behind its end; or it
\* already has the checksum of its data.
RepairNothing ==
  /\ Mismatched
  /\ \/ Target = NoFile /\ Answered(FALSE)
     \/ Target # NoFile /\ (Target.head = "fields" \/ ~Target.long) /\ Answered(FALSE)
     \/ Target # NoFile /\ Target.sum = "bare" /\ Answered(TRUE)
  /\ UNCHANGED vars

RepairChecksum ==
  /\ Mismatched /\ Target # NoFile /\ Target.sum # "bare"
  /\ Put(First.shard, First.kind, StampedBare(Target))
  /\ Answered(TRUE)
  /\ Fault("repaired") /\ UNCHANGED <<opened, job, jobs, checker, fresh>>

\* The checker is one object: it verifies nothing while it repairs.
Others ==
  /\ Next
  /\ (repairing # Idle => UNCHANGED checker)
  /\ UNCHANGED repairVars

RepairNext ==
  Others \/ AttemptReported \/ AttemptCallers \/ Answer \/ RepairNothing \/ RepairChecksum

RepairSpec == RepairInit /\ [][RepairNext]_allVars
-----------------------------------------------------------------------------
\* A repair that follows its verification, no one having written meanwhile,
\* touches no file that was sound: neither one the report says nothing about
\* nor one it reports for its contents (NaN, zeros, order, counts), which
\* attempt_repair takes for corrupt data just the same.
RepairSparesSound ==
  repairing # Idle /\ repairing' # repairing /\ fresh =>
    \A s \in Shard, k \in Kind :
      Exists(s, k) /\ Sound(file[s][k]) => file'[s][k] = file[s][k]
=============================================================================
