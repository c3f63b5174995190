------------------------------ MODULE Pointers ------------------------------
(***************************************************************************)
(* The validation and repair of pointers in a file that an issue names     *)
(* (IntegrityChecker::validate_and_repair_pointers, integrity.rs), for     *)
(* files by any name: those of shards take the generic branch (Repair.tla).*)
(*                                                                         *)
(* A file is what is read of it.  The vector header is at the start of the *)
(* file, but the validation reads it behind the standard header: what it   *)
(* finds there ("shifted") has nothing to do with the pointer ("top") that *)
(* the repair then writes.  Sums and differences are of 64 bits: a build   *)
(* with overflow checks ("checked") panics when they leave the range, and  *)
(* any other wraps them.                                                   *)
(***************************************************************************)
EXTENDS Integers, FiniteSets, FiniteSetsExt

CONSTANTS
  Files,                                \* contents files may have
  Header, VectorHeader, Entry, Aligned, \* sizes of headers and entries; the 8 of every alignment
  Large, MaxSample, Warmup,             \* LARGE_FILE_THRESHOLD, MAX_SAMPLE_SIZE, the 100 of the early exit
  Wrap,                                 \* 2^64
  NoAnswer

PointersAssumption ==
  /\ Header \in Nat /\ VectorHeader \in Nat /\ Entry \in Nat \ {0} /\ Aligned \in Nat \ {0}
  /\ Large \in Nat /\ MaxSample \in Nat \ {0} /\ Warmup \in Nat
  /\ \A f \in Files : f.size < Wrap

VARIABLES
  file,     \* the file named by the issues
  enabled,  \* repair_enabled
  answer    \* the last answer: the file it is about, and the verdict; or NoAnswer

vars == <<file, enabled, answer>>

Init == file \in Files /\ enabled \in BOOLEAN /\ answer = NoAnswer
-----------------------------------------------------------------------------
(***************************************************************************)
(* Postings: a file of entries that point to their vectors.                *)
(***************************************************************************)
Count(f) == (f.size - Header) \div Entry

Overflows(e) == e.at + e.len >= Wrap

\* How many of the three checks an entry fails.
Failures(f, e) ==
  Cardinality({c \in {"at", "end", "aligned"} :
    \/ c = "at" /\ e.at >= f.size
    \/ c = "end" /\ (e.at + e.len) % Wrap > f.size
    \/ c = "aligned" /\ e.at % Aligned # 0})

\* Of large files every interval-th entry is looked at.
Sampling(f) == f.size > Large /\ Count(f) > MaxSample
Interval(f) == IF Sampling(f) THEN Count(f) \div MaxSample ELSE 1
\* Mutant: one entry too many is left out.
SampledRarely(f) == {i \in 1..Count(f) : i % (Interval(f) + 1) = 0}
Sampled(f) == {i \in 1..Count(f) : i % Interval(f) = 0}

\* More than one failure in twenty entries after the warm-up: all are looked at.
Rate(f, is) == 20 * MapThenSumSet(LAMBDA i : Failures(f, f.entries[i]), is)
Suspicious(f) ==
  \E last \in Sampled(f) :
    LET seen == {i \in Sampled(f) : i <= last}
    IN Cardinality(seen) > Warmup /\ Rate(f, seen) > Cardinality(seen)
Examined(f) == IF Sampling(f) /\ Suspicious(f) THEN 1..Count(f) ELSE Sampled(f)

PostingVerdict(f, checked) ==
  IF f.size < Header + Entry THEN "bad"
  ELSE IF checked /\ \E i \in Examined(f) : Overflows(f.entries[i]) THEN "panic"
  ELSE IF \E i \in Examined(f) : Failures(f, f.entries[i]) > 0 THEN "bad"
  ELSE "good"
-----------------------------------------------------------------------------
(***************************************************************************)
(* Vectors: one pointer, which may be repaired.                            *)
(***************************************************************************)
Reasonable == Header + VectorHeader

\* repair_vector_data_offset
Repairable(f, offset) == offset >= VectorHeader /\ offset < f.size /\ offset % Aligned = 0

\* The file says it may be written, and the repair is tried.
Repairs(f) ==
  /\ f.size >= Header + VectorHeader /\ f.shifted.offset >= f.size
  /\ enabled /\ Reasonable < f.size /\ Repairable(f, Reasonable) /\ f.writable

Repaired(f) == IF Repairs(f) THEN [f EXCEPT !.top = Reasonable] ELSE f

\* After a repair the validation goes on with the pointer it read before.
VectorVerdict(f, checked) ==
  LET past == f.shifted.offset >= f.size
  IN IF f.size < Header + VectorHeader \/ (past /\ ~Repairs(f)) THEN "bad"
     ELSE IF checked /\ f.shifted.offset > f.size THEN "panic"
     ELSE IF f.shifted.need > (f.size - f.shifted.offset) % Wrap THEN "bad"
     ELSE IF f.shifted.align > 0 /\ f.shifted.offset % f.shifted.align # 0 THEN "bad"
     ELSE "good"
-----------------------------------------------------------------------------
(***************************************************************************)
(* Whole files.                                                            *)
(***************************************************************************)
ValidMagic(f) == f.magic \in {"wal", "vectors", "postings", "texts"}

OffsetInside(f)  == f.offset < f.size
OffsetAligned(f) == f.offset % Aligned = 0

\* validate_data_file_pointers: what is right inside counts as repaired.
DataVerdict(f, checked) ==
  LET inner == CASE f.magic = "vectors"  -> VectorVerdict(f, checked)
                 [] f.magic = "postings" -> PostingVerdict(f, checked)
                 [] OTHER                -> "none"
      wrong == ~ValidMagic(f) \/ ~OffsetInside(f) \/ f.offset < Header \/ ~OffsetAligned(f)
  IN CASE f.size < Header                    -> "bad"
       [] f.size >= Header /\ inner = "none" -> IF wrong THEN "bad" ELSE "good"
       [] OTHER                              -> inner

\* validate_wal_file_pointers
LogVerdict(f) == IF f.size >= Header /\ f.magic = "wal" /\ OffsetInside(f) THEN "good" ELSE "bad"

\* validate_generic_file_pointers
GenericVerdict(f) == IF f.size >= Header /\ OffsetInside(f) /\ OffsetAligned(f) THEN "good" ELSE "bad"

Verdict(f, checked) ==
  CASE f.name = "dat" -> DataVerdict(f, checked)
    [] f.name = "wal" -> LogVerdict(f)
    [] OTHER          -> GenericVerdict(f)

ValidateAndRepair ==
  /\ answer = NoAnswer
  /\ \E checked \in BOOLEAN : answer' = [of |-> file, verdict |-> Verdict(file, checked)]
  /\ file' = IF file.name = "dat" /\ file.magic = "vectors" THEN Repaired(file) ELSE file
  /\ UNCHANGED enabled

\* The next issue is about the same file, as the last repair left it.
NextIssue == answer # NoAnswer /\ answer' = NoAnswer /\ UNCHANGED <<file, enabled>>

Next == ValidateAndRepair \/ NextIssue

Spec == Init /\ [][Next]_vars
-----------------------------------------------------------------------------
(***************************************************************************)
(* Properties.                                                             *)
(***************************************************************************)
\* A posting file found good has no stretch of bad entries as long as the
\* sampling interval, which is one for all but large files: whatever the sums
\* of their pointers wrap to.
StretchesAreNoticed ==
  answer # NoAnswer /\ answer.verdict = "good" /\ answer.of.name = "dat" /\ answer.of.magic = "postings" =>
    LET f == answer.of
        n == Count(f)
        step == Interval(f)
    IN \A i \in 1..n : i + step - 1 <= n =>
         \E j \in i..i + step - 1 :
           f.entries[j].at + f.entries[j].len <= f.size /\ f.entries[j].at % Aligned = 0

\* The repair changes one pointer and no other, and to one that is inside the
\* file, behind the header it is in, and aligned.
RepairIsInside ==
  answer # NoAnswer /\ file # answer.of =>
    /\ enabled /\ file = [answer.of EXCEPT !.top = file.top]
    /\ file.top \in VectorHeader..file.size - 1 /\ file.top % Aligned = 0

\* What the checker says of pointers holds, and what it writes is one.
PointersHold == StretchesAreNoticed /\ RepairIsInside
=============================================================================
