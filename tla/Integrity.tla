----------------------------- MODULE Integrity -----------------------------
(***************************************************************************)
(* The integrity checker (integrity.rs) beside the process that writes the *)
(* files it reads (ShardFiles.tla).                                        *)
(*                                                                         *)
(* The checker shares no lock with the writer.  It lists the files, then   *)
(* verifies one component after the other, and answers a report; Repair.tla*)
(* repairs what it says.  A write-ahead log segment carries no checksum: it*)
(* is reported whenever segments are verified.                             *)
(***************************************************************************)
EXTENDS ShardFiles, FiniteSets, SequencesExt

CONSTANTS
  Queries,   \* bound: the sets of components asked of verify_incremental
  NoReport

IntegrityAssumption ==
  /\ Queries \subseteq SUBSET {"vectors", "postings", "segments", "cross"}
  /\ Posting \subseteq [doc : Nat, len : {"some", "none", "long", "past u32"}]

Component == Kind \cup {"segments", "cross"}

VARIABLES
  paths,    \* component_paths: per kind, the shards whose file was listed
  listed,   \* has discover_components filled it?
  check,    \* the verification running, [todo, asked, issues], or Idle
  report,   \* the last report, [asked, issues], or NoReport
  fresh     \* ghost: no file changed since the last verification began

checker == <<paths, listed, check, report>>
vars == <<disk, checker, fresh>>

Init ==
  /\ FilesInit
  /\ paths = [k \in Kind |-> {}] /\ listed = FALSE
  /\ check = Idle /\ report = NoReport /\ fresh = FALSE

\* A step of the writer or of the world: when it changes a file, the last
\* verification no longer speaks of the files as they are.
Around == fresh' = (fresh /\ file' = file) /\ UNCHANGED checker
-----------------------------------------------------------------------------
(***************************************************************************)
(* What a verification finds.  An issue names its kind and the file.       *)
(***************************************************************************)
Issue(what, s, k) == [what |-> what, shard |-> s, kind |-> k]

\* validate_posting_storage_file, validate_vector_storage_file
Sound(f) == f.head = "good" /\ f.long /\ f.sum = "whole"

\* validate_posting_storage_file, validate_vector_storage_file: the first of
\* their checks that a file which is not sound fails.
KindIssue(f) ==
  CASE f.head = "fields" -> "header"
    [] f.head = "good" /\ ~f.long -> "truncation"
    [] OTHER -> "checksum"

\* validate_file, by the kind the magic bytes say; other magic bytes leave only
\* the checksum to be looked at.
FileIssue(f) == IF f.head = "magic" THEN "checksum" ELSE KindIssue(f)

\* verify_vector_data_quality: more than a tenth NaN, more than half zero.
VectorFails(f, w) ==
  \/ w = "nan"   /\ 10 * Len(SelectSeq(f.rows, LAMBDA r : r = Nan)) > Count(f)
  \/ w = "zeros" /\ 2 * Len(SelectSeq(f.rows, LAMBDA r : r = Zero)) > Count(f)

\* verify_posting_data_quality: what it needs of the header, which the checks of
\* the file have seen to; the active count, of slots that are not deleted; then
\* how many slots, deleted or not, have a document that is none, an empty range,
\* one of more than 10 MB, one past u32, or a smaller document than the one before.
ArraysFit(f) == Count(f) <= f.cap /\ f.head = "good" /\ f.long

Active(f) == Len(SelectSeq(f.rows, LAMBDA r : ~r.gone))

NoDoc == 0
Descents(rows) ==
  LET named == SelectSeq(rows, LAMBDA r : r.says.doc # NoDoc)
  IN {i \in DOMAIN named : i > 1 /\ named[i].says.doc < named[i - 1].says.doc}
Faulty(rows, w) ==
  CASE w = "ids"      -> Len(SelectSeq(rows, LAMBDA r : r.says.doc = NoDoc))
    [] w = "lengths"  -> Len(SelectSeq(rows, LAMBDA r : r.says.len = "none"))
    [] w = "excess"   -> Len(SelectSeq(rows, LAMBDA r : r.says.len = "long"))
    [] w = "overflow" -> Len(SelectSeq(rows, LAMBDA r : r.says.len = "past u32"))
    [] w = "order"    -> Cardinality(Descents(rows))
PerCent == [ids |-> 10, lengths |-> 5, excess |-> 1, overflow |-> 0, order |-> 30]

PostingFails(f, w) ==
  CASE w = "bounds" -> ~ArraysFit(f)
    [] w = "active" -> f.active # Active(f)
    [] OTHER        -> 100 * Faulty(f.rows, w) > PerCent[w] * Count(f)

Quality(k, f) ==
  IF k = "vectors" THEN SelectSeq(<<"nan", "zeros">>, LAMBDA w : VectorFails(f, w))
                   ELSE SelectSeq(<<"bounds", "active", "ids", "lengths", "excess", "overflow", "order">>,
                                   LAMBDA w : PostingFails(f, w))

\* verify_vector_storage_file, verify_posting_storage_file: the first issue.
IssuesOf(s, k) ==
  LET f == file[s][k]
      failed == IF Sound(f) THEN Quality(k, f) ELSE <<FileIssue(f)>>
  IN {Issue(failed[1], s, k) : w \in ToSet(failed)}

\* Mutant of Uneven: counts are not compared.
UnevenIgnored(v, p) == {}
\* verify_capacity_consistency
Uneven(v, p) == IF Count(v) # Count(p) THEN {"count"} ELSE {}

\* verify_shard_consistency: nothing is said of a pair one of which is not sound;
\* verify_header_compatibility comes first.
Pair(v, p) ==
  CASE ~Sound(v) \/ ~Sound(p) -> {}
    [] Sound(v) /\ Sound(p) /\ v.cap # p.cap -> {"capacity"}
    [] OTHER -> Uneven(v, p)

\* verify_posting_vector_consistency
CrossIssues ==
  LET both == paths["vectors"] \cap paths["postings"]
  IN UNION {{Issue(w, s, "pair") : w \in Pair(file[s]["vectors"], file[s]["postings"])} : s \in both}
     \cup {Issue("noVectors", s, "postings") : s \in paths["postings"] \ both}
     \cup {Issue("noPostings", s, "vectors") : s \in paths["vectors"] \ both}
-----------------------------------------------------------------------------
(***************************************************************************)
(* Verification.                                                           *)
(***************************************************************************)
Discovered == [k \in Kind |-> {s \in Shard : Exists(s, k)}]

Begin(asked) ==
  /\ check' = [todo |-> asked, asked |-> asked, issues |-> {}]
  /\ listed' = TRUE /\ fresh' = TRUE /\ report' = NoReport
  /\ UNCHANGED disk

\* verify_full_integrity lists the files anew.
VerifyFull ==
  /\ check = Idle /\ paths' = Discovered /\ Begin(Component)

\* verify_incremental lists them only the first time.
VerifyIncremental(asked) ==
  /\ check = Idle
  /\ paths' = IF listed THEN paths ELSE Discovered
  /\ Begin(asked)

Missing(k) == \E s \in paths[k] : ~Exists(s, k)

\* A listed file that is gone makes the whole verification fail.
Fails(c) == IF c \in Kind THEN Missing(c)
            ELSE c = "cross" /\ \E s \in paths["vectors"] \cap paths["postings"] :
                                  \E k \in Kind : ~Exists(s, k)

\* verify_component_integrity keeps the first issue of a component, in the order
\* of the paths, and of a file only the first its checks come to.
Found(c) ==
  LET all == UNION {IssuesOf(s, c) : s \in paths[c]}
  IN IF all = {} THEN {{}} ELSE {{i} : i \in all}

\* The components come in the order of a hash map, the cross-references last.
Verify(c) ==
  /\ check # Idle /\ c \in check.todo /\ (c = "cross" => check.todo = {"cross"})
  /\ IF Fails(c) THEN check' = Idle /\ UNCHANGED report
     ELSE \E new \in (CASE c \in Kind -> Found(c)
                        [] c = "cross" -> {CrossIssues}
                        [] OTHER -> {{Issue("checksum", "log", c)}}) :
            LET issues == check.issues \cup new
            IN IF check.todo = {c}
               THEN check' = Idle /\ report' = [asked |-> check.asked, issues |-> issues]
               ELSE /\ check' = [check EXCEPT !.todo = @ \ {c}, !.issues = issues]
                    /\ UNCHANGED report
  /\ UNCHANGED <<disk, paths, listed, fresh>>
-----------------------------------------------------------------------------
Next ==
  \/ FilesNext /\ Around
  \/ VerifyFull \/ \E asked \in Queries : VerifyIncremental(asked)
  \/ \E c \in Component : Verify(c)

Spec == Init /\ [][Next]_vars
-----------------------------------------------------------------------------
(***************************************************************************)
(* Properties.                                                             *)
(***************************************************************************)
Current == report # NoReport /\ fresh

\* When vectors, postings and cross-references were verified and nothing was
\* reported about a shard, every shard that was listed opens, unless its files
\* changed since: so what the checker asks of two files, one by one and at
\* different times, is all that Shard::open and its filter ask of them.
CleanMeansOpenable ==
  Current /\ Kind \cup {"cross"} \subseteq report.asked
          /\ {i \in report.issues : i.kind # "segments"} = {}
  => \A s \in paths["vectors"] \cup paths["postings"] : Opens(s)

\* Of files that nothing but finished operations wrote, a report says nothing
\* about headers, sizes, checksums, counts or missing files; it may complain
\* of NaN (removed vectors are NaN), zero vectors, empty and very long postings
\* and the order of documents.
AlarmsAreKnown ==
  Current /\ faults = <<>> /\ job = Idle =>
    \A i \in report.issues : i.kind = "segments" \/ i.what \in {"nan", "zeros", "lengths", "excess", "order"}

\* The verdict on a shard can be trusted both ways, of verify_full_integrity and
\* verify_incremental alike.
VerdictsHold == CleanMeansOpenable /\ AlarmsAreKnown
=============================================================================
