----------------------------- MODULE ShardFiles -----------------------------
(***************************************************************************)
(* The two files of a shard, vectors and postings (vector_storage.rs,      *)
(* posting_storage.rs), and the process that writes them (shard.rs), one   *)
(* write at a time.  Others read the same files with no lock in common:    *)
(* Integrity.tla verifies and repairs them, Search.tla answers queries     *)
(* from them.                                                              *)
(*                                                                         *)
(* A file is what its readers tell apart: its header, whether it is long   *)
(* enough, its rows and counts, and what its stored checksum was made of:  *)
(* the header and the data, as every reader expects ("whole"), the data    *)
(* alone ("bare"), or other data ("stale").                                *)
(***************************************************************************)
EXTENDS Naturals, Sequences

CONSTANTS
  Shard,
  Capacity,       \* slots of a shard
  OtherCapacity,  \* slots of a file put in the place of another
  Vector,         \* what a vector may be; Zero is the vector of zeros
  Posting,        \* what a posting may say: records
  MaxFaults,      \* bound: kills, damages and repairs
  MaxJobs,        \* bound: postings ever added or removed
  Zero, Nan, NoFile, Idle

ShardFilesAssumption ==
  /\ Capacity \in Nat \ {0} /\ OtherCapacity \in Nat \ {0}
  /\ MaxFaults \in Nat /\ MaxJobs \in Nat
  /\ Nan \notin Vector /\ Nan # Zero

Kind == {"vectors", "postings"}

VARIABLES
  file,    \* per shard and kind, the file or NoFile
  opened,  \* shards the writing process has open
  job,     \* what it is writing, [shard, row, at, step, sync], or Idle
  jobs,    \* postings added or removed so far
  faults   \* ghost: what disturbed the files, in order

disk == <<file, opened, job, jobs, faults>>

Count(f) == Len(f.rows)

\* update_checksum, and crc32_hash of the data: what a checksum is made of.
Stamped(f)     == [f EXCEPT !.sum = "whole"]
StampedBare(f) == [f EXCEPT !.sum = "bare"]

New(cap) == [head |-> "good", long |-> TRUE, sum |-> "whole", cap |-> cap,
             rows |-> <<>>, active |-> 0]
Exists(s, k) == file[s][k] # NoFile
Put(s, k, f) == file' = [file EXCEPT ![s][k] = f]

FilesInit ==
  /\ file = [s \in Shard |-> [k \in Kind |-> NoFile]]
  /\ opened = {} /\ job = Idle /\ jobs = 0 /\ faults = <<>>

Fault(what) == Len(faults) < MaxFaults /\ faults' = Append(faults, what)
-----------------------------------------------------------------------------
\* VectorStorage::open, PostingStorage::open
Accepted(f) == f.head = "good" /\ f.long /\ f.sum = "whole"

\* Shard::open.  populate_bloom_filter fails when the counts differ.
Opens(s) ==
  /\ \A k \in Kind : Exists(s, k) /\ Accepted(file[s][k])
  /\ file[s]["vectors"].cap = file[s]["postings"].cap
  /\ Count(file[s]["vectors"]) = Count(file[s]["postings"])

Create(s) ==
  /\ \A k \in Kind : ~Exists(s, k)
  /\ file' = [file EXCEPT ![s] = [k \in Kind |-> New(Capacity)]]
  /\ opened' = opened \cup {s}
  /\ UNCHANGED <<job, jobs, faults>>

\* A kill between the two renames of Shard::create.
KillInCreate(s) ==
  /\ \A k \in Kind : ~Exists(s, k)
  /\ Put(s, "vectors", New(Capacity))
  /\ opened' = {} /\ job' = Idle /\ Fault("killed") /\ UNCHANGED jobs

Open(s) ==
  /\ s \notin opened /\ Opens(s)
  /\ opened' = opened \cup {s}
  /\ UNCHANGED <<file, job, jobs, faults>>

\* add_posting and remove_posting write the vector file and then the posting
\* file; each write of data leaves the stored checksum behind until the write
\* of the header that follows it.
BeginAdd(s, v, p) ==
  /\ job = Idle /\ s \in opened /\ Count(file[s]["vectors"]) < file[s]["vectors"].cap
  /\ jobs < MaxJobs /\ jobs' = jobs + 1
  /\ job' = [shard |-> s, at |-> 0, step |-> "vectors", sync |-> FALSE,
             row |-> [vectors |-> v, postings |-> [says |-> p, gone |-> FALSE]]]
  /\ UNCHANGED <<file, opened, faults>>

BeginRemove(s, i) ==
  /\ job = Idle /\ s \in opened /\ i \in DOMAIN file[s]["postings"].rows
  /\ ~file[s]["postings"].rows[i].gone
  /\ jobs < MaxJobs /\ jobs' = jobs + 1
  /\ job' = [shard |-> s, at |-> i, step |-> "vectors", sync |-> FALSE,
             row |-> [vectors |-> Nan,
                      postings |-> [file[s]["postings"].rows[i] EXCEPT !.gone = TRUE]]]
  /\ UNCHANGED <<file, opened, faults>>

\* write_vector_at_index, write_posting_at_index, set_deleted_flag.  A slot no
\* vector was ever written to is zero.
WriteData ==
  /\ job # Idle /\ ~job.sync
  /\ file' = IF job.step = "vectors" /\ job.row.vectors = Zero THEN file
             ELSE [file EXCEPT ![job.shard][job.step].sum = "stale"]
  /\ job' = [job EXCEPT !.sync = TRUE]
  /\ UNCHANGED <<opened, jobs, faults>>

\* add_vector, add_posting: a new slot.
Added(f, row) == [f EXCEPT !.rows = Append(@, row), !.active = @ + 1]

\* Mutant of Removed: the active count is kept.
RemovedUncounted(f, i, row) == [f EXCEPT !.rows[i] = row]
\* remove_vector, remove_posting: the slot stays.
Removed(f, i, row) ==
  [f EXCEPT !.rows[i] = row, !.active = IF @ > 0 THEN @ - 1 ELSE 0]

\* update_header
WriteHeader ==
  /\ job # Idle /\ job.sync
  /\ LET f == file[job.shard][job.step]
         row == job.row[job.step]
     IN Put(job.shard, job.step,
            Stamped(IF job.at = 0 THEN Added(f, row) ELSE Removed(f, job.at, row)))
  /\ job' = IF job.step = "vectors"
            THEN [job EXCEPT !.step = "postings", !.sync = FALSE] ELSE Idle
  /\ UNCHANGED <<opened, jobs, faults>>

\* The files are memory-mapped: a killed process leaves what it wrote.
Kill ==
  /\ opened # {} /\ opened' = {} /\ job' = Idle
  /\ IF job = Idle THEN UNCHANGED faults ELSE Fault("killed")
  /\ UNCHANGED <<file, jobs>>

\* The disk, or whoever copies files, while the process is not running.
Damages(f) ==
  {NoFile, New(OtherCapacity), [f EXCEPT !.sum = "stale"], [f EXCEPT !.long = FALSE],
   [f EXCEPT !.head = "magic", !.sum = "stale"], [f EXCEPT !.head = "fields"]}

Damage(s, k) ==
  /\ opened = {} /\ Exists(s, k)
  /\ \E f \in Damages(file[s][k]) : Put(s, k, f)
  /\ Fault("damaged") /\ UNCHANGED <<opened, job, jobs>>
-----------------------------------------------------------------------------
FilesNext ==
  \/ \E s \in Shard : Create(s) \/ KillInCreate(s) \/ Open(s)
  \/ \E s \in Shard, v \in Vector, p \in Posting : BeginAdd(s, v, p)
  \/ \E s \in Shard, i \in 1..Capacity : BeginRemove(s, i)
  \/ WriteData \/ WriteHeader \/ Kill
  \/ \E s \in Shard, k \in Kind : Damage(s, k)
=============================================================================
