---------------------------- MODULE MCFoundations ----------------------------
(***************************************************************************)
(* Bounds for checking with TLC, each on its own, components that the      *)
(* others stand on: a segment of the log, the settings of an index, the    *)
(* verification and repair of files and of pointers in them, and the       *)
(* statistics.                                                             *)
(***************************************************************************)
EXTENDS Naturals, TLC

CONSTANTS w1, w2, NoWriter, Nil, NoFile, NoReport, AtRest

VARIABLES
  which,
  wFile, disk, phase, ptr, lock, op, next, returned, durable, outage,   \* wal
  config, meta, saved, backup, segment, processor, batch, queue, answer, closed, calls, reopened, updates,  \* settings
  file, opened, work, jobs, faults, paths, found, check, report, fresh, enabled, repairing,  \* repair
  clock, counted, lookups, operations, written, latencies, recent, held, waiting, kept, running, call, tracker, told,
  asked, dropped, sampled, \* statistics
  named, allowed, verdict  \* pointers

wal      == <<wFile, disk, phase, ptr, lock, op, next, returned, durable, outage>>
settings == <<config, meta, saved, backup, segment, processor, batch, queue, answer, closed, calls, reopened, updates>>
repair   == <<file, opened, work, jobs, faults, paths, found, check, report, fresh, enabled, repairing>>
stats    == <<clock, counted, lookups, operations, written, latencies, recent, held, waiting, kept, running, call,
              tracker, told, asked, dropped, sampled>>
pointed  == <<named, allowed, verdict>>

\* The log: short and long records, so that a later one can start inside the
\* remains of an earlier one, fill the segment exactly, or not fit.
W == INSTANCE WalSegment WITH
  Capacity <- 7, MaxRecords <- 4, DataLen <- [r \in 1..4 |-> IF r % 2 = 1 THEN 1 ELSE 2],
  Writers <- {w1, w2}, file <- wFile
ASSUME W!CapacityAssumption

\* Settings: vectors for which ten operations fit in a segment, for which one
\* does and for which none does; updates that are accepted, that change the
\* size of segments, and that are refused.
SettingsParams ==
  {[dim |-> d, shard |-> 10, interval |-> 1, segment |-> 1024, bloom |-> 1, slop |-> 4] : d \in {1, 384, 20000}}
Changed(n, margin, slop) ==
  [dim |-> 1, shard |-> 10, segment |-> n, margin |-> margin, interval |-> 1, bloom |-> 1, text |-> 1024,
   slop |-> [default |-> slop, min |-> 2, max |-> 9]]
ST == INSTANCE Settings WITH
  Params <- SettingsParams, Configs <- {Changed(1024, 0, 3), Changed(4096, 2, 3), Changed(1024, 2, 10), Changed(1000, 2, 3)},
  Bulks <- {1, 35}, MaxCalls <- 2, MaxOpens <- 1, MaxUpdates <- 2, opens <- reopened
ASSUME ST!SettingsAssumption /\ ST!SlopGrows

\* Repair: a shard of two slots, damaged or killed over twice; issues the
\* caller makes beside those of the last report.
Made(what, kind) == [what |-> what, shard |-> "s", kind |-> kind]
I == INSTANCE Repair WITH
  Shard <- {"s"}, Capacity <- 2, OtherCapacity <- 1, Vector <- {"fine", "zero"},
  Posting <- {[doc |-> 1, len |-> "some"], [doc |-> 2, len |-> "long"]},
  Queries <- {{"vectors", "postings", "cross"}, {"segments"}}, MaxFaults <- 2, MaxJobs <- 2,
  Callers <- {Made(w, "vectors") : w \in {"patch", "pointer", "cut", "region", "nanAt"}} \cup {Made("index", "postings")},
  Zero <- "zero", Nan <- "nan", Idle <- AtRest,
  job <- work, listed <- found
ASSUME I!IntegrityAssumption /\ I!ShardFilesAssumption

\* Statistics: two callers, times in and out of the window, latencies within
\* and on both sides of what the histogram holds.
SS == INSTANCE Statistics WITH
  Caller <- {1, 2}, Window <- 1, Latency <- {0, 2, 9}, Least <- 1, Greatest <- 4,
  Listing <- {<<>>, <<[count |-> 3, active |-> 2], [count |-> 1, active |-> 1]>>},
  MaxClock <- 2, MaxCalls <- 3, calls <- asked
ASSUME SS!StatisticsAssumption

\* Pointers: posting files of which every entry and of which a third is looked
\* at, vector files whose pointer is read where it is not, and others.
Shifted(offset, need, align) == [offset |-> offset, need |-> need, align |-> align]
Content(name, magic, size, offset, entries, shifted) ==
  [name |-> name, magic |-> magic, size |-> size, offset |-> offset, entries |-> entries,
   shifted |-> shifted, top |-> 4, writable |-> TRUE]
To(at, len) == [at |-> at, len |-> len]
PointerFiles ==
  {Content("dat", "postings", 5, o, e, Shifted(0, 0, 0)) :
     o \in {2, 9}, e \in [1..3 -> {To(2, 2), To(3, 1), To(4, 2), To(14, 3)}]}
  \cup {Content("dat", "postings", 8, 2, e, Shifted(0, 0, 0)) : e \in [1..6 -> {To(2, 2), To(9, 1)}]}
  \cup {[Content("dat", "vectors", n, o, <<>>, Shifted(at, need, align)) EXCEPT !.writable = w] :
          n \in {3, 4, 7}, o \in {2, 3}, at \in {3, 7, 12}, need \in {0, 5}, align \in {0, 2}, w \in BOOLEAN}
  \cup {Content(name, magic, n, o, <<>>, Shifted(0, 0, 0)) :
          name \in {"dat", "wal", "vectors"}, magic \in {"wal", "texts", "other"}, n \in {1, 7}, o \in {0, 2, 3, 8}}
PT == INSTANCE Pointers WITH
  Files <- PointerFiles, Header <- 2, VectorHeader <- 2, Entry <- 1, Aligned <- 2, Large <- 6, MaxSample <- 2,
  Warmup <- 1, Wrap <- 16, NoAnswer <- Nil, file <- named, enabled <- allowed, answer <- verdict
ASSUME PT!PointersAssumption

Init ==
  /\ which \in {"wal", "settings", "repair", "statistics", "pointers"}
  /\ SS!Init /\ W!Init /\ ST!Init /\ I!RepairInit /\ PT!Init
  /\ (which # "repair" => enabled)
  /\ (which # "pointers" => allowed /\ named = CHOOSE f \in PointerFiles : TRUE)

Next ==
  \/ which = "wal" /\ W!Next /\ UNCHANGED <<which, settings, repair, stats, pointed>>
  \/ which = "settings" /\ ST!Next /\ UNCHANGED <<which, wal, repair, stats, pointed>>
  \/ which = "repair" /\ I!RepairNext /\ UNCHANGED <<which, wal, settings, stats, pointed>>
  \/ which = "statistics" /\ SS!Next /\ UNCHANGED <<which, wal, settings, repair, pointed>>
  \/ which = "pointers" /\ PT!Next /\ UNCHANGED <<which, wal, settings, repair, stats>>

Spec == Init /\ [][Next]_<<which, wal, settings, repair, stats, pointed>>

\* A segment of the log gives back, in order, what append acknowledged.
SegmentHolds == which = "wal" => W!SegmentIsSound /\ W!ReadInAppendOrder

\* Settings that were accepted serve: batches fit, logging and searches go on.
SettingsHold == which = "settings" => ST!SettingsHold

\* The checker's verdict on a shard can be trusted, both ways, and so can what
\* it says of pointers and the one it writes.
VerdictsHold ==
  /\ which = "repair" => I!VerdictsHold
  /\ which = "pointers" => PT!PointersHold

\* The engine's statistics agree with the calls they count.
StatisticsAgree == which = "statistics" => SS!StatisticsAgree

\* A repair that follows its verification leaves sound files alone.
RepairSparesSound == [][which = "repair" => I!RepairSparesSound]_<<which, repair>>
=============================================================================
