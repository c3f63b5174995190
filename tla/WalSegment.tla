----------------------------- MODULE WalSegment -----------------------------
(***************************************************************************)
(* One write-ahead-log segment (src/src/wal.rs, WalSegment): a file mapped *)
(* in memory that threads append records to under a mutex, that the kernel *)
(* writes to disk whenever it likes, and whose write pointer is not stored *)
(* but found again, at open, by walking the records from the start.        *)
(*                                                                         *)
(* The file is a row of cells, the units a crash may separate: a record is *)
(* one header cell (length and checksum of the data) and one cell for each *)
(* unit of data.  A killed process leaves the cells it wrote; a loss of    *)
(* power leaves, of the cells written since the last sync, any subset.     *)
(***************************************************************************)
EXTENDS Naturals, Sequences, FiniteSets, Functions

CONSTANTS
  Capacity,     \* cells after the header and the reserved space
  MaxRecords,   \* bound: how many appends are started
  DataLen,      \* number of data cells of each record
  Writers,      \* threads that hold a reference to the segment
  NoWriter      \* the mutex is free

CapacityAssumption ==
  /\ Capacity \in Nat /\ MaxRecords \in Nat
  /\ DataLen \in [1..MaxRecords -> Nat \ {0}]
  /\ NoWriter \notin Writers

Record == 1..MaxRecords
Pos    == 0..Capacity - 1
Zero   == [kind |-> "zero", rec |-> 0, at |-> 0]
Header(r)  == [kind |-> "header", rec |-> r, at |-> 0]
Data(r, i) == [kind |-> "data", rec |-> r, at |-> i]
Cell == [kind : {"zero", "header", "data"}, rec : 0..MaxRecords, at : 0..Capacity]

VARIABLES
  file,      \* the mapping, as the process and its successors see it
  disk,      \* what a loss of power falls back to
  phase,     \* "open", "closed", or "failed": open() answered an error
  ptr,       \* write_pointer
  lock,      \* holder of the memory_map mutex
  op,        \* per writer: the append it is in
  next,      \* number of the next append
  returned,  \* ghost: appends that answered Ok and that no power loss put in doubt
  durable,   \* ghost: records on disk since a sync
  outage     \* ghost: power was lost

walVars == <<file, disk, phase, ptr, lock, op>>
vars == <<walVars, next, returned, durable, outage>>

Idle == [pc |-> "idle", rec |-> 0, at |-> 0]

Init ==   \* WalSegment::create
  /\ file = [p \in Pos |-> Zero] /\ disk = file
  /\ phase = "open" /\ ptr = 0
  /\ lock = NoWriter /\ op = [w \in Writers |-> Idle]
  /\ next = 1 /\ returned = {} /\ durable = {} /\ outage = FALSE
-----------------------------------------------------------------------------
\* A header at p whose data is all there, as its checksum says.
Intact(p) == \A i \in 1..DataLen[file[p].rec] : file[p + i] = Data(file[p].rec, i)

(***************************************************************************)
(* recover_write_position from cell p: where the walk ends, and whether it *)
(* ends in an error.  It stops at a zero header or at a length that does   *)
(* not fit; a checksum that does not match is an error.  Data met where a  *)
(* header is expected is a random length and checksum: it does not fit, or *)
(* it does not match.                                                      *)
(***************************************************************************)
End(p, bad) == [at |-> p, err |-> bad]
Walk(garbageFits) ==
  LET walk[p \in 0..Capacity] ==
        CASE p = Capacity             -> End(p, FALSE)
          [] p < Capacity /\ file[p] = Zero -> End(p, FALSE)
          [] p < Capacity /\ file[p].kind = "data" -> End(p, garbageFits)
          [] OTHER ->
               LET end == p + 1 + DataLen[file[p].rec]
               IN IF end > Capacity THEN End(p, FALSE)
                  ELSE IF ~Intact(p) THEN End(p, TRUE)
                  ELSE walk[end]
  IN walk[0]

\* The records replay reads: those between the start and the write pointer.
RecordsUpTo(limit) ==
  LET start[p \in 0..Capacity] ==    \* is p the start of a record or the end?
        \/ p = 0
        \/ \E q \in 0..p - 1 : /\ start[q] /\ file[q].kind = "header"
                               /\ p = q + 1 + DataLen[file[q].rec]
  IN {p \in Pos : p < limit /\ start[p] /\ file[p].kind = "header"}

Content == {file[p].rec : p \in RecordsUpTo(ptr)}
-----------------------------------------------------------------------------
(***************************************************************************)
(* append: lock, read the pointer, check for room, write the header, write *)
(* the data, publish the pointer.                                          *)
(***************************************************************************)
Set(w, pc, r, at) == op' = [op EXCEPT ![w] = [pc |-> pc, rec |-> r, at |-> at]]

MutexFree == lock = NoWriter

LockAppend(w) ==
  /\ phase = "open" /\ op[w].pc = "idle" /\ MutexFree
  /\ next <= MaxRecords
  /\ next' = next + 1
  /\ IF ptr + 1 + DataLen[next] > Capacity
     THEN UNCHANGED <<lock, op>>                        \* Err: segment full
     ELSE lock' = w /\ Set(w, "header", next, ptr)
  /\ UNCHANGED <<file, disk, phase, ptr, returned, durable, outage>>

\* Mutant of WriteHeader: the pointer is published before the data.
WriteHeaderPublish(w) ==
  /\ op[w].pc = "header"
  /\ file' = [file EXCEPT ![op[w].at] = Header(op[w].rec)]
  /\ ptr' = op[w].at + 1 + DataLen[op[w].rec]
  /\ Set(w, "data", op[w].rec, op[w].at)
  /\ UNCHANGED <<disk, phase, lock, next, returned, durable, outage>>

WriteHeader(w) ==
  /\ op[w].pc = "header"
  /\ file' = [file EXCEPT ![op[w].at] = Header(op[w].rec)]
  /\ Set(w, "data", op[w].rec, op[w].at)
  /\ UNCHANGED <<disk, phase, ptr, lock, next, returned, durable, outage>>

WriteData(w) ==
  LET o == op[w]
      missing == {i \in 1..DataLen[o.rec] : file[o.at + i] # Data(o.rec, i)}
  IN /\ o.pc = "data" /\ missing # {}
     /\ \E i \in missing : file' = [file EXCEPT ![o.at + i] = Data(o.rec, i)]
     /\ UNCHANGED <<disk, phase, ptr, lock, op, next, returned, durable, outage>>

Publish(w) ==
  LET o == op[w]
  IN /\ o.pc = "data"
     /\ \A i \in 1..DataLen[o.rec] : file[o.at + i] = Data(o.rec, i)
     /\ ptr' = o.at + 1 + DataLen[o.rec]
     /\ lock' = NoWriter /\ Set(w, "idle", 0, 0)
     /\ returned' = returned \cup {o.rec}
     /\ UNCHANGED <<file, disk, phase, next, durable, outage>>

\* sync: msync under the mutex.
Sync ==
  /\ phase = "open" /\ lock = NoWriter /\ disk # file
  /\ disk' = file /\ durable' = Content
  /\ UNCHANGED <<file, phase, ptr, lock, op, next, returned, outage>>
-----------------------------------------------------------------------------
Stopped == /\ phase' = "closed" /\ ptr' = 0
           /\ lock' = NoWriter /\ op' = [w \in Writers |-> Idle]

\* The process dies; the page cache keeps every cell it wrote.
Kill ==
  /\ phase = "open"
  /\ Stopped
  /\ UNCHANGED <<file, disk, next, returned, durable, outage>>

\* Power is lost: any subset of the unsynced cells reached the disk.
PowerLoss ==
  /\ phase = "open" /\ file # disk
  /\ \E kept \in SUBSET {p \in Pos : file[p] # disk[p]} :
       file' = [p \in Pos |-> IF p \in kept THEN file[p] ELSE disk[p]]
  /\ disk' = file'
  /\ Stopped
  /\ returned' = durable /\ outage' = TRUE
  /\ UNCHANGED <<next, durable>>

\* Mutant of Recovered: the write pointer is not recovered.
RecoveredAtStart(garbageFits) == End(0, FALSE)
\* Mutant of Recovered: a segment that could not be read counts as empty.
RecoveredOrEmpty(unreadable) == IF unreadable THEN End(0, FALSE) ELSE Walk(unreadable)
Recovered(garbageFits) == Walk(garbageFits)

\* WalSegment::open
Open ==
  /\ phase = "closed"
  /\ \E garbageFits \in BOOLEAN :
       LET w == Recovered(garbageFits)
       IN IF w.err THEN phase' = "failed" /\ UNCHANGED ptr
                   ELSE phase' = "open" /\ ptr' = w.at
  /\ UNCHANGED <<file, disk, lock, op, next, returned, durable, outage>>

Next == \/ \E w \in Writers : LockAppend(w) \/ WriteHeader(w) \/ WriteData(w) \/ Publish(w)
        \/ Sync \/ Kill \/ PowerLoss \/ Open

Spec == Init /\ [][Next]_vars
-----------------------------------------------------------------------------
TypeOK ==
  /\ file \in [Pos -> Cell] /\ disk \in [Pos -> Cell]
  /\ phase \in {"open", "closed", "failed"}
  /\ ptr \in 0..Capacity
  /\ lock \in Writers \cup {NoWriter}
  /\ op \in [Writers -> [pc : {"idle", "header", "data"}, rec : 0..MaxRecords, at : 0..Capacity]]
  /\ \A w \in Writers : op[w].pc # "idle" => lock = w /\ ptr <= op[w].at
  /\ next \in 1..MaxRecords + 1
  /\ returned \subseteq Record /\ durable \subseteq Record /\ outage \in BOOLEAN

\* validate_integrity never finds fault with a segment this code wrote: the
\* records walked from the start end exactly at the write pointer, and each is
\* intact, after any interleaving of writers, kills, power losses and reopens.
PointerEndsRecords ==
  phase = "open" =>
    \/ ptr = 0
    \/ \E p \in RecordsUpTo(ptr) : ptr = p + 1 + DataLen[file[p].rec] /\ Intact(p)

\* A record whose append returned is read back by every later successful open
\* and stays readable: a later append never overwrites it.  After a loss of
\* power this is promised only for what had been synced.
ReturnedIsReadable == phase = "open" => returned \subseteq Content

\* validate_integrity accepts every segment, and reading it back finds every
\* record whose append returned.
SegmentIsSound == PointerEndsRecords /\ ReturnedIsReadable

\* Without a loss of power the records read back are in the order of the
\* appends, each at most once, however often the process was killed.
ReadInAppendOrder ==
  ~outage /\ phase = "open" =>
    \A p, q \in RecordsUpTo(ptr) : p < q => file[p].rec < file[q].rec

\* A kill in the middle of an append leaves a segment that can be opened
\* (shardex.rs:453, "Replay WAL on startup to recover from any incomplete
\* transactions"; wal.rs:240, "Append data to the segment atomically").
KillLeavesOpenable == ~outage => phase # "failed"
=============================================================================
