----------------------------- MODULE TextStore -----------------------------
(***************************************************************************)
(* The document text storage (src/src/document_text_storage.rs, with the   *)
(* headers and entries of document_text_entry.rs and the mapped files of   *)
(* memory.rs): a data file of length-prefixed texts, an index file of      *)
(* entries that point into it, a header in each, and a cached copy of the  *)
(* headers.  Both files only grow; the last entry of a document counts.    *)
(*                                                                         *)
(* A store takes three steps that a kill can separate: the text with the   *)
(* data header, the entry, the index header.  Rebuilding the index writes  *)
(* an entry and a header per text.  The files are memory-mapped: a killed  *)
(* process leaves what it wrote.  All of it runs under &mut self.          *)
(*                                                                         *)
(* Offsets and lengths are in words of four bytes, the unit of alignment,  *)
(* from the end of the header; the length prefix is one word.  A text is   *)
(* the number of the call that stored it.  Entries of the index occupy     *)
(* slots of 32 bytes: slot 0 is the end of the header itself (bytes 80 to  *)
(* 112), the first entry is read from slot 1.                              *)
(***************************************************************************)
EXTENDS Naturals, FiniteSets, FiniteSetsExt

CONSTANTS
  Doc,         \* document ids given by callers
  Lens,        \* lengths of the texts, 0 among them
  CreateMax,   \* max_document_size given to create
  OpenMax,     \* max_document_size that open sets
  MaxStores,   \* bound: stores in a run
  NoText,      \* answer: no entry for the document
  Corrupt      \* answer: an error while reading

ASSUME TextStoreAssumption ==
  /\ Lens \subseteq Nat /\ CreateMax \in Nat /\ OpenMax \in Nat
  /\ MaxStores \in Nat /\ NoText \notin Nat /\ Corrupt \notin Nat /\ NoText # Corrupt
  /\ Doc \cap ({"recovered"} \X Nat) = {}   \* a new id is nobody's

VARIABLES
  blocks,     \* data file: the text at each offset, [len, text]
  dataNext,   \* next_text_offset
  dataTotal,  \* total_text_size
  short,      \* the data file ends at dataNext: it was truncated and not grown since
  slots,      \* index file: the entries, [doc, off, len], in the slots that are not zero
  disk,       \* index header in the file, [count, next]
  header,     \* index header cached in memory
  maxSize,    \* max_document_size
  pc,         \* what the open storage is doing
  job,        \* the entry being added
  at,         \* offset reached by the scan of the data file
  calls,      \* stores begun so far
  latest,     \* ghost: the text a document was last stored with
  given,      \* ghost: every text handed to a store of the document
  changed     \* ghost: recovery operations that touched the files

files  == <<blocks, dataNext, dataTotal, short, slots, disk>>
memory == <<header, maxSize, pc, job, at>>
ghosts == <<calls, latest, given, changed>>
storeVars == <<files, memory, ghosts>>

NoEntry == [doc |-> NoText, off |-> 0, len |-> 0]
Torn    == [count |-> 0, next |-> 0]   \* a header under an entry: open refuses it
Fresh(off) == <<"recovered", off>>     \* DocumentId::new for the text at off

\* An entry written to slot 0 lies in the header; the header written next wipes it.
SlotOfCount(h) == h.count
Slot(h) == h.next
Hit(h, d) == {i \in (1..h.count) \cap DOMAIN slots : slots[i].doc = d}
Bad(h)    == (1..h.count) \ DOMAIN slots

\* read_text_at_offset: the length at the offset must be the entry's.
Read(e) ==
  IF e.off \in DOMAIN blocks /\ blocks[e.off].len = e.len THEN blocks[e.off].text ELSE Corrupt

\* get_text: backward over the entries; one that is not valid ends the search.
GetText(d) ==
  LET seen == Hit(header, d) \cup Bad(header) IN
  IF seen = {} THEN NoText
  ELSE IF Max(seen) \in Bad(header) THEN Corrupt ELSE Read(slots[Max(seen)])

\* try_read_text_block_at_offset
Valid(off) == blocks[off].len \in 1..maxSize

Init ==
  /\ blocks = [o \in {} |-> NoEntry] /\ dataNext = 0 /\ dataTotal = 0 /\ short = FALSE
  /\ slots = [i \in {} |-> NoEntry]
  /\ disk = [count |-> 0, next |-> 1] /\ header = disk
  /\ maxSize = CreateMax /\ pc = "idle" /\ job = NoEntry /\ at = 0
  /\ calls = 0 /\ latest = [d \in Doc |-> NoText] /\ given = [d \in Doc |-> {}]
  /\ changed = {}
-----------------------------------------------------------------------------
\* append_text_data: what lay at the new offset or beyond is gone.
Appended(len) ==
  /\ blocks' = [o \in {p \in DOMAIN blocks : p < dataNext} \cup {dataNext} |->
                  IF o = dataNext THEN [len |-> len, text |-> calls'] ELSE blocks[o]]
  /\ dataNext' = dataNext + 1 + len
  /\ dataTotal' = dataTotal + len
  /\ short' = FALSE

\* DocumentTextEntry::validate, far from its limits on sizes.
EntryValid(e) == e.len > 0

\* store_text refuses a text that is too long and, after it has appended it,
\* one that is empty.
Store(d, len) ==
  /\ pc = "idle" /\ calls < MaxStores /\ len <= maxSize
  /\ calls' = calls + 1
  /\ given' = [given EXCEPT ![d] = @ \cup {calls'}]
  /\ Appended(len)
  /\ LET e == [doc |-> d, off |-> dataNext, len |-> len] IN
     IF EntryValid(e) THEN pc' = "entry" /\ job' = e ELSE UNCHANGED <<pc, job>>
  /\ UNCHANGED <<slots, disk, header, maxSize, at, latest, changed>>

SlotWritten(e) ==
  /\ slots' = [i \in DOMAIN slots \cup {Slot(header)} |-> IF i = Slot(header) THEN e ELSE slots[i]]
  /\ disk' = IF Slot(header) = 0 THEN Torn ELSE disk

\* append_index_entry in two steps: the entry, then the header with its count.
WriteEntry ==
  /\ pc = "entry" /\ SlotWritten(job)
  /\ pc' = "header"
  /\ UNCHANGED <<blocks, dataNext, dataTotal, short, header, maxSize, job, at, ghosts>>

EntryNotCounted(h) == [count |-> h.count, next |-> h.next + 1]
EntryAdded(h) == [count |-> h.count + 1, next |-> h.next + 1]

HeaderWritten(h) ==
  /\ header' = h /\ disk' = h
  /\ slots' = [i \in DOMAIN slots \ {0} |-> slots[i]]

WriteHeader ==
  /\ pc = "header" /\ HeaderWritten(EntryAdded(header))
  /\ latest' = [latest EXCEPT ![job.doc] = blocks[job.off].text]
  /\ pc' = "idle" /\ job' = NoEntry
  /\ UNCHANGED <<blocks, dataNext, dataTotal, short, maxSize, at, calls, given, changed>>
-----------------------------------------------------------------------------
\* rebuild_index_from_data: the cached header is reset first, and stays reset
\* when there is nothing to scan.
Reset == [count |-> 0, next |-> 0]

StartRebuild ==
  /\ header' = Reset /\ at' = 0
  /\ pc' = IF dataNext = 0 THEN "idle" ELSE "scan"
  /\ changed' = changed \cup {"rebuilt"}
  /\ UNCHANGED <<files, maxSize, job, calls, latest, given>>

\* scan_and_rebuild_index blocks until the rebuild is done.
Rebuild == pc = "idle" /\ StartRebuild

Ahead == {o \in DOMAIN blocks : o >= at /\ o < dataNext /\ Valid(o)}
OneId(off) == CHOOSE d \in Doc : TRUE
RecoveredId(off) == Fresh(off)

ScanEntry ==
  /\ pc = "scan" /\ Ahead # {}
  /\ LET off == Min(Ahead)
         e == [doc |-> RecoveredId(off), off |-> off, len |-> blocks[off].len]
     IN job' = e /\ SlotWritten(e) /\ at' = off + 1 + e.len
  /\ pc' = "scanned"
  /\ UNCHANGED <<blocks, dataNext, dataTotal, short, header, maxSize, ghosts>>

ScanHeader ==
  /\ pc = "scanned" /\ HeaderWritten(EntryAdded(header))
  /\ pc' = "scan" /\ job' = NoEntry
  /\ UNCHANGED <<blocks, dataNext, dataTotal, short, maxSize, at, ghosts>>

ScanEnd ==
  /\ pc = "scan" /\ Ahead = {} /\ HeaderWritten(header)
  /\ pc' = "idle"
  /\ UNCHANGED <<blocks, dataNext, dataTotal, short, maxSize, job, at, ghosts>>

\* truncate_to_last_valid: the data file is cut at the first text that cannot
\* be read; the index is left as it is.
Unreadable == {o \in DOMAIN blocks : o < dataNext /\ ~Valid(o)}
\* Mutant of CutTotal: the total is not reduced.
CutTotalNot(removed, cut) == dataTotal
CutTotal(removed, cut) == IF dataTotal >= removed THEN dataTotal - removed ELSE cut

Truncate ==
  /\ pc = "idle" /\ dataNext > 0 /\ Unreadable # {}
  /\ LET cut == Min(Unreadable) IN
     /\ blocks' = [o \in {p \in DOMAIN blocks : p < cut} |-> blocks[o]]
     /\ dataNext' = cut /\ dataTotal' = CutTotal(dataNext - cut, cut)
  /\ short' = TRUE
  /\ changed' = changed \cup {"truncated"}
  /\ UNCHANGED <<slots, disk, header, maxSize, pc, job, at, calls, latest, given>>

\* TextIndexHeader::validate, as far as this code can break it.
ValidHeader(h) == h.next >= 1

\* TextDataHeader::validate; offsets count from the end of the header.
ValidDataHeader == dataNext >= 0
ValidHeaders == ValidHeader(header) /\ ValidDataHeader

\* verify_checksums rewrites the checksums before it compares them and so only
\* reads the headers back; reload_from_files reads them back when they are valid.
VerifyChecksums ==
  /\ pc = "idle" /\ header # disk /\ header' = disk
  /\ UNCHANGED <<files, maxSize, pc, job, at, ghosts>>

Reload ==
  /\ pc = "idle" /\ ValidHeader(disk) /\ ValidDataHeader /\ header # disk /\ header' = disk
  /\ UNCHANGED <<files, maxSize, pc, job, at, ghosts>>

SetMax(n) ==
  /\ pc = "idle" /\ n # maxSize /\ maxSize' = n
  /\ UNCHANGED <<files, header, pc, job, at, ghosts>>

\* A kill at any point; open reads the headers and no checksum.
Kill ==
  /\ pc # "failed"
  /\ IF ValidHeader(disk) /\ ValidDataHeader
     THEN pc' = "idle" /\ header' = disk /\ maxSize' = OpenMax
     ELSE pc' = "failed" /\ UNCHANGED <<header, maxSize>>
  /\ job' = NoEntry /\ at' = 0
  /\ UNCHANGED <<files, ghosts>>

StoreStep ==
  \/ \E d \in Doc, len \in Lens : Store(d, len)
  \/ WriteEntry \/ WriteHeader
  \/ ScanEntry \/ ScanHeader \/ ScanEnd
  \/ Truncate \/ VerifyChecksums \/ Reload
  \/ \E n \in {CreateMax, OpenMax} : SetMax(n)

Next == StoreStep \/ Rebuild \/ Kill
Spec == Init /\ [][Next]_storeVars
-----------------------------------------------------------------------------
\* Until a recovery operation touches the files, and through kills, a document
\* reads as the text its last successful store gave it, never as an error: a
\* store takes effect with the index header and not before.
StoredIsReadable ==
  changed = {} /\ pc # "failed" => \A d \in Doc : GetText(d) = latest[d]

\* A document never reads as another document's text unless the data file was
\* truncated under the index: a rebuilt index may lose a document, not swap it.
NoForeignText ==
  "truncated" \notin changed /\ pc = "idle" =>
    \A d \in Doc : GetText(d) \in given[d] \cup {NoText, Corrupt}

\* Every document reads its own text, and the whole of it.
ReadsItsOwn == StoredIsReadable /\ NoForeignText

\* Only a rebuild can leave files that open refuses: the kill in the middle of
\* a store never does.
OpensUnlessRebuilt == ~ValidHeader(disk) => "rebuilt" \in changed
=============================================================================
