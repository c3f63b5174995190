--------------------------------- MODULE Api ---------------------------------
(***************************************************************************)
(* The operations of the public API (api/operations.rs, with the checks of *)
(* api/parameters.rs) on a ShardexContext, and what the engine makes of    *)
(* each: its own checks, what it stages, what a flush applies and what an  *)
(* opening replays.  One caller; the background task moves queued          *)
(* operations to the log between its calls.                                *)
(*                                                                         *)
(* A text is its length and the offsets that are character boundaries; a   *)
(* posting names a range of a text and whether its vector fits the index.  *)
(* What is inside the write path, the shards and the text files is left to *)
(* ShardexEngine, Shard and TextStore: a flush writes the log whole and no *)
(* shard is full.                                                          *)
(***************************************************************************)
EXTENDS Naturals, Sequences, FiniteSets, Functions, SequencesExt

CONSTANTS
  Doc, Nil,    \* document identifiers; the zero identifier, which is none
  Texts,       \* texts used, [id, len, cuts, nul]
  Batches,     \* arguments of the three operations that add postings
  Removals,    \* arguments of RemoveDocuments
  Entries,     \* arguments of StoreDocumentText, [doc, text, posts]
  EntryLists,  \* arguments of BatchStoreDocumentText
  Maxima,      \* values of max_document_text_size an index is created with
  DefaultMax,  \* 10 MiB in the code
  Width,       \* the number of values of a u32
  MaxQueue, MaxOpens, \* bounds: operations staged or logged, openings
  NoText, Closed

Posting == [doc : Doc \cup {Nil}, start : 0..(Width - 1), len : 0..(Width - 1),
            vec : {"fits", "other", "notFinite"}]
Entry == [doc : Doc \cup {Nil}, text : Texts, posts : Seq(Posting)]

ApiAssumption ==
  /\ Nil \notin Doc /\ Width \in Nat \ {0} /\ DefaultMax \in Nat /\ Maxima \subseteq Nat
  /\ Texts \subseteq [id : STRING, len : 0..(Width - 1), cuts : SUBSET (0..(Width - 1)), nul : BOOLEAN]
  /\ Batches \subseteq Seq(Posting) /\ Removals \subseteq Seq(Doc)
  /\ Entries \subseteq Entry /\ EntryLists \subseteq Seq(Entry) /\ MaxQueue \in Nat /\ MaxOpens \in Nat

VARIABLES
  context, \* "none" | "open": context.index
  max,     \* config.max_document_text_size as persisted; Closed before creation
  engine,  \* [text, cap, live, pending, queued, log], see Empty
  opens,   \* openings so far
  answer   \* the entry a StoreDocumentText has just answered Ok for, or Closed

vars == <<context, max, engine, opens, answer>>

\* text: the latest text of each document; cap: max_document_size of the text
\* storage, 0 when there is none; live: the postings a search can find, each
\* with where it came from; pending: pending_shard_operations; queued: given to
\* the batch processor; log: in the write-ahead log.
Empty(cap) == [text |-> [d \in Doc |-> NoText], cap |-> cap, live |-> {},
               pending |-> <<>>, queued |-> <<>>, log |-> <<>>]

Init == context = "none" /\ max = Closed /\ engine = Empty(0) /\ opens = 0 /\ answer = Closed
-----------------------------------------------------------------------------
(***************************************************************************)
(* The engine.                                                             *)
(***************************************************************************)
AddOf(p, by)    == [do |-> "add", post |-> p, by |-> by]
RemoveOf(d)     == [do |-> "remove", doc |-> d]
StoreOf(d, t)   == [do |-> "store", doc |-> d, text |-> t]

\* apply_operation_to_shards; a text that is refused is logged and forgotten.
Applied(e, o) ==
  CASE o.do = "add"    -> [e EXCEPT !.live = @ \cup {[post |-> o.post, by |-> o.by]}]
    [] o.do = "remove" -> [e EXCEPT !.live = {l \in @ : l.post.doc # o.doc}]
    [] o.do = "store" /\ o.text.len <= e.cap -> [e EXCEPT !.text[o.doc] = o.text]
    [] OTHER -> e
AppliedAll(e, ops) == FoldLeft(Applied, e, ops)

\* validate_add_postings_input
AddAccepted(posts) ==
  \A p \in ToSet(posts) : p.vec = "fits" /\ p.len > 0 /\ p.start + p.len <= (Width - 1) \div 2

\* add_postings: the processor is shut down, which writes what it holds, and
\* started again.
Added(e, posts) ==
  LET ops == [i \in DOMAIN posts |-> AddOf(posts[i], "add")]
  IN [e EXCEPT !.log = @ \o e.queued, !.queued = ops, !.pending = @ \o ops]

\* validate_remove_documents_input
RemoveAccepted(docs) == IsInjective(docs)

\* remove_documents
Removed(e, docs) ==
  LET ops == [i \in DOMAIN docs |-> RemoveOf(docs[i])]
  IN [e EXCEPT !.queued = @ \o ops, !.pending = @ \o ops]

\* Mutant of InText: the end is computed as the parameters compute it.
InTextWrapped(p, t) == (p.start + p.len) % Width <= t.len /\ p.len > 0
\* validate_posting_for_replacement: the range, in usize.
InText(p, t) ==
  p.start + p.len <= t.len /\ {p.start, p.start + p.len} \subseteq t.cuts /\ p.len > 0

\* validate_replacement_inputs.  That a posting is of this document is not asked,
\* and ranges that overlap are accepted.
ReplaceAccepted(entry) ==
  /\ entry.doc # Nil /\ entry.text.len <= max /\ ~entry.text.nul
  /\ \A p \in ToSet(entry.posts) : p.doc # Nil /\ p.vec = "fits" /\ InText(p, entry.text)

\* Mutant of Replacement: the old postings go after the new ones came.
ReplacementBackward(entry) ==
  <<StoreOf(entry.doc, entry.text)>>
    \o [i \in DOMAIN entry.posts |-> AddOf(entry.posts[i], "store")] \o <<RemoveOf(entry.doc)>>
Replacement(entry) ==
  <<StoreOf(entry.doc, entry.text), RemoveOf(entry.doc)>>
    \o [i \in DOMAIN entry.posts |-> AddOf(entry.posts[i], "store")]

\* replace_document_with_postings_staged: never given to the log.
Staged(e, entry) == [e EXCEPT !.pending = @ \o Replacement(entry)]

\* flush_internal: the log first, then the shards and texts.
Flushed(e) ==
  [AppliedAll(e, e.pending) EXCEPT !.log = @ \o e.queued, !.queued = <<>>, !.pending = <<>>]

\* get_text_safe, of the storage, the index and the engine.
TextSafe(e, d) == IF e.text[d] # NoText /\ e.text[d].len <= e.cap THEN e.text[d] ELSE NoText
HasStorage(e) == e.cap > 0
IndexText(e, d) == IF HasStorage(e) THEN TextSafe(e, d) ELSE NoText
DocumentText(e, d) == IF d = Nil THEN NoText ELSE IndexText(e, d)

\* extract_text: validate_posting, then of the text validate_extraction_range
\* and the boundaries.
ValidPosting(p) == p.doc # Nil /\ p.len > 0 /\ p.start + p.len <= Width - 1
InRange(t, p) ==
  t # NoText /\ p.start <= t.len /\ p.start + p.len <= t.len /\ {p.start, p.start + p.len} \subseteq t.cuts
IndexExtracts(e, p) == HasStorage(e) /\ InRange(TextSafe(e, p.doc), p)
Extracts(e, p) == ValidPosting(p) /\ IndexExtracts(e, p)
-----------------------------------------------------------------------------
(***************************************************************************)
(* What the parameters of each operation are checked for.                  *)
(***************************************************************************)
Finite(posts) == \A p \in ToSet(posts) : p.vec # "notFinite"
OneDimension(posts) == \A p, q \in ToSet(posts) : (p.vec = "other") = (q.vec = "other")

\* AddPostingsParams, BatchAddPostingsParams and IncrementalAddParams
AddParams(posts) == posts # <<>> /\ OneDimension(posts) /\ Finite(posts)

\* RemoveDocumentsParams
RemoveParams(docs) == docs # <<>>

\* StoreDocumentTextParams: the end of a range is added up in u32, which wraps.
StoreParams(entry) ==
  /\ entry.text.len > 0
  /\ \A p \in ToSet(entry.posts) :
       p.doc = entry.doc /\ (p.start + p.len) % Width <= entry.text.len
  /\ Finite(entry.posts) /\ OneDimension(entry.posts)

\* BatchStoreDocumentTextParams
BatchStoreParams(list) ==
  /\ list # <<>>
  /\ \A entry \in ToSet(list) : StoreParams(entry)
  /\ \A i, j \in DOMAIN list : list[i].doc = list[j].doc => i = j

\* ExtractSnippetParams
ExtractParams(p) == p.len > 0 /\ p.start + p.len <= Width - 1
-----------------------------------------------------------------------------
(***************************************************************************)
(* The operations.                                                         *)
(***************************************************************************)
Refused == answer' = Closed /\ UNCHANGED <<context, max, engine, opens>>
Does(e) == engine' = e /\ answer' = Closed /\ UNCHANGED <<context, max, opens>>

\* CreateIndex passes no text size on, so the default holds; create called with
\* a configuration keeps the one given.
Create(m) ==
  IF context = "none" /\ max = Closed
  THEN /\ context' = "open" /\ max' = m /\ engine' = Empty(m)
       /\ answer' = Closed /\ UNCHANGED opens
  ELSE Refused

\* OpenIndex: the files hold texts and postings; the text storage starts with
\* the default size whatever was configured; the whole log is replayed.
Open ==
  /\ opens < MaxOpens /\ max # Closed
  /\ IF context = "none"
     THEN /\ context' = "open" /\ opens' = opens + 1
          /\ engine' = [AppliedAll([engine EXCEPT !.cap = IF max > 0 THEN DefaultMax ELSE 0],
                                   engine.log) EXCEPT !.pending = <<>>, !.queued = <<>>]
          /\ answer' = Closed /\ UNCHANGED max
     ELSE Refused

Add(posts, flush) ==
  IF context = "open" /\ AddParams(posts) /\ AddAccepted(posts)
  THEN Does(IF flush THEN Flushed(Added(engine, posts)) ELSE Added(engine, posts))
  ELSE Refused
AddPostings(posts) == Add(posts, FALSE)
IncrementalAdd(posts) == Add(posts, FALSE)
BatchAddPostings(posts, flush) == Add(posts, flush)

RemoveDocuments(docs) ==
  IF context = "open" /\ RemoveParams(docs) /\ RemoveAccepted(docs)
  THEN Does(Removed(engine, docs))
  ELSE Refused

StoreDocumentText(entry) ==
  IF context = "open" /\ StoreParams(entry) /\ ReplaceAccepted(entry)
  THEN /\ engine' = Flushed(Staged(engine, entry)) /\ answer' = entry
       /\ UNCHANGED <<context, max, opens>>
  ELSE Refused

\* The first entry refused ends it; those before stay staged.
BatchStoreDocumentText(list, flush) ==
  LET good == {i \in DOMAIN list : \A j \in 1..i : ReplaceAccepted(list[j])}
      staged == FoldLeft(Staged, engine, SubSeq(list, 1, Cardinality(good)))
  IN IF context = "open" /\ BatchStoreParams(list)
     THEN Does(IF flush /\ good = DOMAIN list THEN Flushed(staged) ELSE staged)
     ELSE Refused

Flush ==
  IF context = "open" THEN Does(Flushed(engine)) ELSE Refused

\* The background task.
WriteLog ==
  /\ context = "open" /\ engine.queued # <<>>
  /\ engine' = [engine EXCEPT !.log = @ \o engine.queued, !.queued = <<>>]
  /\ answer' = Closed
  /\ UNCHANGED <<context, max, opens>>

\* The process ends between two calls.
Exit ==
  /\ context = "open"
  /\ context' = "none" /\ answer' = Closed
  /\ engine' = [engine EXCEPT !.pending = <<>>, !.queued = <<>>]
  /\ UNCHANGED <<max, opens>>

\* GetDocumentText and ExtractSnippet change nothing: the text that is answered,
\* and whether there is an extract to answer.
GetDocumentText(d) == IF context = "open" THEN DocumentText(engine, d) ELSE NoText
ExtractSnippet(p) == context = "open" /\ ExtractParams(p) /\ Extracts(engine, p)

HasRoom(n) == Len(engine.pending) + n <= MaxQueue /\ Len(engine.log) + Len(engine.queued) + n <= MaxQueue

Next ==
  \/ \E m \in Maxima : Create(m)
  \/ Open
  \/ \E posts \in Batches : HasRoom(Len(posts)) /\ (AddPostings(posts) \/ IncrementalAdd(posts))
  \/ \E posts \in Batches, flush \in BOOLEAN : HasRoom(Len(posts)) /\ BatchAddPostings(posts, flush)
  \/ \E docs \in Removals : HasRoom(Len(docs)) /\ RemoveDocuments(docs)
  \/ \E entry \in Entries : StoreDocumentText(entry)
  \/ \E list \in EntryLists, flush \in BOOLEAN :
       HasRoom(Len(FlattenSeq([i \in DOMAIN list |-> Replacement(list[i])]))) /\ BatchStoreDocumentText(list, flush)
  \/ Flush \/ WriteLog \/ Exit

Spec == Init /\ [][Next]_vars
-----------------------------------------------------------------------------
(***************************************************************************)
(* Properties.                                                             *)
(***************************************************************************)
OfDocument(e, d) == {l.post : l \in {m \in e.live : m.post.doc = d}}

\* While nothing is staged, a posting that came with a text extracts from the
\* document's text now, whatever was added, replaced, removed and replayed
\* since: for an index whose texts may not be longer than the default.
LiveExtracts ==
  context = "open" /\ max <= DefaultMax =>
    \A l \in engine.live : l.by = "store" => GetDocumentText(l.post.doc) # NoText /\ ExtractSnippet(l.post)

\* A StoreDocumentText that answers Ok leaves the document with its text and its
\* postings and no others, whatever was staged before, and takes nothing away
\* from the documents nothing was staged for: for texts up to the default size.
StoresWhole ==
  answer' # Closed /\ answer'.text.len <= DefaultMax =>
    LET entry == answer'
    IN /\ DocumentText(engine', entry.doc) = entry.text
       /\ OfDocument(engine', entry.doc) = ToSet(entry.posts)
       /\ engine.pending = <<>> => \A d \in Doc \ {entry.doc} :
            engine'.text[d] = engine.text[d] /\ OfDocument(engine', d) = OfDocument(engine, d)
\* So for every call of StoreDocumentText, StoreDocumentText being one step.
StoreIsWhole == [][StoresWhole]_vars

\* "All operations succeed or fail together, ensuring data consistency"
\* (shardex.rs, replace_document_with_postings).  They do not: after an opening
\* the text storage refuses a text the configuration allows, and the postings
\* are replaced all the same.
ReplacedTogether ==
  [][answer' # Closed => engine'.text[answer'.doc] = answer'.text]_vars
=============================================================================
