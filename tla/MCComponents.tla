---------------------------- MODULE MCComponents ----------------------------
(***************************************************************************)
(* Bounds for checking seven components with TLC, each on its own: which    *)
(* one a behaviour runs is chosen at the start.                            *)
(***************************************************************************)
EXTENDS Naturals, Sequences, TLC

CONSTANTS t1, t2, s1, s2, NoText, NoFile, NoAnswer, AtRest, Closed, Free

VARIABLES
  which,
  active, work, log, index, deviant, outcome, reopened,         \* dt
  sFile, sOpened, sJob, sJobs, sFaults, search, found, quiet,   \* search
  context, max, engine, opens, answer,                          \* api
  pool, held, lock, stats, call, made, calls,                   \* pool
  commands, responses, client, sent, loop, out, batch, bytes, written, accepted, dropped, failed,  \* batch
  history, patterns, accesses, before,                          \* patterns
  shards, layout, walDir, temp, pending, applied, skipped, mOps, mFaults, mCalls, astray, mCall, mAnswer \* maintenance

dt        == <<active, work, log, index, deviant, outcome, reopened>>
searching == <<sFile, sOpened, sJob, sJobs, sFaults, search, found, quiet>>
api       == <<context, max, engine, opens, answer>>
buffers   == <<pool, held, lock, stats, call, made, calls>>
batching  == <<commands, responses, client, sent, loop, out, batch, bytes, written, accepted, dropped, failed>>
tracked   == <<history, patterns, accesses, before>>
upkeep    == <<shards, layout, walDir, temp, pending, applied, skipped, mOps, mFaults, mCalls, astray, mCall, mAnswer>>

\* Transactions: texts that fit, that the index refuses and that are too large
\* for a transaction; one posting of each document that fits, one that does not,
\* and operations that no transaction takes.
OnDoc(do, doc) == [do |-> do, doc |-> doc]
Store(doc, text) == [do |-> "store", doc |-> doc, text |-> text]
Add(doc, post) == [do |-> "add", doc |-> doc, post |-> post]
TxOps == {Store("d", "small"), Store("d", "big"), Store("e", "huge"), Add("d", "p"), Add("d", "misfit"),
          Add("d", "no length"), Add("e", "not finite"), Store("e", "empty"),
          OnDoc("remove", "d"), OnDoc("delete", "d"), Add("e", "q")}
DT == INSTANCE DocumentTransactions WITH
  Tx <- {t1, t2}, Doc <- {"d", "e"}, Ops <- TxOps, Cap <- 2, MaxActive <- 2, MaxOps <- 2, LogCap <- 3,
  MaxOpens <- 2, answer <- outcome, opens <- reopened
ASSUME DT!DocumentTransactionsAssumption

\* Search: two shards, two postings of a document with the same start, vectors
\* that score more and less than a removed one.
S == INSTANCE Search WITH
  Shard <- {s1, s2}, Order <- <<s1, s2>>, Capacity <- 3, OtherCapacity <- 1, Vector <- {0, 2},
  Posting <- {[doc |-> "d", start |-> 0, len |-> 1], [doc |-> "d", start |-> 0, len |-> 2],
              [doc |-> "e", start |-> 0, len |-> 1]},
  MaxFaults <- 0, MaxJobs <- 3, Ks <- {0, 2}, Slops <- {1, 2}, MinLimit <- 3, MaxLimit <- 4,
  Neutral <- 1, Zero <- 7, Nan <- 9, Idle <- AtRest,
  file <- sFile, opened <- sOpened, job <- sJob, jobs <- sJobs, faults <- sFaults, answer <- found
ASSUME S!SearchAssumption /\ S!ShardFilesAssumption

\* The interface: a u32 of 8 values, so that ranges wrap; the default size is
\* that of the longest text but one.
Text(id, len, cuts, nul) == [id |-> id, len |-> len, cuts |-> cuts, nul |-> nul]
Long  == Text("long", 3, {0, 1, 3}, FALSE)
Short == Text("short", 1, {0, 1}, FALSE)
Huge  == Text("huge", 4, {0, 4}, FALSE)
Void  == Text("void", 0, {0}, FALSE)
Nul   == Text("nul", 1, {0, 1}, TRUE)
Post(doc, start, len) == [doc |-> doc, start |-> start, len |-> len, vec |-> "fits"]
Entry(doc, text, posts) == [doc |-> doc, text |-> text, posts |-> posts]
A == INSTANCE Api WITH
  Doc <- {"d", "e"}, Nil <- "nil", Texts <- {Long, Short, Huge, Void, Nul},
  Batches <- {<<Post("d", 0, 3)>>, <<Post("e", 7, 2)>>, <<>>, <<[Post("d", 0, 1) EXCEPT !.vec = "other"]>>},
  Removals <- {<<"d">>, <<"e", "e">>},
  Entries <- {Entry("d", Long, <<Post("d", 1, 2), Post("d", 0, 1)>>), Entry("d", Long, <<Post("d", 2, 1)>>),
              Entry("d", Short, <<Post("d", 0, 1)>>), Entry("d", Short, <<Post("d", 7, 2)>>),
              Entry("d", Huge, <<Post("d", 0, 4)>>), Entry("d", Void, <<>>), Entry("d", Nul, <<>>),
              Entry("e", Short, <<Post("d", 0, 1)>>), Entry("e", Short, <<Post("e", 0, 1)>>),
              Entry("nil", Short, <<>>)},
  EntryLists <- {<<Entry("e", Short, <<Post("e", 0, 1)>>), Entry("d", Short, <<>>)>>,
                 <<Entry("e", Long, <<Post("e", 0, 3)>>), Entry("d", Long, <<Post("d", 2, 1)>>)>>},
  Maxima <- {0, 3, 4}, DefaultMax <- 3, Width <- 8, MaxQueue <- 4, MaxOpens <- 2
ASSUME A!ApiAssumption

\* Buffers: two threads, pools of one, capacities below and above the limit.
P == INSTANCE TextPool WITH
  Thread <- {t1, t2}, Sizes <- {1, 3}, Grown <- 1 :> 2 @@ 3 :> 3, MaxPool <- 1, MaxCapacity <- 2,
  MaxCalls <- 3, Idle <- AtRest
ASSUME P!PoolAssumption

\* The event loop: operations that weigh one and two, and one that is refused;
\* limits of three operations and of a weight of three.
Added(length, size) == [do |-> "add", end |-> 1, length |-> length, vector |-> [dim |-> 2, finite |-> TRUE],
                        text |-> 0, size |-> size]
WB == INSTANCE WalBatch WITH
  Op <- {Added(1, 2), Added(1, 1), Added(0, 2)}, NoDim <- 0, Dim <- 2, MaxText <- 1, MaxU32 <- 7,
  MaxOps <- 3, MaxBytes <- 3, Room <- 1, MaxSent <- 5
ASSUME WB!WalBatchAssumption

\* Read-ahead: four documents, one link each and a shorter history than that.
AP == INSTANCE AccessPatterns WITH
  Doc <- 1..4, MaxHistory <- 3, MaxPatterns <- 1, Considered <- 3, Unit <- 12, Weak <- 5, Limits <- {2, 3},
  MaxAccesses <- 4
ASSUME AP!PatternsAssumption

\* Maintenance: two shards, two operations, two faults, two calls.
MT == INSTANCE Maintenance WITH
  Shard <- {s1, s2}, MaxRetries <- 3, FirstWait <- 1, LongestWait <- 3, MaxOps <- 2, MaxFaults <- 2,
  MaxCalls <- 2, MaxTemp <- 1, ops <- mOps, faults <- mFaults, calls <- mCalls, call <- mCall, answer <- mAnswer
ASSUME MT!MaintenanceAssumption

Init ==
  /\ which \in {"transactions", "search", "api", "pool", "batch", "patterns", "maintenance"}
  /\ DT!Init /\ S!Init /\ A!Init /\ P!Init /\ WB!Init /\ AP!Init /\ MT!Init
  /\ which # "transactions" => index.shard = "listed" /\ index.limit = "configured"

Next ==
  \/ which = "transactions" /\ DT!Next /\ UNCHANGED <<which, searching, api, buffers, batching, tracked, upkeep>>
  \/ which = "search" /\ S!Next /\ UNCHANGED <<which, dt, api, buffers, batching, tracked, upkeep>>
  \/ which = "api" /\ A!Next /\ UNCHANGED <<which, dt, searching, buffers, batching, tracked, upkeep>>
  \/ which = "pool" /\ P!Next /\ UNCHANGED <<which, dt, searching, api, batching, tracked, upkeep>>
  \/ which = "batch" /\ WB!Next /\ UNCHANGED <<which, dt, searching, api, buffers, tracked, upkeep>>
  \/ which = "patterns" /\ AP!Next /\ UNCHANGED <<which, dt, searching, api, buffers, batching, upkeep>>
  \/ which = "maintenance" /\ MT!Next /\ UNCHANGED <<which, dt, searching, api, buffers, batching, tracked>>

Spec == Init /\ [][Next]_<<which, dt, searching, api, buffers, batching, tracked, upkeep>>


\* A search answers the best there is, while the shards change under it.
AnswersAreBest == which = "search" => S!AnswersAreBest

\* No search answers a posting whose removal is done.
RemovedIsUnanswered == which = "search" => S!RemovedIsUnanswered

\* A posting that came with a text extracts from the document's text of now.
LiveExtracts == which = "api" => A!LiveExtracts

\* A text is stored with all its postings, and nothing else is disturbed.
StoreIsWhole == [][which = "api" => A!StoresWhole]_<<which, api>>

\* What is kept to save work later serves: buffers are clean and never block a
\* thread, and links between documents are of the past and found.
PoolsAndPatterns ==
  /\ which = "pool" => P!PoolServes
  /\ which = "patterns" => AP!PatternsHold

\* The event loop of the batch manager keeps every operation and every limit.
BatchHolds == which = "batch" => WB!BatchHolds

\* Recovery, flushes and retries of the engine mean what they answer.
MaintenanceHolds == which = "maintenance" => MT!MaintenanceHolds
=============================================================================
