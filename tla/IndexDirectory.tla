--------------------------- MODULE IndexDirectory ---------------------------
(***************************************************************************)
(* The files of an index and the operations that create, open, reconfigure *)
(* and recover it: ShardexImpl (src/src/shardex.rs), DirectoryLayout and   *)
(* IndexMetadata (layout.rs), PersistedConfig (config_persistence.rs),     *)
(* CrashRecovery (crash_recovery.rs), ShardexIndex (shardex_index.rs).     *)
(*                                                                         *)
(* An operation is a list of steps on files: a write or a copy empties its *)
(* target first, a rename is atomic.  The process may be killed between any*)
(* two, and any may fail.  A shard is its two files, the texts their       *)
(* number, the log whether it can be read (OpLog, WalSegment, Shard and    *)
(* TextStore look inside).                                                 *)
(***************************************************************************)
EXTENDS Naturals, Sequences, FiniteSets

CONSTANTS
  Torn,       \* content of a file that a write has emptied and not filled
  NoConfig,   \* no settings
  Config,     \* settings with one vector size and directory: [merged, kept]
  MaxKills,   \* bound: kills
  MaxFails,   \* bound: failing file operations
  MaxTexts,   \* bound: texts stored
  MaxUpdates  \* bound: update_config and restore_config_from_backup

\* Settings merged of two, IndexMetadata, and what other files hold.
Mixed    == [merged : {c.merged : c \in Config}, kept : {c.kept : c \in Config}]
Metadata == [config : Config, active : BOOLEAN, needs : BOOLEAN]
Marks    == {"dir", "ok", "held", "good", "first bad", "later bad"}

ASSUME IndexDirectoryAssumption ==
  /\ Config # {} /\ Config \subseteq Mixed
  /\ Torn \notin Mixed \cup Metadata \cup Marks \cup Nat
  /\ {MaxKills, MaxFails, MaxTexts, MaxUpdates} \subseteq Nat

VARIABLES
  disk,     \* content of the files and directories that exist
  todo,     \* file steps the running operation has still to do
  op,       \* the running operation, named after what it does next, or "idle"
  held,     \* what the operation has in memory: metadata, settings, which
            \* index the engine had, or whether the recovered one lists a shard
  proc,     \* the engine: [open, index, config], index "real" or "temp"
  bounds,   \* kills, failures and updates so far
  created,  \* ghost: create has answered Ok
  stored,   \* ghost: texts stored with an Ok
  diverted, \* ghost: those stored in a temporary index
  recreated,\* ghost: a recovery created the index anew over a torn shardex.meta
  unlocked, \* ghost: a recovery went on without its lock
  updated   \* ghost: the settings last given to update_config, or none

ghosts == <<created, stored, diverted, recreated, unlocked, updated>>
vars == <<disk, todo, op, held, proc, bounds, created, stored, diverted, recreated, unlocked, updated>>

Closed == [open |-> FALSE, index |-> "real", config |-> NoConfig]
Meta(c, active, needs) == [config |-> c, active |-> active, needs |-> needs]
MarkActive(m)   == [m EXCEPT !.active = TRUE]
MarkInactive(m) == [m EXCEPT !.active = FALSE, !.needs = FALSE]
MarkNeeds(m)    == [m EXCEPT !.needs = TRUE]

Init ==
  /\ disk = [f \in {} |-> Torn] /\ todo = <<>> /\ op = "idle" /\ held = NoConfig /\ proc = Closed
  /\ bounds = [kills |-> 0, fails |-> 0, updates |-> 0]
  /\ created = FALSE /\ stored = 0 /\ diverted = 0 /\ recreated = FALSE /\ unlocked = FALSE
  /\ updated = NoConfig
-----------------------------------------------------------------------------
(***************************************************************************)
(* Steps on files.                                                         *)
(***************************************************************************)
Write(f, c)  == [do |-> "write", to |-> f, content |-> c]
Copy(f, g)   == [do |-> "copy", to |-> g, from |-> f]
Rename(f, g) == [do |-> "rename", to |-> g, from |-> f]
Remove(f)    == [do |-> "remove", to |-> f]
Mkdir(f)     == [do |-> "mkdir", to |-> f]

With(d, f, c)  == [g \in DOMAIN d \cup {f} |-> IF g = f THEN c ELSE d[g]]
Without(d, fs) == [g \in DOMAIN d \ fs |-> d[g]]

Done(d, s) ==
  CASE s.do = "write"  -> With(d, s.to, s.content)
    [] s.do = "copy"   -> With(d, s.to, d[s.from])
    [] s.do = "rename" -> Without(With(d, s.to, d[s.from]), {s.from})
    [] s.do = "remove" -> Without(d, {s.to})
    [] s.do = "mkdir"  -> With(d, s.to, "dir")

Mkdirs == <<Mkdir("root"), Mkdir("centroids"), Mkdir("shards"), Mkdir("wal")>>

\* IndexMetadata::save
Save(m) == <<Write("layout.tmp", m), Rename("layout.tmp", "layout.meta")>>

\* PersistedConfig::save
SaveConfig(c) ==
  (IF "config" \in DOMAIN disk THEN <<Copy("config", "config.bak")>> ELSE <<>>)
  \o <<Write("config.tmp", c), Rename("config.tmp", "config")>>

\* ShardexIndex::create; the text files are truncated.
CreateIndex == <<Mkdir("root"), Mkdir("shards"), Write("shardex.meta", "ok"), Write("texts", 0)>>

\* Shard::create, then ShardexIndex::add_shard, which ends in save_metadata.
CreateShardInPlace == <<Write("vectors", "ok"), Write("postings", "ok"), Write("shardex.meta", "ok")>>
CreateShard ==
  <<Write("vectors.tmp", "ok"), Write("postings.tmp", "ok"), Rename("vectors.tmp", "vectors"),
    Rename("postings.tmp", "postings"), Write("shardex.meta", "ok")>>
-----------------------------------------------------------------------------
(***************************************************************************)
(* What the code reads off the files.                                      *)
(***************************************************************************)
Has(d, fs) == fs \subseteq DOMAIN d
Sound(d, f) == f \in DOMAIN d /\ d[f] # Torn

\* DirectoryLayout::exists and validate.
LayoutExists(d) == Has(d, {"root", "layout.meta", "centroids", "shards", "wal"})

\* discover_shards takes a shard when both files are there.
Listed(d) == Has(d, {"vectors", "postings"})

LogReadable(d) == "log" \in DOMAIN d => d["log"] = "good"

\* ShardexIndex::open
IndexOpensReadable(d) ==
  Sound(d, "shardex.meta") /\ ("texts" \in DOMAIN d => Sound(d, "texts")) /\ LogReadable(d)
IndexOpens(d) ==
  /\ Sound(d, "shardex.meta")
  /\ "texts" \in DOMAIN d => Sound(d, "texts")
  /\ Listed(d) => Sound(d, "vectors") /\ Sound(d, "postings")

\* The first add_posting replayed into an index that lists no shard creates one,
\* in the root directory where no later open finds it, and saves the metadata.
\* The log may hold none: a segment is there before its first record.
Replay(d, listed) ==
  IF "log" \in DOMAIN d /\ d["log"] # "first bad" /\ ~listed
  THEN {<<>>, <<Write("shardex.meta", "ok")>>} ELSE {<<>>}

\* CrashRecovery::detect_crash
Detects(d) ==
  \/ "lock" \in DOMAIN d
  \/ "shardex.meta" \in DOMAIN d /\ d["shardex.meta"] = Torn
  \/ "shardex.meta" \notin DOMAIN d /\ "log" \in DOMAIN d
  \/ ~LogReadable(d)
-----------------------------------------------------------------------------
(***************************************************************************)
(* The steps of an operation, one by one.                                  *)
(***************************************************************************)
Busy == op # "idle" /\ todo # <<>>
Idle == op = "idle"
Begin(name, steps) == Idle /\ op' = name /\ todo' = steps
Return == op' = "idle" /\ held' = NoConfig

FileStep ==
  /\ Busy /\ disk' = Done(disk, Head(todo)) /\ todo' = Tail(todo)
  /\ UNCHANGED <<op, held, proc, bounds, ghosts>>

FileEmptied ==
  /\ Busy /\ Head(todo).do \in {"write", "copy"}
  /\ disk' = With(disk, Head(todo).to, Torn)
  /\ UNCHANGED <<todo, op, held, proc, bounds, ghosts>>

\* What the failing operations delete on their way out.
CleanedUp(s) ==
  CASE op = "create" -> [f \in {} |-> Torn]                                  \* remove_dir_all
    [] op = "shard" /\ s.to = "postings.tmp" -> Without(disk, {"vectors.tmp"})
    [] op = "shard" /\ s.to = "vectors"      -> Without(disk, {"vectors.tmp", "postings.tmp"})
    [] op = "shard" /\ s.to = "postings"     -> Without(disk, {"vectors", "postings.tmp"})
    [] op \notin {"create", "shard"} /\ s.do = "rename" -> Without(disk, {s.from})
    [] OTHER -> disk

\* WalReplayer::apply_transaction turns the error of an operation into a warning
\* and goes on with the next one, CrashRecovery::recover goes on without its lock.
LockFails(s) == op = "recover" /\ s.to = "lock"
GoesOn(s) == op \in {"replay", "recoverReplay", "attempt"} \/ LockFails(s)

FileFails ==
  /\ Busy /\ bounds.fails < MaxFails /\ bounds' = [bounds EXCEPT !.fails = @ + 1]
  /\ disk' = CleanedUp(Head(todo))
  /\ IF GoesOn(Head(todo)) THEN todo' = Tail(todo) /\ UNCHANGED <<op, held>> ELSE todo' = <<>> /\ Return
  /\ unlocked' = (unlocked \/ LockFails(Head(todo)))
  /\ UNCHANGED <<proc, created, stored, diverted, recreated, updated>>

\* A kill may cut an append to the log short, or leave a segment without its
\* header: no open of that segment succeeds (module WalSegment).  The log is bad
\* from the first on if no segment before this one has a transaction.
Kill ==
  /\ proc.open \/ ~Idle
  /\ bounds.kills < MaxKills /\ bounds' = [bounds EXCEPT !.kills = @ + 1]
  /\ \/ disk' = disk
     \/ /\ proc.open /\ LogReadable(disk)
        /\ \/ disk' = With(disk, "log", "first bad")
           \/ "log" \in DOMAIN disk /\ disk' = With(disk, "log", "later bad")
  /\ proc' = Closed /\ todo' = <<>> /\ Return
  /\ UNCHANGED ghosts
-----------------------------------------------------------------------------
(***************************************************************************)
(* ShardexImpl::create.                                                    *)
(***************************************************************************)
Create(c) ==
  /\ ~proc.open /\ DOMAIN disk \subseteq {"root"}
  /\ Begin("mkdirs", Mkdirs) /\ held' = c
  /\ UNCHANGED <<disk, proc, bounds, ghosts>>

CreateFiles ==
  /\ op = "mkdirs" /\ todo = <<>>
  /\ op' = "create"
  /\ todo' = Save(Meta(held, TRUE, FALSE)) \o SaveConfig(held) \o CreateIndex \o Save(Meta(held, TRUE, FALSE))
  /\ UNCHANGED <<disk, held, proc, bounds, ghosts>>

CreateSettles ==
  /\ op = "create" /\ todo = <<>>
  /\ op' = "created" /\ todo' = Save(MarkInactive(disk["layout.meta"]))
  /\ UNCHANGED <<disk, held, proc, bounds, ghosts>>

CreateReturns ==
  /\ op = "created" /\ todo = <<>> /\ Return /\ created' = TRUE
  /\ proc' = [open |-> TRUE, index |-> "real", config |-> held]
  /\ UNCHANGED <<disk, todo, bounds, stored, diverted, recreated, unlocked, updated>>
-----------------------------------------------------------------------------
(***************************************************************************)
(* ShardexImpl::open.                                                      *)
(***************************************************************************)
Readable(d) ==
  /\ LayoutExists(d) /\ Sound(d, "layout.meta")
  /\ "config" \in DOMAIN d => Sound(d, "config")

Open ==
  /\ ~proc.open /\ Readable(disk)
  /\ held' = MarkActive(disk["layout.meta"])
  /\ Begin("open", Save(MarkActive(disk["layout.meta"])))
  /\ UNCHANGED <<disk, proc, bounds, ghosts>>

OpenSync ==
  /\ op = "open" /\ todo = <<>>
  /\ IF IndexOpens(disk) THEN op' = "replay" /\ todo' \in Replay(disk, Listed(disk))
     ELSE op' = "undo" /\ todo' = Save(MarkInactive(held))
  /\ UNCHANGED <<disk, held, proc, bounds, ghosts>>

\* The settings are those of layout.meta; shardex.config was only validated.
Settings(d) == d["layout.meta"].config
OpenReturns ==
  /\ op = "replay" /\ todo = <<>> /\ LogReadable(disk)
  /\ Return /\ proc' = [open |-> TRUE, index |-> "real", config |-> Settings(disk)]
  /\ UNCHANGED <<disk, todo, bounds, ghosts>>

ReplayFails ==
  /\ op = "replay" /\ todo = <<>> /\ ~LogReadable(disk)
  /\ op' = "undo" /\ todo' = Save(MarkNeeds(held))
  /\ UNCHANGED <<disk, held, proc, bounds, ghosts>>

\* The temporary index that stands in for the real one could not be made.
TempIndexFails ==
  /\ op = "open" /\ todo = <<>> /\ IndexOpens(disk)
  /\ bounds.fails < MaxFails /\ bounds' = [bounds EXCEPT !.fails = @ + 1]
  /\ op' = "undo" /\ todo' = Save(MarkNeeds(held))
  /\ UNCHANGED <<disk, held, proc, ghosts>>

OpenFails ==
  /\ op = "undo" /\ todo = <<>> /\ Return
  /\ UNCHANGED <<disk, todo, proc, bounds, ghosts>>
-----------------------------------------------------------------------------
(***************************************************************************)
(* Operations of an open engine.                                           *)
(***************************************************************************)
InEngine == proc.open /\ Idle

StoreText ==
  /\ InEngine /\ stored < MaxTexts /\ (proc.index = "real" => "texts" \in DOMAIN disk)
  /\ stored' = stored + 1
  /\ IF proc.index = "real" THEN disk' = [disk EXCEPT !["texts"] = @ + 1] /\ UNCHANGED diverted
     ELSE diverted' = diverted + 1 /\ UNCHANGED disk
  /\ UNCHANGED <<todo, op, held, proc, bounds, created, recreated, unlocked, updated>>

AddPostings ==
  /\ InEngine /\ "log" \notin DOMAIN disk
  /\ disk' = With(disk, "log", "good")
  /\ UNCHANGED <<todo, op, held, proc, bounds, ghosts>>

AddShard ==
  /\ InEngine /\ proc.index = "real" /\ "vectors" \notin DOMAIN disk
  /\ Begin("shard", CreateShard)
  /\ UNCHANGED <<disk, held, proc, bounds, ghosts>>

Shutdown ==   \* the flags in layout.meta stay as open left them
  /\ InEngine /\ proc' = Closed
  /\ UNCHANGED <<disk, todo, op, held, bounds, ghosts>>

CountUpdate == bounds.updates < MaxUpdates /\ bounds' = [bounds EXCEPT !.updates = @ + 1]
Merged(old, new) == [old EXCEPT !.merged = new.merged]
LoadableOrTorn == "config" \in DOMAIN disk
Loadable == Sound(disk, "config")

UpdateConfig(c) ==
  /\ InEngine /\ CountUpdate
  /\ Loadable
  /\ held' = c
  /\ Begin("update", SaveConfig(IF disk["config"] = Torn THEN c ELSE Merged(disk["config"], c)))
  /\ UNCHANGED <<disk, proc, ghosts>>

UpdateReturns ==
  /\ op = "update" /\ todo = <<>> /\ Return
  /\ proc' = [proc EXCEPT !.config = held] /\ updated' = held
  /\ UNCHANGED <<disk, todo, bounds, created, stored, diverted, recreated, unlocked>>

RestoreConfig ==
  /\ InEngine /\ Sound(disk, "config.bak") /\ CountUpdate
  /\ held' = disk["config.bak"] /\ Begin("restore", <<Copy("config.bak", "config")>>)
  /\ UNCHANGED <<disk, proc, ghosts>>

RestoreReturns ==
  /\ op = "restore" /\ todo = <<>> /\ Return /\ proc' = [proc EXCEPT !.config = held]
  /\ updated' = NoConfig
  /\ UNCHANGED <<disk, todo, bounds, created, stored, diverted, recreated, unlocked>>

\* Step 2 of attempt_index_recovery: recover_from_wal replays when layout.meta
\* says so, with a temporary index in place of the real one, which a failing
\* replay leaves there.  Steps 1 and 3 look at and repair the slots of shards
\* (modules Integrity and Maintenance); no file comes or goes by them.
AttemptRecovery ==
  /\ InEngine /\ Sound(disk, "layout.meta") /\ disk["layout.meta"].needs
  /\ \E steps \in Replay(disk, proc.index = "temp" \/ Listed(disk)) : Begin("attempt", steps)
  /\ held' = proc.index /\ proc' = [proc EXCEPT !.index = "temp"]
  /\ UNCHANGED <<disk, bounds, ghosts>>

AttemptReturns ==
  /\ op = "attempt" /\ todo = <<>> /\ Return
  /\ proc' = IF LogReadable(disk) THEN [proc EXCEPT !.index = held] ELSE proc
  /\ UNCHANGED <<disk, todo, bounds, ghosts>>

\* FileDiscovery::discover_all: the files of shards and segments under the three
\* directories, and the ones there that are neither; cleanup_orphaned_files.
Discovered(d) == DOMAIN d \cap {"vectors", "postings", "log"}
UnderDirectories == {"vectors", "postings", "log", "vectors.tmp", "postings.tmp"}
Orphans(d) == (DOMAIN d \cap UnderDirectories) \ Discovered(d)
Cleanup ==
  /\ Idle /\ Orphans(disk) # {} /\ disk' = Without(disk, Orphans(disk))
  /\ UNCHANGED <<todo, op, held, proc, bounds, ghosts>>
-----------------------------------------------------------------------------
(***************************************************************************)
(* CrashRecovery::recover, on an index that no engine has open.            *)
(***************************************************************************)
Lock == IF "root" \in DOMAIN disk THEN <<Write("lock", "held")>> ELSE <<>>

Recover ==
  /\ ~proc.open
  /\ Begin("recover", Lock \o Mkdirs)
  /\ UNCHANGED <<disk, held, proc, bounds, ghosts>>

RecoverIndex ==
  /\ op = "recover" /\ todo = <<>> /\ op' = "recovery"
  /\ held' = (IndexOpens(disk) /\ Listed(disk))
  /\ IF IndexOpens(disk) THEN todo' = <<>> /\ UNCHANGED recreated
     ELSE todo' = CreateIndex /\ recreated' = (recreated \/ ~Sound(disk, "shardex.meta"))
  /\ UNCHANGED <<disk, proc, bounds, created, stored, diverted, unlocked, updated>>

RecoverReplay ==
  /\ op = "recovery" /\ todo = <<>> /\ op' = "recoverReplay"
  /\ todo' \in Replay(disk, held) /\ held' = (held \/ todo' # <<>>)
  /\ UNCHANGED <<disk, proc, bounds, ghosts>>

\* A replay that fails before its first transaction is an error; one that fails
\* later is taken as it is.
ReplayedSome(d) == "log" \in DOMAIN d => d["log"] # "first bad"

\* validate_consistency: slots that were removed or replaced, whether by the
\* engine or by this replay, may make it take a listed shard for damaged.
Doubted == held

\* ShardexIndex::validate_metadata
MetadataValid(d) == Has(d, {"root", "shardex.meta"}) /\ Sound(d, "shardex.meta")

RecoverUnlock ==
  /\ op = "recoverReplay" /\ todo = <<>> /\ ReplayedSome(disk) /\ MetadataValid(disk)
  /\ op' = "recovered" /\ todo' = <<Remove("lock")>>
  /\ UNCHANGED <<disk, held, proc, bounds, ghosts>>

\* The lock stays.
RecoverFails ==
  /\ op = "recoverReplay" /\ todo = <<>>
  /\ ~ReplayedSome(disk) \/ Doubted \/ ~MetadataValid(disk)
  /\ Return
  /\ UNCHANGED <<disk, todo, proc, bounds, ghosts>>

RecoverReturns ==
  /\ op = "recovered" /\ todo = <<>> /\ Return
  /\ UNCHANGED <<disk, todo, proc, bounds, ghosts>>
-----------------------------------------------------------------------------
Next ==
  \/ FileStep \/ FileEmptied \/ FileFails \/ Kill
  \/ \E c \in Config : Create(c) \/ UpdateConfig(c)
  \/ CreateFiles \/ CreateSettles \/ CreateReturns
  \/ Open \/ OpenSync \/ OpenReturns \/ ReplayFails \/ TempIndexFails \/ OpenFails
  \/ StoreText \/ AddPostings \/ AddShard \/ Shutdown \/ UpdateReturns \/ RestoreConfig \/ RestoreReturns
  \/ AttemptRecovery \/ AttemptReturns \/ Cleanup
  \/ Recover \/ RecoverIndex \/ RecoverReplay \/ RecoverUnlock \/ RecoverFails \/ RecoverReturns

Spec == Init /\ [][Next]_vars
-----------------------------------------------------------------------------
\* From the return of create on, whatever is killed or fails, the settings can
\* be loaded from shardex.config or from its backup: update_config loads the
\* file before it makes it the backup, restore loads the backup before it
\* copies it.
ConfigRecoverable == created => Sound(disk, "config") \/ Sound(disk, "config.bak")

\* What open refuses of an index that was created, detect_crash reports, unless
\* the settings need their backup or a recovery went on without its lock: no
\* kill leaves half a shard, text storage or log that only open stumbles on.
RefusedIsDetected ==
  created /\ ~proc.open /\ Idle
    => \/ Readable(disk) /\ IndexOpens(disk) /\ LogReadable(disk)
       \/ Detects(disk) \/ ~Sound(disk, "config") \/ unlocked

\* The text storage has every text that was stored in the index, through kills,
\* failures, openings and recoveries, except that a recovery that finds
\* shardex.meta torn creates the index, and with it the text files, anew.
TextsSurvive ==
  created => recreated \/ (Sound(disk, "texts") /\ disk["texts"] = stored - diverted)

\* The settings an engine works with are those update_config was last given,
\* also after the index is opened again.  open loads shardex.config, validates
\* it and goes on with the settings in layout.meta.
UpdateLasts == InEngine /\ updated # NoConfig => proc.config = updated
=============================================================================
