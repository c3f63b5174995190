---------------------------- MODULE TextRecovery ----------------------------
(***************************************************************************)
(* The recovery and backup managers of the text storage                    *)
(* (src/src/error_handling.rs) over TextStore.  attempt_recovery picks a   *)
(* treatment by the kind of the error; for corruption it makes an          *)
(* emergency backup first.  The storage is behind a mutex that is taken    *)
(* anew for every call, so stores of others fall between its steps, but    *)
(* not into a rebuild.                                                     *)
(*                                                                         *)
(* A backup is a directory named by the second it was made in; it holds    *)
(* its own description and no copy of the files, and a restore copies      *)
(* nothing (both are placeholders in the code).                            *)
(***************************************************************************)
EXTENDS TextStore

CONSTANTS
  BackupFirst,   \* recovery_config.backup_before_recovery
  Conservative,  \* recovery_strategy is Conservative
  IssueShare,    \* more than 1/IssueShare bad entries are not repaired (10)
  MaxBackups,    \* retention_policy.max_backups
  MaxAge,        \* retention_policy.max_age
  Limit,         \* what the health monitor finds large: [entries, total, space, average, many, few]
  MaxTime        \* bound: the clock

ASSUME TextRecoveryAssumption ==
  /\ BackupFirst \in BOOLEAN /\ Conservative \in BOOLEAN
  /\ IssueShare \in Nat \ {0} /\ MaxBackups \in Nat /\ MaxAge \in Nat /\ MaxTime \in Nat
  /\ Limit \in [entries : Nat, total : Nat, space : Nat, average : Nat, many : Nat, few : Nat]

VARIABLES
  step,     \* where attempt_recovery is, or what it answers
  kind,     \* the error it was given
  began,    \* when it began
  total,    \* entries it found when it began to validate them
  backups,  \* the seconds there is a backup of
  now       \* the clock

manager == <<step, kind, began, total>>
vars == <<storeVars, manager, backups, now>>

Corruption == {"index", "data", "entries", "unknown"}
Other      == {"io", "range", "tooLarge", "none"}

RecoveryInit ==
  /\ Init
  /\ step = "none" /\ kind = "none" /\ began = 0 /\ total = 0
  /\ backups = {} /\ now = 0

Answers == {"successful", "manual", "not recoverable"}
Answer(r) == step' = r /\ kind' = "none" /\ began' = 0 /\ total' = 0
Continue(s) == step' = s /\ UNCHANGED <<kind, began>>
-----------------------------------------------------------------------------
\* apply_retention_policy: the newest max_backups, none older than max_age.
OldestRetained(bs) == {b \in bs : Cardinality({c \in bs : c < b}) < MaxBackups}
Retained(bs) ==
  {b \in bs : Cardinality({c \in bs : c > b}) < MaxBackups /\ now - b <= MaxAge}

\* create_emergency_backup: two in the same second share a directory.
Backup == backups' = Retained(backups \cup {now})

Begin(k) ==
  /\ step = "none" /\ pc = "idle"
  /\ kind' = k /\ began' = now
  /\ step' = IF k \notin Corruption THEN "treat" ELSE IF BackupFirst THEN "backup" ELSE "analyse"
  /\ UNCHANGED <<storeVars, total, backups, now>>

Return ==
  /\ step \in Answers /\ step' = "none"
  /\ UNCHANGED <<storeVars, kind, began, total, backups, now>>

BackedUp ==
  /\ step = "backup" /\ Backup /\ Continue("analyse")
  /\ UNCHANGED <<storeVars, total, now>>

BackupFails ==
  /\ step = "backup"
  /\ IF Conservative THEN Answer("manual") ELSE Continue("analyse") /\ UNCHANGED total
  /\ UNCHANGED <<storeVars, backups, now>>

\* sync, the last step of several treatments, may fail.
Synced == \E r \in {"successful", "manual"} : Answer(r)

\* recover_index_file, after validate_file_sizes, which nothing here makes fail.
RecoverIndex ==
  /\ step = "analyse" /\ kind = "index" /\ pc = "idle"
  /\ StartRebuild /\ Continue("rebuild")
  /\ UNCHANGED <<total, backups, now>>

RebuildDone ==
  /\ step = "rebuild" /\ pc = "idle" /\ Answer("successful")
  /\ UNCHANGED <<storeVars, backups, now>>

\* recover_data_file: validates the cached headers and syncs.
RecoverData ==
  /\ step = "analyse" /\ kind = "data" /\ pc = "idle"
  /\ IF ValidHeaders THEN Synced ELSE Answer("manual")
  /\ UNCHANGED <<storeVars, backups, now>>

\* recover_entry_consistency: counts the entries, then looks at each.
CountEntries ==
  /\ step = "analyse" /\ kind = "entries" /\ pc = "idle"
  /\ total' = header.count /\ Continue("validate")
  /\ UNCHANGED <<storeVars, backups, now>>

\* get_entry_at_index and validate_entry_data_region.
Inconsistent(i) ==
  \/ i > header.count \/ i \notin DOMAIN slots
  \/ short /\ slots[i].off + 1 + slots[i].len > dataNext
Issues == Cardinality({i \in 1..total : Inconsistent(i)})

ValidateEntries ==
  /\ step = "validate" /\ pc = "idle"
  /\ IF Issues = 0 THEN Answer("successful") /\ UNCHANGED storeVars
     ELSE IF Issues < total \div IssueShare
     THEN StartRebuild /\ Continue("rebuild") /\ UNCHANGED total
     ELSE Answer("manual") /\ UNCHANGED storeVars
  /\ UNCHANGED <<backups, now>>

RecoverUnknown ==
  /\ step = "analyse" /\ kind = "unknown" /\ Answer("manual")
  /\ UNCHANGED <<storeVars, backups, now>>

\* recover_from_io_error validates and syncs; the other kinds change nothing.
Treat ==
  /\ step = "treat" /\ pc = "idle" /\ kind # "range"
  /\ CASE kind = "io"       -> Synced
       [] kind = "tooLarge" -> Answer("manual")
       [] kind = "none"     -> Answer("not recoverable")
  /\ UNCHANGED <<storeVars, backups, now>>

\* recover_from_data_inconsistency ends in verify_checksums, which reads the
\* headers back.
TreatRange ==
  /\ step = "treat" /\ pc = "idle" /\ kind = "range"
  /\ IF ValidHeaders THEN Synced /\ header' = disk
     ELSE Answer("manual") /\ UNCHANGED header
  /\ UNCHANGED <<files, maxSize, pc, job, at, ghosts, backups, now>>

\* restore_from_backup makes an emergency backup and restores no file.
Restore(b) ==
  /\ step = "none" /\ b \in backups /\ Backup
  /\ UNCHANGED <<storeVars, manager, now>>

Tick ==
  /\ now < MaxTime /\ now' = now + 1
  /\ UNCHANGED <<storeVars, manager, backups>>

\* TextStorageHealthMonitor::check_health.  The monitor shares the storage and so
\* nobody changes it: each verdict is about one state.
FileIntegrity ==
  /\ header.count <= Limit.entries /\ dataTotal <= Limit.total
  /\ dataNext > 0 => dataTotal <= dataNext
DiskSpace == dataTotal <= Limit.space
UnusualGrowth ==
  /\ header.count > 0
  /\ \/ dataTotal \div header.count > Limit.average
     \/ header.count > Limit.many /\ dataTotal < Limit.few

Health ==
  IF ~FileIntegrity THEN "corrupted"
  ELSE IF ~DiskSpace \/ UnusualGrowth THEN "warning" ELSE "healthy"

\* A kill ends the managers with the storage.
KillAll ==
  /\ Kill /\ step' = "none" /\ kind' = "none" /\ began' = 0 /\ total' = 0
  /\ UNCHANGED <<backups, now>>

RecoveryNext ==
  \/ StoreStep /\ UNCHANGED <<manager, backups, now>>
  \/ KillAll
  \/ \E k \in Corruption \cup Other : Begin(k)
  \/ Return \/ BackedUp \/ BackupFails
  \/ RecoverIndex \/ RebuildDone \/ RecoverData
  \/ CountEntries \/ ValidateEntries \/ RecoverUnknown \/ Treat \/ TreatRange
  \/ \E b \in backups : Restore(b)
  \/ Tick

RecoverySpec == RecoveryInit /\ [][RecoveryNext]_vars
-----------------------------------------------------------------------------
\* A conservative recovery never touches the index before a backup of this
\* attempt exists, and the retention policy, applied by the very same call,
\* does not remove that backup.
RebuildIsBackedUp ==
  BackupFirst /\ Conservative /\ step = "rebuild" => \E b \in backups : b >= began

\* Nothing that happens to the files makes the health monitor call them
\* corrupted but their size: through kills, truncations and rebuilds the texts
\* never count for more than the space they lie in.
CorruptedOnlyIfLarge ==
  Health = "corrupted" => header.count > Limit.entries \/ dataTotal > Limit.total

\* What the monitor and the readers see of the files is what stores put there.
FilesHold == ReadsItsOwn /\ CorruptedOnlyIfLarge

\* What the rebuild promises of the texts it finds: they remain accessible,
\* under the identifiers it gave them.
RebuiltIsAccessible ==
  step = "rebuild" /\ pc = "idle" =>
    \A off \in DOMAIN blocks :
      off < at /\ Valid(off) => GetText(RecoveredId(off)) = blocks[off].text
=============================================================================
