# Verification of bdbackup

TLA+ models of the parts of bdbackup that can lose a backup or deliver a wrong
one: the GFS rotation (`src/bdbackup/gfs/`) and the paths it copies to, the
engines that write while it runs, what the file engine selects, the records and
the ledger in the history database, and restores. TLC checks the models on small
instances; TLAPS proves theorems about them for every instance.

## The system

bdbackup is a command line program. Cron starts one process per job. Processes
share file systems and one SQLite database, and nothing else.

| Component | State | Operations | Interacts through |
|---|---|---|---|
| GFS run (`gfs/runner.py`, `gfs/actions.py`) | the units it loaded, the unit in hand, temporary copies, the report | load, judge, sweep (defer, refuse, complete an interrupted move), decide, move, delete, finish, copy the ledger | ledger rows, root locks, stage paths |
| GFS policy (`gfs/policy.py`) | none | `decide` from days and stages | called by the run |
| Stage configuration (`gfs/stages.py`) | stages: paths, period, age | parse, order rules, `Keep.floor` | read by the run and the policy |
| Ledger store (`gfs/store.py`) | `gfs_units`, `gfs_locations`, `gfs_members`, `gfs_runs`, `gfs_steps` | one transaction per record function | history database |
| History (`history.py`, `ledger.py`) | `backup_runs`, the schema | row before and after a backup, checksums, migration | history database |
| xtrabackup engine (`mysql/xtrabackup.py`) | date directories, chains, `.full_success`, the root lock | full, incremental, prepare, prune | first stage, root lock |
| File engine (`filebackup.py`, `templates/`) | stamped archives, the walk, the staged archive | select, add, verify, publish | first stage, its destination's lock |
| mysqldump engine | stamped archives | stage, verify, publish | first stage |
| Restore (`recovery.py`) | none | choose a copy, verify, prepare | ledger, root locks |
| Process lock (`utils.py`) | `flock` per file | take without waiting, release | all of the above |
| Structure, validation (`gfs/structure.py`, `validation.py`) | directories and markers of the later stage paths | `--initialize-structure`, `--validate` | stage paths |
| Configuration, MySQL helpers, CLI | none kept | read and report | - |

Hard behaviours: a run reads the ledger once and acts on it for hours; it copies
without a lock; engines, restores and the run take the same root locks and never
wait; a run may be cut off between any two file-system calls and transactions;
disks go away or rot; the documentation asks the operator to edit the ledger.
File systems come and go under the stage paths while these are prepared,
validated and written. Any process may create or migrate the database while others read it.
Files change while they are archived.
The policy decides from what earlier runs left, over weeks that span months and
months of different length. `PROJECT.json` lists these hazards line by line.

What makes each component correct:

- run: a backup the ledger can restore is never taken except by its own
  deletion; nothing is removed that was not loaded and verified; engines and
  restores are left alone; the ledger names whole stages; the report is true;
- policy: what survives a long history is what the documentation promises;
- ages: the order of stages holds on every day;
- engine: what is committed restores, the next incremental finds a full to
  continue, and a restore reads one chain while others work in the root;
- history: the identity and the checksum of an available record agree;
- database: every schema step is applied once, and a reader is told the same
  before, during and after a migration;
- ledger copies: the run's row, its exit code and the copies at the paths agree;
- file engine: an archive has exactly what is selected, and no torn file;
- restore: what it delivers is what was recorded, and it fails for a reason.

## Modules

| Module | What it models |
|---|---|
| `BackupStore` | copies on disk, the tables, the root locks, and the questions everyone asks of them |
| `BackupJob` | one backup attempt: `History.run` around an engine |
| `GFSRun` | one applying run, a step per file-system call and transaction |
| `Rotation` | jobs, runs, faults, damage, mounts, restores and the operator together; the properties |
| `Custody` | what the rotation promises, with no copies, locks or transactions: `Rotation` implements it |
| `RotationInv` | the inductive invariant of `Rotation` |
| `RotationProofs` | proofs: types, root locks, the invariant of a run, and what it promises |
| `CustodyProofs` | proofs: `Rotation` implements `Custody`; what holds while nothing outside goes wrong |
| `Chain` | the root of one xtrabackup job: chains, marks, pruning, prepare |
| `ChainProofs` | proofs about `Chain` |
| `HistoryLog` | the records of one file job, its archives, checksums, unmanaged restores |
| `HistoryProofs` | proofs about `HistoryLog` |
| `LedgerFile` | the history database as a file: creation, schema steps, transactions, reading |
| `Destinations`, `DestinationProofs` | the later stage paths, the run's row and its copies of the ledger; proofs, about `LedgerFile` as well |
| `FileBackup`, `FileProofs` | one run of the file engine over a changing tree; proofs |
| `ManagedRestore`, `RestoreProofs` | one restore of a managed backup while `Rotation` goes on; proofs |
| `Calendar` | days, weeks, months, and the ages of `Keep` |
| `Ages` | the ages day after day |
| `GFSPolicy` | `policy.decide` |
| `Retention` | years of backups and runs under `GFSPolicy` |
| `RetentionProofs` | proofs about `Calendar`, `Ages`, `GFSPolicy` and `Retention` |
| `MCRotation`, `MCRetention`, `MCAges`, `MCChain`, `MCHistoryLog`, `MCManagedRestore`, `MCDestinations`, `MCFileBackup` | instances for TLC |

`Rotation` extends `GFSRun` and `BackupJob`, which extend `BackupStore`.
`ManagedRestore` extends `Rotation`. `Retention` extends `GFSPolicy`, which
extends `Calendar`, as does `Ages`. `Destinations` extends `LedgerFile`: the run
is one of its writers. `Chain`, `HistoryLog` and `FileBackup` stand alone: they
open up what `Rotation` sees of an engine (a directory that is sealed or not, an
archive that is there or not) and of a record (a copy that is sound or not), as
`Destinations` opens up the last step of a run.

### Rotation: state and actions

A unit is a positive number; the order of the numbers is the order of (day,
path). A copy is a record: the backups it holds, pending `*.tmp` directories, the
`.full_success` marker, and whether its bytes are those recorded. A checksum
comparison (`actions.verify`) is `Verifies`: exactly the loaded members, nothing
pending, sound. `disk[p][u]` is what lies at a unit's place under a stage path;
`locs[u]` is what `gfs_locations` says. A unit without a row lies where its
engine wrote it (`Listed`).

`pc` and `cur` say where the run is. The values of `pc` follow the functions:
`judge`, `busy`, `sweep` (`_run`), `keep`, `trim` (`complete_interrupted`), `act`,
`copy`, `commit`, `clear` (`move`), `condemn`, `delete` (`delete`), `snapshot`.
Each loop over paths visits them in any order. `decide` is open in `GFSRun`
except for two facts that `GFSPolicy` has: the newest placed unit of a series
stays, and units move to later stages only. `ActFail` is the `except Exception`
of `act`; `RunStop` is a killed process or an exception nothing catches. An
interrupted removal leaves all, damaged remains, or nothing (`Torn`).

The first stage may be away when a run begins: a record is then not available, and
judged unmanaged for good (`RunBegin`, `Available`).

`Rotation` implements `Custody`: `KeepsCustody` maps the stages of units, the
unit being deleted and the backups that have a good listed copy, and asks that
every step of the run, the engines, restores, faults, damage and edits be one of its
actions or none. In `Custody` a managed backup stops being safe only by damage,
by an edit of its own unit, or while its unit is being deleted, which takes a
newer unit of the series and all of its own backups safe.

A backup attempt goes `begun`, `writing`, `published`, `stored`, `done`, or is
`dead` when its process was killed. An xtrabackup attempt holds the root lock of
the first stage from `writing` to `published`; its final row comes later.

Mutants (operators whose comment begins with "Mutant of") are kept next to the
operator they stand in for; each property is broken by one of them.

### Policy: state and actions

Days are `date.toordinal` numbers and `MonthStart` is the Gregorian calendar, so
weeks, months and clamped ages are the real ones. `Retention` lets backups and
runs happen on any of the days of `Clock`; a run is one step. `PartialRun`
leaves one unit out, either before the policy (refused or deferred in the sweep)
or after it (its action refused, deferred or failed).

### Chain: state and actions

`entry[i]` is the directory an attempt made: under its `.tmp` name, committed, or
left over from a removal, with the base, parent, LSN range and key of its
`bdbackup.json`. `latest`, `marked` and `torn` are `Full_Latest`, `.full_success`
and interrupted removals of each dated directory. An attempt goes `full` or
`incremental`, `published`, then for a full `linked`, `marked`, `pruning`, and
`Release`; `Stop` is an exception or a kill at any of these points. `Tip`,
`Committed`, `CanContinue`, `Sources` and `CanPrepare` are what `_parent`,
`_chain`, `_create` and `prepare` read back from the root. A removal that is cut
off (`Tear`) may have taken any of the directories, the link and the mark.
`Midnight` may come at any moment, `Tamper` changes the key setting or prepares
an original in place.

### HistoryLog: state and actions

An artifact is named by the attempt that wrote it, which stands for its identity
(inode, size, time) and for its checksum. `at[n]` is the artifact under a name.
`History.run` publishes under the lock of the destination (`CloseArchive`,
`Unlock`) and only then reads the identity (`Identify`), the bytes (`Hash`) and
writes the row. Clerks are `history --create-checksum` processes: they read the
rows once, and check, hash and write each. A restore looks at the record, opens
the archive, and looks again (`StillAvailable`).

### LedgerFile: state and actions

A schema is the number of its last step; `has` are the steps whose tables and
columns are there. A writer opens the file (creating it), begins, reads the version
inside the transaction, executes the steps it lacks one at a time, and commits with
its own statements; it may be killed, or give up waiting, anywhere (`Rollback`,
`TimedOut`). `Migrate` meeting what is already there would be `broken`. A reader
asks which tables there are before it reads units, and again before it reads
judgments: `Verdict` is what `_read` and `places` make of both, with the backfill
of step 5 standing for judgments that are not there yet.

### Destinations: state and actions

`place[<<p, side>>]` is what is at path `p`: on its file system, or in the bare
directory below when that is away (`mounted`). `PrepareDirectory` and
`PrepareMarker` are `_prepare` and `_write_marker`, `ValidatePath` is `_gfs`; all
of them, mounts and permissions interleave with the run. `ready` are the
paths found or made ready since anything else touched them.

A run goes `opening`, `acting`, `finish` (its row is written), `local` (the local
snapshot), then for each path `check`, `copy`, `replace`, and `again` when a path
was not served; `except` is `fail_run`. `exits` tells how each process ended:
with a code, killed, or with an error it could not record. `copy` is the list
of `gfs_runs` rows of the ledger copy at a path.

### FileBackup: state and actions

A tree is a set of entries (directory, name, node). The walk keeps the paths still
to visit in `todo`, and for each the directories above it: `Visit` takes one
(`_walk.visit`), yields it, and after it was added `Descend` puts its children in
front. A yielded path is looked at (`Before`), read (`AddBegin`, `AddEnd`) and
looked at again (`After`). `Outside` writes, makes and removes files in between.
A version stands for content, size, time and inode, which change together. Rules
are patterns of names with the flags of `_Rule`, a root being called `.` (`Dot`) from
itself; `RulesExclude` is the matcher, `HardExcluded` the plain exclusions
and the run's own files; an `exclude_pattern` stands as the set of names it matches, though
the code tries it on the whole path too.

### ManagedRestore: state and actions

One restore of the backup `Wanted`, which takes `Sources`: itself and, for an
incremental, the full and the incrementals between. `store.places` reads `gfs_locations`,
`gfs_units` and `gfs_members` in this order with no transaction around them, so
each is a step. Places are then tried in any order: the code takes them
in the order of their rows, and what is shown needs no order. A place is used if it is
`Verified`: every source is one of the `members` that were read, that is a successful
record GFS manages in this unit, and has the recorded bytes (`Whole`). So an incremental is refused at every
place, intact or not, when its full was killed after `.full_success` and has a failed row, or
was first seen while its stage was away and is unmanaged for good: `_verify` calls it
"not a recorded member". A chain is verified and copied under the root's lock, and a
busy root ends the restore; an archive is verified, extracted and looked at again under no
lock. `ContinuesChain` says which engine writes `Wanted`: one that continues a chain of
just these sources.
`quiet` remembers that nobody touched the unit since the restore began. Records
GFS does not manage go back to `idle`: `HistoryLog` has their restores.

## Runs

| Run | Question | Bounds |
|---|---|---|
| `Faults` | are the ledger whole, the report true and the last good copy safe wherever a run stops; is every step one of `Custody`; does a run end | 2 units, later stage of 2 paths, 2 faults, 1 damage, 2 edits, one path comes and goes, restores from the first |
| `Engines` | do engines, restores and the run keep apart, also when the first stage is away as a run begins; does `Inv` hold | 3 units, 2 more attempts, 1 later stage, 1 fault, restores from the first |
| `Stages` | are there strays, does a job lose everything | 3 units of 2 jobs, 3 stages, 1 fault, 1 damage, restores from the middle stage |
| `Ages` | are ages in order on every day | 23 ages, 25 Dec 2027 to 5 Apr 2029 |
| `Retain` | is the right set kept, also after a run that leaves a unit out | 7 units of 2 jobs, 19 days, 4 stages, 1 such run |
| `Chains` | does every chain restore, is there one to continue | 4 directory names, 3 days, 2 LSNs, retention of 2 days, 1 tamper |
| `Records` | do identity and checksum agree, is a restore right | 3 attempts, 1 of them old, 2 names, 2 clerks, 1 restore, with and without stamps |
| `RestoreChain` | is a restore of an incremental right while its unit moves and its full may have no record; does it fail for a reason | 3 attempts, none recorded at first, 2 units, later stage of 2 paths, 1 fault, 1 damage, the first path comes and goes |
| `RestoreArchive` | is a restore of an archive right while its unit moves | 2 backups, 2 units, later stage of 2 paths, 1 fault, 1 damage, 1 edit |
| `Copies` | is the schema brought forward once and read alike; do row, exit and copies agree; is a ready path served | missing, empty, old, current and newer databases, 1 other writer, 1 reader; 2 paths, 2 runs, 2 troubles, 2 changes |
| `Archive` | is what is archived what is selected, and whole; does the walk end | a tree of 3 directories with links up and across, 2 overlapping template paths, 9 lists of rules, 2 changes |
| `ReadsApart` | a statement of the code's own documentation it does not keep | as `RestoreArchive` with a full, without faults |

Why these bounds are enough: a run handles one unit at a time and units of
different series share nothing but the policy, so two or three units of a series
give an old unit, the one an engine continues and one that appears meanwhile. A
stage of two paths gives partial renames and partial removals; more paths repeat
them. One fault, then an edit or damage, then another run is the longest chain
of causes a property needs: a stray left by a crash, listed by hand, rotted, and
trusted by the next run. For the policy, the dates are those around a week that
spans a month (28 September to 4 October 2026) and one that spans a year (28
December 2026 to 3 January 2027). A root of four names has a full with two
incrementals and a second full, or two pairs, and three days are one more than
the retention, so a directory expires while another chain is continued. Two
attempts and one old record are the one that is replaced, the one that replaces
it and the one a clerk completes; two clerks race for one record.

`Copies` has an action constraint: other processes open the ledger until the
run's first row is in it, and the paths and the rest of the run are looked at
while none has it open. The two halves share only the file: after `begin_run` it
has the last schema, so nothing migrates any more, and no process but the run
touches the paths' rows or copies. Two paths are one before and one after
a failure, two runs one that leaves something and one that finds it. The
theorems of `DestinationProofs` are about the specification without the
constraint. In `Archive` a link leads back up, another to where the
second template path already was, the excluded directory has a file of a name
the rules speak of, and two changes are a file that is changed and changed
back, or removed under the walk.

`Ages`, `Retain`, `Chains`, `Records`, `Copies` and `Archive` stop when their days,
backups, attempts, runs or paths are used up, so they do not check deadlock; `Rotation` and
`ManagedRestore` always have a next step. Attempts that begin alike are
symmetric in `Engines`, `Chains` and `Records`, none of which checks liveness.

Fairness: `WF_vars(pc # "idle" /\ Run)`. A run is one sequential process, every
lock it asks for is refused at once (`LOCK_NB`) and every loop is over a finite
set, so a process that is not killed always takes its next step. Nothing is
assumed of engines, restores or the operator, and nothing makes a run start.

## Findings

- `ReadsApart`: `store.places` reads the locations before the units. When a run
  records the unit in between, the restore sees a managed unit with no location,
  which means deleted, and is refused. Run again, it succeeds.
`README_GFS.md` ("Known limits") says itself that a chain whose checkpoints are
damaged ends a restore before the next place is tried; `GivesUpForAReason` allows
for it, and for a chain one source of which is no managed record, which no place can
satisfy. A root an engine, a run or another restore holds ends it as well, and is no
failure of this kind (`busy`). Eight sentences are broader than the code and have no run:

- when the old copy cannot be removed after `record_move`, the unit is reported
  failed and counted in the stage it has left (`README_GFS.md`, "where the units are
  when the run ends"); `ReportIsTrue` is what does hold: true for every other unit;
- `prune` takes its cutoff from the clock when a full has ended, and the full lies
  in the directory of the day it began, so one that crosses UTC midnight may
  remove the previous chain although `retention_days` is longer than the
  interval between the two (`README_XTRABACKUP.md`, "Engine pruning");
- a backup begun after a run read the running rows does not hold its job's units
  where they are (`README_GFS.md`, "Running backups"); `EngineLeftAlone` and
  `OnlyVerifiedRemoved` show that what the rule is for holds;
- a unit refused in one run is invisible to the policy, and another of its week
  may be chosen and later deleted, or one chosen earlier be deleted for it ("so a
  choice never changes later"); `ChoiceNeverChanges` holds while runs leave
  nothing out, and `WeekKeepsOne` always;
- an rmtree of an expired chain that is cut off leaves part of a backup under a
  committed name (`README_XTRABACKUP.md`, "a partial backup can never be mistaken");
  `Restorable` excludes such days, `ReadsAChain` does not;
- without `timestamp`, two overlapping runs may both identify the later archive
  (`README_FILE.md`, "only the newest run stays restorable"); `ChecksumMatches`
  and `DeliversRecorded` hold all the same;
- an anchored pattern that matches `.`, such as `/.*`, matches the root, which is
  called `.` from itself, and so excludes everything (`_matching.py:10`, "anchored
  to the root"); `Relative` has the name;
- below a template path outside `chdir` the matcher sees no directory above a path,
  so where some rule negates, what lies in an excluded directory is archived
  (`_matching.py:13`, "Directory rules apply to descendants"); `SelectedIsArchived`
  is for paths in `chdir` (`TopsInside`).

## Proofs

`RotationProofs` first proves `TypeCorrect == Spec => []TypeOK` from the assumptions of
`BackupStore` and `Rotation` alone. The invariant is `TypeInv`: the types, and
that a unit in hand is a unit (`CurInTodo`), without which the steps that write
`locs[cur]` or `where[cur]` would leave their type. There is one lemma per group of
actions.

It also proves `RestoreIsUndisturbed == Spec => RecoverySourceStays`
for any number of jobs, units and paths. `LockInv` says which roots a run holds:
while it trims, clears or deletes, the root of every path still to visit; while it
renames, also of every path `record_move` will list, because the removals after
it visit those that were listed before. `RunDisk` shows that a run changes the
disk only there. Without the part on `commit` the step into `clear` would not keep
the invariant.

It then proves the first half of `Inv` (`RunInv`), and with it the safety
properties of the runs `Faults` and `Engines`. The argument has three layers.

- *The store* (`BaseInv`), which says nothing of a run. In an xtrabackup series
  a sealed directory of the first stage loses its seal only when a newer one of the series
  is sealed (`SealsStay`), so the engine always finds one to continue
  (`BaseIsKept`). `StoredHasBase` is the same for a backup not recorded yet:
  without it the row that turns it into a success would break `BaseStays`.
  `AwayIsOld` is what lets an operator's edit or an old leftover be harmless.
- *A run and the others* (`PassInv`, `JobsApart`). A run never looks again at
  what it loaded, so the invariant must say why this stays true: every backup in
  GFS's charge in a unit it visits was loaded (`ChargeIsSeen`), units are visited in
  order, so the newer one `decide` counted on is still there when the older one is
  taken (`PassInOrder`, `Superseding`), and an engine that started after the run
  read the running rows writes at or after everything it loaded
  (`LateJobsElsewhere`). The last gives `EngineIsLeftAlone`: copying holds no
  lock, and it is the order of directories that keeps the two apart.
- *The unit in hand* (`WorkInv`): what is removed by `trim`, `clear` or
  `delete` was verified, or is covered by copies that were, and is locked since.
  `RemovesOnlySeen` and `BackupsAreKept` follow step by step. Other processes keep `WorkInv`
  because of `EngineLeftAlone`, damage and edits because they wait while it is on
  (see "Environment assumptions").

`ReportHolds` and `DeletedUnlisted` give `ReportIsRight`; `UnitsAreComplete` needs only
that a move lists the paths of one stage and an edit is counted.

`CustodyProofs` proves that `Rotation` implements `Custody` (`CustodyIsKept`). The
map is `Charge` (what GFS manages), `Safe` (what of it a listed copy can
restore), `StageMap` and `Condemned` (the unit being deleted). `InitMaps` and
`StepMaps` show that the initial state maps to one and that each step maps to a step of
`Custody` or to none. That a unit has a stage at all needs `StagesEnd`: a
configuration lists finitely many stages, so a set of paths has a latest one
(`LatestExists`).

It then proves the second half of `Inv` (`CalmInv`), each part of which has the faults
or the damage it excludes as its premise. `NewestKept` is the reason for
`LastBackupIsKept`: as long as no copy rots, for everything in GFS's charge it
or a newer backup of its job is restorable. A removal keeps that since
`Superseding` names a newer unit with a loaded backup, and the newest of the
charge cannot be in a unit that is being deleted. This needs that what a run is
about to judge managed is still there (`LoadedIsThere`), and hence that engines
write only where they are listed (`WritesInPlace`) and that torn remains
are old (`TornIsOld`). `TidyInv` says place by place what may lie there without
being listed, and gives `NothingStrays`. `InvHolds` puts the halves together: all
that the run `Engines` checks as `Inv` is proved.

`ChainProofs` proves `RestoreIsAlone` (`SourcesStay`) and `OneAtATime` from
`RootInv`: whoever is at work in a root holds its lock, and a restore that reads
holds it too. `FullIsAlwaysFound` (`FullIsFound`) adds `FoundInv`: every marked day has
its full but for those whose removal was cut off, and behind each of these, as
behind each one a prune has still to remove, there is a newer marked day that no
prune is after. The second half is what a kill inside `rmtree` relies on: it may leave a
marker over nothing, but never the newest one. It needs no bound on how long a full
takes, nor that the clock agrees with the directory's date.

`EveryBackupIsRestorable` (`Restorable`) adds `ChainInv`: outside what a removal
left, the committed directories of a full are its `Links`, a numbering without
repeats in which each one's parent is the one before, its LSN range begins where
that one's ends, and the key is the full's; and an incremental that is being
dumped has the last of them as its parent, with nothing else that continues
it. The second half is what the lock of the root is for: two engines could
both continue one last backup, and `_chain` would refuse both for good. A chain
has no more links than there are names (`ChainFits`), so `Walk`, which the model
bounds by their number, reaches all of it (`WalkFollows`), and the directories
`prepare` copies are those of the numbering. `RestoresReadAChain` (`ReadsAChain`)
needs less and says more of damaged roots: what `_chain` accepted is a chain
whoever wrote it (`SourcesAreAChain`), and no step but an operator's moves a directory
while it is read (`RestoreIsAlone`).

`DestinationProofs` first proves what `Copies` checks of the database, from `LedgerInv`
(`LedgerHolds`). Whoever is inside holds the lock, and its draft has exactly the
steps below the one it is at (`WriterInv`), from which `StepsAppliedOnce` follows.
The draft also gives the same verdict on every record as the file: a migration
changes how a judgment is stored, not what it is, so a reader that took the
units before it and the judgments after it still has what the ledger says
(`AnswersStay`).

It then proves the rest of `Copies`, for any number of paths and runs.
`LedgerIsKept` shows that `Destinations` implements `LedgerFile`, so the two theorems
above hold in it. `RowInv` says that a run's row is right as long as every path so
far was served, and that a failure is known to the run otherwise: without it the
last `Done` could exit with a code the row does not have (`RowsTellExits`).
`PlaceInv` says that a marker lies in a directory, that a path in hand is marked
while it is copied to, and which places may hold a temporary copy
(`TempsAreFromKills`, `ReadyOnesAreServed`). `CopyInv` then adds that every path a run
has served shows its row: a copy is of the rows as the local snapshot has them, which
are those of the ledger, and later copies show them as well (`CopiesAreShown`).

`FileProofs` proves `FilesAreWhole`: versions only grow, so one seen before and found
again after is the one that was read in between (`AddInv`). `WalkIsShallow`
(`WalkStaysShallow`) follows from `DepthInv`: a path of the walk is as much longer than
the template's as there are directories above it, each of them once, since
`Cycle` is looked at before the children are added.

`ArchiveIsSelection` (`SelectedIsArchived`) compares the walk with a choice that does
not depend on its order: level by level, what one comes to through a set of entries
(`Levels`). `SoundInv`, one half, is about every set that holds the entries of now and
those that came or went: an item of the walk is in the level of as many directories
as lie above it, and no deeper than there are levels by `DepthInv`. `FullInv`, the
other, is about the entries that never changed: there is a set of places, the
template's among them, where each is still to be visited or settled: archived if it
is wanted, and what lies in it in the set, unless no rule can bring any of that back. At
the end nothing is to be visited, so every level is in that set or lies in a
directory cut short, and a rule that excluded that directory excludes what
lies in it (`DoomGoesDown`). The children of a directory are all visited because an
order by name leaves out none (`SortedCovers`).

`RestoreProofs` proves `RestoreDelivers` (`DeliversRecorded`) and `RestoreGivesUp`
(`GivesUpForAReason`) by `RestoreInv`, on top of what `RotationProofs` and `CustodyProofs`
prove of the steps beside the restore. A chain is read under the lock of its root,
so what was verified there stays (`HandedInv`). An archive is read under none: when a run takes
it away, the unit has left the stage of that path, and a run puts nothing back into a
stage a unit has left (`Passed`). So the look after the extraction fails exactly
when something was removed under it. `QuietInv` says that while nobody touches the unit, what was
read of three tables is one state of it, and every place passed over was of no
use; or that a source is no member of the unit. For that the members read must be those
of now (`Known`): judgments are for good, a member of the unit when the tables were read
is one ever after (`MembersStay`), and a new one would have touched the unit.

`RetentionProofs` proves what `Ages` and `Retain` check, for every accepted
configuration, any number of units and jobs, and every day up to the last that
`datetime.date` has. It has four layers.

- *The calendar.* Every day lies in one month (`MonthFound`), any n months have at
  least 28n and at most 31n days (`MonthsApart`, `FloorNear`), and clamping keeps the
  order of days (`ClampedInOrder`). `AgesReachFurther` and `AgesNeverReturn` follow for
  every pair of ages: the loader's comparison of nominal lengths is enough, and
  the first stage whose age a unit is within never moves back (`LevelInOrder`).
- *The choice.* `_eligibility` asks for complete buckets at each level before it
  looks at the next. `EligibleIsTop` shows that in a complete bucket this is the
  same as the newest of the year among the newest of its months among the newest
  of its weeks (`Top`), which does not depend on the day: a complete year has
  complete months, a complete month complete weeks (`DoneWithin`).
- *Deciding from survivors.* The policy never sees what is gone. By `TopOfAll`
  what is left chooses as everything ever made would: a unit that is gone was
  past every age or beaten in a complete bucket (`Excused`). This is not inductive by
  itself. The newest of a week may be deleted, beaten in its month, while an
  older unit of that week waits for the end of its year; that older unit must not
  win the week next. `Stragglers` says that such an older unit is within the age of
  a yearly stage, or past all, and of the same year as the one that is gone: no
  bucket it could win is decided before it goes too.
- *Runs and days.* `RetInv` joins these with `SecondRunIdle` and says that what a
  stage took as its choice is its bucket's newest of all ever made
  (`PickedIsTop`). Days pass and units are made without disturbing complete
  buckets (`TopUnchanged`), and a run leaves no other stragglers
  (`RunLeavesStragglers`). `SecondRunIsIdle` (`NothingTwice`) and `AWeekKeepsOne` need
  none of it and hold whatever runs left out.

`HistoryProofs` proves everything `Records` checks. The argument is that an
artifact is published once (`SettledInv`), so one that was replaced never comes
back: whatever was read of a name while it held an artifact agrees with whatever
is read of it while it holds it again (`MatchInv`). That is why no lock is needed
between identity, checksum and row. `OwnInv` adds that a stamped name is never
taken over.

Model-checked only: liveness (`RunEnds`), since the provers have no rule for
ENABLED. Every other property of the passing runs is a theorem.

The library's induction theorems cannot be used here. Where a proof needs
induction (a walk along a chain, the newest unit of a bucket), it takes the least
of the numbers for which the claim fails (`LeastOf`).

## Environment assumptions

- Configuration as `check_gfs_config` accepts it: `retention_days = 0`,
  `timestamp = true`, one first path, stages that do not overlap.
- Ages reach back no further than `datetime.date.min`; the calendar of the model
  goes on below it, where the code would stop with an error.
- One gfs job, whose lock allows one run at a time.
- In `Rotation` file systems come and go between runs, not within one, the first
  stage's included; no engine starts while the first stage is away. In
  `Destinations` they come and go at any moment, except at the path a snapshot is
  being copied to, between the look at its marker and the rename.
- Links lead to directories of the tree, an entry has one name (no hard links), a name
  of a directory is always the same node's (a file replaced is a new version), and
  no two paths of a template have the same name in the archive.
- The paths of a template lie in `chdir`, where it is configured.
- The directory the next incremental would continue is not removed by hand, nor
  is one an engine is writing. It may rot.
- A date directory keeps the order of its date also by completion time.
- A copy under a temporary name is what was read: the target is not read back.
- An archive is removed, by the operator or a run, only while no backup is at work
  on it, and nobody prepares an original in place while its root is locked.
- An identity (inode, size, time) is never reused. Between its verification and its
  use a copy does not rot, and no operator removes or moves it or edits where its unit is listed.

## Not modelled

The TOML parser, the MySQL checks of `--validate`, the listing commands and the
integration scripts keep no state that the others use. Of templates, double
stars and globs of characters stand as the sets of names they match. Archive
formats and the extraction filter are `tarfile`'s. Reasons and log rows
(`gfs_steps`) are wording. Copies of a unit under a temporary name that a kill leaves are
not kept: nothing looks at them. What a deletion that failed halfway leaves is modelled
but no property speaks of it, since the unit was condemned; the same goes for the report
of a unit a run failed on. The dump and the physical backup themselves are
external programs.

## Plan

1. (done) `BackupStore`, `BackupJob`, `GFSRun`, `Rotation`, `RotationInv`,
   `RotationProofs`, `Custody`, `CustodyProofs`; `Calendar`, `Ages`,
   `GFSPolicy`, `Retention`, `RetentionProofs`; `Chain`, `ChainProofs`; `HistoryLog`, `HistoryProofs`;
   `ManagedRestore`, `RestoreProofs`; `LedgerFile`, `Destinations`, `DestinationProofs`;
   `FileBackup`, `FileProofs`.
2. In `Rotation`: the order of units by completion against the order of their
   directories, for a checksum that outlasts the next full.
