----------------------------- MODULE BackupStore -----------------------------
(* What bdbackup keeps between and under its processes: the copies on disk,  *)
(* the backup_runs / gfs_units / gfs_locations / gfs_members tables of the   *)
(* history database, and the flock of every xtrabackup root.                 *)
(*                                                                           *)
(* A UNIT is what GFS moves: one archive of a file or mysqldump job, or one  *)
(* date directory of an xtrabackup root (ledger.unit_path).  Units are       *)
(* numbered in the order of (day, path), the order policy.decide and         *)
(* XtraBackup._latest_full_date_dir both use.  A BACKUP is one backup_runs   *)
(* row.  A stage is a set of paths.                                          *)
EXTENDS Integers

CONSTANTS
    Units,        \* positive numbers, in (day, path) order
    Series,       \* backup jobs; a unit's series is its job name
    SeriesOf,     \* the series of each unit
    Chained,      \* series of xtrabackup jobs: chains in a date directory
    Backups,      \* backup attempts, one backup_runs row each
    JobOf,        \* the series each attempt is made by
    InitialUnit,  \* unit of a backup recorded before the first step, or 0
    Paths,        \* stage paths
    StageOf,      \* the index of the stage a path belongs to
    First,        \* the only path of stage 0, where backup jobs write
    Free, Gfs, Recovery  \* holders of a root lock that are not backups

ASSUME UnitsAreNumbers == Units \subseteq Nat \ {0}
ASSUME SeriesOfUnits == SeriesOf \in [Units -> Series] /\ Chained \subseteq Series
ASSUME JobsOfBackups == JobOf \in [Backups -> Series]
ASSUME InitialUnits ==
    /\ InitialUnit \in [Backups -> Units \cup {0}]
    /\ \A b \in Backups :
          InitialUnit[b] # 0 => SeriesOf[InitialUnit[b]] = JobOf[b]
    /\ \A b, c \in Backups :  \* an archive is one backup
          InitialUnit[b] # 0 /\ InitialUnit[b] = InitialUnit[c] /\ b # c
             => JobOf[b] \in Chained
\* stages._stage: exactly one path in the first stage.
ASSUME FirstStageHasOnePath ==
    /\ First \in Paths
    /\ StageOf \in [Paths -> Nat]
    /\ \A p \in Paths : StageOf[p] = 0 <=> p = First
\* stages.parse_gfs_job: a configuration lists finitely many stages.
ASSUME StagesEnd ==
    \E last \in Paths : \A p \in Paths : StageOf[p] <= StageOf[last]
ASSUME HoldersAreApart ==
    /\ Free \notin Backups /\ Gfs \notin Backups /\ Recovery \notin Backups
    /\ Free # Gfs /\ Free # Recovery /\ Gfs # Recovery

VARIABLES
    disk,     \* what lies at each unit's place under each stage path
    mounted,  \* stage paths whose file system is there
    status,   \* backup_runs.status
    unitOf,   \* the unit a backup writes into, 0 until its engine chose it
    judged,   \* gfs_members.managed
    row,      \* gfs_units
    locs,     \* gfs_locations: the stage paths a recorded unit is listed at
    lock      \* <path>/<root>/.bdbackup.lock of each xtrabackup root

ledgerVars == <<status, unitOf, judged, row, locs>>
storeVars == <<disk, mounted, ledgerVars, lock>>

\* A copy: the backups it holds, pending *.tmp directories in it, the
\* .full_success marker, and whether its bytes are those that were written.
Copies == [held : SUBSET Backups, tmp : SUBSET Backups,
           sealed : BOOLEAN, sound : BOOLEAN]

Nothing == [held |-> {}, tmp |-> {}, sealed |-> FALSE, sound |-> TRUE]

Copy(held, tmp, sealed, sound) ==
    [held |-> held, tmp |-> tmp, sealed |-> sealed, sound |-> sound]

Rotten(copy) == Copy(copy.held, copy.tmp, copy.sealed, FALSE)

\* Something else lies at a unit's place.
Put(p, u, copy) == disk' = [disk EXCEPT ![p][u] = copy]

Holders == Backups \cup {Free, Gfs, Recovery}

StoreTypeOK ==
    /\ disk \in [Paths -> [Units -> Copies]]
    /\ mounted \subseteq Paths
    /\ status \in [Backups -> {"unused", "running", "success", "failed"}]
    /\ unitOf \in [Backups -> Units \cup {0}]
    /\ judged \in [Backups -> {"no", "managed", "unmanaged"}]
    /\ row \in [Units -> {"none", "managed", "deleted"}]
    /\ locs \in [Units -> SUBSET Paths]
    /\ lock \in [Paths -> [Series -> Holders]]

InitialBackups(u) == {b \in Backups : InitialUnit[b] = u}

StoreInit ==
    /\ disk = [p \in Paths |-> [u \in Units |->
                 IF p = First /\ InitialBackups(u) # {}
                 THEN Copy(InitialBackups(u), {}, TRUE, TRUE)
                 ELSE Nothing]]
    /\ mounted = Paths
    /\ status = [b \in Backups |->
                   IF InitialUnit[b] # 0 THEN "success" ELSE "unused"]
    /\ unitOf = InitialUnit
    /\ judged = [b \in Backups |-> "no"]
    /\ row = [u \in Units |-> "none"]
    /\ locs = [u \in Units |-> {}]
    /\ lock = [p \in Paths |-> [s \in Series |-> Free]]

\* The locations store.load gives a unit: a unit without a row is taken where
\* its engine wrote it.
Listed(u) == IF row[u] = "none" THEN {First} ELSE locs[u]

Stages == {StageOf[p] : p \in Paths}

PathsOf(stage) == {p \in Paths : StageOf[p] = stage}

\* One stage holds every listed location, the later of two after a hand edit.
InStage(u, stage) ==
    /\ \E p \in Listed(u) : StageOf[p] = stage
    /\ \A p \in Listed(u) : StageOf[p] <= stage

\* Successful records that share the unit's path and may be members of it.
Recorded(u) == {b \in Backups : status[b] = "success" /\ unitOf[b] = u}

Managed(b) == status[b] = "success" /\ judged[b] = "managed"

\* os.path.lexists of the unit's place under a path.
Exists(p, u) == p \in mounted /\ disk[p][u] # Nothing
\* Mutant of Verifies: entries that no record names go unnoticed.
VerifiesMembersOnly(p, u, members) ==
    /\ p \in mounted
    /\ members \subseteq disk[p][u].held
    /\ disk[p][u].tmp = {}
    /\ disk[p][u].sound

\* actions.check_contents and actions.verify against a set of members: every
\* member has the recorded bytes and nothing else lies in the unit.
Verifies(p, u, members) ==
    /\ p \in mounted
    /\ disk[p][u].held = members
    /\ disk[p][u].tmp = {}
    /\ disk[p][u].sound

\* The backup can be restored from the copy at a path: a later arrival in the
\* same directory does not harm it.
Intact(b, p) == disk[p][unitOf[b]].sound /\ b \in disk[p][unitOf[b]].held

\* Some copy the ledger names still has the backup.
Kept(b) == \E p \in Listed(unitOf[b]) : Intact(b, p)

\* utils.process_lock on the root of a series under each of some paths.  File
\* and mysqldump units need none (runner._engine_locks).
CanLock(paths, s) == s \in Chained => \A p \in paths : lock[p][s] = Free

Locked(paths, s, holder) ==
    [p \in Paths |-> [t \in Series |->
        IF p \in paths /\ t = s /\ s \in Chained THEN holder ELSE lock[p][t]]]

Unlocked(holder) ==
    [p \in Paths |-> [t \in Series |->
        IF lock[p][t] = holder THEN Free ELSE lock[p][t]]]

\* A directory tree is removed entry by entry: an interrupted removal leaves
\* all of it, damaged remains, or nothing.
Torn(copy) == {copy, Rotten(copy), Nothing}
=============================================================================
