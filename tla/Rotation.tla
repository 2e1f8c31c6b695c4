------------------------------ MODULE Rotation ------------------------------
(* Backup jobs, the runs of one gfs job, restores that prepare from a stage,  *)
(* failing disks and the operator, over one store.  Config validation         *)
(* (stages.check_gfs_config) leaves GFS the only one that removes from the    *)
(* first stage: retention_days = 0 and timestamp = true are assumed.          *)
EXTENDS GFSRun, BackupJob

CONSTANTS
    MaxFaults,  \* bound: killed runs and failing calls of a run
    MaxDamage,  \* bound: copies that rot or vanish
    MaxEdits,   \* bound: edits by the operator
    Unmountable,\* stage paths that come and go
    Prepared    \* stage paths a restore may prepare from

ASSUME BoundsAreNumbers ==
    /\ MaxFaults \in Nat /\ MaxDamage \in Nat /\ MaxEdits \in Nat
    /\ Unmountable \subseteq Paths /\ Prepared \subseteq Paths

VARIABLES faults, damages, edits  \* how many so far

countVars == <<faults, damages, edits>>
vars == <<storeVars, phase, runVars, countVars>>

TypeOK ==
    /\ StoreTypeOK /\ JobTypeOK /\ RunTypeOK
    /\ faults \in Nat /\ damages \in Nat /\ edits \in Nat

Init ==
    /\ StoreInit /\ JobInit /\ RunInit
    /\ faults = 0 /\ damages = 0 /\ edits = 0

Jobs == JobNext /\ UNCHANGED <<runVars, countVars>>

Run == RunStep /\ UNCHANGED <<phase, countVars>>

Fault ==
    /\ faults < MaxFaults /\ faults' = faults + 1
    /\ RunFault
    /\ UNCHANGED <<phase, damages, edits>>

----------------------------------------------------------------------------
(* The environment.                                                           *)

\* A copy rots, or is removed behind the ledger's back.  Not the copies of the
\* unit a run is working on (a target is never read again), not a unit an
\* engine has not finished with, and not the directory the next incremental
\* would continue.
Damage(p, u) ==
    /\ damages < MaxDamage /\ damages' = damages + 1
    /\ u # cur /\ disk[p][u] # Nothing
    /\ \A b \in Backups : unitOf[b] = u =>
          phase[b] \notin {"writing", "published", "stored"}
    /\ \/ Put(p, u, Rotten(disk[p][u]))
       \/ /\ p = First => \E v \in Units :
                SeriesOf[v] = SeriesOf[u] /\ u < v /\ disk[First][v].sealed
          /\ Put(p, u, Nothing)
    /\ UNCHANGED <<mounted, ledgerVars, lock, phase, runVars, faults, edits>>

\* File systems come and go while nobody has a file open in them.
Remount ==
    /\ pc = "idle"
    /\ \E p \in Unmountable :
          /\ \A s \in Series : lock[p][s] = Free
          /\ p = First => \A b \in Backups :
                phase[b] \notin {"writing", "published", "stored"}
          /\ mounted' = IF p \in mounted THEN mounted \ {p} ELSE mounted \cup {p}
    /\ UNCHANGED <<disk, ledgerVars, lock, phase, runVars, countVars>>

\* recovery: XtraBackup.prepare copies a chain under the root's lock.
PrepareBegin(p, s) ==
    /\ s \in Chained /\ p \in mounted /\ lock[p][s] = Free
    /\ lock' = Locked({p}, s, Recovery)
    /\ UNCHANGED <<disk, mounted, ledgerVars, phase, runVars, countVars>>

PrepareEnd(p, s) ==
    /\ lock[p][s] = Recovery
    /\ lock' = Locked({p}, s, Free)
    /\ UNCHANGED <<disk, mounted, ledgerVars, phase, runVars, countVars>>

\* What the documentation tells the operator to do, between runs: drop a row
\* whose copy is gone, mark a unit deleted, remove a copy nothing lists; and
\* the hand edit of its example, a second listing of a copy that is there.
Edit ==
    /\ edits < MaxEdits /\ edits' = edits + 1 /\ pc = "idle"
    /\ \E p \in Paths, u \in Units :
          \/ /\ row[u] = "managed" /\ p \in locs[u] /\ disk[p][u] = Nothing
             /\ locs' = [locs EXCEPT ![u] = @ \ {p}]
             /\ UNCHANGED <<disk, row>>
          \/ /\ row[u] = "managed" /\ locs[u] = {}
             /\ row' = [row EXCEPT ![u] = "deleted"]
             /\ UNCHANGED <<disk, locs>>
          \/ /\ p \notin Listed(u) /\ disk[p][u] # Nothing
             /\ row[u] = "none" => p # First
             /\ Put(p, u, Nothing)
             /\ UNCHANGED <<row, locs>>
          \/ /\ row[u] = "managed" /\ p \notin locs[u] /\ disk[p][u] # Nothing
             /\ locs' = [locs EXCEPT ![u] = @ \cup {p}]
             /\ UNCHANGED <<disk, row>>
    /\ UNCHANGED <<mounted, status, unitOf, judged, lock, phase, runVars,
                   faults, damages>>

Environment ==
    \/ \E p \in Paths, u \in Units : Damage(p, u)
    \/ Remount
    \/ \E p \in Prepared, s \in Series : PrepareBegin(p, s) \/ PrepareEnd(p, s)
    \/ Edit

Next == Jobs \/ Run \/ Fault \/ Environment

Spec == Init /\ [][Next]_vars

\* A run is one sequential process that waits for nothing: every lock it asks
\* for is refused at once.  Nothing makes a run start.
Fairness == WF_vars(pc # "idle" /\ Run)

FairSpec == Spec /\ Fairness

----------------------------------------------------------------------------
(* Properties.                                                                *)

\* KeepsManagedBackups: whatever the run does, wherever it is cut off, a
\* backup the ledger can still restore stays restorable from a listed copy,
\* unless its unit is being deleted (runner.move, complete_interrupted).
KeepsManagedBackups ==
    [][(Run \/ Fault) =>
         \A b \in Backups :
            Managed(b) /\ Kept(b) /\ ~Kept(b)'
               => pc = "delete" /\ cur = unitOf[b]]_vars

\* OnlyVerifiedRemoved: no copy the run takes away holds a backup it did not
\* load and verify, such as one an engine added meanwhile (runner.move removes
\* without another look).
OnlyVerifiedRemoved ==
    [][(Run \/ Fault) =>
         \A p \in Paths, u \in Units :
            disk[p][u].held \ disk[p][u].held' \subseteq Seen(u)]_vars

\* EngineLeftAlone: the unit a run works on is never one an engine writes into
\* or has written into without a final row, though the copy holds no lock and
\* running rows were read long before (runner.running_backups, policy "newest
\* of series").
EngineLeftAlone ==
    pc \in Working =>
        \A b \in Backups :
            unitOf[b] = cur => phase[b] \notin {"writing", "published", "stored"}

\* BaseStays: while a series is in the ledger, the engine finds a full to
\* continue at or after every recorded unit (XtraBackup._latest_full).
BaseStays ==
    \A b \in Backups :
        status[b] = "success" /\ JobOf[b] \in Chained =>
            \E w \in Units : /\ SeriesOf[w] = JobOf[b]
                             /\ unitOf[b] <= w
                             /\ disk[First][w].sealed

\* StageComplete: without hand edits a recorded unit is listed at every path
\* of one stage, wherever a run was cut off (store.record_move).
StageComplete ==
    edits = 0 =>
        \A u \in Units : row[u] = "managed" =>
            \E stage \in Stages : locs[u] = PathsOf(stage)

\* NoStrays: without faults, the copies on disk are the listed ones between
\* runs, whatever was deferred or refused (runner.move, runner.delete).
NoStrays ==
    pc = "idle" /\ faults = 0 /\ damages = 0 /\ edits = 0 =>
        \A u \in Units : Recorded(u) # {} =>
            {p \in Paths : disk[p][u] # Nothing} = Listed(u)

\* LastBackupStays: while copies are not damaged, no run takes the last
\* restorable backup of a series (policy.decide "newest of series").
LastBackupStays ==
    [][(Run \/ Fault) /\ damages = 0 =>
         \A s \in Series :
            (\E b \in Backups : JobOf[b] = s /\ Managed(b) /\ Kept(b))
            => (\E b \in Backups : JobOf[b] = s /\ Managed(b) /\ Kept(b))']_vars

\* RecoverySourceStays: the run changes nothing in a root a restore is
\* preparing from (XtraBackup.prepare, runner._engine_locks).
RecoverySourceStays ==
    [][(Run \/ Fault) =>
         \A p \in Paths, u \in Units :
            lock[p][SeriesOf[u]] = Recovery => disk[p][u]' = disk[p][u]]_vars

\* ReportIsTrue: a unit the finished run did not fail on is where the report
\* counts it (runner.report, runner.where).
ReportIsTrue ==
    pc = "snapshot" =>
        \A u \in Units :
            outcome[u] # "failed" /\ where[u] # Unreported =>
                IF where[u] = Gone THEN row[u] = "deleted" ELSE InStage(u, where[u])

\* RunEnds: a run that started ends, whoever holds whatever lock.
RunEnds == pc # "idle" ~> pc = "idle"

----------------------------------------------------------------------------
(* What a run promises, without how: Custody.                                 *)

\* Where the ledger says a unit is: the latest stage of its locations.
LatestOf(paths) == CHOOSE i \in Stages : /\ \E p \in paths : StageOf[p] = i
                                       /\ \A p \in paths : StageOf[p] <= i

StageFor(kept, paths) ==
    IF kept = "none" THEN -1
    ELSE IF kept = "deleted" THEN -3
    ELSE IF paths = {} THEN -2
    ELSE LatestOf(paths)

StageNow(u) == StageFor(row[u], locs[u])

Promise == INSTANCE Custody WITH
    home <- unitOf,
    managed <- {b \in Backups : Managed(b)},
    safe <- {b \in Backups : Managed(b) /\ Kept(b)},
    stage <- [u \in Units |-> StageNow(u)],
    condemned <- IF pc = "delete" THEN {cur} ELSE {}

\* KeepsCustody: with every copy, lock, crash and transaction, the rotation
\* does no more than Custody allows (runner._Run, store).
KeepsCustody == Promise!Spec
=============================================================================
