------------------------------- MODULE GFSRun -------------------------------
(* One applying run of a gfs job (gfs/runner.py): load and judge, sweep the   *)
(* managed units, act on each placed one, finish.  Every file-system call and *)
(* every ledger transaction is a step of its own; backup jobs move between.   *)
(* What policy.decide answers is left open but for what the run relies on:    *)
(* the newest unit of a series stays, and a unit only moves to a later stage. *)
EXTENDS BackupStore

VARIABLES
    pc,       \* where the run is
    cur,      \* the unit it works on, 0 between units
    goal,     \* the stage that unit moves to, or is completed at
    source,   \* the location it is copied from
    work,     \* paths the current loop has still to visit
    temp,     \* verified temporary copies of the unit, by target path
    todo,     \* units the current pass has still to visit
    placed,   \* units the sweep handed to policy.decide
    view,     \* each record's S2 judgment as load returned it
    busy,     \* series that had a running backup
    where,    \* _Run.where: the stage a unit is reported in
    outcome,  \* what the run did with each unit
    runRow,   \* gfs_runs.status of the latest run
    exit      \* its exit code

passVars == <<placed, view, busy>>
reportVars == <<where, outcome, runRow, exit>>
runVars == <<pc, cur, goal, source, work, temp, todo, passVars, reportVars>>

Gone == -1       \* where: deleted
Unreported == -2 \* where: not counted in any stage

Sweeping == {"sweep", "keep", "trim"}
Locking == {"trim", "commit", "clear", "delete"}
Working == {"keep", "copy", "condemn"} \cup Locking

RunTypeOK ==
    /\ pc \in {"idle", "judge", "busy", "sweep", "act", "snapshot"} \cup Working
    /\ cur \in Units \cup {0} /\ goal \in Nat /\ source \in Paths
    /\ work \subseteq Paths /\ temp \in [Paths -> Copies]
    /\ todo \subseteq Units /\ placed \subseteq Units
    /\ view \in [Backups -> {"no", "managed", "unmanaged"}]
    /\ busy \subseteq Series
    /\ where \in [Units -> Int]
    /\ outcome \in [Units -> {"none", "stayed", "held", "moved", "deleted",
                               "deferred", "refused", "failed"}]
    /\ runRow \in {"none", "running", "completed", "failed"}
    /\ exit \in {0, 1, 3}

NoTemps == [p \in Paths |-> Nothing]
NoView == [b \in Backups |-> "no"]

RunInit ==
    /\ pc = "idle" /\ cur = 0 /\ goal = 0 /\ source = First
    /\ work = {} /\ temp = NoTemps /\ todo = {} /\ placed = {}
    /\ view = NoView /\ busy = {}
    /\ where = [u \in Units |-> Unreported]
    /\ outcome = [u \in Units |-> "none"]
    /\ runRow = "none" /\ exit = 0

\* The members of a unit, as this run loaded them.
Seen(u) == {b \in Backups : unitOf[b] = u /\ view[b] = "managed"}

Holds(p, u) == Verifies(p, u, Seen(u))

\* Units are taken in (time, path) order.
Turn(u) == u \in todo /\ \A v \in todo : u <= v

\* The run is done with a unit: locks are released and temporaries removed.
Settle(u, result) ==
    /\ outcome' = [outcome EXCEPT ![u] = result]
    /\ todo' = todo \ {u}
    /\ cur' = 0 /\ goal' = 0 /\ source' = First
    /\ work' = {} /\ temp' = NoTemps
    /\ lock' = Unlocked(Gfs)
    /\ UNCHANGED <<mounted, status, unitOf, judged, view, busy, runRow, exit>>

\* The run takes a unit up, or goes on with it.
Proceed(step) ==
    /\ pc' = step
    /\ UNCHANGED <<mounted, status, unitOf, judged, todo, view, busy, outcome,
                   runRow, exit>>

EnsureRow(u) ==
    /\ row' = IF row[u] = "none" THEN [row EXCEPT ![u] = "managed"] ELSE row
    /\ locs' = IF row[u] = "none" THEN [locs EXCEPT ![u] = {First}] ELSE locs

----------------------------------------------------------------------------
(* Load, judge, sweep.                                                        *)

\* BackupRecord.available: the artifact is still where the engine put it, and
\* the first stage is there to look.
Available(b) == First \in mounted /\ b \in disk[First][unitOf[b]].held

\* store.begin_run and store.load: a record not judged yet is judged now.
RunBegin ==
    /\ pc = "idle" /\ pc' = "judge"
    /\ view' = [b \in Backups |->
          IF status[b] # "success" \/ row[unitOf[b]] = "deleted" THEN "no"
          ELSE IF judged[b] # "no" THEN judged[b]
          ELSE IF Available(b) THEN "managed" ELSE "unmanaged"]
    /\ todo' = {u \in Units : \E b \in Backups :
                                 unitOf[b] = u /\ view'[b] = "managed"}
    /\ where' = [u \in Units |-> Unreported]
    /\ outcome' = [u \in Units |-> "none"]
    /\ runRow' = "running" /\ exit' = 0
    /\ UNCHANGED <<storeVars, cur, goal, source, work, temp, placed, busy>>

\* store.record_members: a stored judgment is never changed.
RunJudge ==
    /\ pc = "judge" /\ pc' = "busy"
    /\ judged' = [b \in Backups |->
                    IF judged[b] = "no" THEN view[b] ELSE judged[b]]
    /\ UNCHANGED <<disk, mounted, status, unitOf, row, locs, lock, cur, goal,
                   source, work, temp, todo, passVars, reportVars>>
\* Mutant of RunReadBusy: running backups are not asked for.
RunReadNothing ==
    /\ pc = "busy" /\ pc' = "sweep"
    /\ busy' = {}
    /\ UNCHANGED <<storeVars, cur, goal, source, work, temp, todo, placed, view,
                   reportVars>>

\* store.running_backups, read once.
RunReadBusy ==
    /\ pc = "busy" /\ pc' = "sweep"
    /\ busy' = {JobOf[b] : b \in {c \in Backups : status[c] = "running"}}
    /\ UNCHANGED <<storeVars, cur, goal, source, work, temp, todo, placed, view,
                   reportVars>>

SweepDefer(u) ==
    /\ pc = "sweep" /\ Turn(u) /\ SeriesOf[u] \in busy
    /\ Settle(u, "deferred")
    /\ IF Listed(u) = {} THEN UNCHANGED where
       ELSE \E i \in Stages : InStage(u, i) /\ where' = [where EXCEPT ![u] = i]
    /\ UNCHANGED <<pc, disk, row, locs, placed>>

\* No location left: "stage not configured".
SweepRefuse(u) ==
    /\ pc = "sweep" /\ Turn(u) /\ SeriesOf[u] \notin busy /\ Listed(u) = {}
    /\ Settle(u, "refused")
    /\ UNCHANGED <<pc, disk, row, locs, placed, where>>

SweepPlace(u, stage) ==
    /\ pc = "sweep" /\ Turn(u) /\ SeriesOf[u] \notin busy
    /\ InStage(u, stage) /\ \A p \in Listed(u) : StageOf[p] = stage
    /\ placed' = placed \cup {u}
    /\ todo' = todo \ {u}
    /\ where' = [where EXCEPT ![u] = stage]
    /\ UNCHANGED <<storeVars, pc, cur, goal, source, work, temp, view, busy,
                   outcome, runRow, exit>>

Leftovers(u, stage) == {p \in Listed(u) : StageOf[p] < stage}
\* Mutant of SweepInterrupted: the later copies are not verified.
SweepTrusting(u, stage) ==
    /\ pc = "sweep" /\ Turn(u) /\ SeriesOf[u] \notin busy
    /\ InStage(u, stage) /\ Leftovers(u, stage) # {}
    /\ where' = [where EXCEPT ![u] = stage]
    /\ Proceed("keep")
    /\ cur' = u /\ goal' = stage
    /\ UNCHANGED <<lock, source, work, temp, disk, row, locs, placed>>

\* Listed in two stages: the earlier copies go once the later ones verify.
SweepInterrupted(u, stage) ==
    /\ pc = "sweep" /\ Turn(u) /\ SeriesOf[u] \notin busy
    /\ InStage(u, stage) /\ Leftovers(u, stage) # {}
    /\ where' = [where EXCEPT ![u] = stage]
    /\ IF \A p \in Listed(u) \ Leftovers(u, stage) : Holds(p, u)
       THEN /\ Proceed("keep")
            /\ cur' = u /\ goal' = stage
            /\ UNCHANGED <<lock, source, work, temp>>
       ELSE Settle(u, "refused") /\ UNCHANGED pc
    /\ UNCHANGED <<disk, row, locs, placed>>

TrimLock ==
    /\ pc = "keep"
    /\ IF CanLock(Leftovers(cur, goal), SeriesOf[cur])
       THEN /\ Proceed("trim")
            /\ lock' = Locked(Leftovers(cur, goal), SeriesOf[cur], Gfs)
            /\ work' = Leftovers(cur, goal)
            /\ UNCHANGED <<cur, goal, source, temp>>
       ELSE Settle(cur, "deferred") /\ pc' = "sweep"
    /\ UNCHANGED <<disk, row, locs, placed, where>>

\* Each leftover is verified, then removed.
TrimRemove(p) ==
    /\ pc = "trim" /\ p \in work
    /\ IF Holds(p, cur)
       THEN /\ Proceed("trim")
            /\ Put(p, cur, Nothing)
            /\ work' = work \ {p}
            /\ UNCHANGED <<cur, goal, source, temp, lock>>
       ELSE Settle(cur, "refused") /\ pc' = "sweep" /\ UNCHANGED disk
    /\ UNCHANGED <<row, locs, placed, where>>

\* store.record_move with no new location; the unit is placed after all.
TrimRecord ==
    /\ pc = "trim" /\ work = {} /\ pc' = "sweep"
    /\ locs' = [locs EXCEPT ![cur] = @ \ Leftovers(cur, goal)]
    /\ placed' = placed \cup {cur}
    /\ Settle(cur, "none")
    /\ UNCHANGED <<disk, row, where>>

\* policy.decide over the placed units.
RunDecide ==
    /\ pc = "sweep" /\ todo = {} /\ pc' = "act"
    /\ todo' = placed
    /\ UNCHANGED <<storeVars, cur, goal, source, work, temp, passVars, reportVars>>

----------------------------------------------------------------------------
(* Act.                                                                       *)
\* Mutants of Newest: one newest for all jobs; no such rule.
NewestOfAll(u) == \A v \in placed : v <= u
NewestMoves(u) == u \notin Units

\* policy.decide: "newest of series" stays, whatever its age.
Newest(u) == \A v \in placed : SeriesOf[v] = SeriesOf[u] => v <= u

ActStay(u) ==
    /\ pc = "act" /\ Turn(u)
    /\ EnsureRow(u)
    /\ Settle(u, "stayed")
    /\ UNCHANGED <<pc, disk, placed, where>>

ActHold(u) ==
    /\ pc = "act" /\ Turn(u) /\ ~Newest(u)
    /\ Settle(u, "held")
    /\ UNCHANGED <<pc, disk, row, locs, placed, where>>

\* Markers, free final names, then every copy but the one to be read.
MoveStart(u, stage, from) ==
    /\ pc = "act" /\ Turn(u) /\ ~Newest(u)
    /\ \E i \in Stages : InStage(u, i) /\ i < stage
    /\ from \in Listed(u)
    /\ IF /\ PathsOf(stage) \subseteq mounted
          /\ \A p \in PathsOf(stage) : ~Exists(p, u)
          /\ \A p \in Listed(u) \ {from} : Holds(p, u)
       THEN /\ Proceed("copy")
            /\ cur' = u /\ goal' = stage /\ source' = from
            /\ work' = PathsOf(stage)
            /\ UNCHANGED <<lock, temp>>
       ELSE Settle(u, "refused") /\ UNCHANGED pc
    /\ UNCHANGED <<disk, row, locs, placed, where>>
\* Mutant of MoveCopy: the source is copied without being hashed.
MoveCopyBlindly(p) ==
    /\ pc = "copy" /\ p \in work
    /\ Proceed("copy")
    /\ temp' = [temp EXCEPT ![p] = disk[source][cur]]
    /\ work' = work \ {p}
    /\ UNCHANGED <<lock, cur, goal, source, disk, row, locs, placed, where>>

\* actions.copy_verified: the source is hashed while it is read; the copy
\* under its temporary name is not read again.
MoveCopy(p) ==
    /\ pc = "copy" /\ p \in work
    /\ IF Holds(source, cur)
       THEN /\ Proceed("copy")
            /\ temp' = [temp EXCEPT ![p] = disk[source][cur]]
            /\ work' = work \ {p}
            /\ UNCHANGED <<lock, cur, goal, source>>
       ELSE Settle(cur, "refused") /\ pc' = "act"
    /\ UNCHANGED <<disk, row, locs, placed, where>>
\* Mutant of MoveLock: only the roots copied to are locked.
MoveLockTargets ==
    /\ pc = "copy" /\ work = {}
    /\ IF CanLock(PathsOf(goal), SeriesOf[cur])
       THEN /\ Proceed("commit")
            /\ lock' = Locked(PathsOf(goal), SeriesOf[cur], Gfs)
            /\ work' = PathsOf(goal)
            /\ UNCHANGED <<cur, goal, source, temp>>
       ELSE Settle(cur, "deferred") /\ pc' = "act"
    /\ UNCHANGED <<disk, row, locs, placed, where>>

\* Mutant of MoveLock: a busy root is waited for.
MoveLockWaits ==
    /\ pc = "copy" /\ work = {}
    /\ CanLock(Listed(cur) \cup PathsOf(goal), SeriesOf[cur])
    /\ Proceed("commit")
    /\ lock' = Locked(Listed(cur) \cup PathsOf(goal), SeriesOf[cur], Gfs)
    /\ work' = PathsOf(goal)
    /\ UNCHANGED <<cur, goal, source, temp, disk, row, locs, placed, where>>

MoveLock ==
    /\ pc = "copy" /\ work = {}
    /\ IF CanLock(Listed(cur) \cup PathsOf(goal), SeriesOf[cur])
       THEN /\ Proceed("commit")
            /\ lock' = Locked(Listed(cur) \cup PathsOf(goal), SeriesOf[cur], Gfs)
            /\ work' = PathsOf(goal)
            /\ UNCHANGED <<cur, goal, source, temp>>
       ELSE Settle(cur, "deferred") /\ pc' = "act"
    /\ UNCHANGED <<disk, row, locs, placed, where>>

\* Transport.rename refuses a name that exists; finals renamed before stay.
MoveRename(p) ==
    /\ pc = "commit" /\ p \in work
    /\ IF Exists(p, cur)
       THEN Settle(cur, "refused") /\ pc' = "act" /\ UNCHANGED disk
       ELSE /\ Proceed("commit")
            /\ Put(p, cur, temp[p])
            /\ temp' = [temp EXCEPT ![p] = Nothing]
            /\ work' = work \ {p}
            /\ UNCHANGED <<lock, cur, goal, source>>
    /\ UNCHANGED <<row, locs, placed, where>>

MoveEnsureRow ==
    /\ pc = "commit" /\ work = {} /\ row[cur] = "none"
    /\ Proceed("commit") /\ EnsureRow(cur)
    /\ UNCHANGED <<disk, lock, cur, goal, source, work, temp, placed, where>>
\* Mutant of MoveRecord: the new locations are added to the old.
MoveRecordAdds ==
    /\ pc = "commit" /\ work = {} /\ row[cur] # "none"
    /\ Proceed("clear")
    /\ locs' = [locs EXCEPT ![cur] = @ \cup PathsOf(goal)]
    /\ work' = locs[cur]
    /\ UNCHANGED <<disk, row, lock, cur, goal, source, temp, placed, where>>

\* store.record_move: the new locations replace the old in one transaction.
MoveRecord ==
    /\ pc = "commit" /\ work = {} /\ row[cur] # "none"
    /\ Proceed("clear")
    /\ locs' = [locs EXCEPT ![cur] = PathsOf(goal)]
    /\ work' = locs[cur]
    /\ UNCHANGED <<disk, row, lock, cur, goal, source, temp, placed, where>>

\* The old copies go, without another look at them.
MoveRemove(p) ==
    /\ pc = "clear" /\ p \in work
    /\ Proceed("clear")
    /\ Put(p, cur, Nothing)
    /\ work' = work \ {p}
    /\ UNCHANGED <<row, locs, lock, cur, goal, source, temp, placed, where>>
\* Mutant of MoveDone: the report is not told of the move.
MoveDoneSilently ==
    /\ pc = "clear" /\ work = {} /\ pc' = "act"
    /\ Settle(cur, "moved")
    /\ UNCHANGED <<disk, row, locs, placed, where>>

MoveDone ==
    /\ pc = "clear" /\ work = {} /\ pc' = "act"
    /\ where' = [where EXCEPT ![cur] = goal]
    /\ Settle(cur, "moved")
    /\ UNCHANGED <<disk, row, locs, placed>>

\* Every copy is verified before the lock is taken.
DeleteStart(u) ==
    /\ pc = "act" /\ Turn(u) /\ ~Newest(u)
    /\ IF \A p \in Listed(u) : Holds(p, u)
       THEN /\ Proceed("condemn")
            /\ cur' = u
            /\ UNCHANGED <<lock, goal, source, work, temp>>
       ELSE Settle(u, "refused") /\ UNCHANGED pc
    /\ UNCHANGED <<disk, row, locs, placed, where>>

DeleteLock ==
    /\ pc = "condemn"
    /\ IF CanLock(Listed(cur), SeriesOf[cur])
       THEN /\ Proceed("delete")
            /\ lock' = Locked(Listed(cur), SeriesOf[cur], Gfs)
            /\ EnsureRow(cur)
            /\ work' = Listed(cur)
            /\ UNCHANGED <<cur, goal, source, temp>>
       ELSE Settle(cur, "deferred") /\ pc' = "act" /\ UNCHANGED <<row, locs>>
    /\ UNCHANGED <<disk, placed, where>>

DeleteRemove(p) ==
    /\ pc = "delete" /\ p \in work
    /\ Proceed("delete")
    /\ Put(p, cur, Nothing)
    /\ work' = work \ {p}
    /\ UNCHANGED <<row, locs, lock, cur, goal, source, temp, placed, where>>
\* Mutant of DeleteRecord: the deletion is recorded before it is done.
DeleteRecordFirst ==
    /\ pc = "delete" /\ pc' = "act"
    /\ row' = [row EXCEPT ![cur] = "deleted"]
    /\ locs' = [locs EXCEPT ![cur] = {}]
    /\ where' = [where EXCEPT ![cur] = Gone]
    /\ Settle(cur, "deleted")
    /\ UNCHANGED <<disk, placed>>

DeleteRecord ==
    /\ pc = "delete" /\ work = {} /\ pc' = "act"
    /\ row' = [row EXCEPT ![cur] = "deleted"]
    /\ locs' = [locs EXCEPT ![cur] = {}]
    /\ where' = [where EXCEPT ![cur] = Gone]
    /\ Settle(cur, "deleted")
    /\ UNCHANGED <<disk, placed>>

----------------------------------------------------------------------------
(* Finish, fail, stop.                                                        *)
\* Mutant of ExitCode: a problem exits as a wrong command line does.
ExitCodeOfUsage ==
    IF \E u \in Units : outcome[u] \in {"failed", "refused"} THEN 2
    ELSE IF \E u \in Units : outcome[u] = "deferred" THEN 3 ELSE 0

ExitCode ==
    IF \E u \in Units : outcome[u] \in {"failed", "refused"} THEN 1
    ELSE IF \E u \in Units : outcome[u] = "deferred" THEN 3 ELSE 0

\* store.finish_run comes before the ledger copies.
RunFinish ==
    /\ pc = "act" /\ todo = {} /\ pc' = "snapshot"
    /\ runRow' = "completed" /\ exit' = ExitCode
    /\ placed' = {} /\ view' = NoView /\ busy' = {}
    /\ UNCHANGED <<storeVars, cur, goal, source, work, temp, todo, where, outcome>>

\* A path without its marker gets no ledger copy and the run then exits 1.
RunSnapshot ==
    /\ pc = "snapshot" /\ pc' = "idle"
    /\ exit' = IF Paths \ {First} \subseteq mounted THEN exit ELSE 1
    /\ UNCHANGED <<storeVars, cur, goal, source, work, temp, todo, passVars,
                   where, outcome, runRow>>

\* Where a removal is interrupted, it leaves what Torn says.  A leftover is
\* only removed once it verified.
Tear ==
    \/ UNCHANGED disk
    \/ \E p \in work : \E left \in Torn(disk[p][cur]) :
          /\ pc \in {"trim", "clear", "delete"}
          /\ pc = "trim" => Holds(p, cur)
          /\ Put(p, cur, left)

\* An exception in act is caught: the unit failed, the run goes on.
ActFail ==
    /\ \/ pc \in {"copy", "commit", "clear", "condemn", "delete"} /\ Settle(cur, "failed")
       \/ pc = "act" /\ \E u \in todo : Turn(u) /\ Settle(u, "failed")
    /\ Tear
    /\ pc' = "act"
    /\ UNCHANGED <<row, locs, placed, where>>

SnapshotFail ==
    /\ pc = "snapshot" /\ pc' = "idle" /\ exit' = 1
    /\ UNCHANGED <<storeVars, cur, goal, source, work, temp, todo, passVars,
                   where, outcome, runRow>>

\* Killed (the run's row stays as it is), or an exception nothing caught.
RunStop ==
    /\ pc # "idle" /\ pc' = "idle"
    /\ Tear
    /\ lock' = Unlocked(Gfs)
    /\ cur' = 0 /\ goal' = 0 /\ source' = First /\ work' = {} /\ temp' = NoTemps
    /\ todo' = {} /\ placed' = {} /\ view' = NoView /\ busy' = {}
    /\ where' = [u \in Units |-> Unreported]
    /\ outcome' = [u \in Units |-> "none"]
    /\ runRow' \in {runRow, "failed"} /\ exit' = 1
    /\ UNCHANGED <<mounted, ledgerVars>>

Sweep ==
    \/ \E u \in Units : SweepDefer(u) \/ SweepRefuse(u)
    \/ \E u \in Units, stage \in Stages :
          SweepPlace(u, stage) \/ SweepInterrupted(u, stage)
    \/ TrimLock \/ TrimRecord
    \/ \E p \in Paths : TrimRemove(p)

Act ==
    \/ \E u \in Units : ActStay(u) \/ ActHold(u) \/ DeleteStart(u)
    \/ \E u \in Units, stage \in Stages, from \in Paths :
          MoveStart(u, stage, from)
    \/ MoveLock \/ MoveEnsureRow \/ MoveRecord \/ MoveDone
    \/ DeleteLock \/ DeleteRecord
    \/ \E p \in Paths : MoveCopy(p) \/ MoveRename(p) \/ MoveRemove(p) \/ DeleteRemove(p)

\* The steps of the process itself, faults left out.
RunStep == RunBegin \/ RunJudge \/ RunReadBusy \/ Sweep \/ RunDecide \/ Act
           \/ RunFinish \/ RunSnapshot

RunFault == ActFail \/ SnapshotFail \/ RunStop
=============================================================================
