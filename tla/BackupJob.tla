------------------------------ MODULE BackupJob ------------------------------
(* One backup attempt: History.run around an engine.  The engine of a chained *)
(* series works in a date directory under its root lock; every other engine   *)
(* stages outside the unit and renames a new archive into place.  The row is  *)
(* written before the engine starts and after its lock is released.           *)
EXTENDS BackupStore

VARIABLE phase  \* where each attempt is: its program counter

jobVars == <<storeVars, phase>>

Phases == {"idle", "begun", "writing", "published", "stored", "done", "dead"}

JobTypeOK == phase \in [Backups -> Phases]

JobInit == phase = [b \in Backups |->
                      IF InitialUnit[b] # 0 THEN "done" ELSE "idle"]

\* Units some attempt of the series has written into, or tried to.
Used(s) == {u \in Units : \E b \in Backups : unitOf[b] = u /\ JobOf[b] = s}

\* XtraBackup._latest_full_date_dir: the newest date directory in the root
\* that has .full_success.
LatestFull(s, u) ==
    /\ u \in Units /\ SeriesOf[u] = s
    /\ disk[First][u].sealed
    /\ \A v \in Units : SeriesOf[v] = s /\ disk[First][v].sealed => v <= u

\* The directory a full writes into is named by the day it starts: the newest
\* so far, or a new one.  An incremental continues the latest full.  An
\* archive gets a fresh stamped name, stamped before the job's lock is taken.
MayWrite(b, u) ==
    /\ SeriesOf[u] = JobOf[b]
    /\ IF JobOf[b] \in Chained
       THEN \/ \A v \in Used(JobOf[b]) : v <= u
            \/ LatestFull(JobOf[b], u)
       ELSE u \notin Used(JobOf[b])

\* What the steps of an engine make of a directory.
Pending(copy, b) == Copy(copy.held, copy.tmp \cup {b}, copy.sealed, copy.sound)
Published(copy, b) ==
    Copy(copy.held \cup {b}, copy.tmp \ {b}, copy.sealed, copy.sound)
Sealed(copy) == Copy(copy.held, copy.tmp, TRUE, copy.sound)
Cleaned(copy, b) == Copy(copy.held, copy.tmp \ {b}, copy.sealed, copy.sound)

\* History.run inserts the running row before any work.
BackupBegin(b) ==
    /\ phase[b] = "idle"
    /\ phase' = [phase EXCEPT ![b] = "begun"]
    /\ status' = [status EXCEPT ![b] = "running"]
    /\ UNCHANGED <<disk, mounted, unitOf, judged, row, locs, lock>>

\* process_lock, then _create makes the pending directory.  A busy lock ends
\* the attempt: EngineFail.
EngineStart(b, u) ==
    /\ phase[b] = "begun"
    /\ First \in mounted /\ MayWrite(b, u)
    /\ CanLock({First}, JobOf[b])
    /\ phase' = [phase EXCEPT ![b] = "writing"]
    /\ unitOf' = [unitOf EXCEPT ![b] = u]
    /\ lock' = Locked({First}, JobOf[b], b)
    /\ IF JobOf[b] \in Chained
       THEN Put(First, u, Pending(disk[First][u], b))
       ELSE UNCHANGED disk
    /\ UNCHANGED <<mounted, status, judged, row, locs>>

\* pending.rename(target), or os.replace of the staged archive.
EnginePublish(b) ==
    /\ phase[b] = "writing"
    /\ phase' = [phase EXCEPT ![b] = "published"]
    /\ Put(First, unitOf[b], Published(disk[First][unitOf[b]], b))
    /\ UNCHANGED <<mounted, ledgerVars, lock>>

\* .full_success, then the lock is released.  An incremental's directory has
\* the marker already; an archive has none, and nothing looks for it.
EngineFinish(b) ==
    /\ phase[b] = "published"
    /\ phase' = [phase EXCEPT ![b] = "stored"]
    /\ Put(First, unitOf[b], Sealed(disk[First][unitOf[b]]))
    /\ lock' = Unlocked(b)
    /\ UNCHANGED <<mounted, ledgerVars>>

\* The checksum and the final row, long after the lock.
RecordSuccess(b) ==
    /\ phase[b] = "stored"
    /\ b \in disk[First][unitOf[b]].held
    /\ phase' = [phase EXCEPT ![b] = "done"]
    /\ status' = [status EXCEPT ![b] = "success"]
    /\ UNCHANGED <<disk, mounted, unitOf, judged, row, locs, lock>>

\* Any exception in the engine or while the result is read: the pending
\* directory is removed, what was published stays, the row says failed.
EngineFail(b) ==
    /\ phase[b] \in {"begun", "writing", "published", "stored"}
    /\ phase' = [phase EXCEPT ![b] = "done"]
    /\ status' = [status EXCEPT ![b] = "failed"]
    /\ IF unitOf[b] = 0 THEN UNCHANGED disk
       ELSE Put(First, unitOf[b], Cleaned(disk[First][unitOf[b]], b))
    /\ lock' = Unlocked(b)
    /\ UNCHANGED <<mounted, unitOf, judged, row, locs>>

\* kill -9 or a power loss: nothing is cleaned up, the kernel drops the lock.
BackupKilled(b) ==
    /\ phase[b] \in {"begun", "writing", "published", "stored"}
    /\ phase' = [phase EXCEPT ![b] = "dead"]
    /\ lock' = Unlocked(b)
    /\ UNCHANGED <<disk, mounted, ledgerVars>>

\* The operator marks the row of a killed backup failed.
MarkFailed(b) ==
    /\ phase[b] = "dead"
    /\ phase' = [phase EXCEPT ![b] = "done"]
    /\ status' = [status EXCEPT ![b] = "failed"]
    /\ UNCHANGED <<disk, mounted, unitOf, judged, row, locs, lock>>

JobNext == \E b \in Backups :
    \/ BackupBegin(b)
    \/ \E u \in Units : EngineStart(b, u)
    \/ EnginePublish(b)
    \/ EngineFinish(b)
    \/ RecordSuccess(b)
    \/ EngineFail(b)
    \/ BackupKilled(b)
    \/ MarkFailed(b)
=============================================================================
