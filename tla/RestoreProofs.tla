---------------------------- MODULE RestoreProofs ----------------------------
(* A restore delivers the recorded bytes and gives up for a reason, for every *)
(* number of units, paths, backups and series, whatever runs and jobs do      *)
(* meanwhile.                                                                 *)
EXTENDS ManagedRestore, CustodyProofs

Looking == {"try", "locked", "verified", "extracted"}

RestoreTypeOK ==
    /\ reading \in {"idle", "units", "members"} \cup Looking \cup Ended
    /\ read \subseteq Paths /\ place \in Paths
    /\ quiet \in BOOLEAN

\* The backup is recorded, and so is what the restore asked the ledger for.
AskedInv ==
    /\ reading # "idle" => status[Wanted] = "success"
    /\ reading = "members" /\ found # "none" => row[U] # "none"
    /\ reading \in Looking => row[U] # "none"
    /\ reading = "locked" => IsChain
    /\ reading = "extracted" => ~IsChain
    /\ reading \in Looking => Wanted \in members /\ members \subseteq Members

Known == Sources \subseteq members

\* While nobody touches the unit, what was read is what is listed, and every
\* place passed over was of no use.
QuietInv ==
    quiet =>
        /\ reading \in {"units", "members"} => read = locs[U]
        /\ reading = "members" => found = row[U]
        /\ reading \in Looking =>
              /\ row[U] = "managed" /\ locs[U] # {} /\ read \subseteq locs[U]
              /\ \A p \in locs[U] \ read :
                    ~Known \/ ~Usable(p) \/ (reading # "try" /\ p = place)
              /\ members = Members
              /\ reading # "try" => place \in locs[U]
        /\ ~IsChain /\ reading \in {"verified", "extracted"} => Usable(place)

\* The unit has left the stage of a path for good.
Passed(p) ==
    row[U] = "deleted" \/ \E q \in locs[U] : StageOf[p] <= StageOf[q]

Delivers(copy) == Sources \subseteq copy.held /\ copy.sound

\* A chain is read under the lock of its root; an archive that went away while
\* it was read does not come back to where it was.
HandedInv ==
    /\ IsChain /\ reading \in {"locked", "verified"} =>
          lock[place][SeriesOf[U]] = Recovery
    /\ reading \in {"verified", "extracted"} => Known
    /\ IsChain /\ reading = "verified" => Whole(place)
    /\ ~IsChain /\ reading = "verified" => Whole(place) \/ Passed(place)
    /\ reading = "extracted" =>
          Delivers(bytes) \/ (~Whole(place) /\ Passed(place))

RestoreInv ==
    /\ RestoreTypeOK /\ AskedInv /\ QuietInv /\ HandedInv
    /\ DeliversRecorded /\ GivesUpForAReason

----------------------------------------------------------------------------
(* The world beside the restore.                                              *)

\* A restore changes nothing but locks: it takes one that is free, and gives
\* back its own.
LEMMA RestoreLeaves ==
    ASSUME Restore
    PROVE  /\ UNCHANGED <<disk, mounted, ledgerVars, phase, runVars, countVars, quiet>>
           /\ \/ lock' = lock
              \/ lock' = Unlocked(Recovery)
              \/ /\ reading = "try"
                 /\ \E p \in Paths : /\ CanLock({p}, SeriesOf[U])
                                    /\ lock' = Locked({p}, SeriesOf[U], Recovery)
<1>1. ASSUME NEW p \in Paths, PrepareLock(p)
      PROVE  \/ lock' = lock
             \/ /\ reading = "try" /\ CanLock({p}, SeriesOf[U])
                /\ lock' = Locked({p}, SeriesOf[U], Recovery)
  BY <1>1 DEF PrepareLock, CanLock, Goes
<1>2. \/ lock' = lock
      \/ lock' = Unlocked(Recovery)
      \/ /\ reading = "try"
         /\ \E p \in Paths : /\ CanLock({p}, SeriesOf[U])
                            /\ lock' = Locked({p}, SeriesOf[U], Recovery)
  BY <1>1 DEF Restore, ReadLocations, ReadUnits, ReadMembers, ReadUnmanaged, Skip,
     VerifyArchive, PrepareVerify, PrepareRefused, PrepareDone, Extract, ExtractDone,
     NoPlaceLeft, RestoreStop
<1>3. UNCHANGED <<disk, mounted, ledgerVars, phase, runVars, countVars, quiet>>
  BY DEF Restore, ReadLocations, ReadUnits, ReadMembers, ReadUnmanaged, Skip,
     PrepareLock, VerifyArchive, PrepareVerify, PrepareRefused, PrepareDone, Extract,
     ExtractDone, NoPlaceLeft, RestoreStop, Goes
<1> QED
  BY <1>2, <1>3

LEMMA WantedRecorded ==
    ASSUME TypeInv, status[Wanted] = "success"
    PROVE  U \in Units /\ SeriesOf[U] = JobOf[Wanted]
  BY WantedIsABackup, RecordedUnits, UnitsAreNumbers DEF TypeInv, JobsInStep, U

LEMMA RestoreLocks ==
    ASSUME TypeInv, AskedInv, Restore
    PROVE  /\ lock' \in [Paths -> [Series -> Holders]]
           /\ \A p \in Paths, s \in Series :
                 /\ s \notin Chained /\ lock[p][s] = Free => lock'[p][s] = Free
                 /\ lock[p][s] = Gfs => lock'[p][s] = Gfs
<1> USE DEF TypeInv, TypeOK
<1>1. Recovery \in Holders /\ Free \in Holders /\ Recovery # Gfs /\ Free # Gfs
  BY HoldersAreApart DEF Holders
<1>2. lock \in [Paths -> [Series -> Holders]]
  BY DEF StoreTypeOK
<1>3. CASE lock' = lock
  BY <1>2, <1>3
<1>4. CASE lock' = Unlocked(Recovery)
  BY <1>1, <1>2, <1>4 DEF Unlocked
<1>5. ASSUME reading = "try", NEW p \in Paths, CanLock({p}, SeriesOf[U]),
             lock' = Locked({p}, SeriesOf[U], Recovery)
      PROVE  /\ lock' \in [Paths -> [Series -> Holders]]
             /\ \A q \in Paths, s \in Series :
                   /\ s \notin Chained /\ lock[q][s] = Free => lock'[q][s] = Free
                   /\ lock[q][s] = Gfs => lock'[q][s] = Gfs
  <2>1. PICK t \in Series : t = SeriesOf[U]
    BY <1>5, WantedRecorded, WantedIsABackup, JobsOfBackups DEF AskedInv
  <2>2. t \in Chained => lock[p][t] = Free
    BY <1>5, <2>1 DEF CanLock
  <2>3. lock' = [q \in Paths |-> [s \in Series |->
          IF q = p /\ s = t /\ t \in Chained THEN Recovery ELSE lock[q][s]]]
    BY <1>5, <2>1 DEF Locked
  <2> QED
    BY <1>1, <1>2, <2>2, <2>3
<1> QED
  BY <1>3, <1>4, <1>5, RestoreLeaves

LEMMA RestoreKeepsFull ==
    ASSUME FullInv, AskedInv, Restore PROVE FullInv'
<1> USE DEF FullInv, LockTypeInv
<1>1. UNCHANGED <<disk, mounted, ledgerVars, phase, runVars, countVars>>
  BY RestoreLeaves
<1>2. TypeInv'
  BY <1>1, RestoreLocks DEF TypeInv, TypeOK, StoreTypeOK, JobTypeOK, RunTypeOK,
     JobsInStep, CurInTodo, ledgerVars, runVars, passVars, reportVars, countVars
<1>3. LockInv'
  <2>1. UNCHANGED <<pc, cur, goal, work, row, locs>>
    BY <1>1 DEF runVars, ledgerVars
  <2>2. Listed(cur)' = Listed(cur) /\ PathsOf(goal)' = PathsOf(goal) /\ InChain(cur)' = InChain(cur)
    BY <2>1 DEF Listed, PathsOf, InChain
  <2>3. pc \in Working => cur \in Units /\ SeriesOf[cur] \in Series
    BY SeriesOfUnits DEF TypeInv, TypeOK, CurInTodo, RunTypeOK
  <2>4. /\ work \subseteq Paths
        /\ pc \in Working => Listed(cur) \subseteq Paths /\ PathsOf(goal) \subseteq Paths
    BY <2>3, FirstStageHasOnePath DEF TypeInv, TypeOK, RunTypeOK, StoreTypeOK, Listed, PathsOf
  <2> QED
    BY <2>1, <2>2, <2>3, <2>4, RestoreLocks DEF LockInv, Working, Locking
<1> QED
  BY <1>1, <1>2, <1>3, SafeBesideLocks

----------------------------------------------------------------------------
(* The restore beside the world.                                              *)

\* A recorded backup stays recorded where it is.
LEMMA RecordStays ==
    ASSUME TypeInv, Next, status[Wanted] = "success"
    PROVE  /\ status'[Wanted] = "success" /\ U' = U
           /\ row[U] # "none" => row'[U] # "none"
<1>0. U \in Units
  BY WantedRecorded
<1> USE DEF TypeInv, TypeOK, StoreTypeOK
<1>1. CASE Jobs
  BY <1>0, <1>1, JobsKeep, WantedIsABackup, UnitsAreNumbers DEF U
<1>2. CASE Run \/ Fault
  <2>1. (RunStep \/ RunFault) /\ UNCHANGED <<status, unitOf>>
    BY <1>2, UnitsStay DEF Run, Fault
  <2>2. row[U] # "none" => row'[U] # "none"
    BY <1>0, <2>1, LedgerSteps DEF EnsureRow, TrimRecord, MoveRecord, DeleteRecord
  <2> QED
    BY <2>1, <2>2 DEF U
<1>3. CASE Environment
  BY <1>0, <1>3, EnvironmentKeeps, EnvironmentLedger DEF U
<1> QED
  BY <1>1, <1>2, <1>3 DEF Next

\* A managed record stays one.
LEMMA MembersStay ==
    ASSUME TypeInv, Next, status[Wanted] = "success" PROVE Members \subseteq Members'
<1> USE DEF TypeInv, TypeOK, StoreTypeOK
<1>1. \A b \in Backups : Managed(b) => unitOf[b] # 0
  BY RecordedUnits DEF Managed
<1>2. U' = U
  BY RecordStays
<1>3. \A b \in Backups : Managed(b) => Managed(b)' /\ unitOf'[b] = unitOf[b]
  <2>1. CASE Jobs
    BY <1>1, <2>1, JobsKeep DEF Managed
  <2>2. CASE Run \/ Fault
    BY <2>2, UnitsStay, OnlyJudges DEF Run, Fault, RunJudge, Managed
  <2>3. CASE Environment
    BY <2>3, EnvironmentKeeps DEF Managed
  <2> QED
    BY <2>1, <2>2, <2>3 DEF Next
<1> QED
  BY <1>2, <1>3 DEF Members

\* The locks a run takes and gives back are its own.
LEMMA RunTakes ==
    ASSUME TypeInv, RunStep \/ RunFault
    PROVE  \/ lock' = lock
           \/ lock' = Unlocked(Gfs)
           \/ \E paths \in SUBSET Paths, s \in Series :
                 CanLock(paths, s) /\ lock' = Locked(paths, s, Gfs)
<1> DEFINE Takes == \/ lock' = lock
                    \/ lock' = Unlocked(Gfs)
                    \/ \E paths \in SUBSET Paths, s \in Series :
                          CanLock(paths, s) /\ lock' = Locked(paths, s, Gfs)
<1>1. ASSUME pc \in Working
      PROVE  /\ SeriesOf[cur] \in Series
             /\ Listed(cur) \cup PathsOf(goal) \subseteq Paths
             /\ Leftovers(cur, goal) \subseteq Paths /\ Listed(cur) \subseteq Paths
  BY <1>1, SeriesOfUnits, FirstStageHasOnePath
     DEF TypeInv, TypeOK, CurInTodo, RunTypeOK, StoreTypeOK, Listed, PathsOf, Leftovers
<1>2. CASE TrimLock \/ MoveLock \/ DeleteLock
  <2>1. pc \in Working
    BY <1>2 DEF TrimLock, MoveLock, DeleteLock, Working
  <2> QED
    BY <1>1, <1>2, <2>1 DEF TrimLock, MoveLock, DeleteLock, Settle
<1> HIDE DEF Takes
<1>3. CASE Sweep
  BY <1>2, <1>3 DEF Takes, Sweep, SweepDefer, SweepRefuse, SweepPlace, SweepInterrupted,
     TrimRemove, TrimRecord, storeVars, Settle
<1>4. CASE Act
  BY <1>2, <1>4 DEF Takes, Act, ActStay, ActHold, DeleteStart, MoveStart, MoveEnsureRow,
     MoveRecord, MoveDone, DeleteRecord, MoveCopy, MoveRename, MoveRemove,
     DeleteRemove, Settle
<1>5. CASE RunFault \/ RunBegin \/ RunJudge \/ RunReadBusy \/ RunDecide \/ RunFinish
           \/ RunSnapshot
  BY <1>5 DEF Takes, RunFault, ActFail, SnapshotFail, RunStop, RunBegin, RunJudge,
     RunReadBusy, RunDecide, RunFinish, RunSnapshot, storeVars, Settle
<1> QED
  BY <1>3, <1>4, <1>5 DEF RunStep, Takes

\* Nobody else takes the lock of a restore.
LEMMA RecoveryLockStays ==
    ASSUME TypeInv, Next, NEW p \in Paths, NEW s \in Series, lock[p][s] = Recovery
    PROVE  lock'[p][s] = Recovery
<1> USE DEF TypeInv, TypeOK
<1>1. Recovery # Free /\ Recovery # Gfs /\ Gfs \in Holders
  BY HoldersAreApart DEF Holders
<1>2. CASE Jobs
  <2>1. PICK b \in Backups :
          \/ lock' = lock
          \/ CanLock({First}, JobOf[b]) /\ lock' = Locked({First}, JobOf[b], b)
          \/ lock' = Unlocked(b)
    BY <1>2 DEF Jobs, JobNext, BackupBegin, EngineStart, EnginePublish, EngineFinish,
       RecordSuccess, EngineFail, BackupKilled, MarkFailed, ledgerVars
  <2>2. b \in Holders /\ b # Recovery /\ JobOf[b] \in Series /\ {First} \in SUBSET Paths
    BY HoldersAreApart, JobsOfBackups, FirstStageHasOnePath DEF Holders
  <2> QED
    BY <1>1, <2>1, <2>2, OthersKeepLocks
<1>3. CASE Run \/ Fault
  BY <1>1, <1>3, RunTakes, OthersKeepLocks DEF Run, Fault
<1>4. CASE Environment
  BY <1>4, WantedIsABackup DEF Environment, Damage, Remount, Edit
<1> QED
  BY <1>2, <1>3, <1>4 DEF Next

\* While no copy is damaged or removed by hand, only a run takes the backup
\* from a place, and not from a root the restore has locked.
LEMMA OthersPlace ==
    ASSUME TypeInv, Next, UNCHANGED <<damages, edits>>, Sources \subseteq Members,
           NEW p \in Paths, Whole(p)' # Whole(p)
    PROVE  (RunStep \/ RunFault) /\ disk'[p][U] # disk[p][U]
<1> USE DEF TypeInv, TypeOK
<1>0. \A b \in Sources : b \in Backups /\ status[b] = "success"
  BY DEF Members, Managed
<1>1. U \in Units /\ U' = U /\ damages \in Nat /\ edits \in Nat
  BY <1>0, SourcesOfOneJob, WantedRecorded, RecordStays
<1>2. /\ Whole(p) <=> disk[p][U].sound /\ Sources \subseteq disk[p][U].held
      /\ Whole(p)' <=> disk'[p][U].sound /\ Sources \subseteq disk'[p][U].held
  BY <1>1 DEF Whole
<1>3. disk'[p][U] # disk[p][U]
  BY <1>2 DEF Whole
<1>4. ~Jobs
  <2> SUFFICES ASSUME Jobs PROVE FALSE
    OBVIOUS
  <2>1. /\ disk'[p][U].sound = disk[p][U].sound
        /\ disk[p][U].held \subseteq disk'[p][U].held
    BY <1>1, JobsKeep
  <2>2. \A b \in Sources : b \in disk'[p][U].held => b \in disk[p][U].held
    BY <1>0, <1>1, JobsHold
  <2> QED
    BY <1>2, <2>1, <2>2 DEF Whole
<1>5. ~Environment
  BY <1>1, <1>3, EnvironmentDisk
<1> QED
  BY <1>3, <1>4, <1>5 DEF Next, Run, Fault

LEMMA LockedPlace ==
    ASSUME FullInv, Next, UNCHANGED <<damages, edits>>, Sources \subseteq Members,
           NEW p \in Paths, lock[p][SeriesOf[U]] = Recovery
    PROVE  Whole(p)' = Whole(p)
<1>1. status[Wanted] = "success"
  BY SourcesOfOneJob DEF Members, Managed
<1> QED
  BY <1>1, OthersPlace, RunAvoidsRecovery, WantedRecorded DEF FullInv, LockTypeInv

\* A run never goes back on a stage.
LEMMA PassedStays ==
    ASSUME FullInv, Next, UNCHANGED <<damages, edits>>, status[Wanted] = "success",
           row[U] # "none", NEW p \in Paths, Passed(p)
    PROVE  Passed(p)'
<1> USE DEF FullInv, LockTypeInv, TypeInv, TypeOK, StoreTypeOK
<1>1. U \in Units /\ U' = U /\ damages \in Nat /\ edits \in Nat
  BY WantedRecorded, RecordStays
<1>2. ASSUME row'[U] = row[U], locs'[U] = locs[U] PROVE Passed(p)'
  BY <1>1, <1>2 DEF Passed
<1>3. CASE Jobs
  BY <1>2, <1>3, JobsKeep
<1>4. CASE Environment
  BY <1>1, <1>2, <1>4, EnvironmentLedger
<1>5. CASE Run \/ Fault
  <2>1. RunStep \/ RunFault
    BY <1>5 DEF Run, Fault
  <2>2. CASE UNCHANGED <<row, locs>> \/ \E v \in Units : EnsureRow(v)
    BY <1>1, <1>2, <2>2 DEF EnsureRow
  <2>3. ASSUME cur \in Units, TrimRecord \/ MoveRecord \/ DeleteRecord, cur # U
        PROVE  Passed(p)'
    BY <1>1, <1>2, <2>3 DEF TrimRecord, MoveRecord, DeleteRecord
  <2>4. ASSUME cur = U, TrimRecord \/ MoveRecord PROVE Passed(p)'
    <3>1. pc \in {"trim", "commit"} /\ row' = row /\ Listed(U) = locs[U]
      BY <2>4 DEF TrimRecord, MoveRecord, Listed
    <3>2. \E x \in locs'[U] : StageOf[x] = goal
      <4>1. CASE TrimRecord
        <5>1. PICK x \in locs[U] : StageOf[x] = goal
          BY <2>4, <3>1, <4>1 DEF TrimRecord, SafeInv, WorkInv, TrimHolds, InStage
        <5>2. x \notin Leftovers(U, goal)
          BY <5>1, <1>1, FirstStageHasOnePath DEF Leftovers
        <5> QED
          BY <1>1, <2>4, <4>1, <5>1, <5>2 DEF TrimRecord
      <4>2. CASE MoveRecord
        BY <1>1, <2>4, <4>2 DEF MoveRecord, SafeInv, WorkInv, MoveHolds, PathsOf
      <4> QED
        BY <2>4, <4>1, <4>2
    <3>3. locs[U] \subseteq Paths /\ locs'[U] \subseteq Paths /\ goal \in Nat
      <4>1. TypeInv'
        BY TypeStays
      <4> QED
        BY <1>1, <4>1 DEF RunTypeOK
    <3>4. \A q \in locs[U] : StageOf[q] <= goal
      <4>1. CASE TrimRecord
        BY <2>4, <3>1, <4>1 DEF TrimRecord, SafeInv, WorkInv, TrimHolds, InStage
      <4>2. CASE MoveRecord
        <5>1. \A q \in locs[U] : StageOf[q] < goal
          BY <2>4, <3>1, <4>2 DEF MoveRecord, SafeInv, WorkInv, MoveHolds
        <5> QED
          BY <3>3, <5>1, FirstStageHasOnePath
      <4> QED
        BY <2>4, <4>1, <4>2
    <3>5. CASE row[U] = "deleted"
      BY <1>1, <3>1, <3>5 DEF Passed
    <3>6. ASSUME NEW q \in locs[U], StageOf[p] <= StageOf[q] PROVE Passed(p)'
      <4>1. PICK x \in locs'[U] : StageOf[x] = goal
        BY <3>2
      <4>2. StageOf[p] <= StageOf[x]
        BY <3>3, <3>4, <3>6, <4>1, FirstStageHasOnePath
      <4> QED
        BY <1>1, <4>2 DEF Passed
    <3> QED
      BY <3>5, <3>6 DEF Passed
  <2>5. ASSUME cur = U, DeleteRecord PROVE Passed(p)'
    BY <1>1, <2>5 DEF DeleteRecord, Passed
  <2> QED
    BY <2>1, <2>2, <2>3, <2>4, <2>5, LedgerSteps
<1> QED
  BY <1>3, <1>4, <1>5 DEF Next

\* What a run takes from a place, it takes once the unit has passed it, and
\* then it puts nothing there.
LEMMA PassedPlace ==
    ASSUME FullInv, Next, UNCHANGED <<damages, edits>>, Sources \subseteq Members,
           row[U] # "none", NEW p \in Paths
    PROVE  /\ Whole(p) => Whole(p)' \/ Passed(p)'
           /\ ~Whole(p) /\ Passed(p) => ~Whole(p)'
<1> USE DEF FullInv, LockTypeInv, TypeInv, TypeOK, StoreTypeOK
<1> SUFFICES ASSUME Whole(p)' # Whole(p)
             PROVE  IF Whole(p) THEN Passed(p)' ELSE ~Passed(p)
  BY DEF Whole
<1>0. status[Wanted] = "success"
  BY SourcesOfOneJob DEF Members, Managed
<1>1. U \in Units /\ U' = U
  BY <1>0, WantedRecorded, RecordStays
<1>2. (RunStep \/ RunFault) /\ disk'[p][U] # disk[p][U]
  BY OthersPlace
<1>3. /\ pc \in Locking /\ U = cur /\ p \in work
      /\ pc = "commit" => disk'[p][U] = temp[p] /\ ~Exists(p, U)
      /\ pc # "commit" => disk'[p][U] \in Torn(disk[p][U])
  BY <1>1, <1>2, RunLeaves
<1>4. Listed(U) = locs[U] /\ locs[U] \subseteq Paths /\ goal \in Nat /\ StageOf \in [Paths -> Nat]
  BY <1>1, FirstStageHasOnePath DEF Listed, RunTypeOK
<1>5. /\ Whole(p) <=> disk[p][U].sound /\ Sources \subseteq disk[p][U].held
      /\ Whole(p)' <=> disk'[p][U].sound /\ Sources \subseteq disk'[p][U].held
  BY <1>1 DEF Whole
<1>6. CASE pc = "commit"
  <2>1. /\ StageOf[p] = goal /\ p \in mounted
        /\ \A q \in locs[U] : StageOf[q] < goal
    BY <1>3, <1>4, <1>6 DEF SafeInv, WorkInv, MoveHolds, PathsOf
  <2>2. ~Whole(p)
    BY <1>3, <1>5, <1>6, <2>1, SourcesOfOneJob DEF Exists, Nothing
  <2>3. row[U] # "deleted"
    BY <1>3, <1>6 DEF CurInTodo, Working, Locking, SafeInv, PassInv, PassInOrder
  <2> QED
    BY <1>4, <2>1, <2>2, <2>3 DEF Passed
<1>7. CASE pc # "commit"
  <2>1. Whole(p)
    <3>1. ~Whole(p)'
      BY <1>2, <1>3, <1>5, <1>7, SourcesOfOneJob DEF Torn, Rotten, Nothing, Copy
    <3> QED
      BY <3>1 DEF Whole
  <2>2. Passed(p)
    <3>1. CASE pc = "trim"
      BY <1>3, <1>4, <3>1 DEF SafeInv, WorkInv, TrimHolds, Leftovers, InStage, Passed
    <3>2. CASE pc = "clear"
      BY <1>3, <1>4, <3>2 DEF SafeInv, WorkInv, MoveHolds, PathsOf, Passed
    <3>3. CASE pc = "delete"
      BY <1>3, <1>4, <3>3 DEF SafeInv, WorkInv, DeleteHolds, Passed
    <3> QED
      BY <1>3, <1>7, <3>1, <3>2, <3>3 DEF Locking
  <2> QED
    BY <1>0, <2>1, <2>2, PassedStays
<1> QED
  BY <1>6, <1>7

----------------------------------------------------------------------------
(* The invariant, conjunct by conjunct.                                       *)

\* What a step of the restore finds, it leaves.
LEMMA RestoreFinds ==
    ASSUME Restore
    PROVE  /\ U' = U /\ UNCHANGED <<status, row, locs, quiet>>
           /\ \A p : /\ Whole(p)' = Whole(p)
                    /\ Usable(p)' = Usable(p) /\ Passed(p)' = Passed(p)
           /\ Listed(U)' = Listed(U) /\ Members' = Members
  BY RestoreLeaves DEF ledgerVars, U, Whole, Usable, Passed, Listed, Members, Managed

LEMMA RestoreTyped ==
    ASSUME TypeInv, RestoreTypeOK, AskedInv, Restore
    PROVE  RestoreTypeOK' /\ AskedInv'
<1> USE DEF RestoreTypeOK, AskedInv, Looking, Ended, Goes
<1>1. status[Wanted] = "success" => locs[U] \subseteq Paths
  BY WantedRecorded DEF TypeInv, TypeOK, StoreTypeOK
<1>2. U' = U /\ Members' = Members /\ UNCHANGED <<status, row, locs, quiet>>
  BY RestoreFinds
<1>3. CASE ReadLocations
  BY <1>1, <1>2, <1>3 DEF ReadLocations
<1>4. CASE ReadUnits \/ ReadMembers \/ ReadUnmanaged
  BY <1>2, <1>4, WantedIsABackup DEF ReadUnits, ReadMembers, ReadUnmanaged, IsManaged,
     Members, Managed, U
<1>5. ASSUME NEW p \in Paths, Skip(p) \/ PrepareLock(p) \/ VerifyArchive(p)
      PROVE  RestoreTypeOK' /\ AskedInv'
  BY <1>2, <1>5 DEF Skip, PrepareLock, VerifyArchive
<1>6. CASE PrepareVerify \/ PrepareRefused \/ PrepareDone
  BY <1>2, <1>6 DEF PrepareVerify, PrepareRefused, PrepareDone
<1>7. CASE Extract \/ ExtractDone \/ NoPlaceLeft \/ RestoreStop
  BY <1>2, <1>7 DEF Extract, ExtractDone, NoPlaceLeft, RestoreStop
<1> QED
  BY <1>3, <1>4, <1>5, <1>6, <1>7 DEF Restore

LEMMA RestoreQuiet ==
    ASSUME TypeInv, RestoreTypeOK, AskedInv, QuietInv, GivesUpForAReason, Restore
    PROVE  QuietInv' /\ GivesUpForAReason'
<1> USE DEF QuietInv, GivesUpForAReason, Looking, Known, Goes
<1>1. /\ U' = U /\ UNCHANGED <<status, row, locs, quiet>>
      /\ \A p : Usable(p)' = Usable(p) /\ Whole(p)' = Whole(p)
      /\ Listed(U)' = Listed(U) /\ Members' = Members
  BY RestoreFinds
<1>2. mounted' = mounted
  BY RestoreLeaves
<1> SUFFICES ASSUME quiet PROVE QuietInv' /\ GivesUpForAReason'
  BY <1>1
<1>3. CASE ReadLocations \/ ReadUnits \/ ReadUnmanaged
  BY <1>1, <1>3 DEF ReadLocations, ReadUnits, ReadUnmanaged
<1>4. CASE ReadMembers
  <2>1. row[U] \in {"none", "managed", "deleted"}
    BY <1>4, WantedRecorded DEF ReadMembers, AskedInv, TypeInv, TypeOK, StoreTypeOK
  <2> QED
    BY <1>1, <1>4, <2>1 DEF ReadMembers, IsManaged
<1>5. ASSUME NEW p \in Paths, Skip(p) PROVE QuietInv' /\ GivesUpForAReason'
  <2>1. ~Usable(p)
    BY <1>5, SourcesOfOneJob DEF Skip, PlaceAvailable, Usable, Whole
  <2> QED
    BY <1>1, <1>5, <2>1 DEF Skip
<1>6. ASSUME NEW p \in Paths, PrepareLock(p) PROVE QuietInv' /\ GivesUpForAReason'
  BY <1>1, <1>6 DEF PrepareLock
<1>7. ASSUME NEW p \in Paths, VerifyArchive(p) PROVE QuietInv' /\ GivesUpForAReason'
  BY <1>1, <1>7 DEF VerifyArchive, PlaceAvailable, Usable, Verified
<1>8. CASE PrepareVerify \/ PrepareDone \/ RestoreStop
  BY <1>1, <1>8 DEF PrepareVerify, PrepareDone, RestoreStop, AskedInv
<1>9. CASE PrepareRefused
  <2>1. reading = "locked" /\ place \in locs[U] /\ Listed(U) = locs[U] /\ IsChain
    BY <1>9 DEF PrepareRefused, Listed
  <2>2. Known => ~Usable(place)
    BY <1>9 DEF PrepareRefused, Verified, Usable
  <2>3. reading' = "failed" => ~Usable(place)
    BY <1>9 DEF PrepareRefused, Usable
  <2> QED
    BY <1>1, <1>9, <2>1, <2>2, <2>3 DEF PrepareRefused
<1>10. CASE Extract \/ ExtractDone
  <2>1. reading \in {"verified", "extracted"} /\ ~IsChain
    BY <1>10 DEF Extract, ExtractDone, AskedInv
  <2>2. Usable(place)
    BY <2>1
  <2>3. Exists(place, U) /\ StillAvailable
    BY <2>2, SourcesOfOneJob DEF Usable, Whole, Exists, Nothing, StillAvailable, PlaceAvailable
  <2> QED
    BY <1>1, <1>10, <2>1, <2>2, <2>3 DEF Extract, ExtractDone
<1>11. CASE NoPlaceLeft
  <2>1. /\ reading = "try" /\ read = {} /\ locs[U] # {} /\ Listed(U) = locs[U]
        /\ members = Members /\ \A p \in locs[U] : ~Known \/ ~Usable(p)
    BY <1>11 DEF NoPlaceLeft, Listed
  <2> QED
    BY <1>1, <1>11, <2>1 DEF NoPlaceLeft
<1> QED
  BY <1>3, <1>4, <1>5, <1>6, <1>7, <1>8, <1>9, <1>10, <1>11 DEF Restore

LEMMA RestoreHands ==
    ASSUME TypeInv, RestoreTypeOK, AskedInv, HandedInv, DeliversRecorded, Restore
    PROVE  HandedInv' /\ DeliversRecorded'
<1> USE DEF HandedInv, DeliversRecorded, Delivers, Known, Goes
<1>1. /\ U' = U /\ Members' = Members
      /\ \A p : Whole(p)' = Whole(p) /\ Passed(p)' = Passed(p)
      /\ \A p : Whole(p) <=> Delivers(disk[p][U])
  BY RestoreFinds DEF Whole
<1>2. ASSUME reading' \notin {"locked", "verified", "extracted", "done"}
      PROVE  HandedInv' /\ DeliversRecorded'
  BY <1>2
<1>3. CASE ReadLocations \/ ReadUnits \/ ReadMembers \/ ReadUnmanaged \/ NoPlaceLeft
           \/ RestoreStop \/ PrepareRefused \/ \E p \in Paths : Skip(p)
  BY <1>2, <1>3 DEF ReadLocations, ReadUnits, ReadMembers, ReadUnmanaged, NoPlaceLeft,
     RestoreStop, PrepareRefused, Skip
<1>4. ASSUME NEW p \in Paths, PrepareLock(p) PROVE HandedInv' /\ DeliversRecorded'
  <2>1. reading = "try" /\ SeriesOf[U] \in Series
    BY <1>4, WantedRecorded, WantedIsABackup, JobsOfBackups DEF PrepareLock, AskedInv
  <2>2. SeriesOf[U] \in Chained
    BY <1>4, <2>1, WantedRecorded DEF PrepareLock, IsChain, AskedInv
  <2>3. CASE reading' = "locked"
    <3>1. lock'[p][SeriesOf[U]] = Recovery
      BY <1>4, <2>1, <2>2, <2>3 DEF PrepareLock, Locked
    <3> QED
      BY <1>1, <1>4, <2>3, <3>1 DEF PrepareLock
  <2>4. CASE reading' # "locked"
    BY <1>2, <1>4, <2>4 DEF PrepareLock
  <2> QED
    BY <2>3, <2>4
<1>5. ASSUME NEW p \in Paths, VerifyArchive(p) PROVE HandedInv' /\ DeliversRecorded'
  BY <1>1, <1>5 DEF VerifyArchive, Verified
<1>6. CASE PrepareVerify
  BY <1>1, <1>6 DEF PrepareVerify, Verified
<1>7. CASE PrepareDone
  BY <1>1, <1>7 DEF PrepareDone, AskedInv, Looking
<1>8. CASE Extract
  BY <1>1, <1>8 DEF Extract
<1>9. CASE ExtractDone
  BY <1>1, <1>9 DEF ExtractDone, StillAvailable, AskedInv, Looking
<1> QED
  BY <1>3, <1>4, <1>5, <1>6, <1>7, <1>8, <1>9 DEF Restore

\* Nobody else leads a restore astray.
LEMMA OthersKeepRestore ==
    ASSUME FullInv, RestoreInv, Others PROVE RestoreInv'
<1> USE DEF RestoreInv
<1>1. /\ Next /\ UNCHANGED <<reading, read, found, members, place, bytes>>
      /\ quiet' = (reading = "idle" \/ (quiet /\ Unit' = Unit))
  BY DEF Others
<1>2. RestoreTypeOK'
  BY <1>1 DEF RestoreTypeOK
<1>3. CASE reading = "idle"
  BY <1>1, <1>2, <1>3 DEF AskedInv, QuietInv, HandedInv, DeliversRecorded,
     GivesUpForAReason, Looking
<1>4. CASE reading # "idle"
  <2>1. TypeInv /\ status[Wanted] = "success"
    BY <1>4 DEF FullInv, LockTypeInv, AskedInv
  <2>2. status'[Wanted] = "success" /\ U' = U /\ (row[U] # "none" => row'[U] # "none")
    BY <1>1, <2>1, RecordStays
  <2>3. Members \subseteq Members'
    BY <1>1, <2>1, MembersStay
  <2>4. AskedInv'
    BY <1>1, <2>2, <2>3 DEF AskedInv
  <2>5. QuietInv' /\ GivesUpForAReason'
    <3> SUFFICES ASSUME quiet' PROVE QuietInv' /\ GivesUpForAReason'
      BY DEF QuietInv, GivesUpForAReason
    <3>1. /\ quiet /\ UNCHANGED <<mounted, Members>> /\ locs'[U] = locs[U] /\ row'[U] = row[U]
          /\ \A p \in Paths : disk'[p][U] = disk[p][U]
      BY <1>1, <1>4, <2>2 DEF Unit
    <3>2. \A p \in Paths : Whole(p)' = Whole(p) /\ Usable(p)' = Usable(p)
      BY <2>2, <3>1 DEF Whole, Usable
    <3>3. locs[U] \subseteq Paths /\ Listed(U) \subseteq Paths /\ Listed(U)' = Listed(U)
      BY <2>1, <2>2, <3>1, WantedRecorded, FirstStageHasOnePath
         DEF TypeInv, TypeOK, StoreTypeOK, Listed
    <3>4. QuietInv'
      BY <1>1, <2>2, <3>1, <3>2, <3>3 DEF QuietInv, RestoreTypeOK, Known
    <3>5. GivesUpForAReason'
      BY <1>1, <2>2, <3>1, <3>2, <3>3 DEF GivesUpForAReason
    <3> QED
      BY <3>4, <3>5
  <2>6. DeliversRecorded'
    BY <1>1, <2>3 DEF DeliversRecorded
  <2>7. HandedInv'
    <3>1. place \in Paths /\ (reading \in Looking => row[U] # "none")
      BY DEF RestoreTypeOK, AskedInv
    <3>2. reading \in {"verified", "extracted"} => UNCHANGED <<damages, edits>>
      BY DEF Others
    <3>3. lock[place][SeriesOf[U]] = Recovery => lock'[place][SeriesOf[U]] = Recovery
      BY <1>1, <2>1, <3>1, RecoveryLockStays, WantedRecorded, WantedIsABackup, JobsOfBackups
    <3>4. reading \in {"verified", "extracted"} => Sources \subseteq Members
      BY DEF HandedInv, AskedInv, Looking, Known
    <3>5. CASE IsChain
      <4>1. reading = "verified" => Whole(place)' = Whole(place)
        BY <1>1, <3>1, <3>2, <3>5, <3>4, LockedPlace DEF HandedInv
      <4> QED
        BY <1>1, <2>2, <3>3, <3>5, <4>1 DEF HandedInv, AskedInv, Known
    <3>6. CASE ~IsChain
      <4> SUFFICES ASSUME reading \in {"verified", "extracted"} PROVE HandedInv'
        BY <1>1, <3>6 DEF HandedInv
      <4>1. row[U] # "none" /\ UNCHANGED <<damages, edits>>
        BY <3>1, <3>2 DEF Looking
      <4>2. /\ Passed(place) => Passed(place)'
            /\ Whole(place) => Whole(place)' \/ Passed(place)'
            /\ ~Whole(place) /\ Passed(place) => ~Whole(place)'
        BY <1>1, <2>1, <3>1, <3>4, <4>1, PassedStays, PassedPlace
      <4> QED
        BY <1>1, <3>6, <4>2 DEF HandedInv, Known
    <3> QED
      BY <3>5, <3>6
  <2> QED
    BY <1>2, <2>4, <2>5, <2>6, <2>7
<1> QED
  BY <1>3, <1>4

LEMMA RestoreInvHolds == RestoreSpec => [](FullInv /\ RestoreInv)
<1>1. RestoreInit => FullInv /\ RestoreInv
  <2> SUFFICES ASSUME RestoreInit PROVE FullInv /\ RestoreInv
    OBVIOUS
  <2>1. FullInv
    BY FullFromStart DEF RestoreInit
  <2>2. RestoreInv
    BY FirstStageHasOnePath DEF RestoreInit, RestoreInv, RestoreTypeOK, AskedInv, QuietInv,
       HandedInv, DeliversRecorded, GivesUpForAReason, Looking
  <2> QED
    BY <2>1, <2>2
<1>2. FullInv /\ RestoreInv /\ [RestoreNext]_allVars => FullInv' /\ RestoreInv'
  <2> SUFFICES ASSUME FullInv, RestoreInv, [RestoreNext]_allVars
               PROVE  FullInv' /\ RestoreInv'
    OBVIOUS
  <2>1. TypeInv /\ RestoreTypeOK /\ AskedInv
    BY DEF FullInv, LockTypeInv, RestoreInv
  <2>2. CASE Restore
    BY <2>1, <2>2, RestoreKeepsFull, RestoreTyped, RestoreQuiet, RestoreHands DEF RestoreInv
  <2>3. CASE Others
    BY <2>3, FullStays, OthersKeepRestore DEF Others
  <2>4. CASE UNCHANGED allVars
    <3>1. UNCHANGED vars /\ UNCHANGED restoreVars
      BY <2>4 DEF allVars
    <3>2. FullInv'
      BY <3>1, FullStays
    <3>3. RestoreInv'
      BY <3>1 DEF restoreVars, vars, storeVars, ledgerVars, RestoreInv, RestoreTypeOK,
         AskedInv, QuietInv, HandedInv, DeliversRecorded, GivesUpForAReason, Usable,
         Passed, Whole, Delivers, Listed, Known, Members, Managed, U
    <3> QED
      BY <3>2, <3>3
  <2> QED
    BY <2>2, <2>3, <2>4 DEF RestoreNext
<1> QED
  BY <1>1, <1>2, PTL DEF RestoreSpec

\* RestoreDelivers: a restore of a managed backup that finishes delivered the
\* recorded bytes of all it takes, and nothing GFS has no record of, whatever a
\* run moved, removed or tore in between.
THEOREM RestoreDelivers == RestoreSpec => []DeliversRecorded
<1>1. RestoreInv => DeliversRecorded
  BY DEF RestoreInv
<1> QED
  BY <1>1, RestoreInvHolds, PTL

\* RestoreGivesUp: when nobody touched the unit meanwhile, a restore finds no
\* place that verifies only where a source is no managed record or no listed copy
\* would do, or, for a chain, some listed copy is damaged or away.
THEOREM RestoreGivesUp == RestoreSpec => []GivesUpForAReason
<1>1. RestoreInv => GivesUpForAReason
  BY DEF RestoreInv
<1> QED
  BY <1>1, RestoreInvHolds, PTL

=============================================================================
