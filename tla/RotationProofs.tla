--------------------------- MODULE RotationProofs ---------------------------
(* The types and the inductive invariant of Rotation hold, and with them what *)
(* the rotation promises the engines and the backups, for every number of     *)
(* units, paths, backups and series.                                          *)
EXTENDS RotationInv, TLAPS

----------------------------------------------------------------------------
(* Types.                                                                     *)

\* The type invariant spelled out, for the provers.
USE DEF Holders, Copies, Phases, Sweeping, Locking, Working

\* A lock table stays one when a root is taken or given back.
LEMMA LockTypes ==
    ASSUME lock \in [Paths -> [Series -> Holders]]
    PROVE  /\ \A paths, s : \A h \in Holders :
                 Locked(paths, s, h) \in [Paths -> [Series -> Holders]]
           /\ \A h \in Holders : Unlocked(h) \in [Paths -> [Series -> Holders]]
BY DEF Locked, Unlocked

LEMMA NothingIsACopy == Nothing \in Copies
BY DEF Nothing

LEMMA CopyTypes ==
    ASSUME NEW held \in SUBSET Backups, NEW tmp \in SUBSET Backups,
           NEW sealed \in BOOLEAN, NEW sound \in BOOLEAN
    PROVE  Copy(held, tmp, sealed, sound) \in Copies
BY DEF Copy

\* One place on disk changes.
LEMMA PutTypes ==
    ASSUME disk \in [Paths -> [Units -> Copies]],
           NEW p \in Paths, NEW u \in Units, NEW c \in Copies, Put(p, u, c)
    PROVE  disk' \in [Paths -> [Units -> Copies]]
BY DEF Put

LEMMA TornTypes ==
    ASSUME NEW c \in Copies PROVE Torn(c) \subseteq Copies
<1>1. Rotten(c) \in Copies
  BY DEF Rotten, Copy
<1> QED
  BY <1>1, NothingIsACopy DEF Torn

THEOREM InitTypes == Init => TypeOK
<1> SUFFICES ASSUME Init PROVE TypeOK
  OBVIOUS
<1> USE InitialUnits, FirstStageHasOnePath, NothingIsACopy
<1>1. disk \in [Paths -> [Units -> Copies]]
  BY DEF Init, StoreInit, InitialBackups, Copy
<1>2. StoreTypeOK
  BY <1>1 DEF StoreTypeOK, Init, StoreInit
<1>3. JobTypeOK
  BY DEF JobTypeOK, Init, JobInit
<1>4. RunTypeOK
  BY DEF RunTypeOK, Init, RunInit, NoTemps, NoView, Unreported
<1> QED
  BY <1>2, <1>3, <1>4 DEF TypeOK, Init

----------------------------------------------------------------------------
\* A backup job keeps the store typed.
LEMMA JobTypes ==
    ASSUME StoreTypeOK, JobTypeOK, JobsInStep, JobNext
    PROVE  StoreTypeOK' /\ JobTypeOK'
<1> USE DEF StoreTypeOK, JobTypeOK
<1> PICK b \in Backups :
        \/ BackupBegin(b)
        \/ \E u \in Units : EngineStart(b, u)
        \/ EnginePublish(b)
        \/ EngineFinish(b)
        \/ RecordSuccess(b)
        \/ EngineFail(b)
        \/ BackupKilled(b)
        \/ MarkFailed(b)
  BY DEF JobNext
<1> USE LockTypes, FirstStageHasOnePath
<1>1. CASE BackupBegin(b)
  BY <1>1 DEF BackupBegin
<1>2. ASSUME NEW u \in Units, EngineStart(b, u) PROVE StoreTypeOK' /\ JobTypeOK'
  <2>1. Pending(disk[First][u], b) \in Copies
    BY DEF Pending, Copy
  <2>2. disk' \in [Paths -> [Units -> Copies]]
    BY <1>2, <2>1, PutTypes DEF EngineStart
  <2>3. lock' \in [Paths -> [Series -> Holders]]
    BY <1>2 DEF EngineStart
  <2> QED
    BY <1>2, <2>2, <2>3 DEF EngineStart
<1>3. CASE EnginePublish(b)
  <2>1. PICK u \in Units \cup {0} : u = unitOf[b]
    OBVIOUS
  <2>2. u # 0 => Published(disk[First][u], b) \in Copies
    BY DEF Published, Copy
  <2>3. disk' \in [Paths -> [Units -> Copies]]
    BY <1>3, <2>1, <2>2, PutTypes DEF EnginePublish, JobsInStep, Writing
  <2> QED
    BY <1>3, <2>3 DEF EnginePublish, ledgerVars
<1>4. CASE EngineFinish(b)
  <2>1. PICK u \in Units \cup {0} : u = unitOf[b]
    OBVIOUS
  <2>2. u # 0 => Sealed(disk[First][u]) \in Copies
    BY DEF Sealed, Copy
  <2>3. disk' \in [Paths -> [Units -> Copies]]
    BY <1>4, <2>1, <2>2, PutTypes DEF EngineFinish, JobsInStep, Writing
  <2>4. lock' \in [Paths -> [Series -> Holders]]
    BY <1>4 DEF EngineFinish
  <2> QED
    BY <1>4, <2>3, <2>4 DEF EngineFinish, ledgerVars
<1>5. CASE RecordSuccess(b)
  BY <1>5 DEF RecordSuccess
<1>6. CASE EngineFail(b)
  <2>1. PICK u \in Units \cup {0} : u = unitOf[b]
    OBVIOUS
  <2>2. u # 0 => Cleaned(disk[First][u], b) \in Copies
    BY DEF Cleaned, Copy
  <2>3. disk' \in [Paths -> [Units -> Copies]]
    BY <1>6, <2>1, <2>2, PutTypes DEF EngineFail
  <2>4. lock' \in [Paths -> [Series -> Holders]]
    BY <1>6 DEF EngineFail
  <2> QED
    BY <1>6, <2>3, <2>4 DEF EngineFail
<1>7. CASE BackupKilled(b)
  BY <1>7 DEF BackupKilled, ledgerVars
<1>8. CASE MarkFailed(b)
  BY <1>8 DEF MarkFailed
<1> QED
  BY <1>1, <1>2, <1>3, <1>4, <1>5, <1>6, <1>7, <1>8

\* The row of an attempt follows its process.
LEMMA JobSteps ==
    ASSUME StoreTypeOK, JobTypeOK, JobsInStep, JobNext
    PROVE  JobsInStep'
<1> USE DEF StoreTypeOK, JobTypeOK, JobsInStep, Writing
<1> SUFFICES ASSUME NEW b \in Backups,
                    \/ BackupBegin(b)
                    \/ \E u \in Units : EngineStart(b, u)
                    \/ EnginePublish(b)
                    \/ EngineFinish(b)
                    \/ RecordSuccess(b)
                    \/ EngineFail(b)
                    \/ BackupKilled(b)
                    \/ MarkFailed(b)
             PROVE  JobsInStep'
  BY DEF JobNext
<1>1. CASE BackupBegin(b)
  BY <1>1 DEF BackupBegin
<1>2. ASSUME NEW u \in Units, EngineStart(b, u) PROVE JobsInStep'
  BY <1>2, UnitsAreNumbers DEF EngineStart, MayWrite
<1>3. CASE EnginePublish(b)
  BY <1>3 DEF EnginePublish, ledgerVars
<1>4. CASE EngineFinish(b)
  BY <1>4 DEF EngineFinish, ledgerVars
<1>5. CASE RecordSuccess(b)
  BY <1>5 DEF RecordSuccess
<1>6. CASE EngineFail(b)
  BY <1>6 DEF EngineFail
<1>7. CASE BackupKilled(b)
  BY <1>7 DEF BackupKilled, ledgerVars
<1>8. CASE MarkFailed(b)
  BY <1>8 DEF MarkFailed
<1> QED
  BY <1>1, <1>2, <1>3, <1>4, <1>5, <1>6, <1>7, <1>8

----------------------------------------------------------------------------
(* The run.                                                                   *)

Results == {"none", "stayed", "held", "moved", "deleted", "deferred",
            "refused", "failed"}

\* The variables Settle and Proceed leave to their actions.
RestTyped ==
    /\ disk \in [Paths -> [Units -> Copies]]
    /\ row \in [Units -> {"none", "managed", "deleted"}]
    /\ locs \in [Units -> SUBSET Paths]
    /\ placed \subseteq Units /\ where \in [Units -> Int]

LEMMA SettleTypes ==
    ASSUME StoreTypeOK, RunTypeOK, NEW u \in Units, NEW result \in Results,
           Settle(u, result), RestTyped',
           pc' \in {"idle", "judge", "busy", "sweep", "act", "snapshot"} \cup Working
    PROVE  StoreTypeOK' /\ RunTypeOK'
<1> USE DEF StoreTypeOK, RunTypeOK, RestTyped
<1>1. lock' \in [Paths -> [Series -> Holders]]
  BY LockTypes DEF Settle
<1>2. temp' \in [Paths -> Copies] /\ source' \in Paths /\ goal' \in Nat
  BY NothingIsACopy, FirstStageHasOnePath DEF Settle, NoTemps
<1> QED
  BY <1>1, <1>2 DEF Settle, Results

LEMMA ProceedTypes ==
    ASSUME StoreTypeOK, RunTypeOK, NEW step \in Working, Proceed(step), RestTyped',
           lock' \in [Paths -> [Series -> Holders]],
           cur' \in Units \cup {0}, goal' \in Nat, source' \in Paths,
           work' \subseteq Paths, temp' \in [Paths -> Copies]
    PROVE  StoreTypeOK' /\ RunTypeOK'
BY DEF StoreTypeOK, RunTypeOK, RestTyped, Proceed

LEMMA StagesAreNumbers == Stages \subseteq Nat
BY FirstStageHasOnePath DEF Stages

LEMMA RowTypes ==
    ASSUME StoreTypeOK, NEW u \in Units, EnsureRow(u)
    PROVE  /\ row' \in [Units -> {"none", "managed", "deleted"}]
           /\ locs' \in [Units -> SUBSET Paths]
<1>1. row' \in [Units -> {"none", "managed", "deleted"}]
  BY DEF StoreTypeOK, EnsureRow
<1>2. {First} \in SUBSET Paths
  BY FirstStageHasOnePath
<1>3. locs' \in [Units -> SUBSET Paths]
  BY <1>2 DEF StoreTypeOK, EnsureRow
<1> QED
  BY <1>1, <1>3

LEMMA SweepTypes ==
    ASSUME StoreTypeOK, RunTypeOK, CurInTodo, Sweep
    PROVE  StoreTypeOK' /\ RunTypeOK'
<1> DEFINE Typed == StoreTypeOK' /\ RunTypeOK'
<1> SUFFICES Typed
  OBVIOUS
<1> USE StagesAreNumbers
<1>0. RestTyped
  BY DEF StoreTypeOK, RunTypeOK, RestTyped
<1>1. ASSUME NEW u \in Units, SweepDefer(u) PROVE Typed
  <2>1. RestTyped'
    BY <1>0, <1>1 DEF SweepDefer, RestTyped
  <2> QED
    BY <1>1, <2>1, SettleTypes DEF SweepDefer, Results, RunTypeOK
<1>2. ASSUME NEW u \in Units, SweepRefuse(u) PROVE Typed
  <2>1. RestTyped'
    BY <1>0, <1>2 DEF SweepRefuse, RestTyped
  <2> QED
    BY <1>2, <2>1, SettleTypes DEF SweepRefuse, Results, RunTypeOK
<1>3. ASSUME NEW u \in Units, NEW stage \in Stages, SweepPlace(u, stage) PROVE Typed
  BY <1>3 DEF SweepPlace, StoreTypeOK, RunTypeOK, storeVars, ledgerVars
<1>4. ASSUME NEW u \in Units, NEW stage \in Stages, SweepInterrupted(u, stage)
      PROVE  Typed
  <2>1. RestTyped'
    BY <1>0, <1>4 DEF SweepInterrupted, RestTyped
  <2>2. CASE Proceed("keep") /\ cur' = u /\ goal' = stage
             /\ UNCHANGED <<lock, source, work, temp>>
    BY <2>1, <2>2, ProceedTypes DEF StoreTypeOK, RunTypeOK
  <2>3. CASE Settle(u, "refused") /\ UNCHANGED pc
    BY <2>1, <2>3, SettleTypes DEF Results, RunTypeOK
  <2> QED
    BY <1>4, <2>2, <2>3 DEF SweepInterrupted
<1>5. CASE TrimLock
  <2> cur \in Units
    BY <1>5 DEF TrimLock, CurInTodo, RunTypeOK
  <2>1. RestTyped'
    BY <1>0, <1>5 DEF TrimLock, RestTyped
  <2>2. CASE /\ Proceed("trim")
             /\ lock' = Locked(Leftovers(cur, goal), SeriesOf[cur], Gfs)
             /\ work' = Leftovers(cur, goal)
             /\ UNCHANGED <<cur, goal, source, temp>>
    <3>1. Leftovers(cur, goal) \subseteq Paths
      BY FirstStageHasOnePath DEF Leftovers, Listed, StoreTypeOK
    <3> QED
      BY <2>1, <2>2, <3>1, LockTypes, ProceedTypes DEF StoreTypeOK, RunTypeOK
  <2>3. CASE Settle(cur, "deferred") /\ pc' = "sweep"
    BY <2>1, <2>3, SettleTypes DEF Results
  <2> QED
    BY <1>5, <2>2, <2>3 DEF TrimLock
<1>6. CASE TrimRecord
  <2> cur \in Units
    BY <1>6 DEF TrimRecord, CurInTodo, RunTypeOK
  <2>1. RestTyped'
    BY <1>0, <1>6 DEF TrimRecord, RestTyped
  <2> QED
    BY <1>6, <2>1, SettleTypes DEF TrimRecord, Results
<1>7. ASSUME NEW p \in Paths, TrimRemove(p) PROVE Typed
  <2> cur \in Units
    BY <1>7 DEF TrimRemove, CurInTodo, RunTypeOK
  <2>1. disk' \in [Paths -> [Units -> Copies]]
    BY <1>0, <1>7, NothingIsACopy, PutTypes DEF TrimRemove, RestTyped
  <2>2. RestTyped'
    BY <1>0, <1>7, <2>1 DEF TrimRemove, RestTyped
  <2>3. CASE /\ Proceed("trim") /\ work' = work \ {p}
             /\ UNCHANGED <<cur, goal, source, temp, lock>>
    BY <2>2, <2>3, ProceedTypes DEF StoreTypeOK, RunTypeOK
  <2>4. CASE Settle(cur, "refused") /\ pc' = "sweep"
    BY <2>2, <2>4, SettleTypes DEF Results
  <2> QED
    BY <1>7, <2>3, <2>4 DEF TrimRemove
<1> HIDE DEF Typed
<1> QED
  BY <1>1, <1>2, <1>3, <1>4, <1>5, <1>6, <1>7 DEF Sweep

LEMMA ActTypes ==
    ASSUME StoreTypeOK, RunTypeOK, CurInTodo, Act
    PROVE  StoreTypeOK' /\ RunTypeOK'
<1> DEFINE Typed == StoreTypeOK' /\ RunTypeOK'
<1> SUFFICES Typed
  OBVIOUS
<1>0. RestTyped
  BY DEF StoreTypeOK, RunTypeOK, RestTyped
<1>a. \A u \in Units : Listed(u) \subseteq Paths
  BY FirstStageHasOnePath DEF Listed, StoreTypeOK
<1>b. \A stage : PathsOf(stage) \subseteq Paths
  BY DEF PathsOf
<1>1. ASSUME NEW u \in Units, ActStay(u) PROVE Typed
  <2>1. RestTyped'
    BY <1>0, <1>1, RowTypes DEF ActStay, RestTyped
  <2> QED
    BY <1>1, <2>1, SettleTypes DEF ActStay, Results, RunTypeOK
<1>2. ASSUME NEW u \in Units, ActHold(u) PROVE Typed
  <2>1. RestTyped'
    BY <1>0, <1>2 DEF ActHold, RestTyped
  <2> QED
    BY <1>2, <2>1, SettleTypes DEF ActHold, Results, RunTypeOK
<1>3. ASSUME NEW u \in Units, DeleteStart(u) PROVE Typed
  <2>1. RestTyped'
    BY <1>0, <1>3 DEF DeleteStart, RestTyped
  <2>2. CASE Proceed("condemn") /\ cur' = u
             /\ UNCHANGED <<lock, goal, source, work, temp>>
    BY <2>1, <2>2, ProceedTypes DEF StoreTypeOK, RunTypeOK
  <2>3. CASE Settle(u, "refused") /\ UNCHANGED pc
    BY <2>1, <2>3, SettleTypes DEF Results, RunTypeOK
  <2> QED
    BY <1>3, <2>2, <2>3 DEF DeleteStart
<1>4. ASSUME NEW u \in Units, NEW stage \in Stages, NEW from \in Paths,
             MoveStart(u, stage, from)
      PROVE  Typed
  <2>1. RestTyped'
    BY <1>0, <1>4 DEF MoveStart, RestTyped
  <2>2. CASE /\ Proceed("copy")
             /\ cur' = u /\ goal' = stage /\ source' = from
             /\ work' = PathsOf(stage)
             /\ UNCHANGED <<lock, temp>>
    <3>1. stage \in Nat
      BY StagesAreNumbers
    <3> QED
      BY <1>b, <2>1, <2>2, <3>1, ProceedTypes DEF StoreTypeOK, RunTypeOK
  <2>3. CASE Settle(u, "refused") /\ UNCHANGED pc
    BY <2>1, <2>3, SettleTypes DEF Results, RunTypeOK
  <2> QED
    BY <1>4, <2>2, <2>3 DEF MoveStart
<1>5. CASE MoveLock
  <2> cur \in Units
    BY <1>5 DEF MoveLock, CurInTodo, RunTypeOK
  <2>1. RestTyped'
    BY <1>0, <1>5 DEF MoveLock, RestTyped
  <2>2. CASE /\ Proceed("commit")
             /\ lock' = Locked(Listed(cur) \cup PathsOf(goal), SeriesOf[cur], Gfs)
             /\ work' = PathsOf(goal)
             /\ UNCHANGED <<cur, goal, source, temp>>
    BY <1>b, <2>1, <2>2, LockTypes, ProceedTypes DEF StoreTypeOK, RunTypeOK
  <2>3. CASE Settle(cur, "deferred") /\ pc' = "act"
    BY <2>1, <2>3, SettleTypes DEF Results
  <2> QED
    BY <1>5, <2>2, <2>3 DEF MoveLock
<1>6. CASE MoveEnsureRow
  <2> cur \in Units
    BY <1>6 DEF MoveEnsureRow, CurInTodo, RunTypeOK
  <2>1. RestTyped'
    BY <1>0, <1>6, RowTypes DEF MoveEnsureRow, RestTyped
  <2> QED
    BY <1>6, <2>1, ProceedTypes DEF MoveEnsureRow, StoreTypeOK, RunTypeOK
<1>7. CASE MoveRecord
  <2> cur \in Units
    BY <1>7 DEF MoveRecord, CurInTodo, RunTypeOK
  <2>1. RestTyped'
    BY <1>0, <1>7, <1>b DEF MoveRecord, RestTyped
  <2>2. work' \subseteq Paths
    BY <1>7 DEF MoveRecord, StoreTypeOK
  <2> QED
    BY <1>7, <2>1, <2>2, ProceedTypes DEF MoveRecord, StoreTypeOK, RunTypeOK
<1>8. CASE MoveDone
  <2> cur \in Units
    BY <1>8 DEF MoveDone, CurInTodo, RunTypeOK
  <2>1. RestTyped'
    BY <1>0, <1>8 DEF MoveDone, RestTyped, RunTypeOK
  <2> QED
    BY <1>8, <2>1, SettleTypes DEF MoveDone, Results
<1>9. CASE DeleteLock
  <2> cur \in Units
    BY <1>9 DEF DeleteLock, CurInTodo, RunTypeOK
  <2>1. RestTyped'
    BY <1>0, <1>9, RowTypes DEF DeleteLock, RestTyped
  <2>2. CASE /\ Proceed("delete")
             /\ lock' = Locked(Listed(cur), SeriesOf[cur], Gfs)
             /\ work' = Listed(cur)
             /\ UNCHANGED <<cur, goal, source, temp>>
    BY <1>a, <2>1, <2>2, LockTypes, ProceedTypes DEF StoreTypeOK, RunTypeOK
  <2>3. CASE Settle(cur, "deferred") /\ pc' = "act"
    BY <2>1, <2>3, SettleTypes DEF Results
  <2> QED
    BY <1>9, <2>2, <2>3 DEF DeleteLock
<1>10. CASE DeleteRecord
  <2> cur \in Units
    BY <1>10 DEF DeleteRecord, CurInTodo, RunTypeOK
  <2>1. RestTyped'
    BY <1>0, <1>10 DEF DeleteRecord, RestTyped, Gone
  <2> QED
    BY <1>10, <2>1, SettleTypes DEF DeleteRecord, Results
<1>11. ASSUME NEW p \in Paths, MoveCopy(p) PROVE Typed
  <2> cur \in Units
    BY <1>11 DEF MoveCopy, CurInTodo, RunTypeOK
  <2>1. RestTyped'
    BY <1>0, <1>11 DEF MoveCopy, RestTyped
  <2>2. CASE /\ Proceed("copy")
             /\ temp' = [temp EXCEPT ![p] = disk[source][cur]]
             /\ work' = work \ {p}
             /\ UNCHANGED <<lock, cur, goal, source>>
    BY <2>1, <2>2, ProceedTypes DEF StoreTypeOK, RunTypeOK
  <2>3. CASE Settle(cur, "refused") /\ pc' = "act"
    BY <2>1, <2>3, SettleTypes DEF Results
  <2> QED
    BY <1>11, <2>2, <2>3 DEF MoveCopy
<1>12. ASSUME NEW p \in Paths, MoveRename(p) PROVE Typed
  <2> cur \in Units
    BY <1>12 DEF MoveRename, CurInTodo, RunTypeOK
  <2>1. CASE /\ Proceed("commit")
             /\ Put(p, cur, temp[p])
             /\ temp' = [temp EXCEPT ![p] = Nothing]
             /\ work' = work \ {p}
             /\ UNCHANGED <<lock, cur, goal, source>>
    <3>1. disk' \in [Paths -> [Units -> Copies]]
      BY <1>0, <2>1, PutTypes DEF RestTyped, RunTypeOK
    <3>2. RestTyped'
      BY <1>0, <1>12, <3>1 DEF MoveRename, RestTyped
    <3> QED
      BY <2>1, <3>2, NothingIsACopy, ProceedTypes DEF StoreTypeOK, RunTypeOK
  <2>2. CASE Settle(cur, "refused") /\ pc' = "act" /\ UNCHANGED disk
    <3>1. RestTyped'
      BY <1>0, <1>12, <2>2 DEF MoveRename, RestTyped
    <3> QED
      BY <2>2, <3>1, SettleTypes DEF Results
  <2> QED
    BY <1>12, <2>1, <2>2 DEF MoveRename
<1>13. ASSUME NEW p \in Paths, MoveRemove(p) \/ DeleteRemove(p) PROVE Typed
  <2> cur \in Units
    BY <1>13 DEF MoveRemove, DeleteRemove, CurInTodo, RunTypeOK
  <2>1. disk' \in [Paths -> [Units -> Copies]]
    BY <1>0, <1>13, NothingIsACopy, PutTypes DEF MoveRemove, DeleteRemove, RestTyped
  <2>2. RestTyped'
    BY <1>0, <1>13, <2>1 DEF MoveRemove, DeleteRemove, RestTyped
  <2> QED
    BY <1>13, <2>2, ProceedTypes
       DEF MoveRemove, DeleteRemove, StoreTypeOK, RunTypeOK
<1> HIDE DEF Typed
<1> QED
  BY <1>1, <1>2, <1>3, <1>4, <1>5, <1>6, <1>7, <1>8, <1>9, <1>10, <1>11,
     <1>12, <1>13 DEF Act


LEMMA StepTypes ==
    ASSUME StoreTypeOK, RunTypeOK, CurInTodo, RunStep
    PROVE  StoreTypeOK' /\ RunTypeOK'
<1> USE DEF StoreTypeOK, RunTypeOK, storeVars, ledgerVars, passVars, reportVars
<1>1. CASE RunBegin
  <2>1. view' \in [Backups -> {"no", "managed", "unmanaged"}]
    BY <1>1 DEF RunBegin
  <2>2. where' \in [Units -> Int]
    BY <1>1 DEF RunBegin, Unreported
  <2> QED
    BY <1>1, <2>1, <2>2 DEF RunBegin
<1>2. CASE RunJudge
  BY <1>2 DEF RunJudge
<1>3. CASE RunReadBusy
  BY <1>3, JobsOfBackups DEF RunReadBusy
<1>4. CASE Sweep
  BY <1>4, SweepTypes
<1>5. CASE RunDecide
  BY <1>5 DEF RunDecide
<1>6. CASE Act
  BY <1>6, ActTypes
<1>7. CASE RunFinish
  <2>1. exit' \in {0, 1, 3}
    BY <1>7 DEF RunFinish, ExitCode
  <2> QED
    BY <1>7, <2>1 DEF RunFinish, NoView
<1>8. CASE RunSnapshot
  BY <1>8 DEF RunSnapshot
<1> QED
  BY <1>1, <1>2, <1>3, <1>4, <1>5, <1>6, <1>7, <1>8 DEF RunStep

LEMMA TearTypes ==
    ASSUME StoreTypeOK, RunTypeOK, CurInTodo, Tear
    PROVE  disk' \in [Paths -> [Units -> Copies]]
<1>1. ASSUME NEW p \in work, NEW left \in Torn(disk[p][cur]),
             pc \in {"trim", "clear", "delete"}, Put(p, cur, left)
      PROVE  disk' \in [Paths -> [Units -> Copies]]
  <2>1. cur \in Units /\ p \in Paths /\ disk[p][cur] \in Copies
    BY <1>1 DEF CurInTodo, RunTypeOK, StoreTypeOK
  <2> QED
    BY <1>1, <2>1, TornTypes, PutTypes DEF StoreTypeOK
<1> QED
  BY <1>1 DEF Tear, StoreTypeOK

LEMMA FaultTypes ==
    ASSUME StoreTypeOK, RunTypeOK, CurInTodo, RunFault
    PROVE  StoreTypeOK' /\ RunTypeOK'
<1>1. CASE ActFail
  <2>1. RestTyped'
    BY <1>1, TearTypes DEF ActFail, RestTyped, StoreTypeOK, RunTypeOK
  <2>2. CASE pc \in {"copy", "commit", "clear", "condemn", "delete"}
             /\ Settle(cur, "failed")
    <3>1. cur \in Units
      BY <2>2 DEF CurInTodo, RunTypeOK
    <3> QED
      BY <1>1, <2>1, <2>2, <3>1, SettleTypes DEF ActFail, Results
  <2>3. ASSUME NEW u \in todo, Settle(u, "failed")
        PROVE  StoreTypeOK' /\ RunTypeOK'
    <3>1. u \in Units
      BY DEF RunTypeOK
    <3> QED
      BY <1>1, <2>1, <2>3, <3>1, SettleTypes DEF ActFail, Results
  <2> QED
    BY <1>1, <2>2, <2>3 DEF ActFail
<1>2. CASE SnapshotFail
  BY <1>2 DEF SnapshotFail, StoreTypeOK, RunTypeOK, storeVars, ledgerVars, passVars
<1>3. CASE RunStop
  <2>1. disk' \in [Paths -> [Units -> Copies]]
    BY <1>3, TearTypes DEF RunStop
  <2>2. lock' \in [Paths -> [Series -> Holders]]
    BY <1>3, LockTypes DEF RunStop, StoreTypeOK
  <2>3. temp' \in [Paths -> Copies] /\ source' \in Paths /\ goal' \in Nat
    BY <1>3, NothingIsACopy, FirstStageHasOnePath DEF RunStop, NoTemps
  <2>4. where' \in [Units -> Int]
    BY <1>3 DEF RunStop, Unreported
  <2>5. StoreTypeOK'
    BY <1>3, <2>1, <2>2 DEF RunStop, StoreTypeOK, ledgerVars
  <2>6. RunTypeOK'
    BY <1>3, <2>3, <2>4 DEF RunStop, RunTypeOK, NoView
  <2> QED
    BY <2>5, <2>6
<1> QED
  BY <1>1, <1>2, <1>3 DEF RunFault

----------------------------------------------------------------------------
\* A run works on a unit of its pass.
LEMMA StepsInTodo ==
    ASSUME RunTypeOK, CurInTodo, RunStep \/ RunFault
    PROVE  CurInTodo'
<1> USE DEF RunTypeOK, CurInTodo
<1>1. CASE RunBegin \/ RunJudge \/ RunReadBusy \/ RunDecide \/ RunFinish \/ RunSnapshot
  BY <1>1 DEF RunBegin, RunJudge, RunReadBusy, RunDecide, RunFinish, RunSnapshot
<1>2. CASE Sweep
  BY <1>2 DEF Sweep, SweepDefer, SweepRefuse, SweepPlace, SweepInterrupted,
     TrimLock, TrimRemove, TrimRecord, Settle, Proceed, Turn
<1>3. CASE Act
  <2>1. ASSUME NEW u \in Units, ActStay(u) \/ ActHold(u) \/ DeleteStart(u)
        PROVE  CurInTodo'
    BY <2>1 DEF ActStay, ActHold, DeleteStart, Settle, Proceed, Turn
  <2>2. ASSUME NEW u \in Units, NEW stage \in Stages, NEW from \in Paths,
               MoveStart(u, stage, from)
        PROVE  CurInTodo'
    BY <2>2 DEF MoveStart, Settle, Proceed, Turn
  <2>3. CASE MoveLock \/ MoveEnsureRow \/ MoveRecord \/ MoveDone
    BY <2>3 DEF MoveLock, MoveEnsureRow, MoveRecord, MoveDone, Settle, Proceed
  <2>4. CASE DeleteLock \/ DeleteRecord
    BY <2>4 DEF DeleteLock, DeleteRecord, Settle, Proceed
  <2>5. ASSUME NEW p \in Paths,
               MoveCopy(p) \/ MoveRename(p) \/ MoveRemove(p) \/ DeleteRemove(p)
        PROVE  CurInTodo'
    BY <2>5 DEF MoveCopy, MoveRename, MoveRemove, DeleteRemove, Settle, Proceed
  <2> QED
    BY <1>3, <2>1, <2>2, <2>3, <2>4, <2>5 DEF Act
<1>4. CASE RunFault
  BY <1>4 DEF RunFault, ActFail, SnapshotFail, RunStop, Settle
<1> QED
  BY <1>1, <1>2, <1>3, <1>4 DEF RunStep

\* Only the jobs write backup_runs.
LEMMA UnitsStay ==
    ASSUME RunStep \/ RunFault PROVE UNCHANGED <<status, unitOf>>
<1> USE DEF storeVars, ledgerVars
<1>1. CASE RunBegin \/ RunJudge \/ RunReadBusy \/ RunDecide \/ RunFinish \/ RunSnapshot
  BY <1>1 DEF RunBegin, RunJudge, RunReadBusy, RunDecide, RunFinish, RunSnapshot
<1>2. CASE Sweep
  BY <1>2 DEF Sweep, SweepDefer, SweepRefuse, SweepPlace, SweepInterrupted,
     TrimLock, TrimRemove, TrimRecord, Settle, Proceed
<1>3. CASE Act
  BY <1>3 DEF Act, ActStay, ActHold, DeleteStart, MoveStart, MoveLock,
     MoveEnsureRow, MoveRecord, MoveDone, DeleteLock, DeleteRecord,
     MoveCopy, MoveRename, MoveRemove, DeleteRemove, Settle, Proceed
<1>4. CASE RunFault
  BY <1>4 DEF RunFault, ActFail, SnapshotFail, RunStop, Settle
<1> QED
  BY <1>1, <1>2, <1>3, <1>4 DEF RunStep

LEMMA EnvironmentTypes ==
    ASSUME TypeOK, Environment
    PROVE  TypeOK' /\ UNCHANGED <<phase, runVars>>
<1> USE DEF TypeOK, StoreTypeOK, JobTypeOK, RunTypeOK, ledgerVars, countVars,
            runVars, passVars, reportVars
<1>1. ASSUME NEW p \in Paths, NEW u \in Units, Damage(p, u)
      PROVE  TypeOK' /\ UNCHANGED <<phase, runVars>>
  <2>1. Rotten(disk[p][u]) \in Copies
    BY DEF Rotten, Copy
  <2>2. disk' \in [Paths -> [Units -> Copies]]
    BY <1>1, <2>1, NothingIsACopy, PutTypes DEF Damage
  <2> QED
    BY <1>1, <2>2 DEF Damage
<1>2. CASE Remount
  BY <1>2, BoundsAreNumbers DEF Remount
<1>3. ASSUME NEW p \in Prepared, NEW s \in Series, PrepareBegin(p, s) \/ PrepareEnd(p, s)
      PROVE  TypeOK' /\ UNCHANGED <<phase, runVars>>
  <2>1. lock' \in [Paths -> [Series -> Holders]]
    BY <1>3, LockTypes DEF PrepareBegin, PrepareEnd
  <2> QED
    BY <1>3, <2>1 DEF PrepareBegin, PrepareEnd
<1>4. CASE Edit
  <2> PICK p \in Paths, u \in Units :
          \/ /\ locs' = [locs EXCEPT ![u] = @ \ {p}]
             /\ UNCHANGED <<disk, row>>
          \/ /\ row' = [row EXCEPT ![u] = "deleted"]
             /\ UNCHANGED <<disk, locs>>
          \/ /\ Put(p, u, Nothing)
             /\ UNCHANGED <<row, locs>>
          \/ /\ locs' = [locs EXCEPT ![u] = @ \cup {p}]
             /\ UNCHANGED <<disk, row>>
    BY <1>4 DEF Edit
  <2>1. disk' \in [Paths -> [Units -> Copies]]
    BY NothingIsACopy, PutTypes
  <2>2. row' \in [Units -> {"none", "managed", "deleted"}]
    OBVIOUS
  <2>3. locs[u] \ {p} \subseteq Paths /\ locs[u] \cup {p} \subseteq Paths
    OBVIOUS
  <2>4. locs' \in [Units -> SUBSET Paths]
    BY <2>3
  <2> QED
    BY <1>4, <2>1, <2>2, <2>4 DEF Edit
<1> HIDE DEF TypeOK, StoreTypeOK, JobTypeOK, RunTypeOK, ledgerVars, countVars,
            runVars, passVars, reportVars
<1> QED
  BY <1>1, <1>2, <1>3, <1>4 DEF Environment

\* What a step needs to know to be typed, and leaves true.
TypeInv == TypeOK /\ JobsInStep /\ CurInTodo

LEMMA TypeStays == ASSUME TypeInv, [Next]_vars PROVE TypeInv'
<1> USE DEF TypeInv, TypeOK
<1>1. CASE Jobs
  BY <1>1, JobTypes, JobSteps
     DEF Jobs, runVars, passVars, reportVars, countVars, RunTypeOK, CurInTodo
<1>2. CASE Run
  <2>1. StoreTypeOK' /\ RunTypeOK' /\ CurInTodo'
    BY <1>2, StepTypes, StepsInTodo DEF Run
  <2>2. JobTypeOK' /\ JobsInStep'
    BY <1>2, UnitsStay DEF Run, JobTypeOK, JobsInStep
  <2> QED
    BY <1>2, <2>1, <2>2 DEF Run, countVars
<1>3. CASE Fault
  <2>1. StoreTypeOK' /\ RunTypeOK' /\ CurInTodo'
    BY <1>3, FaultTypes, StepsInTodo DEF Fault
  <2>2. JobTypeOK' /\ JobsInStep'
    BY <1>3, UnitsStay DEF Fault, JobTypeOK, JobsInStep
  <2> QED
    BY <1>3, <2>1, <2>2 DEF Fault
<1>4. CASE Environment
  <2>1. TypeOK' /\ UNCHANGED <<phase, runVars>>
    BY <1>4, EnvironmentTypes
  <2>2. UNCHANGED <<status, unitOf>>
    BY <1>4 DEF Environment, Damage, Remount, PrepareBegin, PrepareEnd, Edit, ledgerVars
  <2> QED
    BY <2>1, <2>2 DEF JobsInStep, CurInTodo, runVars
<1>5. CASE UNCHANGED vars
  BY <1>5 DEF vars, storeVars, ledgerVars, runVars, passVars, reportVars,
     countVars, StoreTypeOK, JobTypeOK, RunTypeOK, JobsInStep, CurInTodo
<1> QED
  BY <1>1, <1>2, <1>3, <1>4, <1>5 DEF Next

LEMMA TypeFromStart == Init => TypeInv
<1> SUFFICES ASSUME Init PROVE TypeInv
  OBVIOUS
<1>1. JobsInStep
  BY InitialUnits, UnitsAreNumbers
     DEF Init, StoreInit, JobInit, JobsInStep, Writing
<1>2. CurInTodo
  BY DEF Init, RunInit, CurInTodo
<1> QED
  BY <1>1, <1>2, InitTypes DEF TypeInv

LEMMA TypeInvHolds == Spec => []TypeInv
  BY TypeFromStart, TypeStays, PTL DEF Spec

\* TypeCorrect: every variable of the composed system keeps its type, for any
\* number of units, jobs, attempts, paths and faults.
THEOREM TypeCorrect == Spec => []TypeOK
<1>1. TypeInv => TypeOK
  BY DEF TypeInv
<1> QED
  BY <1>1, TypeInvHolds, PTL

----------------------------------------------------------------------------
(* What the root locks achieve: a run changes the disk only where it holds    *)
(* the lock, so a restore that prepares from a root is safe from it.          *)

\* LockInv: while a run renames or removes in a chain, the root of every path
\* it has still to change is locked by it, and of every path that recording
\* the move will add; a series without chains has no lock.
LockInv ==
    /\ \A p \in Paths, s \in Series : s \notin Chained => lock[p][s] = Free
    /\ pc \in {"trim", "clear", "delete"} /\ InChain(cur) =>
          \A p \in work : lock[p][SeriesOf[cur]] = Gfs
    /\ pc = "commit" =>
          /\ work \subseteq PathsOf(goal)
          /\ InChain(cur) => \A p \in Listed(cur) \cup PathsOf(goal) :
                                lock[p][SeriesOf[cur]] = Gfs

LEMMA PutElsewhere ==
    ASSUME StoreTypeOK, NEW p \in Paths, NEW u \in Units, NEW copy, Put(p, u, copy),
           NEW q \in Paths, NEW v \in Units, q # p \/ v # u
    PROVE  disk'[q][v] = disk[q][v]
  BY DEF StoreTypeOK, Put

\* A run changes the disk only at the place of the unit in hand, under a path
\* its loop has still to visit, between taking the locks and releasing them.
LEMMA RunDisk ==
    ASSUME TypeOK, CurInTodo, RunStep \/ RunFault,
           NEW p \in Paths, NEW u \in Units, disk'[p][u] # disk[p][u]
    PROVE  pc \in Locking /\ u = cur /\ p \in work
<1> USE DEF TypeOK
<1> DEFINE Here == pc \in Locking /\ u = cur /\ p \in work
<1> SUFFICES Here
  OBVIOUS
<1>1. ASSUME NEW q \in work, NEW copy, pc \in Locking, Put(q, cur, copy)
      PROVE  Here
  <2>1. cur \in Units /\ q \in Paths
    BY <1>1 DEF CurInTodo, Locking, Working, RunTypeOK
  <2> QED
    BY <1>1, <2>1, PutElsewhere
<1> HIDE DEF Here
<1>2. CASE RunBegin \/ RunJudge \/ RunReadBusy \/ RunDecide \/ RunFinish \/ RunSnapshot
  BY <1>2 DEF RunBegin, RunJudge, RunReadBusy, RunDecide, RunFinish, RunSnapshot,
     storeVars
<1>3. CASE Sweep
  <2>1. ASSUME NEW q \in Paths, TrimRemove(q) PROVE Here
    BY <1>1, <2>1 DEF TrimRemove, Locking
  <2>2. Sweep => UNCHANGED disk \/ \E q \in Paths : TrimRemove(q)
    BY DEF Sweep, SweepDefer, SweepRefuse, SweepPlace, SweepInterrupted, TrimLock,
       TrimRecord, storeVars
  <2> QED
    BY <1>3, <2>1, <2>2
<1>4. CASE Act
  <2>1. ASSUME NEW q \in Paths, MoveRename(q) \/ MoveRemove(q) \/ DeleteRemove(q)
        PROVE  Here
    BY <1>1, <2>1 DEF MoveRename, MoveRemove, DeleteRemove, Locking
  <2>2. Act => \/ UNCHANGED disk
               \/ \E q \in Paths : MoveRename(q) \/ MoveRemove(q) \/ DeleteRemove(q)
    BY DEF Act, ActStay, ActHold, DeleteStart, MoveStart, MoveLock,
       MoveEnsureRow, MoveRecord, MoveDone, DeleteLock, DeleteRecord, MoveCopy
  <2> QED
    BY <1>4, <2>1, <2>2
<1>5. CASE RunFault
  <2>1. Tear
    BY <1>5 DEF RunFault, ActFail, SnapshotFail, RunStop, Tear, storeVars
  <2>2. pc \in Locking /\ \E q \in work : \E left : Put(q, cur, left)
    BY <2>1 DEF Tear, Locking
  <2> QED
    BY <1>1, <2>2
<1> QED
  BY <1>2, <1>3, <1>4, <1>5 DEF RunStep

\* Taking locks that are free, and releasing those of one holder, leaves the
\* locks of every other holder alone and never locks a series without chains.
LEMMA OthersKeepLocks ==
    ASSUME StoreTypeOK, NEW p \in Paths, NEW s \in Series
    PROVE  /\ \A paths \in SUBSET Paths, t \in Series, h \in Holders :
                 CanLock(paths, t) =>
                    /\ lock[p][s] # Free => Locked(paths, t, h)[p][s] = lock[p][s]
                    /\ s \notin Chained => Locked(paths, t, h)[p][s] = lock[p][s]
           /\ \A h \in Holders :
                 /\ lock[p][s] # h => Unlocked(h)[p][s] = lock[p][s]
                 /\ lock[p][s] = Free => Unlocked(h)[p][s] = Free
  BY DEF StoreTypeOK, CanLock, Locked, Unlocked

LEMMA JobLocks ==
    ASSUME TypeOK, LockInv, CurInTodo, Jobs PROVE LockInv'
<1> USE HoldersAreApart, FirstStageHasOnePath, JobsOfBackups, SeriesOfUnits DEF TypeOK
<1>1. UNCHANGED <<row, locs, runVars>>
  BY DEF Jobs, JobNext, BackupBegin, EngineStart, EnginePublish, EngineFinish,
     RecordSuccess, EngineFail, BackupKilled, MarkFailed, ledgerVars
<1>2. PICK b \in Backups :
        \/ lock' = lock
        \/ CanLock({First}, JobOf[b]) /\ lock' = Locked({First}, JobOf[b], b)
        \/ lock' = Unlocked(b)
  BY DEF Jobs, JobNext, BackupBegin, EngineStart, EnginePublish, EngineFinish,
     RecordSuccess, EngineFail, BackupKilled, MarkFailed, ledgerVars
<1>3. b \in Holders /\ JobOf[b] \in Series /\ {First} \in SUBSET Paths
  BY DEF Holders
<1>4. \A p \in Paths, s \in Series :
        /\ s \notin Chained /\ lock[p][s] = Free => lock'[p][s] = Free
        /\ lock[p][s] = Gfs => lock'[p][s] = Gfs
  BY <1>2, <1>3, OthersKeepLocks
<1>5. pc \in Working => cur \in Units /\ work \subseteq Paths
  BY DEF CurInTodo, RunTypeOK
<1>6. Listed(cur)' = Listed(cur) /\ PathsOf(goal)' = PathsOf(goal)
  BY <1>1 DEF Listed, PathsOf, runVars
<1>7. pc \in Working => Listed(cur) \subseteq Paths /\ PathsOf(goal) \subseteq Paths
  BY <1>5 DEF Listed, PathsOf, StoreTypeOK
<1> QED
  BY <1>1, <1>4, <1>5, <1>6, <1>7
     DEF LockInv, InChain, runVars, Working, Locking

LEMMA EnvironmentLocks ==
    ASSUME TypeOK, LockInv, CurInTodo, Environment PROVE LockInv'
<1> USE HoldersAreApart, SeriesOfUnits, BoundsAreNumbers DEF TypeOK
<1>1. UNCHANGED runVars
  BY EnvironmentTypes
<1>2. \A p \in Paths, s \in Series :
        /\ s \notin Chained /\ lock[p][s] = Free => lock'[p][s] = Free
        /\ lock[p][s] = Gfs => lock'[p][s] = Gfs
  <2>1. CASE UNCHANGED lock
    BY <2>1
  <2>2. ASSUME NEW q \in Prepared, NEW t \in Series, PrepareBegin(q, t) \/ PrepareEnd(q, t)
        PROVE  \A p \in Paths, s \in Series :
                  /\ s \notin Chained /\ lock[p][s] = Free => lock'[p][s] = Free
                  /\ lock[p][s] = Gfs => lock'[p][s] = Gfs
    BY <2>2 DEF PrepareBegin, PrepareEnd, Locked, StoreTypeOK
  <2> QED
    BY <2>1, <2>2 DEF Environment, Damage, Remount, Edit
<1>3. pc # "idle" => UNCHANGED <<row, locs>>
  BY DEF Environment, Damage, Remount, Edit, PrepareBegin, PrepareEnd, ledgerVars
<1>4. pc \in Working => cur \in Units /\ work \subseteq Paths
  BY DEF CurInTodo, RunTypeOK
<1>5. /\ pc # "idle" => Listed(cur)' = Listed(cur)
      /\ PathsOf(goal)' = PathsOf(goal)
  BY <1>1, <1>3 DEF Listed, PathsOf, runVars
<1>6. pc \in Working => Listed(cur) \subseteq Paths /\ PathsOf(goal) \subseteq Paths
  BY <1>4, FirstStageHasOnePath DEF Listed, PathsOf, StoreTypeOK
<1>7. UNCHANGED <<pc, cur, goal, work>>
  BY <1>1 DEF runVars
<1>8. CASE pc \in {"trim", "commit", "clear", "delete"}
  <2>1. Listed(cur)' = Listed(cur)
    BY <1>5, <1>8
  <2>2. cur \in Units /\ work \subseteq Paths
    BY <1>4, <1>8 DEF Working, Locking
  <2>3. Listed(cur) \subseteq Paths /\ PathsOf(goal) \subseteq Paths
    BY <1>6, <1>8 DEF Working, Locking
  <2> QED
    BY <1>2, <1>5, <1>7, <2>1, <2>2, <2>3 DEF LockInv, InChain
<1>9. CASE pc \notin {"trim", "commit", "clear", "delete"}
  BY <1>2, <1>7, <1>9 DEF LockInv
<1> QED
  BY <1>8, <1>9

LEMMA RunLocks ==
    ASSUME TypeOK, LockInv, CurInTodo, RunStep \/ RunFault PROVE LockInv'
<1> USE HoldersAreApart, FirstStageHasOnePath, SeriesOfUnits DEF TypeOK
<1> DEFINE Clear == \A p \in Paths, s \in Series : s \notin Chained => lock'[p][s] = Free
<1>1. \A p \in Paths, s \in Series : s \notin Chained => lock[p][s] = Free
  BY DEF LockInv
<1>2. Gfs \in Holders
  BY DEF Holders
<1>3. pc \in Working => cur \in Units /\ work \subseteq Paths
  BY DEF CurInTodo, RunTypeOK
<1>4. pc \in Working => Listed(cur) \subseteq Paths /\ PathsOf(goal) \subseteq Paths
  BY <1>3 DEF Listed, PathsOf, StoreTypeOK
<1>5. lock' = Unlocked(Gfs) \/ lock' = lock => Clear
  BY <1>1, <1>2, OthersKeepLocks
<1>6. \A paths \in SUBSET Paths, t \in Series :
         lock' = Locked(paths, t, Gfs) =>
            /\ Clear
            /\ t \in Chained => \A p \in paths : lock'[p][t] = Gfs
  BY <1>1 DEF Locked, StoreTypeOK
<1> HIDE DEF Clear
<1>7. ASSUME Clear, pc' \notin {"trim", "commit", "clear", "delete"}
      PROVE  LockInv'
  BY <1>7 DEF LockInv, Clear
<1>8. CASE RunBegin \/ RunJudge \/ RunReadBusy \/ RunDecide \/ RunFinish \/ RunSnapshot
  <2>1. lock' = lock /\ pc' \notin {"trim", "commit", "clear", "delete"}
    BY <1>8 DEF RunBegin, RunJudge, RunReadBusy, RunDecide, RunFinish,
       RunSnapshot, storeVars
  <2> QED
    BY <2>1, <1>5, <1>7
<1>9. CASE RunFault
  <2>1. lock' \in {lock, Unlocked(Gfs)} /\ pc' \notin {"trim", "commit", "clear", "delete"}
    BY <1>9 DEF RunFault, ActFail, SnapshotFail, RunStop, Settle, storeVars
  <2> QED
    BY <2>1, <1>5, <1>7
<1>10. CASE Sweep
  <2>1. CASE TrimLock
    <3>1. CASE pc' = "sweep"
      BY <2>1, <3>1, <1>5, <1>7 DEF TrimLock, Settle, Proceed
    <3>2. CASE pc' # "sweep"
      <4>1. /\ pc = "keep" /\ pc' = "trim" /\ UNCHANGED cur
            /\ work' = Leftovers(cur, goal)
            /\ lock' = Locked(Leftovers(cur, goal), SeriesOf[cur], Gfs)
        BY <2>1, <3>2 DEF TrimLock, Proceed
      <4>2. cur \in Units /\ Leftovers(cur, goal) \in SUBSET Paths
        BY <4>1, <1>3, <1>4 DEF Leftovers, Working
      <4> QED
        BY <4>1, <4>2, <1>6 DEF LockInv, Clear, InChain
    <3> QED
      BY <3>1, <3>2
  <2>2. ASSUME NEW p \in Paths, TrimRemove(p) PROVE LockInv'
    <3>1. CASE pc' = "sweep"
      BY <2>2, <3>1, <1>5, <1>7 DEF TrimRemove, Settle, Proceed
    <3>2. CASE pc' # "sweep"
      <4>1. /\ pc = "trim" /\ pc' = "trim" /\ UNCHANGED <<cur, lock>>
            /\ work' \subseteq work
        BY <2>2, <3>2 DEF TrimRemove, Proceed
      <4> QED
        BY <4>1 DEF LockInv, InChain
    <3> QED
      BY <3>1, <3>2
  <2>3. Sweep => \/ TrimLock \/ \E p \in Paths : TrimRemove(p)
                 \/ /\ lock' \in {lock, Unlocked(Gfs)}
                    /\ pc' \notin {"trim", "commit", "clear", "delete"}
    BY DEF Sweep, SweepDefer, SweepRefuse, SweepPlace, SweepInterrupted,
       TrimRecord, storeVars, Settle, Proceed
  <2> QED
    BY <1>10, <2>1, <2>2, <2>3, <1>5, <1>7
<1>11. CASE Act
  <2>1. CASE MoveLock
    <3>1. CASE pc' = "act"
      BY <2>1, <3>1, <1>5, <1>7 DEF MoveLock, Settle, Proceed
    <3>2. CASE pc' # "act"
      <4> DEFINE paths == Listed(cur) \cup PathsOf(goal)
      <4>1. /\ pc = "copy" /\ pc' = "commit" /\ UNCHANGED <<cur, goal, row, locs>>
            /\ work' = PathsOf(goal)
            /\ lock' = Locked(paths, SeriesOf[cur], Gfs)
        BY <2>1, <3>2 DEF MoveLock, Proceed
      <4>2. cur \in Units /\ paths \in SUBSET Paths
        BY <4>1, <1>3, <1>4 DEF Working
      <4>3. Listed(cur)' = Listed(cur) /\ PathsOf(goal)' = PathsOf(goal)
        BY <4>1 DEF Listed, PathsOf
      <4>4. Clear /\ (InChain(cur) => \A p \in paths : lock'[p][SeriesOf[cur]] = Gfs)
        BY <4>1, <4>2, <1>6 DEF InChain
      <4> QED
        BY <4>1, <4>3, <4>4 DEF LockInv, Clear, InChain
    <3> QED
      BY <3>1, <3>2
  <2>2. ASSUME NEW p \in Paths, MoveRename(p) PROVE LockInv'
    <3>1. CASE pc' = "act"
      BY <2>2, <3>1, <1>5, <1>7 DEF MoveRename, Settle, Proceed
    <3>2. CASE pc' # "act"
      <4>1. /\ pc = "commit" /\ pc' = "commit"
            /\ UNCHANGED <<cur, goal, row, locs, lock>>
            /\ work' \subseteq work
        BY <2>2, <3>2 DEF MoveRename, Proceed
      <4>2. Listed(cur)' = Listed(cur) /\ PathsOf(goal)' = PathsOf(goal)
        BY <4>1 DEF Listed, PathsOf
      <4> QED
        BY <4>1, <4>2 DEF LockInv, InChain
    <3> QED
      BY <3>1, <3>2
  <2>3. CASE MoveEnsureRow
    <3>1. /\ pc = "commit" /\ pc' = "commit" /\ UNCHANGED <<cur, goal, lock, work>>
          /\ row[cur] = "none" /\ EnsureRow(cur)
      BY <2>3 DEF MoveEnsureRow, Proceed
    <3>2. cur \in Units
      BY <3>1, <1>3 DEF Working, Locking
    <3>3. Listed(cur)' = Listed(cur) /\ PathsOf(goal)' = PathsOf(goal)
      BY <3>1, <3>2 DEF Listed, PathsOf, EnsureRow, StoreTypeOK
    <3> QED
      BY <3>1, <3>3 DEF LockInv, InChain
  <2>4. CASE MoveRecord
    <3>1. /\ pc = "commit" /\ pc' = "clear" /\ UNCHANGED <<cur, lock>>
          /\ work' = Listed(cur)
      BY <2>4 DEF MoveRecord, Proceed, Listed
    <3> QED
      BY <3>1 DEF LockInv, InChain
  <2>5. CASE DeleteLock
    <3>1. CASE pc' = "act"
      BY <2>5, <3>1, <1>5, <1>7 DEF DeleteLock, Settle, Proceed
    <3>2. CASE pc' # "act"
      <4>1. /\ pc = "condemn" /\ pc' = "delete" /\ UNCHANGED cur
            /\ work' = Listed(cur)
            /\ lock' = Locked(Listed(cur), SeriesOf[cur], Gfs)
        BY <2>5, <3>2 DEF DeleteLock, Proceed
      <4>2. cur \in Units /\ Listed(cur) \in SUBSET Paths
        BY <4>1, <1>3, <1>4 DEF Working
      <4> QED
        BY <4>1, <4>2, <1>6 DEF LockInv, Clear, InChain
    <3> QED
      BY <3>1, <3>2
  <2>6. ASSUME NEW p \in Paths, MoveRemove(p) \/ DeleteRemove(p) PROVE LockInv'
    <3>1. /\ pc \in {"clear", "delete"} /\ pc' = pc /\ UNCHANGED <<cur, lock>>
          /\ work' \subseteq work
      BY <2>6 DEF MoveRemove, DeleteRemove, Proceed
    <3> QED
      BY <3>1 DEF LockInv, InChain
  <2>7. Act => \/ MoveLock \/ MoveEnsureRow \/ MoveRecord \/ DeleteLock
               \/ \E p \in Paths : MoveRename(p) \/ MoveRemove(p) \/ DeleteRemove(p)
               \/ /\ lock' \in {lock, Unlocked(Gfs)}
                  /\ pc' \notin {"trim", "commit", "clear", "delete"}
    BY DEF Act, ActStay, ActHold, DeleteStart, MoveStart, MoveDone, DeleteRecord,
       MoveCopy, Settle, Proceed
  <2> QED
    BY <1>11, <2>1, <2>2, <2>3, <2>4, <2>5, <2>6, <2>7, <1>5, <1>7
<1> QED
  BY <1>8, <1>9, <1>10, <1>11 DEF RunStep

\* Everything the proofs below know of a state.
LockTypeInv == TypeInv /\ LockInv

LEMMA LockStays == ASSUME TypeInv, LockInv, [Next]_vars PROVE LockInv'
<1> USE DEF TypeInv
<1>1. CASE UNCHANGED vars
  BY <1>1 DEF vars, storeVars, ledgerVars, runVars, LockInv, Listed, PathsOf, InChain
<1>2. CASE Jobs
  BY <1>2, JobLocks
<1>3. CASE Run \/ Fault
  BY <1>3, RunLocks DEF Run, Fault
<1>4. CASE Environment
  BY <1>4, EnvironmentLocks
<1> QED
  BY <1>1, <1>2, <1>3, <1>4 DEF Next

LEMMA LockFromStart == Init => LockInv
  BY HoldersAreApart DEF Init, StoreInit, RunInit, LockInv

LEMMA LockInvHolds == Spec => []LockTypeInv
  BY LockFromStart, LockStays, TypeInvHolds, PTL DEF Spec, LockTypeInv

\* No step of a run, completed or failing, changes anything in a root that a
\* restore holds the lock of.
LEMMA RunAvoidsRecovery ==
    ASSUME LockTypeInv, RunStep \/ RunFault, NEW p \in Paths, NEW u \in Units,
           lock[p][SeriesOf[u]] = Recovery
    PROVE  disk'[p][u] = disk[p][u]
<1> SUFFICES ASSUME disk'[p][u] # disk[p][u] PROVE FALSE
  OBVIOUS
<1>1. pc \in Locking /\ u = cur /\ p \in work
  BY RunDisk DEF LockTypeInv, TypeInv
<1>2. CASE InChain(u)
  BY <1>1, <1>2, HoldersAreApart DEF LockTypeInv, LockInv, Locking
<1>3. CASE ~InChain(u)
  BY <1>3, SeriesOfUnits, HoldersAreApart DEF LockTypeInv, LockInv, InChain
<1> QED
  BY <1>2, <1>3

\* RestoreIsUndisturbed: the run changes nothing in a root a restore is
\* preparing from (XtraBackup.prepare, runner._engine_locks).
THEOREM RestoreIsUndisturbed == Spec => RecoverySourceStays
<1>1. LockTypeInv => [Run \/ Fault =>
         \A p \in Paths, u \in Units :
            lock[p][SeriesOf[u]] = Recovery => disk[p][u]' = disk[p][u]]_vars
  BY RunAvoidsRecovery DEF Run, Fault
<1> QED
  BY <1>1, LockInvHolds, PTL DEF RecoverySourceStays
----------------------------------------------------------------------------
(* Custody.                                                                   *)

\* From here on the types are named, not spelled out.
HIDE DEF Holders, Copies, Phases, Sweeping, Locking, Working

LEMMA UnitOrder ==
    \A u \in Units : u \in Nat /\ u <= u /\ (\A v \in Units : u < v \/ v <= u)
  BY UnitsAreNumbers

----------------------------------------------------------------------------
(* What the steps of each actor leave alone.                                  *)

\* A backup job takes nothing from the disk, and from the ledger only its own
\* running row.
LEMMA JobsKeep ==
    ASSUME TypeInv, Jobs
    PROVE  /\ UNCHANGED <<mounted, judged, row, locs, runVars, countVars>>
           /\ \A b \in Backups :
                 /\ status[b] = "success" => status'[b] = "success"
                 /\ unitOf[b] # 0 => unitOf'[b] = unitOf[b]
           /\ \A p \in Paths, u \in Units :
                 /\ disk[p][u].sealed => disk'[p][u].sealed
                 /\ disk[p][u].held \subseteq disk'[p][u].held
                 /\ disk'[p][u].sound = disk[p][u].sound
<1> USE DEF TypeInv, TypeOK, StoreTypeOK, JobTypeOK, JobsInStep, Writing
<1> PICK b \in Backups :
        \/ BackupBegin(b)
        \/ \E u \in Units : EngineStart(b, u)
        \/ EnginePublish(b)
        \/ EngineFinish(b)
        \/ RecordSuccess(b)
        \/ EngineFail(b)
        \/ BackupKilled(b)
        \/ MarkFailed(b)
  BY DEF Jobs, JobNext
<1> USE DEF Jobs, ledgerVars
<1> DEFINE Grows == \A p \in Paths, u \in Units :
                 /\ disk[p][u].sealed => disk'[p][u].sealed
                 /\ disk[p][u].held \subseteq disk'[p][u].held
                 /\ disk'[p][u].sound = disk[p][u].sound
<1>1. ASSUME NEW v \in Units, NEW copy, Put(First, v, copy),
             disk[First][v].sealed => copy.sealed,
             disk[First][v].held \subseteq copy.held,
             copy.sound = disk[First][v].sound
      PROVE  Grows
  BY <1>1, FirstStageHasOnePath DEF Put
<1>2. UNCHANGED disk => Grows
  OBVIOUS
<1> HIDE DEF Grows
<1>3. CASE BackupBegin(b) \/ RecordSuccess(b) \/ BackupKilled(b) \/ MarkFailed(b)
  BY <1>2, <1>3 DEF BackupBegin, RecordSuccess, BackupKilled, MarkFailed, Grows
<1>4. ASSUME NEW u \in Units, EngineStart(b, u)
      PROVE  Grows /\ UNCHANGED <<mounted, status, judged, row, locs>>
             /\ \A c \in Backups : unitOf[c] # 0 => unitOf'[c] = unitOf[c]
  <2>1. Grows
    BY <1>1, <1>2, <1>4 DEF EngineStart, Pending, Copy
  <2> QED
    BY <1>4, <2>1 DEF EngineStart
<1>5. unitOf[b] # 0 => unitOf[b] \in Units
  OBVIOUS
<1>6. CASE EnginePublish(b)
  BY <1>1, <1>5, <1>6 DEF EnginePublish, Published, Copy, Grows
<1>7. CASE EngineFinish(b)
  BY <1>1, <1>5, <1>7 DEF EngineFinish, Sealed, Copy, Grows
<1>8. CASE EngineFail(b)
  BY <1>1, <1>2, <1>5, <1>8 DEF EngineFail, Cleaned, Copy, Grows
<1> QED
  BY <1>3, <1>4, <1>6, <1>7, <1>8 DEF Grows

\* It changes only the first stage's copy of a unit it is writing.
LEMMA JobsWrite ==
    ASSUME TypeInv, Jobs, NEW p \in Paths, NEW u \in Units,
           disk'[p][u] # disk[p][u]
    PROVE  /\ p = First
           /\ \E b \in Backups : /\ unitOf'[b] = u
                                 /\ phase[b] \in Writing \/ phase'[b] \in Writing
<1> USE DEF TypeInv, TypeOK, StoreTypeOK, JobTypeOK, JobsInStep, Writing
<1> DEFINE Found == /\ p = First
                    /\ \E b \in Backups :
                          /\ unitOf'[b] = u
                          /\ phase[b] \in Writing \/ phase'[b] \in Writing
<1> SUFFICES Found
  OBVIOUS
<1>1. ASSUME NEW b \in Backups, NEW v \in Units, NEW copy, Put(First, v, copy),
             unitOf'[b] = v, phase[b] \in Writing \/ phase'[b] \in Writing
      PROVE  Found
  <2>1. p = First /\ v = u
    BY <1>1, PutElsewhere, FirstStageHasOnePath
  <2> QED
    BY <1>1, <2>1
<1> PICK b \in Backups :
        \/ BackupBegin(b)
        \/ \E v \in Units : EngineStart(b, v)
        \/ EnginePublish(b)
        \/ EngineFinish(b)
        \/ RecordSuccess(b)
        \/ EngineFail(b)
        \/ BackupKilled(b)
        \/ MarkFailed(b)
  BY DEF Jobs, JobNext
<1> HIDE DEF Found
<1>2. ASSUME NEW v \in Units, EngineStart(b, v) PROVE Found
  BY <1>1, <1>2 DEF EngineStart
<1>3. CASE EnginePublish(b) \/ EngineFinish(b) \/ EngineFail(b)
  BY <1>1, <1>3 DEF EnginePublish, EngineFinish, EngineFail, ledgerVars
<1> QED
  BY <1>2, <1>3 DEF BackupBegin, RecordSuccess, BackupKilled, MarkFailed, ledgerVars

\* An attempt that writes after the step wrote before it, or starts now.
LEMMA JobsStart ==
    ASSUME TypeInv, Jobs, NEW b \in Backups, phase'[b] \in Writing
    PROVE  \/ phase[b] \in Writing /\ unitOf'[b] = unitOf[b]
           \/ \E u \in Units : EngineStart(b, u) /\ unitOf'[b] = u
<1> USE DEF TypeInv, TypeOK, StoreTypeOK, JobTypeOK, JobsInStep, Writing
<1> PICK c \in Backups :
        \/ BackupBegin(c)
        \/ \E u \in Units : EngineStart(c, u)
        \/ EnginePublish(c)
        \/ EngineFinish(c)
        \/ RecordSuccess(c)
        \/ EngineFail(c)
        \/ BackupKilled(c)
        \/ MarkFailed(c)
  BY DEF Jobs, JobNext
<1>1. ASSUME NEW u \in Units, EngineStart(c, u)
      PROVE  \/ phase[b] \in Writing /\ unitOf'[b] = unitOf[b]
             \/ EngineStart(b, u) /\ unitOf'[b] = u
  BY <1>1 DEF EngineStart
<1>2. CASE EnginePublish(c) \/ EngineFinish(c) \/ BackupBegin(c) \/ RecordSuccess(c)
  BY <1>2 DEF EnginePublish, EngineFinish, BackupBegin, RecordSuccess, ledgerVars
<1>3. CASE EngineFail(c) \/ BackupKilled(c) \/ MarkFailed(c)
  BY <1>3 DEF EngineFail, BackupKilled, MarkFailed, ledgerVars
<1> QED
  BY <1>1, <1>2, <1>3

\* An attempt with a final row or a finished engine had it before, or the step
\* is the one that gave it.
LEMMA JobsRecord ==
    ASSUME TypeInv, Jobs, NEW b \in Backups
    PROVE  /\ status'[b] = "success" /\ status[b] # "success" =>
                phase[b] = "stored" /\ unitOf'[b] = unitOf[b]
           /\ phase'[b] = "stored" =>
                \/ phase[b] = "stored" /\ unitOf'[b] = unitOf[b]
                \/ EngineFinish(b)
<1> USE DEF TypeInv, TypeOK, StoreTypeOK, JobTypeOK, JobsInStep, Writing
<1> PICK c \in Backups :
        \/ BackupBegin(c)
        \/ \E u \in Units : EngineStart(c, u)
        \/ EnginePublish(c)
        \/ EngineFinish(c)
        \/ RecordSuccess(c)
        \/ EngineFail(c)
        \/ BackupKilled(c)
        \/ MarkFailed(c)
  BY DEF Jobs, JobNext
<1>1. CASE BackupBegin(c) \/ RecordSuccess(c)
  BY <1>1 DEF BackupBegin, RecordSuccess
<1>2. CASE EngineFinish(c) \/ EnginePublish(c) \/ \E u \in Units : EngineStart(c, u)
  <2>1. UNCHANGED status
    BY <1>2 DEF EngineFinish, EnginePublish, EngineStart, ledgerVars
  <2>2. phase'[b] = "stored" =>
                \/ phase[b] = "stored" /\ unitOf'[b] = unitOf[b]
                \/ EngineFinish(b)
    BY <1>2 DEF EngineFinish, EnginePublish, EngineStart, ledgerVars
  <2> QED
    BY <2>1, <2>2
<1>3. CASE EngineFail(c) \/ BackupKilled(c) \/ MarkFailed(c)
  BY <1>3 DEF EngineFail, BackupKilled, MarkFailed, ledgerVars
<1> QED
  BY <1>1, <1>2, <1>3

\* The members a run loaded are recorded, so no engine changes them.
LEMMA JobsSeen ==
    ASSUME TypeInv, Jobs, ChargeIsSeen, NEW u \in Units
    PROVE  Seen(u)' = Seen(u)
<1> USE DEF TypeInv, TypeOK, StoreTypeOK, JobsInStep
<1>1. view' = view
  BY JobsKeep DEF runVars, passVars
<1>2. \A b \in Backups : view[b] = "managed" => unitOf'[b] = unitOf[b]
  BY JobsKeep, UnitsAreNumbers DEF ChargeIsSeen
<1> QED
  BY <1>1, <1>2 DEF Seen

\* A process outside the run changes nothing where the run works.
LEMMA EnvironmentKeeps ==
    ASSUME TypeInv, Environment
    PROVE  /\ UNCHANGED <<status, unitOf, judged, phase, runVars>>
           /\ pc # "idle" => UNCHANGED <<mounted, row, locs>>
           /\ pc # "idle" => edits' = edits
           /\ pc \in Working => \A p \in Paths : disk'[p][cur] = disk[p][cur]
<1> USE DEF TypeInv, TypeOK
<1>1. UNCHANGED <<phase, runVars>>
  BY EnvironmentTypes
<1>2. UNCHANGED <<status, unitOf, judged>>
  BY DEF Environment, Damage, Remount, PrepareBegin, PrepareEnd, Edit, ledgerVars
<1>3. pc # "idle" => UNCHANGED <<mounted, row, locs, edits>>
  BY DEF Environment, Damage, Remount, PrepareBegin, PrepareEnd, Edit, ledgerVars,
     countVars
<1>4. ASSUME pc \in Working, NEW p \in Paths PROVE disk'[p][cur] = disk[p][cur]
  <2>1. cur \in Units
    BY <1>4 DEF CurInTodo, RunTypeOK
  <2>2. ASSUME NEW q \in Paths, NEW u \in Units, Damage(q, u)
        PROVE  disk'[p][cur] = disk[p][cur]
    <3>1. u # cur /\ \E copy : Put(q, u, copy)
      BY <2>2 DEF Damage
    <3> QED
      BY <2>1, <3>1, PutElsewhere
  <2>3. UNCHANGED disk \/ \E q \in Paths, u \in Units : Damage(q, u)
    BY <1>4 DEF Environment, Remount, PrepareBegin, PrepareEnd, Edit, Working, Locking
  <2> QED
    BY <2>2, <2>3
<1> QED
  BY <1>1, <1>2, <1>3, <1>4

\* What the loops of a run rely on outlasts a step of anybody who leaves the
\* unit in hand, its row and its members alone.
LEMMA WorkUndisturbed ==
    ASSUME TypeInv, TrimHolds, MoveHolds, DeleteHolds, UNCHANGED runVars,
           pc \in Working =>
              /\ UNCHANGED <<mounted, row, locs>>
              /\ Seen(cur)' = Seen(cur)
              /\ \A p \in Paths : disk'[p][cur] = disk[p][cur]
    PROVE  TrimHolds' /\ MoveHolds' /\ DeleteHolds'
<1> USE DEF TypeInv, TypeOK
<1>0. UNCHANGED <<pc, cur, goal, source, work, temp>>
  BY DEF runVars
<1>1. CASE pc \notin Working
  BY <1>0, <1>1 DEF TrimHolds, MoveHolds, DeleteHolds, Working, Locking
<1>2. CASE pc \in Working
  <2>1. cur \in Units /\ work \subseteq Paths /\ source \in Paths
    BY <1>2 DEF CurInTodo, RunTypeOK
  <2>2. Listed(cur)' = Listed(cur) /\ Listed(cur) \subseteq Paths
    BY <1>0, <1>2, <2>1, FirstStageHasOnePath DEF Listed, StoreTypeOK
  <2>3. /\ PathsOf(goal)' = PathsOf(goal) /\ PathsOf(goal) \subseteq Paths
        /\ Leftovers(cur, goal)' = Leftovers(cur, goal)
        /\ Leftovers(cur, goal) \subseteq Paths
    BY <1>0, <2>2 DEF PathsOf, Leftovers
  <2>4. /\ \A p \in Paths : Good(disk[p][cur])' = Good(disk[p][cur])
        /\ \A p \in Paths : Good(temp[p])' = Good(temp[p])
    BY <1>0, <1>2 DEF Good
  <2>5. InStage(cur, goal)' = InStage(cur, goal)
    BY <1>0, <2>2 DEF InStage
  <2>6. TrimHolds'
    BY <1>0, <1>2, <2>1, <2>2, <2>3, <2>4, <2>5 DEF TrimHolds
  <2>7. MoveHolds'
    <3>1. pc = "clear" => \A p \in work : (disk[p][cur].held = Seen(cur))'
      BY <1>0, <1>2, <2>1 DEF MoveHolds
    <3> QED
      BY <1>0, <1>2, <2>1, <2>2, <2>3, <2>4, <3>1 DEF MoveHolds
  <2>8. DeleteHolds'
    BY <1>0, <1>2, <2>1, <2>2, <2>4 DEF DeleteHolds
  <2> QED
    BY <2>6, <2>7, <2>8
<1> QED
  BY <1>1, <1>2

----------------------------------------------------------------------------
(* The base of a series.                                                      *)

\* A directory only loses its marker, with the rest of it, when a newer one of
\* its series has its own, and no other directory changes with it.
SealsStay ==
    \A w \in Units : InChain(w) /\ disk[First][w].sealed =>
        \/ disk'[First][w].sealed
        \/ Newer(w) /\ \A v \in Units \ {w} : disk'[First][v] = disk[First][v]

LEMMA NewerStays ==
    ASSUME SealsStay, NEW u \in Units, InChain(u)
    PROVE  (Newer(u) => Newer(u)') /\ (Based(u) => Based(u)')
<1> USE UnitsAreNumbers DEF InChain
<1>1. ASSUME NEW w \in Units, SeriesOf[w] = SeriesOf[u], u <= w, disk[First][w].sealed
      PROVE  \E v \in Units : SeriesOf[v] = SeriesOf[u] /\ w <= v /\ disk'[First][v].sealed
  <2>1. CASE disk'[First][w].sealed
    BY <1>1, <2>1
  <2>2. CASE ~disk'[First][w].sealed
    <3>1. Newer(w) /\ \A v \in Units \ {w} : disk'[First][v] = disk[First][v]
      BY <1>1, <2>2 DEF SealsStay
    <3>2. PICK v \in Units : SeriesOf[v] = SeriesOf[w] /\ w < v /\ disk[First][v].sealed
      BY <3>1 DEF Newer
    <3> QED
      BY <1>1, <3>1, <3>2
  <2> QED
    BY <2>1, <2>2
<1>2. Based(u) => Based(u)'
  BY <1>1 DEF Based
<1>3. Newer(u) => Newer(u)'
  BY <1>1 DEF Newer
<1> QED
  BY <1>2, <1>3

LEMMA JobsSeal == ASSUME TypeInv, Jobs PROVE SealsStay
  BY JobsKeep, FirstStageHasOnePath DEF SealsStay

LEMMA EnvironmentSeals ==
    ASSUME TypeInv, AwayIsOld, Environment PROVE SealsStay
<1> USE DEF TypeInv, TypeOK, StoreTypeOK
<1> SUFFICES ASSUME NEW w \in Units, InChain(w), disk[First][w].sealed,
                    ~disk'[First][w].sealed
             PROVE  Newer(w) /\ \A v \in Units \ {w} : disk'[First][v] = disk[First][v]
  BY DEF SealsStay
<1> USE FirstStageHasOnePath
<1>1. ASSUME NEW p \in Paths, NEW u \in Units, NEW copy, Put(p, u, copy),
             u = w /\ p = First => Newer(w)
      PROVE  Newer(w) /\ \A v \in Units \ {w} : disk'[First][v] = disk[First][v]
  <2>1. p = First /\ u = w
    BY <1>1, PutElsewhere
  <2> QED
    BY <1>1, <2>1, PutElsewhere
<1>2. ASSUME NEW p \in Paths, NEW u \in Units, Damage(p, u)
      PROVE  Newer(w) /\ \A v \in Units \ {w} : disk'[First][v] = disk[First][v]
  <2>1. CASE Put(p, u, Rotten(disk[p][u]))
    BY <2>1, PutElsewhere DEF Rotten, Copy, Put
  <2>2. CASE Put(p, u, Nothing) /\ (p = First => Newer(u))
    BY <1>1, <2>2
  <2> QED
    BY <1>2, <2>1, <2>2 DEF Damage, Newer
<1>3. CASE Edit
  <2>1. PICK p \in Paths, u \in Units :
           p \notin Listed(u) /\ (row[u] = "none" => p # First) /\ Put(p, u, Nothing)
    BY <1>3 DEF Edit
  <2>2. u = w /\ p = First => Newer(w)
    BY <2>1 DEF AwayIsOld, Away, Listed
  <2> QED
    BY <1>1, <2>1, <2>2
<1> QED
  BY <1>2, <1>3 DEF Environment, Remount, PrepareBegin, PrepareEnd

\* A run takes markers only from the unit in hand.
LEMMA RunSeals ==
    ASSUME TypeInv, CurIsOld, RunStep \/ RunFault PROVE SealsStay
<1> USE DEF TypeInv
<1> SUFFICES ASSUME NEW w \in Units, InChain(w), disk[First][w].sealed,
                    ~disk'[First][w].sealed
             PROVE  Newer(w) /\ \A v \in Units \ {w} : disk'[First][v] = disk[First][v]
  BY DEF SealsStay
<1>1. \A v \in Units : disk'[First][v] # disk[First][v] => pc \in Locking /\ v = cur
  BY RunDisk, FirstStageHasOnePath
<1> QED
  BY <1>1 DEF CurIsOld, Working

\* The conjuncts of the invariant that are about the store and not about a run.
BaseInv == RowsHaveRecords /\ SealedIsUsed /\ BaseStays /\ StoredHasBase /\ AwayIsOld

LEMMA JobsBase ==
    ASSUME TypeInv, BaseInv, Jobs PROVE BaseInv'
<1> USE DEF TypeInv, TypeOK, StoreTypeOK, BaseInv
<1>0. SealsStay
  BY JobsSeal
<1>1. RowsHaveRecords'
  BY JobsKeep, UnitsAreNumbers DEF RowsHaveRecords, Recorded
<1>2. SealedIsUsed'
  <2> SUFFICES ASSUME NEW w \in Units, InChain(w), disk'[First][w].sealed
               PROVE  \E b \in Backups : unitOf'[b] = w
    BY DEF SealedIsUsed, InChain
  <2>1. CASE disk'[First][w] = disk[First][w]
    BY <2>1, JobsKeep, UnitsAreNumbers DEF SealedIsUsed
  <2>2. CASE disk'[First][w] # disk[First][w]
    BY <2>2, JobsWrite, FirstStageHasOnePath
  <2> QED
    BY <2>1, <2>2
<1>3. BaseStays'
  <2> SUFFICES ASSUME NEW b \in Backups, status'[b] = "success", JobOf[b] \in Chained
               PROVE  \E w \in Units : /\ SeriesOf[w] = JobOf[b] /\ unitOf'[b] <= w
                                       /\ disk'[First][w].sealed
    BY DEF BaseStays
  <2>1. /\ unitOf[b] \in Units /\ unitOf'[b] = unitOf[b]
        /\ SeriesOf[unitOf[b]] = JobOf[b]
    BY JobsKeep, JobsRecord DEF JobsInStep, Writing
  <2>2. Based(unitOf[b])
    BY <2>1, JobsRecord DEF BaseStays, StoredHasBase, Based
  <2>3. Based(unitOf[b])'
    BY <1>0, <2>1, <2>2, NewerStays DEF InChain
  <2> QED
    BY <2>1, <2>3 DEF Based
<1>4. StoredHasBase'
  <2> SUFFICES ASSUME NEW b \in Backups, phase'[b] = "stored", JobOf[b] \in Chained
               PROVE  Based(unitOf[b])'
    BY DEF StoredHasBase
  <2>1. CASE phase[b] = "stored" /\ unitOf'[b] = unitOf[b]
    <3>1. unitOf[b] \in Units /\ InChain(unitOf[b]) /\ Based(unitOf[b])
      BY <2>1 DEF JobsInStep, Writing, StoredHasBase, InChain
    <3>2. ASSUME NEW u \in Units, InChain(u), Based(u)
          PROVE  \E w \in Units : /\ SeriesOf[w] = SeriesOf[u] /\ u <= w
                                  /\ disk'[First][w].sealed
      BY <1>0, <3>2, NewerStays DEF Based
    <3> QED
      BY <2>1, <3>1, <3>2 DEF Based
  <2>2. CASE EngineFinish(b)
    <3>1. unitOf[b] \in Units /\ UNCHANGED unitOf
      BY <2>2 DEF EngineFinish, JobsInStep, Writing, ledgerVars
    <3>2. disk'[First][unitOf[b]].sealed
      BY <2>2, <3>1, FirstStageHasOnePath DEF EngineFinish, Put, Sealed, Copy
    <3>3. \E w \in Units : /\ SeriesOf[w] = SeriesOf[unitOf[b]] /\ unitOf[b] <= w
                           /\ disk'[First][w].sealed
      <4>1. unitOf[b] \in Nat /\ unitOf[b] <= unitOf[b]
        BY <3>1, UnitOrder
      <4> QED
        BY <3>1, <3>2, <4>1, Zenon
    <3> QED
      BY <3>1, <3>3 DEF Based
  <2> QED
    BY <2>1, <2>2, JobsRecord
<1>5. AwayIsOld'
  <2> SUFFICES ASSUME NEW u \in Units, InChain(u), Away(u)' PROVE Newer(u)'
    BY DEF AwayIsOld, InChain
  <2>1. Away(u)
    BY JobsKeep, JobsWrite DEF Away
  <2> QED
    BY <1>0, <2>1, NewerStays DEF AwayIsOld
<1> QED
  BY <1>1, <1>2, <1>3, <1>4, <1>5

\* A step that adds neither backups nor rows keeps the base if no marker
\* goes before its time and what moves out of the first stage is old.
LEMMA OthersBase ==
    ASSUME TypeInv, BaseInv, SealsStay, UNCHANGED <<status, unitOf, phase>>,
           \A u \in Units : row'[u] # "none" => Recorded(u) # {},
           \A w \in Units : disk'[First][w].sealed => disk[First][w].sealed,
           \A u \in Units : InChain(u) /\ Away(u)' => Newer(u)
    PROVE  BaseInv'
<1> USE DEF TypeInv, TypeOK, StoreTypeOK, BaseInv
<1>1. RowsHaveRecords'
  BY DEF RowsHaveRecords, Recorded
<1>2. SealedIsUsed'
  BY DEF SealedIsUsed, InChain
<1>3. \A b \in Backups : unitOf[b] # 0 =>
         /\ unitOf[b] \in Units /\ SeriesOf[unitOf[b]] = JobOf[b]
         /\ InChain(unitOf[b]) <=> JobOf[b] \in Chained
  BY DEF JobsInStep, InChain
<1>4. ASSUME NEW b \in Backups, JobOf[b] \in Chained, unitOf[b] # 0, Based(unitOf[b])
      PROVE  Based(unitOf[b])'
  <2>1. ASSUME NEW u \in Units, u = unitOf[b] PROVE Based(unitOf[b])'
    <3>1. Based(u)'
      BY <1>3, <1>4, <2>1, NewerStays
    <3> QED
      BY <2>1, <3>1 DEF Based
  <2> QED
    BY <1>3, <1>4, <2>1
<1>5. BaseStays'
  <2> SUFFICES ASSUME NEW b \in Backups, status[b] = "success", JobOf[b] \in Chained
               PROVE  \E w \in Units : /\ SeriesOf[w] = JobOf[b] /\ unitOf[b] <= w
                                       /\ disk'[First][w].sealed
    BY DEF BaseStays
  <2>1. unitOf[b] # 0 /\ Based(unitOf[b])
    BY <1>3 DEF BaseStays, Based, JobsInStep
  <2> QED
    BY <1>3, <1>4, <2>1 DEF Based
<1>6. StoredHasBase'
  <2> SUFFICES ASSUME NEW b \in Backups, phase[b] = "stored", JobOf[b] \in Chained
               PROVE  Based(unitOf[b])'
    BY DEF StoredHasBase
  <2> QED
    BY <1>4 DEF StoredHasBase, JobsInStep, Writing
<1>7. AwayIsOld'
  <2> SUFFICES ASSUME NEW u \in Units, InChain(u), Away(u)' PROVE Newer(u)'
    BY DEF AwayIsOld, InChain
  <2> QED
    BY NewerStays
<1> QED
  BY <1>1, <1>2, <1>5, <1>6, <1>7

----------------------------------------------------------------------------
(* What a step of a run does.                                                 *)

\* To the disk: it renames a temporary copy to a free place, or removes, all
\* of it or in part, what the loop in hand has still to remove.
LEMMA RunLeaves ==
    ASSUME TypeInv, RunStep \/ RunFault,
           NEW p \in Paths, NEW u \in Units, disk'[p][u] # disk[p][u]
    PROVE  /\ pc \in Locking /\ u = cur /\ p \in work
           /\ pc = "commit" => disk'[p][u] = temp[p] /\ ~Exists(p, u)
           /\ pc # "commit" => disk'[p][u] \in Torn(disk[p][u])
           /\ pc = "trim" => Holds(p, u)
<1> USE DEF TypeInv, TypeOK, StoreTypeOK
<1>1. pc \in Locking /\ u = cur /\ p \in work
  BY RunDisk
<1>2. ASSUME NEW q \in work, NEW copy, Put(q, cur, copy)
      PROVE  q = p /\ disk'[p][u] = copy
  <2>1. q \in Paths
    BY DEF RunTypeOK
  <2>2. q = p
    BY <1>1, <1>2, <2>1, PutElsewhere
  <2> QED
    BY <1>1, <1>2, <2>2 DEF Put
<1> DEFINE Removed == /\ pc # "commit" /\ disk'[p][u] \in Torn(disk[p][u])
                      /\ pc = "trim" => Holds(p, u)
<1> DEFINE Renamed == pc = "commit" /\ disk'[p][u] = temp[p] /\ ~Exists(p, u)
<1> SUFFICES Removed \/ Renamed
  BY <1>1
<1>3. ASSUME NEW q \in Paths, TrimRemove(q) \/ MoveRemove(q) \/ DeleteRemove(q)
      PROVE  Removed
  <2>1. q \in work /\ Put(q, cur, Nothing) /\ pc \in {"trim", "clear", "delete"}
    BY <1>1, <1>3 DEF TrimRemove, MoveRemove, DeleteRemove
  <2>2. q = p /\ disk'[p][u] = Nothing
    BY <2>1, <1>2
  <2>3. pc = "trim" => Holds(p, u)
    BY <1>1, <1>3, <2>2 DEF TrimRemove, MoveRemove, DeleteRemove
  <2> QED
    BY <2>1, <2>2, <2>3 DEF Torn
<1>4. ASSUME NEW q \in Paths, MoveRename(q) PROVE Renamed
  <2>1. pc = "commit" /\ q \in work /\ Put(q, cur, temp[q]) /\ ~Exists(q, cur)
    BY <1>1, <1>4 DEF MoveRename
  <2>2. q = p /\ disk'[p][u] = temp[q]
    BY <2>1, <1>2
  <2> QED
    BY <1>1, <2>1, <2>2
<1>5. CASE Tear
  <2>0. PICK q \in work : \E left \in Torn(disk[q][cur]) :
          /\ pc \in {"trim", "clear", "delete"}
          /\ pc = "trim" => Holds(q, cur)
          /\ Put(q, cur, left)
    BY <1>5 DEF Tear
  <2>1. PICK left \in Torn(disk[q][cur]) :
          /\ pc \in {"trim", "clear", "delete"}
          /\ pc = "trim" => Holds(q, cur)
          /\ Put(q, cur, left)
    BY <2>0
  <2>2. q = p /\ disk'[p][u] = left
    BY <2>1, <1>2
  <2> QED
    BY <1>1, <2>1, <2>2
<1> HIDE DEF Removed, Renamed
<1>6. CASE RunStep
  <2>1. Sweep => UNCHANGED disk \/ \E q \in Paths : TrimRemove(q)
    BY DEF Sweep, SweepDefer, SweepRefuse, SweepPlace, SweepInterrupted, TrimLock,
       TrimRecord, storeVars
  <2>2. Act => \/ UNCHANGED disk
               \/ \E q \in Paths : MoveRename(q) \/ MoveRemove(q) \/ DeleteRemove(q)
    BY DEF Act, ActStay, ActHold, DeleteStart, MoveStart, MoveLock,
       MoveEnsureRow, MoveRecord, MoveDone, DeleteLock, DeleteRecord, MoveCopy
  <2>3. RunBegin \/ RunJudge \/ RunReadBusy \/ RunDecide \/ RunFinish \/ RunSnapshot
           => UNCHANGED disk
    BY DEF RunBegin, RunJudge, RunReadBusy, RunDecide, RunFinish, RunSnapshot,
       storeVars
  <2> QED
    BY <1>3, <1>4, <1>6, <2>1, <2>2, <2>3 DEF RunStep
<1>7. CASE RunFault
  BY <1>5, <1>7 DEF RunFault, ActFail, SnapshotFail, RunStop, storeVars
<1> QED
  BY <1>6, <1>7

\* To the ledger: it takes a unit up in the first stage, or changes the row or
\* the locations of the unit in hand.
LEMMA RunLedger ==
    ASSUME TypeInv, RunStep \/ RunFault, NEW u \in Units,
           row'[u] # row[u] \/ locs'[u] # locs[u]
    PROVE  \/ pc \in Working /\ u = cur
           \/ /\ pc = "act" /\ Turn(u) /\ row[u] = "none"
              /\ row'[u] = "managed" /\ locs'[u] = {First}
<1> USE DEF TypeInv, TypeOK, StoreTypeOK
<1>1. CASE RunBegin \/ RunJudge \/ RunReadBusy \/ RunDecide \/ RunFinish \/ RunSnapshot
  BY <1>1 DEF RunBegin, RunJudge, RunReadBusy, RunDecide, RunFinish, RunSnapshot,
     storeVars, ledgerVars
<1>2. CASE Sweep
  <2>1. UNCHANGED <<row, locs>> \/ TrimRecord
    BY <1>2 DEF Sweep, SweepDefer, SweepRefuse, SweepPlace, SweepInterrupted,
       TrimLock, TrimRemove, storeVars, ledgerVars
  <2> QED
    BY <2>1 DEF TrimRecord, Working, Locking
<1>3. CASE Act
  <2>1. \/ UNCHANGED <<row, locs>>
        \/ MoveEnsureRow \/ MoveRecord \/ DeleteLock \/ DeleteRecord
        \/ \E v \in Units : ActStay(v)
    BY <1>3 DEF Act, ActHold, DeleteStart, MoveStart, MoveLock,
       MoveDone, MoveCopy, MoveRename, MoveRemove, DeleteRemove
  <2>2. ASSUME NEW v \in Units, ActStay(v)
        PROVE  /\ pc = "act" /\ Turn(u) /\ row[u] = "none"
               /\ row'[u] = "managed" /\ locs'[u] = {First}
    BY <2>2 DEF ActStay, EnsureRow
  <2>3. CASE MoveEnsureRow \/ MoveRecord \/ DeleteLock \/ DeleteRecord
    BY <2>3 DEF MoveEnsureRow, MoveRecord, DeleteLock, DeleteRecord, EnsureRow,
       Working, Locking
  <2> QED
    BY <2>1, <2>2, <2>3
<1>4. CASE RunFault
  BY <1>4 DEF RunFault, ActFail, SnapshotFail, RunStop, storeVars, ledgerVars
<1> QED
  BY <1>1, <1>2, <1>3, <1>4 DEF RunStep

----------------------------------------------------------------------------
\* The other two actors keep the base of a series.
LEMMA EnvironmentBase ==
    ASSUME TypeInv, BaseInv, Environment PROVE BaseInv'
<1> USE DEF TypeInv, TypeOK, StoreTypeOK
<1> USE FirstStageHasOnePath, NothingIsACopy
<1>1. UNCHANGED <<status, unitOf, phase>>
  BY EnvironmentKeeps
<1>2. SealsStay
  BY EnvironmentSeals DEF BaseInv
<1>3. \A u \in Units : row[u] # "none" => Recorded(u) # {}
  BY DEF BaseInv, RowsHaveRecords
<1>4. \A u \in Units : InChain(u) /\ Away(u) => Newer(u)
  BY DEF BaseInv, AwayIsOld
<1> DEFINE Kept1 == /\ \A u \in Units : row'[u] # "none" => row[u] # "none"
                    /\ \A w \in Units : disk'[First][w].sealed => disk[First][w].sealed
                    /\ \A u \in Units : InChain(u) /\ Away(u)' => Newer(u)
<1> SUFFICES Kept1
  BY <1>1, <1>2, <1>3, OthersBase
<1>5. ASSUME NEW p \in Paths, NEW u \in Units, Damage(p, u) PROVE Kept1
  <2>1. UNCHANGED <<row, locs>> /\ disk[p][u] # Nothing
    BY <1>5 DEF Damage, ledgerVars
  <2>2. PICK copy : Put(p, u, copy) /\ copy \in {Rotten(disk[p][u]), Nothing}
    BY <1>5 DEF Damage
  <2>3. disk'[p][u] = copy /\ (copy.sealed => disk[p][u].sealed)
    BY <2>2 DEF Put, Rotten, Nothing, Copy
  <2>4. \A w \in Units : disk'[First][w].sealed => disk[First][w].sealed
    BY <2>2, <2>3, PutElsewhere
  <2>5. ASSUME NEW q \in Paths, NEW w \in Units, disk'[q][w] # Nothing
        PROVE  disk[q][w] # Nothing
    <3>1. q # p \/ w # u => disk'[q][w] = disk[q][w]
      BY <2>2, PutElsewhere
    <3> QED
      BY <2>1, <2>5, <3>1
  <2>6. \A w \in Units : Away(w)' => Away(w)
    BY <2>1, <2>5 DEF Away
  <2> QED
    BY <1>4, <2>1, <2>4, <2>6
<1>6. CASE UNCHANGED <<disk, row, locs>>
  BY <1>4, <1>6 DEF Away
<1>7. CASE Edit
  <2> PICK p \in Paths, u \in Units :
          \/ /\ row[u] = "managed" /\ p \in locs[u] /\ disk[p][u] = Nothing
             /\ locs' = [locs EXCEPT ![u] = @ \ {p}]
             /\ UNCHANGED <<disk, row>>
          \/ /\ row[u] = "managed" /\ locs[u] = {}
             /\ row' = [row EXCEPT ![u] = "deleted"]
             /\ UNCHANGED <<disk, locs>>
          \/ /\ p \notin Listed(u) /\ disk[p][u] # Nothing
             /\ row[u] = "none" => p # First
             /\ Put(p, u, Nothing)
             /\ UNCHANGED <<row, locs>>
          \/ /\ row[u] = "managed" /\ p \notin locs[u] /\ disk[p][u] # Nothing
             /\ locs' = [locs EXCEPT ![u] = @ \cup {p}]
             /\ UNCHANGED <<disk, row>>
    BY <1>7 DEF Edit
  <2>1. CASE /\ row[u] = "managed" /\ p \in locs[u] /\ disk[p][u] = Nothing
             /\ locs' = [locs EXCEPT ![u] = @ \ {p}]
             /\ UNCHANGED <<disk, row>>
    <3>1. \A w \in Units \ {u} : Away(w)' => Away(w)
      BY <2>1 DEF Away
    <3>2. p # First /\ Away(u)' => Away(u)
      BY <2>1 DEF Away
    <3>3. p = First /\ InChain(u) => Newer(u)
      <4> SUFFICES ASSUME p = First, InChain(u) PROVE Newer(u)
        OBVIOUS
      <4>1. PICK b \in Backups : status[b] = "success" /\ unitOf[b] = u
        BY <1>3, <2>1 DEF Recorded
      <4>2. SeriesOf[u] = JobOf[b] /\ JobOf[b] \in Chained
        BY <4>1, UnitsAreNumbers DEF JobsInStep, InChain
      <4>3. PICK w \in Units : /\ SeriesOf[w] = JobOf[b] /\ u <= w
                               /\ disk[First][w].sealed
        BY <4>1, <4>2 DEF BaseInv, BaseStays
      <4>4. w # u
        BY <2>1, <4>3 DEF Nothing
      <4> QED
        BY <4>2, <4>3, <4>4, UnitsAreNumbers DEF Newer
    <3> QED
      BY <1>4, <2>1, <3>1, <3>2, <3>3
  <2>2. CASE /\ row[u] = "managed" /\ locs[u] = {}
             /\ row' = [row EXCEPT ![u] = "deleted"]
             /\ UNCHANGED <<disk, locs>>
    <3>1. \A w \in Units : Away(w)' => Away(w)
      BY <2>2 DEF Away
    <3> QED
      BY <1>4, <2>2, <3>1
  <2>3. CASE Put(p, u, Nothing) /\ UNCHANGED <<row, locs>>
    <3>1. disk'[p][u] = Nothing
      BY <2>3 DEF Put
    <3>2. \A w \in Units : disk'[First][w].sealed => disk[First][w].sealed
      BY <2>3, <3>1, PutElsewhere DEF Nothing
    <3>3. \A q \in Paths, w \in Units : disk'[q][w] # Nothing => disk[q][w] # Nothing
      BY <2>3, <3>1, PutElsewhere, SMTT(20)
    <3>4. \A w \in Units : Away(w)' => Away(w)
      BY <2>3, <3>3 DEF Away
    <3> QED
      BY <1>4, <2>3, <3>2, <3>4
  <2>4. CASE /\ row[u] = "managed" /\ p \notin locs[u] /\ disk[p][u] # Nothing
             /\ locs' = [locs EXCEPT ![u] = @ \cup {p}]
             /\ UNCHANGED <<disk, row>>
    <3>1. \A w \in Units : Away(w)' => Away(w)
      BY <2>4 DEF Away
    <3> QED
      BY <1>4, <2>4, <3>1
  <2> HIDE DEF Kept1
  <2> QED
    BY <2>1, <2>2, <2>3, <2>4
<1> HIDE DEF Kept1
<1> QED
  BY <1>5, <1>6, <1>7 DEF Environment, Remount, PrepareBegin, PrepareEnd, ledgerVars

LEMMA RunBase ==
    ASSUME TypeInv, BaseInv, CurIsOld, ViewIsRecorded, MoveHolds,
           RunStep \/ RunFault, UNCHANGED phase
    PROVE  BaseInv'
<1> USE DEF TypeInv, TypeOK, StoreTypeOK
<1> USE FirstStageHasOnePath
<1>1. UNCHANGED <<status, unitOf>>
  BY UnitsStay
<1>2. SealsStay
  BY RunSeals
<1>3. ASSUME NEW u \in Units, row'[u] # "none" PROVE Recorded(u) # {}
  <2>1. CASE row'[u] = row[u]
    BY <1>3, <2>1 DEF BaseInv, RowsHaveRecords
  <2>2. CASE row'[u] # row[u]
    <3>1. u \in todo
      BY <2>2, RunLedger DEF Turn, CurInTodo
    <3>2. Seen(u) # {}
      BY <3>1 DEF ViewIsRecorded
    <3> QED
      BY <3>2 DEF Seen, Recorded, ViewIsRecorded
  <2> QED
    BY <2>1, <2>2
<1>4. ASSUME NEW w \in Units, disk'[First][w].sealed, ~disk[First][w].sealed PROVE FALSE
  <2>1. /\ pc \in Locking /\ w = cur /\ First \in work
        /\ pc # "commit" => disk'[First][w] \in Torn(disk[First][w])
    BY <1>4, RunLeaves
  <2>2. pc # "commit"
    <3> SUFFICES ASSUME pc = "commit" PROVE FALSE
      OBVIOUS
    <3>1. /\ StageOf[First] = goal /\ source \in Listed(cur)
          /\ \A p \in Listed(cur) : StageOf[p] < goal
      BY <2>1 DEF MoveHolds, PathsOf
    <3>2. source \in Paths
      BY DEF RunTypeOK
    <3> QED
      BY <3>1, <3>2
  <2> QED
    BY <1>4, <2>1, <2>2 DEF Torn, Rotten, Copy, Nothing
<1>5. ASSUME NEW u \in Units, InChain(u), Away(u)' PROVE Newer(u)
  <2>1. CASE pc \in Working /\ u = cur
    BY <1>5, <2>1 DEF CurIsOld
  <2>2. CASE ~(pc \in Working /\ u = cur)
    <3>1. \A p \in Paths : disk'[p][u] = disk[p][u]
      BY <2>2, RunLeaves DEF Working
    <3>2. \/ row'[u] = row[u] /\ locs'[u] = locs[u]
          \/ locs'[u] = {First}
      BY <2>2, RunLedger
    <3>3. Away(u)
      BY <1>5, <3>1, <3>2 DEF Away
    <3> QED
      BY <1>5, <3>3 DEF BaseInv, AwayIsOld
  <2> QED
    BY <2>1, <2>2
<1> QED
  BY <1>1, <1>2, <1>3, <1>4, <1>5, OthersBase

----------------------------------------------------------------------------
(* The invariant of a run, while the others move.                             *)

\* The conjuncts that relate the run to the jobs.
JobsApart == LateJobsElsewhere /\ CurIsOld /\ EngineLeftAlone

\* What a run loaded and where it stands; what its loops rely on.
PassInv == ViewIsRecorded /\ ChargeIsSeen /\ PassInOrder /\ Superseding /\ ReportHolds
WorkInv == TrimHolds /\ MoveHolds /\ DeleteHolds

\* An engine of a chained job starts in the newest directory or after it.
LEMMA StartsNewest ==
    ASSUME TypeInv, BaseInv, NEW b \in Backups, NEW u \in Units, EngineStart(b, u),
           JobOf[b] \in Chained
    PROVE  \A x \in Units : SeriesOf[x] = JobOf[b] /\ disk[First][x].sealed => x <= u
<1> SUFFICES ASSUME NEW x \in Units, SeriesOf[x] = JobOf[b], disk[First][x].sealed
             PROVE  x <= u
  OBVIOUS
<1>1. PICK d \in Backups : unitOf[d] = x
  BY DEF BaseInv, SealedIsUsed, InChain
<1>2. x \in Used(JobOf[b])
  BY <1>1, UnitsAreNumbers DEF Used, JobsInStep, TypeInv
<1> QED
  BY <1>2 DEF EngineStart, MayWrite, LatestFull

\* An engine that starts never chooses a unit that a run has loaded and that
\* is not the newest of its chain.
LEMMA StartsLate ==
    ASSUME TypeInv, BaseInv, ViewIsRecorded,
           NEW b \in Backups, NEW u \in Units, EngineStart(b, u),
           NEW v \in Units, SeriesOf[v] = JobOf[b], Seen(v) # {}
    PROVE  IF JobOf[b] \in Chained THEN v <= u /\ (Newer(v) => v < u) ELSE v # u
<1> USE UnitsAreNumbers DEF TypeInv, TypeOK, StoreTypeOK
<1>1. PICK c \in Backups : unitOf[c] = v /\ status[c] = "success"
  BY DEF Seen, ViewIsRecorded
<1>2. v \in Used(JobOf[b]) /\ JobOf[c] = JobOf[b]
  BY <1>1 DEF Used, JobsInStep
<1>3. MayWrite(b, u)
  BY DEF EngineStart
<1>4. CASE JobOf[b] \notin Chained
  BY <1>2, <1>3, <1>4 DEF MayWrite
<1>5. CASE JobOf[b] \in Chained
  <2>1. PICK w \in Units : SeriesOf[w] = JobOf[b] /\ v <= w /\ disk[First][w].sealed
    BY <1>1, <1>2, <1>5 DEF BaseInv, BaseStays
  <2>2. ASSUME NEW x \in Units, SeriesOf[x] = JobOf[b], disk[First][x].sealed
        PROVE  x <= u
    BY <1>5, <2>2, StartsNewest
  <2>3. v <= u
    BY <2>1, <2>2
  <2>4. Newer(v) => v < u
    BY <2>2 DEF Newer
  <2> QED
    BY <1>5, <2>3, <2>4
<1> QED
  BY <1>4, <1>5

LEMMA JobsPass ==
    ASSUME TypeInv, PassInv, Jobs PROVE PassInv'
<1> USE DEF TypeInv, TypeOK, PassInv
<1>1. UNCHANGED <<row, locs, judged, pc, cur, todo, placed, view, busy, where, outcome>>
  BY JobsKeep DEF runVars, passVars, reportVars
<1>2. \A u \in Units : Seen(u)' = Seen(u)
  BY JobsSeen
<1>3. todo \cup placed \subseteq Units /\ (pc \in Working => cur \in Units)
  BY DEF RunTypeOK, CurInTodo
<1>4. ViewIsRecorded'
  <2>1. \A b \in Backups : view'[b] = "managed" => status'[b] = "success"
    BY <1>1, JobsKeep DEF ViewIsRecorded
  <2>2. /\ \A u \in todo' \cup placed' : Seen(u)' # {}
        /\ pc' \in Working => Seen(cur)' # {}
    BY <1>1, <1>2, <1>3 DEF ViewIsRecorded
  <2> QED
    BY <1>1, <2>1, <2>2 DEF ViewIsRecorded
<1>5. ChargeIsSeen'
  <2> SUFFICES ASSUME NEW b \in Backups
               PROVE  /\ view'[b] # "no" \/ judged'[b] # "no" => status'[b] = "success"
                      /\ view'[b] = "managed" =>
                           judged'[b] = "managed" \/ (pc' = "judge" /\ judged'[b] = "no")
                      /\ Managed(b)' /\ unitOf'[b] \in todo' \cup placed'
                           => view'[b] = "managed"
    BY DEF ChargeIsSeen
  <2>1. Managed(b)' => Managed(b) /\ unitOf'[b] = unitOf[b]
    BY <1>1, JobsKeep, UnitsAreNumbers DEF Managed, ChargeIsSeen, JobsInStep
  <2> QED
    BY <1>1, <2>1, JobsKeep DEF ChargeIsSeen
<1>6. \A u, i : InStage(u, i)' = InStage(u, i)
  BY <1>1 DEF InStage, Listed
<1>7. PassInOrder'
  BY <1>1, <1>6 DEF PassInOrder, Ahead
<1>8. Superseding'
  BY <1>1 DEF Superseding
<1>9. ReportHolds'
  BY <1>1, <1>6 DEF ReportHolds, Ahead
<1> QED
  BY <1>4, <1>5, <1>7, <1>8, <1>9

LEMMA JobsApartStays ==
    ASSUME TypeInv, BaseInv, PassInv, JobsApart, Jobs PROVE JobsApart'
<1> USE DEF TypeInv, TypeOK, JobsApart
<1>1. UNCHANGED <<row, locs, pc, cur, busy>>
  BY JobsKeep DEF runVars, passVars
<1>2. \A u \in Units : Seen(u)' = Seen(u)
  BY JobsSeen DEF PassInv
<1>3. pc \in Working => cur \in Units
  BY DEF RunTypeOK, CurInTodo
<1>4. CurIsOld'
  <2> SUFFICES ASSUME pc \in Working, InChain(cur) PROVE Newer(cur)'
    BY <1>1 DEF CurIsOld, InChain
  <2>1. PICK u \in Units : u = cur
    BY <1>3
  <2>2. Newer(u)'
    BY <2>1, JobsSeal, NewerStays DEF CurIsOld
  <2> QED
    BY <1>1, <2>1, <2>2 DEF Newer
<1>5. LateJobsElsewhere'
  <2> SUFFICES ASSUME pc \notin {"idle", "judge", "busy", "snapshot"},
                      NEW b \in Backups, phase'[b] \in Writing, JobOf[b] \notin busy,
                      NEW v \in Units, SeriesOf[v] = JobOf[b], Seen(v) # {}
               PROVE  IF JobOf[b] \in Chained
                      THEN /\ v <= unitOf'[b]
                           /\ (\E p \in locs[v] : p # First) => v < unitOf'[b]
                      ELSE v # unitOf'[b]
    BY <1>1, <1>2 DEF LateJobsElsewhere
  <2>1. CASE phase[b] \in Writing /\ unitOf'[b] = unitOf[b]
    BY <2>1 DEF LateJobsElsewhere
  <2>2. ASSUME NEW u \in Units, EngineStart(b, u), unitOf'[b] = u
        PROVE  IF JobOf[b] \in Chained
                      THEN /\ v <= unitOf'[b]
                           /\ (\E p \in locs[v] : p # First) => v < unitOf'[b]
                      ELSE v # unitOf'[b]
    <3>1. IF JobOf[b] \in Chained THEN v <= u /\ (Newer(v) => v < u) ELSE v # u
      BY <2>2, StartsLate DEF PassInv
    <3>2. (\E p \in locs[v] : p # First) /\ JobOf[b] \in Chained => Newer(v)
      BY DEF BaseInv, AwayIsOld, Away, InChain, StoreTypeOK
    <3> QED
      BY <2>2, <3>1, <3>2
  <2> QED
    BY <2>1, <2>2, JobsStart
<1>6. EngineLeftAlone'
  <2> SUFFICES ASSUME pc \in Working, NEW b \in Backups, unitOf'[b] = cur,
                      phase'[b] \in Writing
               PROVE  FALSE
    BY <1>1 DEF EngineLeftAlone, Writing
  <2>1. ~(phase[b] \in Writing /\ unitOf'[b] = unitOf[b])
    BY DEF EngineLeftAlone, Writing
  <2>2. PICK u \in Units : EngineStart(b, u) /\ unitOf'[b] = u
    BY <2>1, JobsStart
  <2>3. cur \in Units /\ u = cur /\ SeriesOf[cur] = JobOf[b] /\ Seen(cur) # {}
    BY <1>3, <2>2 DEF EngineStart, MayWrite, PassInv, ViewIsRecorded
  <2>4. IF JobOf[b] \in Chained THEN Newer(cur) => cur < u ELSE cur # u
    BY <2>2, <2>3, StartsLate DEF PassInv
  <2> QED
    BY <2>3, <2>4, UnitsAreNumbers DEF CurIsOld, InChain
<1> QED
  BY <1>4, <1>5, <1>6

LEMMA JobsWork ==
    ASSUME TypeInv, BaseInv, PassInv, JobsApart, WorkInv, Jobs PROVE WorkInv'
<1>1. UNCHANGED <<mounted, row, locs, runVars>>
  BY JobsKeep
<1>2. ASSUME pc \in Working
      PROVE  Seen(cur)' = Seen(cur) /\ \A p \in Paths : disk'[p][cur] = disk[p][cur]
  <2>0. PICK u \in Units : u = cur
    BY <1>2 DEF TypeInv, TypeOK, CurInTodo, RunTypeOK
  <2>1. Seen(u)' = Seen(u)
    BY JobsSeen DEF PassInv
  <2>2. Seen(cur)' = Seen(cur)
    BY <1>1, <2>0, <2>1 DEF runVars, Seen
  <2>3. EngineLeftAlone /\ EngineLeftAlone'
    BY JobsApartStays DEF JobsApart
  <2>4. ASSUME NEW p \in Paths, disk'[p][cur] # disk[p][cur] PROVE FALSE
    <3>1. PICK b \in Backups : unitOf'[b] = cur
                               /\ (phase[b] \in Writing \/ phase'[b] \in Writing)
      BY <2>0, <2>4, JobsWrite
    <3>2. phase[b] \in Writing => unitOf[b] = cur
      BY <3>1, JobsKeep DEF TypeInv, JobsInStep
    <3> QED
      BY <1>1, <1>2, <2>3, <3>1, <3>2 DEF EngineLeftAlone, Writing, runVars
  <2> QED
    BY <2>2, <2>4
<1> QED
  BY <1>1, <1>2, WorkUndisturbed DEF WorkInv

LEMMA EnvironmentRun ==
    ASSUME TypeInv, BaseInv, PassInv, JobsApart, WorkInv, Environment
    PROVE  PassInv' /\ JobsApart' /\ WorkInv'
<1> USE DEF TypeInv, TypeOK
<1>1. /\ UNCHANGED <<status, unitOf, judged, phase>>
      /\ UNCHANGED <<pc, cur, todo, placed, view, busy, where, outcome>>
  BY EnvironmentKeeps DEF runVars, passVars, reportVars
<1>2. \A u : Seen(u)' = Seen(u)
  BY <1>1 DEF Seen
<1>3. pc \in Working => cur \in Units /\ pc # "idle"
  BY DEF RunTypeOK, CurInTodo, Working, Locking
<1>4. pc # "idle" => /\ UNCHANGED <<row, locs>>
                     /\ \A u, i : InStage(u, i)' = InStage(u, i)
  BY EnvironmentKeeps DEF InStage, Listed
<1>5. PassInv'
  <2> USE DEF PassInv
  <2>1. ViewIsRecorded'
    BY <1>1, <1>2 DEF ViewIsRecorded
  <2>2. ChargeIsSeen'
    BY <1>1 DEF ChargeIsSeen, Managed
  <2>3. Superseding'
    BY <1>1 DEF Superseding
  <2>4. CASE pc = "idle"
    <3>1. /\ todo' = {} /\ Ahead' = {}
          /\ pc' \notin Acting /\ pc' \notin Working /\ pc' = "idle"
      BY <1>1, <2>4 DEF ViewIsRecorded, Ahead, Acting, Working, Locking
    <3>2. PassInOrder' /\ ReportHolds'
      BY <3>1 DEF PassInOrder, ReportHolds
    <3> QED
      BY <2>1, <2>2, <2>3, <3>2
  <2>5. CASE pc # "idle"
    <3>1. PassInOrder' /\ ReportHolds'
      BY <1>1, <1>4, <2>5 DEF PassInOrder, ReportHolds, Ahead
    <3> QED
      BY <2>1, <2>2, <2>3, <3>1
  <2> QED
    BY <2>4, <2>5
<1>6. CurIsOld'
  <2> SUFFICES ASSUME pc \in Working, InChain(cur) PROVE Newer(cur)'
    BY <1>1 DEF CurIsOld, InChain
  <2>1. PICK u \in Units : u = cur
    BY <1>3
  <2>2. Newer(u)'
    BY <2>1, EnvironmentSeals, NewerStays DEF CurIsOld, BaseInv, JobsApart
  <2> QED
    BY <1>1, <2>1, <2>2 DEF Newer
<1>7. LateJobsElsewhere' /\ EngineLeftAlone'
  BY <1>1, <1>2, <1>4 DEF JobsApart, LateJobsElsewhere, EngineLeftAlone
<1>8. WorkInv'
  <2>1. pc \in Working =>
              /\ UNCHANGED <<mounted, row, locs>>
              /\ Seen(cur)' = Seen(cur)
              /\ \A p \in Paths : disk'[p][cur] = disk[p][cur]
    BY <1>1, <1>2, <1>3, EnvironmentKeeps DEF Seen
  <2> QED
    BY <2>1, EnvironmentKeeps, WorkUndisturbed DEF WorkInv
<1> QED
  BY <1>5, <1>6, <1>7, <1>8 DEF JobsApart

----------------------------------------------------------------------------
(* The steps of a run, unit by unit.                                          *)

\* The unit is listed where it was; at most it got its row.
SameListing(u) ==
    /\ Listed(u)' = Listed(u)
    /\ row'[u] = row[u] \/ (row[u] = "none" /\ row'[u] = "managed")

LEMMA RowListing ==
    ASSUME StoreTypeOK, NEW u \in Units, EnsureRow(u)
    PROVE  /\ SameListing(u) /\ row'[u] # "none"
           /\ \A v \in Units \ {u} : row'[v] = row[v] /\ locs'[v] = locs[v]
BY DEF StoreTypeOK, EnsureRow, SameListing, Listed

\* Every unit but one keeps its place in the ledger and in the report.
OnlyTouches(x) ==
    \A v \in Units \ {x} : /\ row'[v] = row[v] /\ locs'[v] = locs[v]
                           /\ outcome'[v] = outcome[v] /\ where'[v] = where[v]

\* What a step of act can do to the unit whose turn it is.
Continues(x) ==
    /\ pc' \in Working \cap Acting /\ cur' = x /\ UNCHANGED <<todo, outcome, where>>
    /\ SameListing(x) /\ (pc' = "clear" <=> pc = "clear")
ListsAnew(x) ==
    /\ MoveRecord /\ pc = "commit" /\ pc' = "clear" /\ cur' = x /\ x = cur
    /\ UNCHANGED <<todo, outcome, where, row>>
    /\ row[x] # "none" /\ locs'[x] = PathsOf(goal)
Leaves(x) ==
    /\ pc' = "act" /\ todo' = todo \ {x} /\ UNCHANGED where
    /\ SameListing(x)
    /\ outcome'[x] = "failed" \/ pc # "clear"
Arrives(x) ==
    /\ pc = "clear" /\ pc' = "act" /\ todo' = todo \ {x} /\ x = cur
    /\ where'[x] = goal /\ row'[x] = row[x] /\ locs'[x] = locs[x]
Vanishes(x) ==
    /\ pc = "delete" /\ pc' = "act" /\ todo' = todo \ {x} /\ x = cur
    /\ where'[x] = Gone /\ row'[x] = "deleted"

LEMMA ActUnit ==
    ASSUME TypeInv, PassInOrder, Act \/ ActFail
    PROVE  /\ pc \in Acting
           /\ UNCHANGED <<mounted, status, unitOf, judged, placed, view, busy,
                          runRow, exit>>
           /\ \E x \in todo :
                 /\ Turn(x) /\ (pc \in Working => x = cur) /\ OnlyTouches(x)
                 /\ \/ Continues(x) \/ ListsAnew(x) \/ Leaves(x)
                    \/ Arrives(x) \/ Vanishes(x)
<1> USE DEF TypeInv, TypeOK, Settle, Proceed
<1> DEFINE Framed == UNCHANGED <<mounted, status, unitOf, judged, placed, view, busy,
                                 runRow, exit>>
           Touched(x) == /\ Turn(x) /\ (pc \in Working => x = cur) /\ OnlyTouches(x)
                         /\ \/ Continues(x) \/ ListsAnew(x) \/ Leaves(x)
                            \/ Arrives(x) \/ Vanishes(x)
<1> DEFINE Done == pc \in Acting /\ Framed /\ \E x \in todo : Touched(x)
<1> SUFFICES Done
  OBVIOUS
<1>1. pc \in Working => Turn(cur) /\ cur \in todo /\ cur \in Units
  BY DEF PassInOrder, Turn, CurInTodo, RunTypeOK
<1>2. UNCHANGED <<row, locs>> => \A u \in Units : SameListing(u)
  BY DEF SameListing, Listed
<1>3. \A u : Turn(u) => u \in todo /\ u \in Units
  BY DEF Turn, RunTypeOK
<1>4. \A x \in Units : \A result :
        outcome' = [outcome EXCEPT ![x] = result] =>
           \A v \in Units \ {x} : outcome'[v] = outcome[v]
  BY DEF RunTypeOK
<1>5. ASSUME NEW u \in Units, ActStay(u) PROVE Done
  <2>1. /\ pc = "act" /\ pc' = "act" /\ Turn(u) /\ Framed /\ EnsureRow(u)
        /\ UNCHANGED where /\ todo' = todo \ {u}
        /\ outcome' = [outcome EXCEPT ![u] = "stayed"]
    BY <1>5 DEF ActStay
  <2>2. OnlyTouches(u) /\ SameListing(u)
    BY <1>4, <2>1, RowListing DEF OnlyTouches
  <2>3. Leaves(u)
    BY <2>1, <2>2 DEF Leaves
  <2> QED
    BY <1>3, <2>1, <2>2, <2>3 DEF Acting, Working, Locking
<1>6. ASSUME NEW x \in Units, Turn(x), pc \in Acting, pc \in Working => x = cur,
             Framed, UNCHANGED <<row, locs, where>>, NEW result,
             pc' = "act", todo' = todo \ {x},
             outcome' = [outcome EXCEPT ![x] = result],
             result = "failed" \/ pc # "clear"
      PROVE  Done
  <2>1. OnlyTouches(x) /\ SameListing(x)
    BY <1>2, <1>4, <1>6 DEF OnlyTouches
  <2>2. result = "failed" => outcome'[x] = "failed"
    BY <1>6 DEF RunTypeOK
  <2>3. Leaves(x)
    BY <1>6, <2>1, <2>2 DEF Leaves
  <2> QED
    BY <1>3, <1>6, <2>1, <2>3
<1>7. ASSUME NEW x \in Units, Turn(x), pc \in Acting, pc \in Working => x = cur,
             Framed, UNCHANGED <<todo, outcome, where>>, cur' = x, pc' \in Working \cap Acting,
             SameListing(x),
             \A v \in Units \ {x} : row'[v] = row[v] /\ locs'[v] = locs[v],
             pc' = "clear" <=> pc = "clear"
      PROVE  Done
  BY <1>3, <1>7 DEF Continues, OnlyTouches
<1>8. ASSUME NEW u \in Units, ActHold(u) PROVE Done
  <2>1. /\ Turn(u) /\ pc = "act" /\ pc' = "act" /\ Framed
        /\ UNCHANGED <<row, locs, where>> /\ todo' = todo \ {u}
        /\ outcome' = [outcome EXCEPT ![u] = "held"]
    BY <1>8 DEF ActHold
  <2> QED
    BY <1>6, <2>1 DEF Acting, Working, Locking
<1>9. ASSUME NEW u \in Units, NEW stage \in Stages, NEW from \in Paths,
             MoveStart(u, stage, from) \/ DeleteStart(u)
      PROVE  Done
  <2>1. /\ Turn(u) /\ pc = "act" /\ Framed /\ UNCHANGED <<row, locs, where>>
        /\ \/ /\ pc' \in {"copy", "condemn"} /\ cur' = u
              /\ UNCHANGED <<todo, outcome>>
           \/ /\ pc' = "act" /\ todo' = todo \ {u}
              /\ outcome' = [outcome EXCEPT ![u] = "refused"]
    BY <1>9 DEF MoveStart, DeleteStart
  <2> QED
    BY <1>2, <1>6, <1>7, <2>1 DEF Acting, Working, Locking
<1>10. CASE MoveLock \/ \E p \in Paths : \/ MoveCopy(p) \/ MoveRename(p)
                                         \/ MoveRemove(p) \/ DeleteRemove(p)
  <2>1. /\ pc \in {"copy", "commit", "clear", "delete"}
        /\ Framed /\ UNCHANGED <<row, locs, where>>
        /\ \/ /\ pc' \in {pc, "commit"} \ {"act"} /\ (pc' # pc => pc = "copy")
              /\ UNCHANGED <<cur, todo, outcome>>
           \/ /\ pc' = "act" /\ pc # "clear" /\ todo' = todo \ {cur}
              /\ \/ outcome' = [outcome EXCEPT ![cur] = "refused"]
                 \/ outcome' = [outcome EXCEPT ![cur] = "deferred"]
    BY <1>10 DEF MoveLock, MoveCopy, MoveRename, MoveRemove, DeleteRemove
  <2>2. pc \in Working /\ pc \in Acting
    BY <2>1 DEF Working, Locking, Acting
  <2>3. CASE pc' = "act" /\ pc # "clear" /\ todo' = todo \ {cur}
              /\ \/ outcome' = [outcome EXCEPT ![cur] = "refused"]
                 \/ outcome' = [outcome EXCEPT ![cur] = "deferred"]
    BY <1>1, <1>6, <2>1, <2>2, <2>3
  <2>4. CASE /\ pc' \in {pc, "commit"} \ {"act"} /\ (pc' # pc => pc = "copy")
              /\ UNCHANGED <<cur, todo, outcome>>
    <3>1. pc' \in Working \cap Acting /\ (pc' = "clear" <=> pc = "clear")
      BY <2>1, <2>4 DEF Working, Locking, Acting
    <3>2. SameListing(cur) /\ \A v \in Units \ {cur} : row'[v] = row[v] /\ locs'[v] = locs[v]
      BY <1>1, <1>2, <2>1, <2>2
    <3> QED
      BY <1>1, <1>7, <2>1, <2>2, <2>4, <3>1, <3>2
  <2> QED
    BY <2>1, <2>3, <2>4
<1>11. CASE MoveEnsureRow
  <2>1. /\ pc = "commit" /\ pc' = "commit" /\ Framed /\ EnsureRow(cur)
        /\ UNCHANGED <<cur, todo, outcome, where>>
    BY <1>11 DEF MoveEnsureRow
  <2> QED
    BY <1>1, <1>7, <2>1, RowListing DEF Acting, Working, Locking
<1>12. CASE DeleteLock
  <2>1. CASE pc' = "delete"
    <3>1. /\ pc = "condemn" /\ Framed /\ EnsureRow(cur)
          /\ UNCHANGED <<cur, todo, outcome, where>>
      BY <1>12, <2>1 DEF DeleteLock
    <3> QED
      BY <1>1, <1>7, <2>1, <3>1, RowListing DEF Acting, Working, Locking
  <2>2. CASE pc' # "delete"
    <3>1. /\ pc = "condemn" /\ pc' = "act" /\ Framed /\ UNCHANGED <<row, locs, where>>
          /\ todo' = todo \ {cur} /\ outcome' = [outcome EXCEPT ![cur] = "deferred"]
      BY <1>12, <2>2 DEF DeleteLock
    <3> QED
      BY <1>1, <1>6, <3>1 DEF Acting, Working, Locking
  <2> QED
    BY <2>1, <2>2
<1>13. CASE MoveRecord
  <2>1. /\ pc = "commit" /\ pc' = "clear" /\ Framed /\ row[cur] # "none"
        /\ UNCHANGED <<cur, todo, outcome, where, row>>
        /\ locs' = [locs EXCEPT ![cur] = PathsOf(goal)]
    BY <1>13 DEF MoveRecord
  <2>2. ListsAnew(cur) /\ OnlyTouches(cur)
    BY <1>1, <1>13, <2>1 DEF ListsAnew, OnlyTouches, Working, Locking, StoreTypeOK
  <2> QED
    BY <1>1, <2>1, <2>2 DEF Acting, Working, Locking
<1>14. CASE MoveDone
  <2>1. /\ pc = "clear" /\ pc' = "act" /\ Framed /\ UNCHANGED <<row, locs>>
        /\ todo' = todo \ {cur} /\ where' = [where EXCEPT ![cur] = goal]
        /\ outcome' = [outcome EXCEPT ![cur] = "moved"]
    BY <1>14 DEF MoveDone
  <2>2. Arrives(cur) /\ OnlyTouches(cur)
    BY <1>1, <2>1 DEF Arrives, OnlyTouches, Working, Locking, RunTypeOK
  <2> QED
    BY <1>1, <2>1, <2>2 DEF Acting, Working, Locking
<1>15. CASE DeleteRecord
  <2>1. /\ pc = "delete" /\ pc' = "act" /\ Framed
        /\ row' = [row EXCEPT ![cur] = "deleted"] /\ locs' = [locs EXCEPT ![cur] = {}]
        /\ todo' = todo \ {cur} /\ where' = [where EXCEPT ![cur] = Gone]
        /\ outcome' = [outcome EXCEPT ![cur] = "deleted"]
    BY <1>15 DEF DeleteRecord
  <2>2. Vanishes(cur) /\ OnlyTouches(cur)
    BY <1>1, <2>1 DEF Vanishes, OnlyTouches, Working, Locking, RunTypeOK, StoreTypeOK
  <2> QED
    BY <1>1, <2>1, <2>2 DEF Acting, Working, Locking
<1>16. CASE ActFail
  <2>1. PICK x \in Units :
          /\ Settle(x, "failed") /\ Turn(x)
          /\ pc = "act" \/ (pc \in Working /\ x = cur /\ pc \in Acting)
    <3>1. CASE pc \in {"copy", "commit", "clear", "condemn", "delete"}
               /\ Settle(cur, "failed")
      BY <1>1, <3>1 DEF Working, Locking, Acting
    <3> QED
      BY <1>3, <1>16, <3>1 DEF ActFail
  <2>2. Framed /\ UNCHANGED <<row, locs, where>> /\ pc' = "act" /\ todo' = todo \ {x}
        /\ outcome' = [outcome EXCEPT ![x] = "failed"]
    BY <1>16, <2>1 DEF ActFail
  <2> QED
    BY <1>6, <2>1, <2>2 DEF Acting, Working, Locking
<1> HIDE DEF Done
<1>17. First \in Paths /\ StageOf[First] \in Stages
  BY FirstStageHasOnePath DEF Stages
<1>18. (\E u \in Units : ActStay(u) \/ ActHold(u) \/ DeleteStart(u)) => Done
  BY <1>5, <1>8, <1>9, <1>17
<1>19. (\E u \in Units, stage \in Stages, from \in Paths : MoveStart(u, stage, from)) => Done
  BY <1>9
<1> QED
  BY <1>10, <1>11, <1>12, <1>13, <1>14, <1>15, <1>16, <1>18, <1>19 DEF Act

\* A unit's stage is unique, and it is a configured one.
LEMMA OneStage ==
    ASSUME TypeInv, NEW u \in Units
    PROVE  /\ \A i, j \in Int : InStage(u, i) /\ InStage(u, j) => i = j
           /\ \A i : InStage(u, i) => i \in Stages /\ i \in Nat
           /\ Listed(u) \subseteq Paths
<1> USE FirstStageHasOnePath
<1>1. Listed(u) \subseteq Paths
  BY DEF Listed, TypeInv, TypeOK, StoreTypeOK
<1>2. \A p \in Listed(u) : StageOf[p] \in Nat
  BY <1>1
<1>3. ASSUME NEW i \in Int, NEW j \in Int, InStage(u, i), InStage(u, j) PROVE i = j
  <2>1. i <= j /\ j <= i
    BY <1>3 DEF InStage
  <2> QED
    BY <2>1
<1>4. \A i : InStage(u, i) => i \in Stages /\ i \in Nat
  BY <1>1 DEF InStage, Stages
<1> QED
  BY <1>1, <1>3, <1>4

\* The report, were it made now, would count the unit where it is.
ReportedRight(u) == where[u] = Unreported \/ (where[u] # Gone /\ InStage(u, where[u]))

LEMMA SweepUnit ==
    ASSUME TypeInv, PassInv, TrimHolds, Sweep
    PROVE  /\ pc \in Sweeping /\ pc' \in Sweeping
           /\ UNCHANGED <<mounted, status, unitOf, judged, view, busy, row>>
           /\ \E x \in todo :
                 /\ Turn(x) /\ (pc \in Working => x = cur) /\ OnlyTouches(x)
                 /\ ReportedRight(x)'
                 /\ \/ /\ pc' \in {"keep", "trim"} /\ cur' = x
                       /\ UNCHANGED <<todo, placed, outcome, locs>>
                    \/ /\ pc' = "sweep" /\ todo' = todo \ {x} /\ outcome'[x] # "failed"
                       /\ UNCHANGED <<placed, locs>>
                    \/ /\ pc' = "sweep" /\ todo' = todo \ {x} /\ outcome'[x] # "failed"
                       /\ placed' = placed \cup {x} /\ SeriesOf[x] \notin busy
                       /\ \E i \in Stages : InStage(x, i)'
<1> USE DEF TypeInv, TypeOK, Settle, Proceed, OnlyTouches
<1>1. pc \in Working =>
        /\ Turn(cur) /\ cur \in todo /\ cur \in Units /\ SeriesOf[cur] \notin busy
  BY DEF PassInv, PassInOrder, ViewIsRecorded, Turn, CurInTodo, RunTypeOK
<1>2. \A u : Turn(u) => u \in todo /\ u \in Units
  BY DEF Turn, RunTypeOK
<1>3. \A u \in todo : pc \in Sweeping => ReportedRight(u) /\ outcome[u] # "failed"
  BY DEF PassInv, ReportHolds, ReportedRight, RunTypeOK, Sweeping
<1>4. UNCHANGED <<row, locs>> => \A u, i : InStage(u, i)' = InStage(u, i)
  BY DEF InStage, Listed
<1>5. \A u \in todo : pc \in Sweeping /\ UNCHANGED <<row, locs, where>> => ReportedRight(u)'
  BY <1>3, <1>4 DEF ReportedRight
<1>6. ASSUME NEW u \in todo, NEW i, InStage(u, i), UNCHANGED <<row, locs>>,
             where' = [where EXCEPT ![u] = i]
      PROVE  ReportedRight(u)' /\ InStage(u, i)'
  <2>1. i \in Nat /\ where'[u] = i /\ InStage(u, i)'
    BY <1>2, <1>4, <1>6, OneStage DEF RunTypeOK
  <2> QED
    BY <2>1 DEF ReportedRight, Gone
<1>7. ASSUME NEW u \in Units, SweepDefer(u) \/ SweepRefuse(u)
      PROVE  /\ Turn(u) /\ pc = "sweep" /\ OnlyTouches(u) /\ ReportedRight(u)'
             /\ UNCHANGED <<pc, mounted, status, unitOf, judged, view, busy, row,
                            placed, locs>>
             /\ todo' = todo \ {u} /\ outcome'[u] # "failed"
  <2>1. /\ Turn(u) /\ pc = "sweep" /\ todo' = todo \ {u}
        /\ UNCHANGED <<pc, mounted, status, unitOf, judged, view, busy, row, placed,
                       locs>>
        /\ \/ outcome' = [outcome EXCEPT ![u] = "deferred"]
           \/ outcome' = [outcome EXCEPT ![u] = "refused"]
        /\ \/ UNCHANGED where
           \/ \E i \in Stages : InStage(u, i) /\ where' = [where EXCEPT ![u] = i]
    BY <1>7 DEF SweepDefer, SweepRefuse
  <2>2. ReportedRight(u)'
    BY <1>2, <1>5, <1>6, <2>1 DEF Sweeping
  <2> QED
    BY <2>1, <2>2 DEF RunTypeOK
<1>8. ASSUME NEW u \in Units, NEW stage \in Stages, SweepPlace(u, stage)
      PROVE  /\ Turn(u) /\ pc = "sweep" /\ OnlyTouches(u) /\ ReportedRight(u)'
             /\ UNCHANGED <<pc, mounted, status, unitOf, judged, view, busy, row>>
             /\ todo' = todo \ {u} /\ outcome'[u] # "failed"
             /\ placed' = placed \cup {u} /\ SeriesOf[u] \notin busy
             /\ InStage(u, stage)'
  <2>1. /\ Turn(u) /\ pc = "sweep" /\ SeriesOf[u] \notin busy /\ InStage(u, stage)
        /\ todo' = todo \ {u} /\ placed' = placed \cup {u}
        /\ where' = [where EXCEPT ![u] = stage]
        /\ UNCHANGED <<pc, mounted, status, unitOf, judged, view, busy, row, locs,
                       outcome>>
    BY <1>8 DEF SweepPlace, storeVars, ledgerVars
  <2>2. ReportedRight(u)' /\ InStage(u, stage)' /\ outcome[u] # "failed"
    BY <1>2, <1>3, <1>6, <2>1 DEF Sweeping
  <2> QED
    BY <2>1, <2>2 DEF RunTypeOK
<1>9. ASSUME NEW u \in Units, NEW stage \in Stages, SweepInterrupted(u, stage)
      PROVE  /\ Turn(u) /\ pc = "sweep" /\ OnlyTouches(u) /\ ReportedRight(u)'
             /\ UNCHANGED <<mounted, status, unitOf, judged, view, busy, row, locs, placed>>
             /\ \/ pc' = "keep" /\ cur' = u /\ UNCHANGED <<todo, outcome>>
                \/ pc' = "sweep" /\ todo' = todo \ {u} /\ outcome'[u] # "failed"
  <2>1. /\ Turn(u) /\ pc = "sweep" /\ InStage(u, stage)
        /\ where' = [where EXCEPT ![u] = stage]
        /\ UNCHANGED <<mounted, status, unitOf, judged, view, busy, row, locs, placed>>
        /\ \/ pc' = "keep" /\ cur' = u /\ UNCHANGED <<todo, outcome>>
           \/ /\ pc' = "sweep" /\ todo' = todo \ {u}
              /\ outcome' = [outcome EXCEPT ![u] = "refused"]
    BY <1>9 DEF SweepInterrupted
  <2>2. ReportedRight(u)'
    BY <1>2, <1>6, <2>1
  <2> QED
    BY <2>1, <2>2 DEF RunTypeOK
<1>10. ASSUME TrimLock \/ \E p \in Paths : TrimRemove(p), NEW x \in todo, x = cur
       PROVE  /\ pc \in {"keep", "trim"} /\ OnlyTouches(x) /\ ReportedRight(x)'
              /\ UNCHANGED <<mounted, status, unitOf, judged, view, busy, row, locs, placed>>
              /\ \/ pc' = "trim" /\ cur' = x /\ UNCHANGED <<todo, outcome>>
                 \/ pc' = "sweep" /\ todo' = todo \ {x} /\ outcome'[x] # "failed"
  <2>1. /\ pc \in {"keep", "trim"} /\ UNCHANGED where
        /\ UNCHANGED <<mounted, status, unitOf, judged, view, busy, row, locs, placed>>
        /\ \/ pc' = "trim" /\ UNCHANGED <<cur, todo, outcome>>
           \/ /\ pc' = "sweep" /\ todo' = todo \ {x}
              /\ \/ outcome' = [outcome EXCEPT ![x] = "refused"]
                 \/ outcome' = [outcome EXCEPT ![x] = "deferred"]
    BY <1>10 DEF TrimLock, TrimRemove
  <2>2. ReportedRight(x)' /\ x \in Units
    BY <1>5, <2>1 DEF Sweeping, RunTypeOK
  <2> QED
    BY <1>10, <2>1, <2>2 DEF RunTypeOK
<1>11. ASSUME TrimRecord, NEW x \in todo, x = cur
       PROVE  /\ pc = "trim" /\ OnlyTouches(x) /\ ReportedRight(x)'
              /\ UNCHANGED <<mounted, status, unitOf, judged, view, busy, row>>
              /\ pc' = "sweep" /\ todo' = todo \ {x} /\ outcome'[x] # "failed"
              /\ placed' = placed \cup {x} /\ InStage(x, goal) /\ goal \in Stages
              /\ \A i \in Int : i = goal => InStage(x, i)'
  <2>1. /\ pc = "trim" /\ pc' = "sweep" /\ todo' = todo \ {x} /\ placed' = placed \cup {x}
        /\ UNCHANGED <<mounted, status, unitOf, judged, view, busy, row, where>>
        /\ locs' = [locs EXCEPT ![x] = @ \ Leftovers(x, goal)]
        /\ outcome' = [outcome EXCEPT ![x] = "none"]
    BY <1>11 DEF TrimRecord
  <2>2. x \in Units /\ goal \in Nat
    BY DEF RunTypeOK
  <2>3. InStage(x, goal) /\ row[x] # "none"
    BY <1>11, <2>1 DEF TrimHolds
  <2>4. Listed(x) = locs[x] /\ Listed(x)' = locs[x] \ Leftovers(x, goal)
    BY <2>1, <2>2, <2>3 DEF Listed, StoreTypeOK
  <2>5. \A i \in Int : i = goal => InStage(x, i)'
    BY <2>3, <2>4 DEF InStage, Leftovers
  <2>6. ReportedRight(x) /\ where[x] \in Int
    BY <1>3, <2>1, <2>2 DEF Sweeping, RunTypeOK
  <2>7. ReportedRight(x)'
    BY <2>1, <2>2, <2>3, <2>5, <2>6, OneStage DEF ReportedRight
  <2> QED
    BY <2>1, <2>2, <2>3, <2>5, <2>7, OneStage DEF RunTypeOK, StoreTypeOK
<1> HIDE DEF OnlyTouches
<1>12. ASSUME \/ \E u \in Units : SweepDefer(u) \/ SweepRefuse(u)
              \/ \E u \in Units, stage \in Stages :
                    SweepPlace(u, stage) \/ SweepInterrupted(u, stage)
       PROVE  pc = "sweep" /\ \E x \in todo :
                 /\ Turn(x) /\ OnlyTouches(x) /\ ReportedRight(x)'
                 /\ UNCHANGED <<mounted, status, unitOf, judged, view, busy, row>>
                 /\ \/ /\ pc' \in {"keep", "trim"} /\ cur' = x
                       /\ UNCHANGED <<todo, placed, outcome, locs>>
                    \/ /\ pc' = "sweep" /\ todo' = todo \ {x} /\ outcome'[x] # "failed"
                       /\ UNCHANGED <<placed, locs>>
                    \/ /\ pc' = "sweep" /\ todo' = todo \ {x} /\ outcome'[x] # "failed"
                       /\ placed' = placed \cup {x} /\ SeriesOf[x] \notin busy
                       /\ \E i \in Stages : InStage(x, i)'
  <2>1. CASE \E u \in Units : SweepDefer(u) \/ SweepRefuse(u)
    BY <1>2, <1>7, <2>1
  <2>2. CASE \E u \in Units, stage \in Stages : SweepPlace(u, stage)
    BY <1>2, <1>8, <2>2
  <2>3. CASE \E u \in Units, stage \in Stages : SweepInterrupted(u, stage)
    BY <1>2, <1>9, <2>3
  <2> QED
    BY <1>12, <2>1, <2>2, <2>3
<1>13. CASE TrimLock \/ TrimRecord \/ \E p \in Paths : TrimRemove(p)
  <2>1. pc \in {"keep", "trim"}
    BY <1>13 DEF TrimLock, TrimRecord, TrimRemove
  <2>2. PICK x \in todo : x = cur
    BY <1>1, <2>1 DEF Working, Locking
  <2>3. CASE TrimLock \/ \E p \in Paths : TrimRemove(p)
    BY <1>1, <1>10, <2>1, <2>2, <2>3 DEF Sweeping, Working, Locking
  <2>4. CASE TrimRecord
    <3>1. goal \in Stages /\ goal \in Int /\ \A i \in Int : i = goal => InStage(x, i)'
      BY <1>11, <2>2, <2>4 DEF RunTypeOK
    <3>2. \E i \in Stages : InStage(x, i)'
      BY <3>1
    <3> QED
      BY <1>1, <1>11, <2>1, <2>2, <2>4, <3>2 DEF Sweeping, Working, Locking
  <2> QED
    BY <1>13, <2>3, <2>4
<1> QED
  BY <1>12, <1>13 DEF Sweep, Sweeping, Working, Locking

\* A unit taken up in act is not the newest of its series.
LEMMA TakesUpOld ==
    ASSUME TypeInv, Act, pc = "act", pc' \in Working
    PROVE  \E v \in placed : SeriesOf[v] = SeriesOf[cur'] /\ cur' < v
<1> USE UnitsAreNumbers DEF TypeInv, TypeOK, RunTypeOK
<1>1. ASSUME NEW u \in Units, Turn(u), ~Newest(u), cur' = u
      PROVE  \E v \in placed : SeriesOf[v] = SeriesOf[cur'] /\ cur' < v
  BY <1>1 DEF Newest
<1>2. \/ \E u \in Units : DeleteStart(u) /\ cur' = u
      \/ \E u \in Units, stage \in Stages, from \in Paths :
            MoveStart(u, stage, from) /\ cur' = u
  BY DEF Act, ActStay, ActHold, DeleteStart, MoveStart, MoveLock, MoveEnsureRow,
     MoveRecord, MoveDone, DeleteLock, DeleteRecord, MoveCopy, MoveRename,
     MoveRemove, DeleteRemove, Working, Locking
<1> QED
  BY <1>1, <1>2 DEF DeleteStart, MoveStart

LEMMA ActPass ==
    ASSUME TypeInv, PassInv, MoveHolds, Act \/ ActFail PROVE PassInv'
<1> USE DEF TypeInv, TypeOK
<1>1. /\ pc \in Acting /\ PassInOrder
      /\ UNCHANGED <<mounted, status, unitOf, judged, placed, view, busy>>
  BY ActUnit DEF PassInv
<1>2. PICK x \in todo :
        /\ Turn(x) /\ (pc \in Working => x = cur) /\ OnlyTouches(x)
        /\ \/ Continues(x) \/ ListsAnew(x) \/ Leaves(x) \/ Arrives(x) \/ Vanishes(x)
  BY ActUnit DEF PassInv
<1>3. x \in Units /\ todo \subseteq Units /\ placed \subseteq Units
  BY DEF RunTypeOK
<1>4. \/ todo' = todo /\ pc' \in Working \cap Acting /\ cur' = x
      \/ todo' = todo \ {x} /\ pc' = "act"
  BY <1>2 DEF Continues, ListsAnew, Leaves, Arrives, Vanishes, Working, Locking, Acting
<1>5. /\ pc' \in Acting /\ todo' \subseteq todo /\ (pc' \in Working => cur' = x /\ todo' = todo)
      /\ pc' \notin {"idle", "judge", "busy", "snapshot"}
      /\ pc \notin {"idle", "judge", "busy", "snapshot"}
  BY <1>1, <1>4 DEF Acting, Working, Locking
<1>6. \A u : Seen(u)' = Seen(u)
  BY <1>1 DEF Seen
<1>7. todo \subseteq placed
  BY <1>1 DEF PassInv, ViewIsRecorded
<1>8. ViewIsRecorded'
  <2>1. pc' \in Working => Seen(cur)' # {} /\ SeriesOf[cur'] \notin busy'
    BY <1>1, <1>2, <1>5, <1>6, <1>7 DEF PassInv, ViewIsRecorded, Seen
  <2>2. \A u \in todo' \cup placed' : Seen(u)' # {}
    BY <1>1, <1>5, <1>6 DEF PassInv, ViewIsRecorded
  <2> QED
    BY <1>1, <1>5, <1>7, <2>1, <2>2 DEF PassInv, ViewIsRecorded
<1>9. ChargeIsSeen'
  BY <1>1, <1>5 DEF PassInv, ChargeIsSeen, Managed, Acting
<1>10. Superseding'
  <2> SUFFICES ASSUME pc' \in Working
               PROVE  \E v \in placed : SeriesOf[v] = SeriesOf[cur'] /\ cur' < v
    BY <1>1 DEF Superseding
  <2>1. CASE pc \in Working
    BY <1>1, <1>2, <1>5, <2>1 DEF PassInv, Superseding
  <2>2. CASE pc \notin Working
    <3>1. pc = "act"
      BY <1>1, <2>2 DEF Acting, Working, Locking
    <3>2. Act
      BY DEF ActFail, Working, Locking
    <3> QED
      BY <3>1, <3>2, TakesUpOld
  <2> QED
    BY <2>1, <2>2
<1>11. \A u \in Units \ {x} : Listed(u)' = Listed(u) /\ (\A i : InStage(u, i)' = InStage(u, i))
  BY <1>2 DEF OnlyTouches, Listed, InStage
<1>12. x \in Ahead /\ Ahead' = todo' /\ Ahead = todo
  BY <1>1, <1>5 DEF Ahead
<1>13. row[x] # "deleted" /\ \E i \in Stages : InStage(x, i)
  BY <1>1, <1>12 DEF PassInOrder
<1>14. PassInOrder'
  <2>1. ASSUME NEW u \in todo' PROVE row'[u] # "deleted" /\ \E i \in Stages : InStage(u, i)'
    <3>1. CASE u # x
      BY <1>1, <1>2, <1>3, <1>5, <1>11, <1>12, <2>1, <3>1 DEF PassInOrder, OnlyTouches
    <3>2. CASE u = x /\ Continues(x)
      BY <1>13, <3>2 DEF Continues, SameListing, InStage
    <3>3. CASE u = x /\ ListsAnew(x)
      <4>1. Listed(x)' = PathsOf(goal) /\ PathsOf(goal) # {} /\ row'[x] # "deleted"
        BY <1>13, <3>3 DEF ListsAnew, Listed, MoveHolds
      <4>2. goal \in Stages /\ goal \in Nat
        BY <4>1 DEF PathsOf, Stages, RunTypeOK
      <4>3. InStage(x, goal)' \/ goal' # goal
        BY <4>1, <4>2 DEF InStage, PathsOf
      <4>4. goal' = goal
        BY <3>3 DEF ListsAnew, MoveRecord
      <4> QED
        BY <3>3, <4>1, <4>2, <4>3, <4>4
    <3>4. u = x => Continues(x) \/ ListsAnew(x)
      BY <1>2, <2>1 DEF Leaves, Arrives, Vanishes
    <3> QED
      BY <3>1, <3>2, <3>3, <3>4
  <2>2. \A u \in placed' \ todo', v \in todo' : u < v
    <3> SUFFICES ASSUME NEW u \in placed \ todo', NEW v \in todo' PROVE u < v
      BY <1>1
    <3>1. CASE u \notin todo
      BY <1>1, <1>5, <3>1 DEF PassInOrder
    <3>2. CASE u \in todo
      <4>1. u = x /\ v \in todo /\ v # x
        BY <1>4, <3>2
      <4> QED
        BY <1>2, <1>3, <4>1, UnitsAreNumbers DEF Turn
    <3> QED
      BY <3>1, <3>2
  <2>3. pc' \in Working => \A v \in todo' : cur' <= v
    BY <1>2, <1>5 DEF Turn
  <2> QED
    BY <1>12, <2>1, <2>2, <2>3 DEF PassInOrder
<1>15. ReportHolds'
  <2>0. outcome[x] # "failed" /\ where[x] # Gone
    BY <1>12 DEF PassInv, ReportHolds
  <2>1. \A u \in todo' : where'[u] # Gone /\ outcome'[u] # "failed"
    <3>1. \A u \in todo : where[u] # Gone /\ outcome[u] # "failed"
      BY DEF PassInv, ReportHolds
    <3>2. \A u \in todo' \ {x} : where'[u] # Gone /\ outcome'[u] # "failed"
      BY <1>2, <1>3, <1>5, <3>1 DEF OnlyTouches
    <3>3. x \in todo' => where' = where /\ outcome' = outcome
      BY <1>2 DEF Continues, ListsAnew, Leaves, Arrives, Vanishes
    <3> QED
      BY <2>0, <3>2, <3>3
  <2>2. ASSUME NEW u \in Units, outcome'[u] # "failed", where'[u] # Unreported,
               ~(pc' = "clear" /\ u = cur')
        PROVE  IF where'[u] = Gone THEN row'[u] = "deleted" ELSE InStage(u, where[u])'
    <3>1. CASE u # x
      <4>1. /\ row'[u] = row[u] /\ outcome'[u] = outcome[u] /\ where'[u] = where[u]
            /\ \A i : InStage(u, i)' = InStage(u, i)
        BY <1>2, <1>11, <3>1 DEF OnlyTouches
      <4>2. IF where[u] = Gone THEN row[u] = "deleted" ELSE InStage(u, where[u])
        BY <1>2, <1>5, <2>2, <3>1, <4>1 DEF PassInv, ReportHolds, Working, Locking
      <4>3. InStage(u, where[u])' = InStage(u, where[u])
        BY <1>2, <3>1, <4>1 DEF OnlyTouches, InStage, Listed
      <4> QED
        BY <4>1, <4>2, <4>3
    <3>2. CASE u = x /\ UNCHANGED where /\ SameListing(x) /\ ~(pc = "clear" /\ x = cur)
      <4>1. InStage(x, where[x])
        BY <1>3, <1>5, <2>0, <2>2, <3>2 DEF PassInv, ReportHolds
      <4> QED
        BY <2>0, <3>2, <4>1 DEF SameListing, InStage
    <3>3. CASE u = x /\ Arrives(x)
      <4>1. /\ row[x] # "none" /\ locs[x] = PathsOf(goal) /\ PathsOf(goal) # {}
            /\ goal \in Nat
        BY <3>3 DEF Arrives, MoveHolds, RunTypeOK
      <4>2. where'[x] = goal /\ Listed(x)' = PathsOf(goal)
        BY <3>3, <4>1 DEF Arrives, Listed
      <4>3. InStage(x, where[x])'
        BY <4>1, <4>2 DEF InStage, PathsOf
      <4> QED
        BY <3>3, <4>1, <4>2, <4>3 DEF Gone
    <3>4. CASE u = x /\ Vanishes(x)
      BY <3>4 DEF Vanishes
    <3>5. u = x => \/ UNCHANGED where /\ SameListing(x) /\ ~(pc = "clear" /\ x = cur)
                   \/ Arrives(x) \/ Vanishes(x)
      <4>1. ~ListsAnew(x) \/ u # x
        BY <2>2 DEF ListsAnew
      <4>2. u = x /\ Continues(x) => pc # "clear"
        BY <2>2 DEF Continues
      <4>3. u = x /\ Leaves(x) => pc # "clear"
        BY <2>2 DEF Leaves
      <4> QED
        BY <1>2, <4>1, <4>2, <4>3 DEF Continues, Leaves
    <3> QED
      BY <3>1, <3>2, <3>3, <3>4, <3>5
  <2> QED
    BY <1>12, <2>1, <2>2 DEF ReportHolds
<1> QED
  BY <1>8, <1>9, <1>10, <1>14, <1>15 DEF PassInv

LEMMA SweepPass ==
    ASSUME TypeInv, PassInv, TrimHolds, Sweep PROVE PassInv'
<1> USE DEF TypeInv, TypeOK
<1>1. /\ pc \in Sweeping /\ pc' \in Sweeping
      /\ UNCHANGED <<mounted, status, unitOf, judged, view, busy, row>>
  BY SweepUnit
<1>2. PICK x \in todo :
        /\ Turn(x) /\ (pc \in Working => x = cur) /\ OnlyTouches(x)
        /\ ReportedRight(x)'
        /\ \/ /\ pc' \in {"keep", "trim"} /\ cur' = x
              /\ UNCHANGED <<todo, placed, outcome, locs>>
           \/ /\ pc' = "sweep" /\ todo' = todo \ {x} /\ outcome'[x] # "failed"
              /\ UNCHANGED <<placed, locs>>
           \/ /\ pc' = "sweep" /\ todo' = todo \ {x} /\ outcome'[x] # "failed"
              /\ placed' = placed \cup {x} /\ SeriesOf[x] \notin busy
              /\ \E i \in Stages : InStage(x, i)'
  BY SweepUnit
<1>3. x \in Units /\ todo \subseteq Units /\ placed \subseteq Units
  BY DEF RunTypeOK
<1>4. /\ pc \notin Acting /\ pc' \notin Acting
      /\ pc \notin {"idle", "judge", "busy", "snapshot", "clear"}
      /\ pc' \notin {"idle", "judge", "busy", "snapshot", "clear"}
      /\ pc' \notin Working \cap Acting
      /\ pc' \in Working => cur' = x /\ todo' = todo
  BY <1>1, <1>2 DEF Sweeping, Acting, Working, Locking
<1>5. \A u : Seen(u)' = Seen(u)
  BY <1>1 DEF Seen
<1>6. todo' \cup placed' \subseteq todo \cup placed /\ todo' \subseteq todo
  BY <1>2
<1>7. ViewIsRecorded'
  <2>1. \A u \in placed' : SeriesOf[u] \notin busy
    BY <1>2 DEF PassInv, ViewIsRecorded
  <2>2. \A u \in todo' \cup placed' : Seen(u)' # {}
    BY <1>5, <1>6 DEF PassInv, ViewIsRecorded
  <2>3. pc' \in Working => Seen(cur)' # {} /\ SeriesOf[cur'] \notin busy
    <3>1. CASE pc \in Working
      BY <1>1, <1>2, <1>4, <3>1 DEF PassInv, ViewIsRecorded, Seen
    <3>2. CASE pc \notin Working /\ pc' \in Working
      <4>1. \E u \in Units, stage \in Stages :
               SweepInterrupted(u, stage) /\ cur' = u
        BY <3>2 DEF Sweep, SweepDefer, SweepRefuse, SweepPlace, SweepInterrupted,
           TrimLock, TrimRemove, TrimRecord, Proceed, Working, Locking
      <4>2. cur' \in todo /\ SeriesOf[cur'] \notin busy
        BY <4>1 DEF SweepInterrupted, Turn
      <4> QED
        BY <1>1, <4>2 DEF PassInv, ViewIsRecorded, Seen
    <3> QED
      BY <3>1, <3>2
  <2> QED
    BY <1>1, <1>4, <2>1, <2>2, <2>3 DEF PassInv, ViewIsRecorded
<1>8. ChargeIsSeen'
  BY <1>1, <1>4, <1>6 DEF PassInv, ChargeIsSeen, Managed
<1>9. Superseding'
  BY <1>4 DEF Superseding
<1>10. Ahead' = placed' /\ Ahead = placed
  BY <1>4 DEF Ahead
<1>11. \A u \in Units \ {x} : \A i : InStage(u, i)' = InStage(u, i)
  BY <1>2 DEF OnlyTouches, Listed, InStage
<1>12. PassInOrder'
  <2>1. \A u \in todo' \cup placed' : row'[u] # "deleted"
    BY <1>1, <1>6, <1>10 DEF PassInv, PassInOrder
  <2>2. ASSUME NEW u \in placed' PROVE \E i \in Stages : InStage(u, i)'
    <3>1. CASE u # x
      BY <1>2, <1>3, <1>10, <1>11, <2>2, <3>1 DEF PassInv, PassInOrder
    <3>2. CASE u = x /\ UNCHANGED locs
      BY <1>1, <1>2, <1>10, <2>2, <3>2 DEF PassInv, PassInOrder, InStage, Listed
    <3> QED
      BY <1>2, <3>1, <3>2
  <2>3. pc' \in Working => \A v \in todo' : cur' <= v
    BY <1>2, <1>4 DEF Turn
  <2> QED
    BY <1>4, <1>10, <2>1, <2>2, <2>3 DEF PassInOrder
<1>13. ReportHolds'
  <2>1. \A u \in todo \cup placed : where[u] # Gone /\ outcome[u] # "failed"
    BY <1>10 DEF PassInv, ReportHolds
  <2>2. where'[x] # Gone /\ outcome'[x] # "failed"
    BY <1>2, <2>1 DEF ReportedRight, Gone, Unreported
  <2>3. \A u \in todo' \cup placed' : where'[u] # Gone /\ outcome'[u] # "failed"
    BY <1>2, <1>3, <1>6, <2>1, <2>2 DEF OnlyTouches
  <2>4. ASSUME NEW u \in Units, outcome'[u] # "failed", where'[u] # Unreported
        PROVE  IF where'[u] = Gone THEN row'[u] = "deleted" ELSE InStage(u, where[u])'
    <3>1. CASE u # x
      <4>1. /\ row'[u] = row[u] /\ outcome'[u] = outcome[u] /\ where'[u] = where[u]
            /\ Listed(u)' = Listed(u)
        BY <1>2, <3>1 DEF OnlyTouches, Listed
      <4>2. IF where[u] = Gone THEN row[u] = "deleted" ELSE InStage(u, where[u])
        BY <1>4, <2>4, <4>1 DEF PassInv, ReportHolds
      <4>3. InStage(u, where[u])' = InStage(u, where[u])
        BY <4>1 DEF InStage
      <4> QED
        BY <4>1, <4>2, <4>3
    <3>2. CASE u = x
      BY <1>2, <2>2, <2>4, <3>2 DEF ReportedRight
    <3> QED
      BY <3>1, <3>2
  <2> QED
    BY <1>10, <2>3, <2>4 DEF ReportHolds
<1> QED
  BY <1>7, <1>8, <1>9, <1>12, <1>13 DEF PassInv

\* The steps between the passes, and a killed run.
LEMMA OtherPass ==
    ASSUME TypeInv, PassInv,
           \/ RunBegin \/ RunJudge \/ RunReadBusy \/ RunDecide \/ RunFinish
           \/ RunSnapshot \/ SnapshotFail \/ RunStop
    PROVE  PassInv'
<1> USE DEF TypeInv, TypeOK, PassInv, storeVars, ledgerVars, passVars, reportVars
<1>1. ASSUME pc' \in {"idle", "snapshot"}, todo' = {}, placed' = {},
             ViewIsRecorded', ChargeIsSeen',
             pc' = "snapshot" => ReportHolds
                                 /\ UNCHANGED <<row, locs, where, outcome>> /\ pc = "act"
      PROVE  PassInv'
  <2>1. /\ pc' \notin Acting /\ pc' \notin Working /\ Ahead' = {}
        /\ pc' \notin Working \cap Acting
    BY <1>1 DEF Ahead, Acting, Working, Locking
  <2>2. PassInOrder' /\ Superseding'
    BY <1>1, <2>1 DEF PassInOrder, Superseding
  <2>3. ReportHolds'
    <3>1. CASE pc' = "idle"
      BY <1>1, <2>1, <3>1 DEF ReportHolds
    <3>2. CASE pc' = "snapshot"
      <4>1. \A u, i : InStage(u, i)' = InStage(u, i)
        BY <1>1, <3>2 DEF InStage, Listed
      <4> QED
        BY <1>1, <2>1, <3>2, <4>1 DEF ReportHolds
    <3> QED
      BY <1>1, <3>1, <3>2
  <2> QED
    BY <1>1, <2>2, <2>3
<1>2. CASE RunBegin
  <2>1. /\ pc = "idle" /\ pc' = "judge" /\ placed' = placed /\ placed = {}
        /\ UNCHANGED <<status, unitOf, judged, row, locs>>
        /\ \A b \in Backups : view'[b] # "no" =>
              /\ status[b] = "success" /\ row[unitOf[b]] # "deleted"
              /\ judged[b] # "no" => view'[b] = judged[b]
        /\ \A b \in Backups : status[b] = "success" /\ row[unitOf[b]] # "deleted"
              /\ judged[b] # "no" => view'[b] = judged[b]
        /\ todo' = {u \in Units : \E b \in Backups :
                                     unitOf[b] = u /\ view'[b] = "managed"}
        /\ where' = [u \in Units |-> Unreported]
        /\ outcome' = [u \in Units |-> "none"]
    BY <1>2 DEF RunBegin, ViewIsRecorded
  <2>2. /\ pc' \notin Acting /\ pc' \notin Working /\ Ahead' = {}
        /\ pc' \notin Working \cap Acting
    BY <2>1 DEF Ahead, Acting, Working, Locking
  <2>3. \A u \in todo' : u \in Units /\ Seen(u)' # {} /\ row[u] # "deleted"
    BY <2>1 DEF Seen
  <2>4. ViewIsRecorded'
    BY <2>1, <2>2, <2>3 DEF ViewIsRecorded
  <2>5. ChargeIsSeen'
    BY <2>1, <2>3 DEF ChargeIsSeen, Managed
  <2>6. PassInOrder' /\ Superseding'
    BY <2>1, <2>2, <2>3 DEF PassInOrder, Superseding
  <2>7. ReportHolds'
    BY <2>1, <2>2, <2>3 DEF ReportHolds, Unreported, Gone
  <2> QED
    BY <2>4, <2>5, <2>6, <2>7
<1>3. CASE RunJudge \/ RunReadBusy
  <2>1. /\ pc \in {"judge", "busy"} /\ pc' \in {"busy", "sweep"}
        /\ UNCHANGED <<status, unitOf, row, locs, todo, placed, view, where, outcome>>
    BY <1>3 DEF RunJudge, RunReadBusy
  <2>2. /\ pc' \notin Acting /\ pc' \notin Working /\ Ahead' = {} /\ Ahead = {}
        /\ pc' \notin Working \cap Acting /\ placed = {}
    BY <2>1 DEF Ahead, Acting, Working, Locking, ViewIsRecorded
  <2>3. \A u, i : Seen(u)' = Seen(u) /\ InStage(u, i)' = InStage(u, i)
    BY <2>1 DEF Seen, InStage, Listed
  <2>4. ViewIsRecorded'
    BY <2>1, <2>2, <2>3 DEF ViewIsRecorded
  <2>5. ChargeIsSeen'
    <3>1. CASE RunJudge
      <4>1. /\ pc = "judge" /\ pc' = "busy"
            /\ \A b \in Backups : judged'[b] = IF judged[b] = "no" THEN view[b] ELSE judged[b]
        BY <3>1 DEF RunJudge
      <4> QED
        BY <2>1, <4>1 DEF ChargeIsSeen, Managed
    <3>2. CASE RunReadBusy
      BY <2>1, <3>2 DEF RunReadBusy, ChargeIsSeen, Managed
    <3> QED
      BY <1>3, <3>1, <3>2
  <2>6. PassInOrder' /\ Superseding'
    BY <2>1, <2>2, <2>3 DEF PassInOrder, Superseding
  <2>7. ReportHolds'
    BY <2>1, <2>2, <2>3 DEF ReportHolds
  <2> QED
    BY <2>4, <2>5, <2>6, <2>7
<1>4. CASE RunDecide
  <2>1. /\ pc = "sweep" /\ pc' = "act" /\ todo = {} /\ todo' = placed
        /\ UNCHANGED <<status, unitOf, judged, row, locs, placed, view, busy, where, outcome>>
    BY <1>4 DEF RunDecide
  <2>2. /\ pc' \in Acting /\ pc' \notin Working /\ Ahead' = placed /\ Ahead = placed
        /\ pc' \notin Working \cap Acting
    BY <2>1 DEF Ahead, Acting, Working, Locking
  <2>3. \A u, i : Seen(u)' = Seen(u) /\ InStage(u, i)' = InStage(u, i)
    BY <2>1 DEF Seen, InStage, Listed
  <2>4. ViewIsRecorded'
    BY <2>1, <2>2, <2>3 DEF ViewIsRecorded
  <2>5. ChargeIsSeen'
    BY <2>1 DEF ChargeIsSeen, Managed
  <2>6. PassInOrder' /\ Superseding'
    BY <2>1, <2>2, <2>3 DEF PassInOrder, Superseding
  <2>7. ReportHolds'
    BY <2>1, <2>2, <2>3 DEF ReportHolds
  <2> QED
    BY <2>4, <2>5, <2>6, <2>7
<1>5. CASE RunFinish
  <2>1. /\ pc = "act" /\ pc' = "snapshot" /\ todo' = {} /\ placed' = {}
        /\ view' = NoView /\ busy' = {}
        /\ UNCHANGED <<status, unitOf, judged, row, locs, where, outcome>>
    BY <1>5 DEF RunFinish
  <2>2. ViewIsRecorded' /\ ChargeIsSeen'
    BY <2>1 DEF ViewIsRecorded, ChargeIsSeen, Managed, NoView, Acting, Working, Locking
  <2> QED
    BY <1>1, <2>1, <2>2
<1>6. CASE RunSnapshot \/ SnapshotFail
  <2>1. /\ pc = "snapshot" /\ pc' = "idle" /\ todo' = {} /\ placed' = {}
        /\ UNCHANGED <<status, unitOf, judged, todo, placed, view, busy>>
    BY <1>6 DEF RunSnapshot, SnapshotFail, ViewIsRecorded
  <2>2. ViewIsRecorded' /\ ChargeIsSeen'
    BY <2>1 DEF ViewIsRecorded, ChargeIsSeen, Managed, Acting, Working, Locking
  <2> QED
    BY <1>1, <2>1, <2>2
<1>7. CASE RunStop
  <2>1. /\ pc' = "idle" /\ todo' = {} /\ placed' = {} /\ view' = NoView /\ busy' = {}
        /\ UNCHANGED <<status, unitOf, judged>>
    BY <1>7 DEF RunStop
  <2>2. ViewIsRecorded' /\ ChargeIsSeen'
    BY <2>1 DEF ViewIsRecorded, ChargeIsSeen, Managed, NoView, Acting, Working, Locking
  <2> QED
    BY <1>1, <2>1, <2>2
<1> QED
  BY <1>2, <1>3, <1>4, <1>5, <1>6, <1>7

----------------------------------------------------------------------------
(* The run and the jobs, while the run moves.                                 *)

\* What a run works on after a step it worked on before, or took up at its
\* turn: listed in two stages, or superseded by a newer placed unit.
LEMMA TakesUp ==
    ASSUME TypeInv, PassInv, RunStep \/ RunFault, pc' \in Working
    PROVE  /\ pc \notin {"idle", "judge", "busy", "snapshot"}
           /\ UNCHANGED <<view, busy>>
           /\ \/ pc \in Working /\ cur' = cur
              \/ /\ Turn(cur') /\ SeriesOf[cur'] \notin busy /\ Seen(cur') # {}
                 /\ \/ \E p \in locs[cur'] : p # First
                    \/ \E v \in placed : SeriesOf[v] = SeriesOf[cur'] /\ cur' < v
<1> USE DEF TypeInv, TypeOK
<1>1. Sweep \/ Act
  BY DEF RunStep, RunFault, RunBegin, RunJudge, RunReadBusy, RunDecide, RunFinish,
     RunSnapshot, ActFail, SnapshotFail, RunStop, Working, Locking
<1>2. \A u \in todo : u \in Units /\ Seen(u) # {}
  BY DEF PassInv, ViewIsRecorded, RunTypeOK
<1>3. CASE Act
  <2>1. PICK x \in todo :
          /\ Turn(x) /\ (pc \in Working => x = cur)
          /\ \/ Continues(x) \/ ListsAnew(x) \/ Leaves(x) \/ Arrives(x) \/ Vanishes(x)
    BY <1>3, ActUnit DEF PassInv
  <2>2. cur' = x
    BY <2>1 DEF Continues, ListsAnew, Leaves, Arrives, Vanishes, Working, Locking
  <2>3. pc \in Acting /\ UNCHANGED <<view, busy>>
    BY <1>3, ActUnit DEF PassInv
  <2>4. SeriesOf[x] \notin busy
    BY <2>3 DEF PassInv, ViewIsRecorded
  <2>5. pc \notin Working => pc = "act"
    BY <2>3 DEF Acting, Working, Locking
  <2> QED
    BY <1>2, <1>3, <2>1, <2>2, <2>3, <2>4, <2>5, TakesUpOld
       DEF Acting, Working, Locking
<1>4. CASE Sweep
  <2>1. CASE pc \in Working
    <3>1. UNCHANGED <<cur, view, busy>>
      BY <1>4, <2>1 DEF Sweep, SweepDefer, SweepRefuse, SweepPlace, SweepInterrupted,
         TrimLock, TrimRemove, TrimRecord, Proceed, Settle, Working, Locking
    <3> QED
      BY <2>1, <3>1 DEF Working, Locking
  <2>2. CASE pc \notin Working
    <3>1. PICK u \in Units, stage \in Stages : SweepInterrupted(u, stage)
      BY <1>4, <2>2 DEF Sweep, SweepDefer, SweepRefuse, SweepPlace,
         TrimLock, TrimRemove, TrimRecord, Working, Locking
    <3>2. /\ pc = "sweep" /\ Turn(u) /\ SeriesOf[u] \notin busy /\ cur' = u
          /\ InStage(u, stage) /\ Leftovers(u, stage) # {}
          /\ UNCHANGED <<view, busy>>
      BY <3>1 DEF SweepInterrupted, Proceed, Settle, Working, Locking
    <3>3. PICK p \in Listed(u), q \in Listed(u) : StageOf[p] = stage /\ StageOf[q] < stage
      BY <3>2 DEF InStage, Leftovers
    <3>4. p \in Paths /\ q \in Paths /\ StageOf[q] >= 0 /\ StageOf[First] = 0
      BY <3>3, FirstStageHasOnePath DEF Listed, StoreTypeOK
    <3>5. p # First /\ p # q
      BY <3>3, <3>4, FirstStageHasOnePath
    <3>6. p \in locs[u]
      BY <3>3, <3>5 DEF Listed
    <3> QED
      BY <1>2, <3>2, <3>5, <3>6 DEF Turn
  <2> QED
    BY <2>1, <2>2
<1> QED
  BY <1>1, <1>3, <1>4

\* Units are numbers, and so is 0 before there is one.
LEMMA AttemptUnits ==
    ASSUME StoreTypeOK PROVE \A b \in Backups : unitOf[b] \in Nat
<1>1. unitOf \in [Backups -> Units \cup {0}]
  BY DEF StoreTypeOK
<1>2. Units \cup {0} \subseteq Nat
  BY UnitsAreNumbers
<1> QED
  BY <1>1, <1>2

\* A recorded backup lies in a unit.
LEMMA RecordedUnits ==
    ASSUME TypeInv
    PROVE  \A b \in Backups :
              status[b] = "success" => unitOf[b] \in Units /\ unitOf[b] # 0
<1>1. unitOf \in [Backups -> Units \cup {0}]
  BY DEF TypeInv, TypeOK, StoreTypeOK
<1>2. \A b \in Backups : status[b] = "success" => unitOf[b] # 0
  BY DEF TypeInv, JobsInStep
<1> QED
  BY <1>1, <1>2

LEMMA RunApart ==
    ASSUME TypeInv, BaseInv, PassInv, JobsApart, RunStep \/ RunFault, UNCHANGED phase
    PROVE  JobsApart'
<1> USE DEF TypeInv, TypeOK, StoreTypeOK, JobsApart
<1>1. UNCHANGED <<status, unitOf>>
  BY UnitsStay
<1>2. pc \in Working => cur \in Units
  BY DEF RunTypeOK, CurInTodo
<1>3. LateJobsElsewhere'
  <2> SUFFICES ASSUME pc' \notin {"idle", "judge", "busy", "snapshot"},
                      NEW b \in Backups, phase[b] \in Writing, JobOf[b] \notin busy',
                      NEW v \in Units, SeriesOf[v] = JobOf[b], Seen(v)' # {}
               PROVE  IF JobOf[b] \in Chained
                      THEN /\ v <= unitOf[b]
                           /\ (\E p \in locs'[v] : p # First) => v < unitOf[b]
                      ELSE v # unitOf[b]
    BY <1>1 DEF LateJobsElsewhere
  <2>1. ~RunReadBusy
    BY DEF RunReadBusy, JobsInStep, Writing
  <2>2. pc \notin {"idle", "judge", "busy", "snapshot"} /\ UNCHANGED <<view, busy>>
    <3>1. CASE Act \/ ActFail
      BY <3>1, ActUnit DEF PassInv, Acting
    <3>2. CASE Sweep
      BY <3>2 DEF Sweep, SweepDefer, SweepRefuse, SweepPlace, SweepInterrupted,
         TrimLock, TrimRemove, TrimRecord, Proceed, Settle
    <3>3. CASE RunDecide
      BY <3>3 DEF RunDecide, passVars
    <3> QED
      BY <2>1, <3>1, <3>2, <3>3 DEF RunStep, RunFault, RunBegin, RunJudge, RunFinish,
         RunSnapshot, SnapshotFail, RunStop
  <2>3. Seen(v) # {} /\ JobOf[b] \notin busy
    BY <1>1, <2>2 DEF Seen
  <2>4. IF JobOf[b] \in Chained
        THEN /\ v <= unitOf[b]
             /\ (\E p \in locs[v] : p # First) => v < unitOf[b]
        ELSE v # unitOf[b]
    BY <2>2, <2>3 DEF LateJobsElsewhere
  <2>5. CASE pc \in Working /\ v = cur
    <3>1. unitOf[b] # v
      BY <2>5 DEF EngineLeftAlone, Writing
    <3>2. unitOf[b] \in Nat /\ v \in Nat
      BY UnitsAreNumbers, AttemptUnits DEF TypeOK
    <3>3. v <= unitOf[b] => v < unitOf[b]
      BY <3>1, <3>2
    <3> QED
      BY <2>4, <3>1, <3>3
  <2>6. CASE ~(pc \in Working /\ v = cur)
    <3>1. locs'[v] = locs[v] \/ locs'[v] = {First}
      BY <2>6, RunLedger
    <3> QED
      BY <2>4, <3>1
  <2> QED
    BY <2>5, <2>6
<1>4. ASSUME pc' \in Working, ~(pc \in Working /\ cur' = cur)
      PROVE  /\ cur' \in Units /\ SeriesOf[cur'] \notin busy /\ Seen(cur') # {}
             /\ \/ \E p \in locs[cur'] : p # First
                \/ \E v \in placed : SeriesOf[v] = SeriesOf[cur'] /\ cur' < v
             /\ pc \notin {"idle", "judge", "busy", "snapshot"}
  BY <1>4, TakesUp DEF Turn, RunTypeOK
<1>5. CurIsOld'
  <2> SUFFICES ASSUME pc' \in Working, NEW u \in Units, u = cur', InChain(u)
               PROVE  Newer(u)'
    <3>1. pc' \in Working => cur' \in Units
      BY <1>2, <1>4
    <3> QED
      BY <3>1 DEF CurIsOld, InChain, Newer
  <2>1. CASE pc \in Working /\ cur' = cur
    BY <2>1, RunSeals, NewerStays DEF CurIsOld
  <2>2. CASE ~(pc \in Working /\ cur' = cur)
    <3>1. CASE \E p \in locs[u] : p # First
      <4>1. Newer(u)
        BY <3>1 DEF BaseInv, AwayIsOld, Away
      <4> QED
        BY <4>1, RunSeals, NewerStays
    <3>2. CASE \E v \in placed : SeriesOf[v] = SeriesOf[u] /\ u < v
      <4>1. PICK v \in placed : SeriesOf[v] = SeriesOf[u] /\ u < v
        BY <3>2
      <4>2. PICK c \in Backups : unitOf[c] = v /\ status[c] = "success"
        BY DEF PassInv, ViewIsRecorded, Seen
      <4>3. v \in Units /\ JobOf[c] = SeriesOf[u] /\ JobOf[c] \in Chained
        BY <4>1, <4>2, UnitsAreNumbers DEF RunTypeOK, JobsInStep, InChain
      <4>4. PICK w \in Units : /\ SeriesOf[w] = JobOf[c] /\ v <= w
                               /\ disk[First][w].sealed
        BY <4>2, <4>3 DEF BaseInv, BaseStays
      <4>5. Newer(u)
        BY <4>1, <4>3, <4>4, UnitsAreNumbers DEF Newer
      <4> QED
        BY <4>5, RunSeals, NewerStays
    <3> QED
      BY <1>4, <2>2, <3>1, <3>2
  <2> QED
    BY <2>1, <2>2
<1>6. EngineLeftAlone'
  <2> SUFFICES ASSUME pc' \in Working, NEW b \in Backups, unitOf[b] = cur',
                      phase[b] \in Writing
               PROVE  FALSE
    BY <1>1 DEF EngineLeftAlone, Writing
  <2>1. ~(pc \in Working /\ cur' = cur)
    BY DEF EngineLeftAlone, Writing
  <2>2. PICK u \in Units : u = cur'
    BY <1>4, <2>1
  <2>3. unitOf[b] = u /\ SeriesOf[u] = JobOf[b] /\ u \in Nat
    BY <2>2, UnitsAreNumbers DEF JobsInStep
  <2>4. \A v \in Units : SeriesOf[v] = JobOf[b] /\ Seen(v) # {} =>
           IF JobOf[b] \in Chained
           THEN v <= u /\ ((\E p \in locs[v] : p # First) => v < u)
           ELSE v # u
    BY <1>4, <2>1, <2>2, <2>3 DEF LateJobsElsewhere
  <2>5. \A v \in placed : v \in Units /\ v \in Nat /\ Seen(v) # {}
    BY UnitsAreNumbers DEF RunTypeOK, PassInv, ViewIsRecorded
  <2>6. Seen(u) # {} /\ (\/ \E p \in locs[u] : p # First
                        \/ \E v \in placed : SeriesOf[v] = SeriesOf[u] /\ u < v)
    BY <1>4, <2>1, <2>2
  <2>7. JobOf[b] \in Chained /\ \A p \in locs[u] : p = First
    BY <2>3, <2>4, <2>6
  <2>8. PICK v \in placed : SeriesOf[v] = SeriesOf[u] /\ u < v
    BY <2>6, <2>7
  <2>9. v <= u /\ v \in Nat
    BY <2>3, <2>4, <2>5, <2>7, <2>8
  <2> QED
    BY <2>3, <2>8, <2>9
<1> QED
  BY <1>3, <1>5, <1>6

----------------------------------------------------------------------------
(* What the loops of a run rely on, while the run moves.                      *)

\* One copy of the unit in hand changes: every other one is as good as it was.
LEMMA OthersStayGood ==
    ASSUME TypeInv, cur \in Units, NEW p \in Paths, NEW copy, Put(p, cur, copy),
           UNCHANGED <<cur, unitOf, view>>
    PROVE  /\ disk'[p][cur] = copy
           /\ Seen(cur)' = Seen(cur)
           /\ \A q \in Paths \ {p} :
                 disk'[q][cur] = disk[q][cur] /\ Good(disk[q][cur])' = Good(disk[q][cur])
<1>1. disk'[p][cur] = copy
  BY DEF TypeInv, TypeOK, StoreTypeOK, Put
<1>2. \A q \in Paths \ {p} : disk'[q][cur] = disk[q][cur]
  BY PutElsewhere DEF TypeInv, TypeOK
<1>3. Seen(cur)' = Seen(cur)
  BY DEF Seen
<1> QED
  BY <1>1, <1>2, <1>3 DEF Good

LEMMA TrimWork ==
    ASSUME TypeInv, TrimHolds, Sweep PROVE TrimHolds'
<1> USE FirstStageHasOnePath DEF TypeInv, TypeOK
<1>0. pc \in Working => cur \in Units /\ Listed(cur) \subseteq Paths
  BY DEF CurInTodo, RunTypeOK, StoreTypeOK, Listed
<1> SUFFICES ASSUME pc' \in {"keep", "trim"} PROVE TrimHolds'
  BY DEF TrimHolds
<1>1. ASSUME NEW u \in Units, NEW stage \in Stages, SweepInterrupted(u, stage)
      PROVE  TrimHolds'
  <2>1. /\ pc = "sweep" /\ pc' = "keep" /\ cur' = u /\ goal' = stage
        /\ InStage(u, stage) /\ Leftovers(u, stage) # {}
        /\ \A p \in Listed(u) \ Leftovers(u, stage) : Holds(p, u)
        /\ UNCHANGED <<disk, row, locs, unitOf, view>>
    BY <1>1 DEF SweepInterrupted, Proceed, Settle
  <2>2. Listed(cur)' = Listed(u) /\ Seen(cur)' = Seen(u) /\ Listed(u) \subseteq Paths
    BY <2>1 DEF Listed, Seen, StoreTypeOK
  <2>3. InStage(cur, goal)'
    BY <2>1, <2>2 DEF InStage
  <2>4. row[u] # "none"
    <3>1. PICK p \in Listed(u), q \in Listed(u) : StageOf[p] = stage /\ StageOf[q] < stage
      BY <2>1 DEF InStage, Leftovers
    <3>2. p # q
      BY <2>2, <3>1
    <3> QED
      BY <3>1, <3>2 DEF Listed
  <2>5. \A p \in Listed(u) : StageOf[p] = stage => Good(disk[p][cur])'
    <3>1. stage \in Nat
      BY DEF Stages
    <3>2. ASSUME NEW p \in Listed(u), StageOf[p] = stage PROVE p \notin Leftovers(u, stage)
      BY <3>1, <3>2 DEF Leftovers
    <3> QED
      BY <2>1, <2>2, <3>2 DEF Good, Holds, Verifies
  <2> QED
    BY <2>1, <2>2, <2>3, <2>4, <2>5 DEF TrimHolds
<1>2. CASE TrimLock
  <2>1. /\ pc = "keep" /\ pc' = "trim" /\ work' = Leftovers(cur, goal)
        /\ UNCHANGED <<disk, row, locs, unitOf, view, cur, goal>>
    BY <1>2 DEF TrimLock, Proceed
  <2>2. /\ Listed(cur)' = Listed(cur) /\ Seen(cur)' = Seen(cur)
        /\ Leftovers(cur, goal)' = Leftovers(cur, goal)
        /\ InStage(cur, goal)' = InStage(cur, goal)
    BY <2>1 DEF Listed, Seen, Leftovers, InStage
  <2> QED
    BY <2>1, <2>2 DEF TrimHolds, Good
<1>3. ASSUME NEW p \in Paths, TrimRemove(p) PROVE TrimHolds'
  <2>1. /\ pc = "trim" /\ pc' = "trim" /\ p \in work /\ work' = work \ {p}
        /\ Put(p, cur, Nothing)
        /\ UNCHANGED <<row, locs, unitOf, view, cur, goal>>
    BY <1>3 DEF TrimRemove, Proceed
  <2>2. /\ Listed(cur)' = Listed(cur) /\ Leftovers(cur, goal)' = Leftovers(cur, goal)
        /\ InStage(cur, goal)' = InStage(cur, goal)
    BY <2>1 DEF Listed, Leftovers, InStage
  <2>3. cur \in Units /\ Listed(cur) \subseteq Paths /\ goal \in Nat
    BY <1>0, <2>1 DEF Working, Locking, RunTypeOK
  <2>4. p \in Leftovers(cur, goal) /\ StageOf[p] # goal
    BY <2>1, <2>3 DEF TrimHolds, Leftovers
  <2>5. /\ disk'[p][cur] = Nothing
        /\ \A q \in Paths \ {p} :
              disk'[q][cur] = disk[q][cur] /\ Good(disk[q][cur])' = Good(disk[q][cur])
    BY <2>1, <2>3, OthersStayGood
  <2>6. \A q \in Listed(cur) : StageOf[q] = goal => Good(disk[q][cur])'
    BY <2>1, <2>3, <2>4, <2>5 DEF TrimHolds
  <2>7. \A q \in Leftovers(cur, goal) \ work' : disk'[q][cur] = Nothing
    BY <2>1, <2>3, <2>5 DEF TrimHolds, Leftovers
  <2> QED
    BY <2>1, <2>2, <2>6, <2>7 DEF TrimHolds
<1> QED
  BY <1>1, <1>2, <1>3 DEF Sweep, SweepDefer, SweepRefuse, SweepPlace, TrimRecord

LEMMA MoveWork ==
    ASSUME TypeInv, MoveHolds, Act PROVE MoveHolds'
<1> USE FirstStageHasOnePath DEF TypeInv, TypeOK
<1>0. pc \in Working => cur \in Units /\ Listed(cur) \subseteq Paths
  BY DEF CurInTodo, RunTypeOK, StoreTypeOK, Listed
<1>a. goal \in Nat /\ source \in Paths /\ work \subseteq Paths
  BY DEF RunTypeOK
<1>b. \A p \in PathsOf(goal) : p \in Paths /\ StageOf[p] = goal
  BY DEF PathsOf
<1> SUFFICES ASSUME pc' \in {"copy", "commit", "clear"} PROVE MoveHolds'
  BY DEF MoveHolds
<1>1. ASSUME NEW u \in Units, NEW stage \in Stages, NEW from \in Paths,
             MoveStart(u, stage, from)
      PROVE  MoveHolds'
  <2>1. /\ pc' = "copy" /\ cur' = u /\ goal' = stage /\ source' = from
        /\ work' = PathsOf(stage) /\ from \in Listed(u)
        /\ \E i \in Stages : InStage(u, i) /\ i < stage
        /\ PathsOf(stage) \subseteq mounted
        /\ \A p \in Listed(u) \ {from} : Holds(p, u)
        /\ UNCHANGED <<disk, mounted, row, locs, unitOf, view>>
    BY <1>1 DEF MoveStart, Proceed
  <2>2. Listed(cur)' = Listed(u) /\ Seen(cur)' = Seen(u) /\ Listed(u) \subseteq Paths
        /\ PathsOf(goal)' = PathsOf(stage)
    BY <2>1 DEF Listed, Seen, StoreTypeOK, PathsOf
  <2>3. PathsOf(stage) # {} /\ stage \in Nat /\ Stages \subseteq Nat
    BY DEF PathsOf, Stages
  <2>4. \A p \in Listed(u) : StageOf[p] < stage
    BY <2>1, <2>2, <2>3 DEF InStage
  <2>5. \A p \in Listed(u) \ {from} : Good(disk[p][cur])'
    BY <2>1, <2>2 DEF Good, Holds, Verifies
  <2> QED
    BY <2>1, <2>2, <2>3, <2>4, <2>5 DEF MoveHolds
<1>2. ASSUME NEW p \in Paths, MoveCopy(p) PROVE MoveHolds'
  <2>1. /\ pc = "copy" /\ pc' = "copy" /\ p \in work /\ Holds(source, cur)
        /\ temp' = [temp EXCEPT ![p] = disk[source][cur]] /\ work' = work \ {p}
        /\ UNCHANGED <<disk, mounted, row, locs, unitOf, view, cur, goal, source>>
    BY <1>2 DEF MoveCopy, Proceed
  <2>2. Listed(cur)' = Listed(cur) /\ Seen(cur)' = Seen(cur)
        /\ PathsOf(goal)' = PathsOf(goal)
    BY <2>1 DEF Listed, Seen, PathsOf
  <2>3. \A c \in Paths : Good(disk[c][cur])' = Good(disk[c][cur])
    BY <2>1, <2>2 DEF Good
  <2>4. Good(disk[source][cur])
    BY <2>1 DEF Good, Holds, Verifies
  <2>5. \A q \in PathsOf(goal) \ work' : Good(temp[q])'
    <3>1. temp'[p] = disk[source][cur] /\ \A q \in Paths \ {p} : temp'[q] = temp[q]
      BY <2>1 DEF RunTypeOK
    <3> QED
      BY <1>b, <2>1, <2>2, <2>4, <3>1 DEF MoveHolds, Good
  <2> QED
    BY <1>0, <1>a, <2>1, <2>2, <2>3, <2>4, <2>5 DEF MoveHolds, Working
<1>3. CASE MoveLock
  <2>1. /\ pc = "copy" /\ pc' = "commit" /\ work = {} /\ work' = PathsOf(goal)
        /\ UNCHANGED <<disk, mounted, row, locs, unitOf, view, cur, goal, source, temp>>
    BY <1>3 DEF MoveLock, Proceed
  <2>2. Listed(cur)' = Listed(cur) /\ Seen(cur)' = Seen(cur)
        /\ PathsOf(goal)' = PathsOf(goal)
    BY <2>1 DEF Listed, Seen, PathsOf
  <2> QED
    BY <2>1, <2>2 DEF MoveHolds, Good
<1>4. ASSUME NEW p \in Paths, MoveRename(p) PROVE MoveHolds'
  <2>1. /\ pc = "commit" /\ pc' = "commit" /\ p \in work /\ Put(p, cur, temp[p])
        /\ temp' = [temp EXCEPT ![p] = Nothing] /\ work' = work \ {p}
        /\ UNCHANGED <<mounted, row, locs, unitOf, view, cur, goal, source>>
    BY <1>4 DEF MoveRename, Proceed
  <2>2. Listed(cur)' = Listed(cur) /\ PathsOf(goal)' = PathsOf(goal)
    BY <2>1 DEF Listed, PathsOf
  <2>3. cur \in Units /\ Listed(cur) \subseteq Paths
    BY <1>0, <2>1 DEF Working, Locking
  <2>4. /\ disk'[p][cur] = temp[p] /\ Seen(cur)' = Seen(cur)
        /\ \A q \in Paths \ {p} :
              disk'[q][cur] = disk[q][cur] /\ Good(disk[q][cur])' = Good(disk[q][cur])
    BY <2>1, <2>3, OthersStayGood
  <2>5. p \in PathsOf(goal) /\ p \notin Listed(cur) /\ p # source
    BY <1>a, <1>b, <2>1 DEF MoveHolds
  <2>6. \A q \in Listed(cur) \ {source} : Good(disk[q][cur])'
    BY <2>1, <2>3, <2>4, <2>5 DEF MoveHolds
  <2>7. Good(disk[source][cur])'
    BY <1>a, <2>1, <2>4, <2>5 DEF MoveHolds
  <2>8. \A q \in work' : Good(temp[q])'
    BY <1>a, <2>1, <2>4 DEF MoveHolds, Good, RunTypeOK
  <2>9. \A q \in PathsOf(goal) \ work' : Good(disk[q][cur])'
    <3>1. Good(disk[p][cur])'
      BY <2>1, <2>4 DEF MoveHolds, Good
    <3> QED
      BY <1>b, <2>1, <2>4, <3>1 DEF MoveHolds
  <2> QED
    BY <2>1, <2>2, <2>6, <2>7, <2>8, <2>9 DEF MoveHolds
<1>5. CASE MoveEnsureRow
  <2>1. /\ pc = "commit" /\ pc' = "commit" /\ EnsureRow(cur)
        /\ UNCHANGED <<disk, mounted, unitOf, view, cur, goal, source, work, temp>>
    BY <1>5 DEF MoveEnsureRow, Proceed
  <2>2. Seen(cur)' = Seen(cur) /\ PathsOf(goal)' = PathsOf(goal)
    BY <2>1 DEF Seen, PathsOf
  <2>3. Listed(cur)' = Listed(cur)
    BY <1>0, <2>1, RowListing DEF SameListing, Working, Locking
  <2> QED
    BY <2>1, <2>2, <2>3 DEF MoveHolds, Good
<1>6. CASE MoveRecord
  <2>1. /\ pc = "commit" /\ pc' = "clear" /\ work = {} /\ row[cur] # "none"
        /\ locs' = [locs EXCEPT ![cur] = PathsOf(goal)] /\ work' = locs[cur]
        /\ UNCHANGED <<disk, row, unitOf, view, cur, goal>>
    BY <1>6 DEF MoveRecord, Proceed
  <2>2. Seen(cur)' = Seen(cur) /\ PathsOf(goal)' = PathsOf(goal)
    BY <2>1 DEF Seen, PathsOf
  <2>3. locs'[cur] = PathsOf(goal) /\ Listed(cur) = work'
    BY <1>0, <2>1 DEF Listed, StoreTypeOK, Working, Locking
  <2>4. \A q \in PathsOf(goal) : Good(disk[q][cur])'
    BY <2>1, <2>2 DEF MoveHolds, Good
  <2>5. \A q \in Listed(cur) : StageOf[q] < goal /\ disk[q][cur].held = Seen(cur)
    BY <2>1 DEF MoveHolds, Good
  <2> QED
    BY <2>1, <2>2, <2>3, <2>4, <2>5 DEF MoveHolds
<1>7. ASSUME NEW p \in Paths, MoveRemove(p) PROVE MoveHolds'
  <2>1. /\ pc = "clear" /\ pc' = "clear" /\ p \in work /\ Put(p, cur, Nothing)
        /\ work' = work \ {p}
        /\ UNCHANGED <<row, locs, unitOf, view, cur, goal>>
    BY <1>7 DEF MoveRemove, Proceed
  <2>2. cur \in Units /\ PathsOf(goal)' = PathsOf(goal)
    BY <1>0, <2>1 DEF Working, Locking, PathsOf
  <2>3. /\ Seen(cur)' = Seen(cur)
        /\ \A q \in Paths \ {p} :
              disk'[q][cur] = disk[q][cur] /\ Good(disk[q][cur])' = Good(disk[q][cur])
    BY <2>1, <2>2, OthersStayGood
  <2>4. p \notin PathsOf(goal)
    BY <1>a, <1>b, <2>1 DEF MoveHolds
  <2>5. \A q \in PathsOf(goal) : Good(disk[q][cur])'
    BY <1>b, <2>1, <2>3, <2>4 DEF MoveHolds
  <2>6. \A q \in work' : StageOf[q] < goal /\ disk'[q][cur].held = Seen(cur)
    BY <1>a, <2>1, <2>3 DEF MoveHolds
  <2> QED
    BY <2>1, <2>2, <2>3, <2>5, <2>6 DEF MoveHolds
<1> QED
  BY <1>1, <1>2, <1>3, <1>4, <1>5, <1>6, <1>7
     DEF Act, ActStay, ActHold, DeleteStart, MoveDone, DeleteLock, DeleteRecord,
         DeleteRemove, Proceed, Settle

LEMMA DeleteWork ==
    ASSUME TypeInv, DeleteHolds, Act PROVE DeleteHolds'
<1> USE FirstStageHasOnePath DEF TypeInv, TypeOK
<1>0. pc \in Working => cur \in Units /\ Listed(cur) \subseteq Paths
  BY DEF CurInTodo, RunTypeOK, StoreTypeOK, Listed
<1> SUFFICES ASSUME pc' \in {"condemn", "delete"} PROVE DeleteHolds'
  BY DEF DeleteHolds
<1>1. ASSUME NEW u \in Units, DeleteStart(u) PROVE DeleteHolds'
  <2>1. /\ pc' = "condemn" /\ cur' = u /\ \A p \in Listed(u) : Holds(p, u)
        /\ UNCHANGED <<disk, row, locs, unitOf, view>>
    BY <1>1 DEF DeleteStart, Proceed
  <2>2. Listed(cur)' = Listed(u) /\ Seen(cur)' = Seen(u)
    BY <2>1 DEF Listed, Seen
  <2> QED
    BY <2>1, <2>2 DEF DeleteHolds, Good, Holds, Verifies
<1>2. CASE DeleteLock
  <2>1. /\ pc = "condemn" /\ pc' = "delete" /\ EnsureRow(cur) /\ work' = Listed(cur)
        /\ UNCHANGED <<disk, unitOf, view, cur>>
    BY <1>2 DEF DeleteLock, Proceed
  <2>2. Listed(cur)' = Listed(cur) /\ row'[cur] # "none"
    BY <1>0, <2>1, RowListing DEF SameListing, Working
  <2>3. Seen(cur)' = Seen(cur)
    BY <2>1 DEF Seen
  <2> QED
    BY <2>1, <2>2, <2>3 DEF DeleteHolds, Good
<1>3. ASSUME NEW p \in Paths, DeleteRemove(p) PROVE DeleteHolds'
  <2>1. /\ pc = "delete" /\ pc' = "delete" /\ p \in work /\ Put(p, cur, Nothing)
        /\ work' = work \ {p}
        /\ UNCHANGED <<row, locs, unitOf, view, cur>>
    BY <1>3 DEF DeleteRemove, Proceed
  <2>2. Listed(cur)' = Listed(cur) /\ cur \in Units /\ Listed(cur) \subseteq Paths
    BY <1>0, <2>1 DEF Listed, Working, Locking
  <2>3. /\ disk'[p][cur] = Nothing
        /\ \A q \in Paths \ {p} :
              disk'[q][cur] = disk[q][cur] /\ Good(disk[q][cur])' = Good(disk[q][cur])
    BY <2>1, <2>2, OthersStayGood
  <2>4. \A q \in work' : Good(disk[q][cur])'
    BY <2>1, <2>2, <2>3 DEF DeleteHolds
  <2>5. \A q \in Listed(cur) \ work' : disk'[q][cur] = Nothing
    BY <2>1, <2>2, <2>3 DEF DeleteHolds
  <2> QED
    BY <2>1, <2>2, <2>4, <2>5 DEF DeleteHolds
<1> QED
  BY <1>1, <1>2, <1>3
     DEF Act, ActStay, ActHold, MoveStart, MoveLock, MoveEnsureRow, MoveRecord,
         MoveDone, DeleteRecord, MoveCopy, MoveRename, MoveRemove, Proceed, Settle

LEMMA RunWork ==
    ASSUME TypeInv, PassInv, WorkInv, RunStep \/ RunFault PROVE WorkInv'
<1> USE DEF WorkInv
<1>1. CASE pc' \notin Working
  BY <1>1 DEF TrimHolds, MoveHolds, DeleteHolds, Working, Locking
<1>2. CASE Sweep
  <2>1. pc' \in Sweeping
    BY <1>2, SweepUnit
  <2>2. TrimHolds'
    BY <1>2, TrimWork
  <2> QED
    BY <2>1, <2>2 DEF MoveHolds, DeleteHolds, Sweeping
<1>3. CASE Act
  <2>1. MoveHolds' /\ DeleteHolds'
    BY <1>3, MoveWork, DeleteWork
  <2>2. pc' \notin {"keep", "trim"}
    BY <1>3 DEF Act, ActStay, ActHold, DeleteStart, MoveStart, MoveLock, MoveEnsureRow,
       MoveRecord, MoveDone, DeleteLock, DeleteRecord, MoveCopy, MoveRename,
       MoveRemove, DeleteRemove, Proceed, Settle
  <2> QED
    BY <2>1, <2>2 DEF TrimHolds
<1> QED
  BY <1>1, <1>2, <1>3 DEF RunStep, RunFault, RunBegin, RunJudge, RunReadBusy, RunDecide,
     RunFinish, RunSnapshot, ActFail, SnapshotFail, RunStop, Working, Locking

----------------------------------------------------------------------------
(* The invariant.                                                             *)

SafeInv == BaseInv /\ PassInv /\ JobsApart /\ WorkInv

LEMMA SafeFromStart == Init => SafeInv
<1> SUFFICES ASSUME Init PROVE SafeInv
  OBVIOUS
<1> USE InitialUnits, UnitsAreNumbers, FirstStageHasOnePath, NothingIsACopy
        DEF Init, StoreInit, JobInit, RunInit
<1>1. \A p \in Paths, u \in Units :
         disk[p][u] = IF p = First /\ InitialBackups(u) # {}
                      THEN Copy(InitialBackups(u), {}, TRUE, TRUE) ELSE Nothing
  OBVIOUS
<1>2. \A u \in Units : disk[First][u].sealed <=> \E b \in Backups : unitOf[b] = u
  BY <1>1 DEF Copy, Nothing, InitialBackups
<1>3. BaseInv
  <2>1. RowsHaveRecords /\ SealedIsUsed /\ StoredHasBase
    BY <1>2 DEF RowsHaveRecords, SealedIsUsed, StoredHasBase
  <2>2. BaseStays
    <3> SUFFICES ASSUME NEW b \in Backups, status[b] = "success"
                 PROVE  \E w \in Units : /\ SeriesOf[w] = JobOf[b] /\ unitOf[b] <= w
                                         /\ disk[First][w].sealed
      BY DEF BaseStays
    <3>1. PICK w \in Units : w = unitOf[b] /\ SeriesOf[w] = JobOf[b]
      OBVIOUS
    <3>2. disk[First][w].sealed
      BY <1>2, <3>1
    <3>3. w <= w
      BY UnitOrder
    <3> QED
      BY <3>1, <3>2, <3>3
  <2>3. AwayIsOld
    BY <1>1 DEF AwayIsOld, Away
  <2> QED
    BY <2>1, <2>2, <2>3 DEF BaseInv
<1>4. PassInv
  BY DEF PassInv, ViewIsRecorded, ChargeIsSeen, PassInOrder, Superseding, ReportHolds,
     Ahead, Acting, Working, Locking, NoView, Managed
<1>5. JobsApart
  BY DEF JobsApart, LateJobsElsewhere, CurIsOld, EngineLeftAlone, Working, Locking
<1>6. WorkInv
  BY DEF WorkInv, TrimHolds, MoveHolds, DeleteHolds
<1> QED
  BY <1>3, <1>4, <1>5, <1>6 DEF SafeInv

\* Nothing of it is about the locks.
LEMMA SafeBesideLocks ==
    ASSUME TypeInv, SafeInv,
           UNCHANGED <<disk, mounted, ledgerVars, phase, runVars, countVars>>
    PROVE  SafeInv'
<1> USE DEF SafeInv, ledgerVars, runVars, passVars, reportVars, countVars
<1>1. BaseInv'
  BY DEF BaseInv, RowsHaveRecords, SealedIsUsed, BaseStays, StoredHasBase, AwayIsOld,
     Away, Newer, Based, Recorded, InChain
<1>2. /\ \A u : Seen(u)' = Seen(u) /\ Listed(u)' = Listed(u)
      /\ \A u, i : InStage(u, i)' = InStage(u, i)
  BY DEF Seen, Listed, InStage
<1>3. PassInv'
  BY <1>2 DEF PassInv, ViewIsRecorded, ChargeIsSeen, PassInOrder, Superseding,
     ReportHolds, Ahead, Managed
<1>4. JobsApart'
  BY <1>2 DEF JobsApart, LateJobsElsewhere, CurIsOld, EngineLeftAlone, Newer, InChain
<1>5. WorkInv'
  BY <1>2, WorkUndisturbed DEF WorkInv
<1> QED
  BY <1>1, <1>3, <1>4, <1>5

LEMMA SafeStays ==
    ASSUME TypeInv, SafeInv, [Next]_vars PROVE SafeInv'
<1> USE DEF SafeInv
<1>1. CASE UNCHANGED vars
  BY <1>1, SafeBesideLocks DEF vars, storeVars
<1>2. CASE Jobs
  BY <1>2, JobsBase, JobsPass, JobsApartStays, JobsWork
<1>3. CASE Run \/ Fault
  <2>1. (RunStep \/ RunFault) /\ UNCHANGED phase
    BY <1>3 DEF Run, Fault
  <2>2. BaseInv' /\ JobsApart' /\ WorkInv'
    BY <2>1, RunBase, RunApart, RunWork DEF PassInv, JobsApart, WorkInv
  <2>3. PassInv'
    BY <2>1, ActPass, SweepPass, OtherPass DEF WorkInv, RunStep, RunFault
  <2> QED
    BY <2>2, <2>3
<1>4. CASE Environment
  BY <1>4, EnvironmentBase, EnvironmentRun
<1> QED
  BY <1>1, <1>2, <1>3, <1>4 DEF Next

\* Everything the proofs below know of a state.
FullInv == LockTypeInv /\ SafeInv

LEMMA FullFromStart == Init => FullInv
  BY TypeFromStart, LockFromStart, SafeFromStart DEF FullInv, LockTypeInv

LEMMA FullStays == ASSUME FullInv, [Next]_vars PROVE FullInv'
  BY TypeStays, LockStays, SafeStays DEF FullInv, LockTypeInv

LEMMA FullInvHolds == Spec => []FullInv
  BY FullFromStart, FullStays, PTL DEF Spec

\* The steps of a run that write gfs_units or gfs_locations.
LEMMA LedgerSteps ==
    ASSUME TypeInv, RunStep \/ RunFault
    PROVE  \/ UNCHANGED <<row, locs>>
           \/ \E v \in Units : EnsureRow(v)
           \/ cur \in Units /\ (TrimRecord \/ MoveRecord \/ DeleteRecord)
<1>1. pc \in Working => cur \in Units
  BY DEF TypeInv, TypeOK, CurInTodo, RunTypeOK
<1>2. CASE Sweep
  <2>1. UNCHANGED <<row, locs>> \/ TrimRecord
    BY <1>2 DEF Sweep, SweepDefer, SweepRefuse, SweepPlace, SweepInterrupted,
       TrimLock, TrimRemove, storeVars, ledgerVars
  <2> QED
    BY <1>1, <2>1 DEF TrimRecord, Working, Locking
<1>3. CASE Act
  <2>1. \/ UNCHANGED <<row, locs>>
        \/ \E v \in Units : ActStay(v)
        \/ MoveEnsureRow \/ MoveRecord \/ DeleteLock \/ DeleteRecord
    BY <1>3 DEF Act, ActHold, DeleteStart, MoveStart, MoveLock,
       MoveDone, MoveCopy, MoveRename, MoveRemove, DeleteRemove
  <2> QED
    BY <1>1, <2>1 DEF ActStay, MoveEnsureRow, MoveRecord, DeleteLock, DeleteRecord,
       Working, Locking
<1>4. CASE RunFault \/ RunBegin \/ RunJudge \/ RunReadBusy \/ RunDecide \/ RunFinish
           \/ RunSnapshot
  BY <1>4 DEF RunFault, ActFail, SnapshotFail, RunStop, RunBegin, RunJudge,
     RunReadBusy, RunDecide, RunFinish, RunSnapshot, storeVars, ledgerVars
<1> QED
  BY <1>2, <1>3, <1>4 DEF RunStep

LEMMA DeletedStaysUnlisted ==
    ASSUME TypeInv, PassInOrder, DeletedUnlisted, [Next]_vars
    PROVE  DeletedUnlisted'
<1> USE DEF TypeInv, TypeOK, StoreTypeOK
<1>1. CASE UNCHANGED <<row, locs>>
  BY <1>1 DEF DeletedUnlisted
<1>2. CASE RunStep \/ RunFault
  <2>1. ASSUME NEW v \in Units, EnsureRow(v) PROVE DeletedUnlisted'
    BY <2>1 DEF EnsureRow, DeletedUnlisted
  <2>2. ASSUME cur \in Units, TrimRecord \/ MoveRecord PROVE DeletedUnlisted'
    <3>1. PICK x \in Units : x = cur
      BY <2>2
    <3>2. row' = row /\ row[x] # "deleted"
      BY <2>2, <3>1 DEF TrimRecord, MoveRecord, CurInTodo, PassInOrder, Working, Locking
    <3>3. \A u \in Units \ {x} : locs'[u] = locs[u]
      BY <2>2, <3>1 DEF TrimRecord, MoveRecord
    <3> QED
      BY <3>2, <3>3 DEF DeletedUnlisted
  <2>3. ASSUME cur \in Units, DeleteRecord PROVE DeletedUnlisted'
    <3>1. PICK x \in Units : x = cur
      BY <2>3
    <3>2. row' = [row EXCEPT ![x] = "deleted"] /\ locs' = [locs EXCEPT ![x] = {}]
      BY <2>3, <3>1 DEF DeleteRecord
    <3> QED
      BY <3>2 DEF DeletedUnlisted
  <2> QED
    BY <1>1, <1>2, <2>1, <2>2, <2>3, LedgerSteps
<1>3. CASE Edit
  BY <1>3 DEF Edit, DeletedUnlisted
<1>4. CASE Jobs \/ (\E p \in Paths, u \in Units : Damage(p, u)) \/ Remount
           \/ (\E p \in Prepared, s \in Series : PrepareBegin(p, s) \/ PrepareEnd(p, s))
           \/ UNCHANGED vars
  <2>1. UNCHANGED <<row, locs>>
    BY <1>4, JobsKeep DEF Damage, Remount, PrepareBegin, PrepareEnd, vars, storeVars,
       ledgerVars
  <2> QED
    BY <1>1, <2>1
<1> QED
  BY <1>2, <1>3, <1>4 DEF Next, Run, Fault, Environment

LEMMA DeletedUnlistedHolds == Spec => []DeletedUnlisted
<1>1. Init => DeletedUnlisted
  BY DEF Init, StoreInit, DeletedUnlisted
<1>2. FullInv /\ DeletedUnlisted /\ [Next]_vars => DeletedUnlisted'
  BY DeletedStaysUnlisted DEF FullInv, LockTypeInv, SafeInv, PassInv
<1> QED
  BY <1>1, <1>2, FullInvHolds, PTL DEF Spec

LEMMA FullInvIsRunInv == FullInv /\ DeletedUnlisted => RunInv
<1>1. LockTypeInv => LocksHeld
  BY HoldersAreApart DEF LockTypeInv, LockInv, LocksHeld, Locking
<1> QED
  BY <1>1 DEF FullInv, LockTypeInv, TypeInv, SafeInv, BaseInv, PassInv, JobsApart,
     WorkInv, RunInv

LEMMA RunInvHolds == Spec => []RunInv
  BY FullInvHolds, DeletedUnlistedHolds, FullInvIsRunInv, PTL

\* EngineIsLeftAlone: the unit a run works on is never one an engine writes
\* into or has written into without a final row.
THEOREM EngineIsLeftAlone == Spec => []EngineLeftAlone
<1>1. RunInv => EngineLeftAlone
  BY DEF RunInv
<1> QED
  BY <1>1, RunInvHolds, PTL

\* BaseIsKept: the engine always finds a full to continue at or after every
\* recorded unit of a chained job.
THEOREM BaseIsKept == Spec => []BaseStays
<1>1. RunInv => BaseStays
  BY DEF RunInv
<1> QED
  BY <1>1, RunInvHolds, PTL

\* ReportIsRight: when a run reports, every unit it did not fail on is where
\* the report counts it.
THEOREM ReportIsRight == Spec => []ReportIsTrue
<1>1. RunInv => ReportIsTrue
  BY DEF RunInv, ReportHolds, ReportIsTrue
<1> QED
  BY <1>1, RunInvHolds, PTL

----------------------------------------------------------------------------
(* What a run may never do.                                                   *)

\* The listing of a unit changes only when the run has just recorded that it
\* was trimmed or moved, or deletes it.
LEMMA ListingChanges ==
    ASSUME TypeInv, RunStep \/ RunFault, NEW u \in Units, Listed(u)' # Listed(u)
    PROVE  u = cur /\ (TrimRecord \/ MoveRecord \/ DeleteRecord)
<1> USE DEF TypeInv, TypeOK
<1>1. ~UNCHANGED <<row, locs>>
  BY DEF Listed
<1>2. ASSUME NEW v \in Units, EnsureRow(v) PROVE FALSE
  <2>1. v # u
    BY <1>2, RowListing DEF SameListing
  <2>2. row'[u] = row[u] /\ locs'[u] = locs[u]
    BY <1>2, <2>1, RowListing
  <2> QED
    BY <2>2 DEF Listed
<1>3. \A v \in Units : \A r, l :
         /\ row' = [row EXCEPT ![v] = r] \/ row' = row
         /\ locs' = [locs EXCEPT ![v] = l]
         => v = u
  BY DEF Listed, StoreTypeOK
<1>4. cur \in Units /\ (TrimRecord \/ MoveRecord \/ DeleteRecord)
  BY <1>1, <1>2, LedgerSteps
<1>5. \E r, l : /\ row' = [row EXCEPT ![cur] = r] \/ row' = row
                /\ locs' = [locs EXCEPT ![cur] = l]
  BY <1>4 DEF TrimRecord, MoveRecord, DeleteRecord
<1> QED
  BY <1>3, <1>4, <1>5

LEMMA RunRemovesSeen ==
    ASSUME FullInv, RunStep \/ RunFault, NEW p \in Paths, NEW u \in Units
    PROVE  disk[p][u].held \ disk'[p][u].held \subseteq Seen(u)
<1> USE DEF FullInv, LockTypeInv, TypeInv, TypeOK, SafeInv, WorkInv
<1> SUFFICES ASSUME disk'[p][u] # disk[p][u]
             PROVE  disk[p][u].held \subseteq Seen(u)
  OBVIOUS
<1>1. /\ pc \in Locking /\ u = cur /\ p \in work
      /\ pc = "commit" => ~Exists(p, u)
      /\ pc = "trim" => Holds(p, u)
  BY RunLeaves
<1>2. CASE pc = "trim"
  BY <1>1, <1>2 DEF Holds, Verifies
<1>3. CASE pc = "commit"
  <2>1. p \in mounted
    BY <1>1, <1>3 DEF MoveHolds
  <2> QED
    BY <1>1, <1>3, <2>1 DEF Exists, Nothing
<1>4. CASE pc \in {"clear", "delete"}
  BY <1>1, <1>4 DEF MoveHolds, DeleteHolds, Good
<1> QED
  BY <1>1, <1>2, <1>3, <1>4 DEF Locking

\* RemovesOnlySeen: no run, completed or failing, takes away a backup that it
\* did not load and verify.
THEOREM RemovesOnlySeen == Spec => OnlyVerifiedRemoved
<1> DEFINE Verified == Run \/ Fault =>
         \A p \in Paths, u \in Units :
            disk[p][u].held \ disk[p][u].held' \subseteq Seen(u)
<1>1. FullInv /\ [Next]_vars => [Verified]_vars
  BY RunRemovesSeen DEF Run, Fault
<1> QED
  BY <1>1, FullInvHolds, PTL DEF Spec, OnlyVerifiedRemoved

\* A backup in GFS's charge is in every good copy of the unit in hand.
LEMMA GoodCopiesKeep ==
    ASSUME FullInv, pc \in Working, NEW b \in Backups, Managed(b), unitOf[b] = cur
    PROVE  b \in Seen(cur) /\ \A p : Good(disk[p][cur]) => Intact(b, p)
<1>1. cur \in todo
  BY DEF FullInv, LockTypeInv, TypeInv, CurInTodo
<1>2. view[b] = "managed"
  BY <1>1 DEF FullInv, SafeInv, PassInv, ChargeIsSeen
<1> QED
  BY <1>2 DEF Seen, Good, Intact

LEMMA RunKeeps ==
    ASSUME FullInv, RunStep \/ RunFault, NEW b \in Backups, Managed(b), Kept(b),
           ~(pc = "delete" /\ cur = unitOf[b])
    PROVE  Kept(b)'
<1> USE FirstStageHasOnePath DEF FullInv, LockTypeInv, TypeInv, TypeOK, SafeInv, WorkInv
<1>1. PICK u \in Units : u = unitOf[b]
  BY RecordedUnits DEF Managed
<1>2. unitOf' = unitOf /\ Listed(u) \subseteq Paths
  BY UnitsStay DEF Listed, StoreTypeOK
<1>3. \A p : disk'[p][u] = disk[p][u] /\ Intact(b, p) => Intact(b, p)'
  BY <1>1, <1>2 DEF Intact
<1>4. ASSUME NEW p \in Listed(u)', disk'[p][u] = disk[p][u], Intact(b, p) PROVE Kept(b)'
  <2>1. Listed(u)' = Listed(unitOf[b])'
    BY <1>1, <1>2 DEF Listed
  <2> QED
    BY <1>3, <1>4, <2>1 DEF Kept
<1>5. PICK p \in Listed(u) : Intact(b, p)
  BY <1>1 DEF Kept
<1>6. CASE pc \in {"keep", "trim"} /\ u = cur
  <2>1. PICK q \in Listed(u) : StageOf[q] = goal /\ Good(disk[q][u])
    BY <1>6 DEF TrimHolds, InStage
  <2>2. q \in Paths /\ goal \in Nat /\ q \notin Leftovers(u, goal)
    BY <1>2, <2>1 DEF Leftovers, RunTypeOK
  <2>3. Intact(b, q)
    BY <1>1, <1>6, <2>1, GoodCopiesKeep DEF Working, Locking
  <2>4. disk'[q][u] = disk[q][u]
    BY <1>6, <2>2, RunLeaves DEF TrimHolds, Locking
  <2>5. q \in Listed(u)'
    <3>1. CASE Listed(u)' = Listed(u)
      BY <2>1, <3>1
    <3>2. CASE Listed(u)' # Listed(u)
      <4>1. TrimRecord
        BY <1>6, <3>2, ListingChanges DEF MoveRecord, DeleteRecord
      <4>2. row'[u] = row[u] /\ row[u] # "none" /\ locs'[u] = locs[u] \ Leftovers(u, goal)
        BY <1>6, <4>1 DEF TrimRecord, TrimHolds, StoreTypeOK
      <4> QED
        BY <2>1, <2>2, <4>2 DEF Listed
    <3> QED
      BY <3>1, <3>2
  <2> QED
    BY <1>4, <2>3, <2>4, <2>5
<1>7. CASE ~(pc \in {"keep", "trim"} /\ u = cur)
  <2>1. CASE Listed(u)' # Listed(u)
    <3>1. MoveRecord /\ u = cur
      BY <1>1, <1>7, <2>1, ListingChanges DEF TrimRecord, DeleteRecord
    <3>2. /\ pc = "commit" /\ work = {} /\ row'[u] # "none" /\ locs'[u] = PathsOf(goal)
          /\ disk' = disk
      BY <3>1 DEF MoveRecord, StoreTypeOK
    <3>3. PICK q \in PathsOf(goal) : Good(disk[q][u])
      BY <3>1, <3>2 DEF MoveHolds
    <3>4. Intact(b, q)
      BY <1>1, <3>1, <3>2, <3>3, GoodCopiesKeep DEF Working, Locking
    <3>5. q \in Listed(u)'
      BY <3>2, <3>3 DEF Listed
    <3> QED
      BY <1>4, <3>2, <3>4, <3>5
  <2>2. CASE Listed(u)' = Listed(u)
    <3>1. ASSUME disk'[p][u] # disk[p][u] PROVE FALSE
      <4>1. pc \in {"commit", "clear"} /\ u = cur /\ p \in work
        BY <1>1, <1>2, <1>7, <3>1, RunLeaves DEF Locking
      <4>2. goal \in Nat /\ p \in Paths
        BY <1>2 DEF RunTypeOK
      <4>3. CASE pc = "commit"
        BY <4>1, <4>2, <4>3 DEF MoveHolds, PathsOf
      <4>4. CASE pc = "clear"
        BY <4>1, <4>2, <4>4 DEF MoveHolds, PathsOf, Listed
      <4> QED
        BY <4>1, <4>3, <4>4
    <3> QED
      BY <1>4, <1>5, <2>2, <3>1
  <2> QED
    BY <2>1, <2>2
<1> QED
  BY <1>6, <1>7

\* BackupsAreKept: whatever a run does, wherever it is cut off, a managed
\* backup that a listed copy can restore stays so unless its unit is being
\* deleted.
THEOREM BackupsAreKept == Spec => KeepsManagedBackups
<1> DEFINE Keeps == (Run \/ Fault) =>
         \A b \in Backups :
            Managed(b) /\ Kept(b) /\ ~Kept(b)'
               => pc = "delete" /\ cur = unitOf[b]
<1>1. FullInv /\ [Next]_vars => [Keeps]_vars
  BY RunKeeps DEF Run, Fault
<1> QED
  BY <1>1, FullInvHolds, PTL DEF Spec, KeepsManagedBackups

----------------------------------------------------------------------------
(* One stage per unit.                                                        *)

LEMMA RunCompletes ==
    ASSUME FullInv, StageComplete, RunStep \/ RunFault, edits = 0,
           NEW u \in Units, row'[u] = "managed"
    PROVE  \E stage \in Stages : locs'[u] = PathsOf(stage)
<1> USE FirstStageHasOnePath DEF FullInv, LockTypeInv, TypeInv, TypeOK, SafeInv, WorkInv
<1>0. pc \in Working => cur \in Units
  BY DEF CurInTodo, RunTypeOK
<1>1. {First} = PathsOf(0) /\ 0 \in Stages
  BY DEF PathsOf, Stages
<1>2. CASE row'[u] = row[u] /\ locs'[u] = locs[u]
  BY <1>2 DEF StageComplete
<1>3. CASE locs'[u] = {First}
  BY <1>1, <1>3
<1>4. CASE pc \in Working /\ u = cur
  <2>1. CASE TrimRecord
    <3>1. /\ pc = "trim" /\ row' = row /\ locs'[u] = locs[u] \ Leftovers(u, goal)
          /\ InStage(u, goal) /\ Listed(u) = locs[u]
      BY <1>4, <2>1 DEF TrimRecord, TrimHolds, Listed, StoreTypeOK
    <3>2. PICK stage \in Stages : locs[u] = PathsOf(stage)
      BY <3>1 DEF StageComplete
    <3>3. stage = goal /\ stage \in Nat
      BY <3>1, <3>2 DEF InStage, PathsOf, Stages
    <3>4. Leftovers(u, goal) = {}
      BY <3>1, <3>2, <3>3 DEF Leftovers, PathsOf
    <3> QED
      BY <3>1, <3>2, <3>4
  <2>2. CASE MoveRecord
    <3>1. locs'[u] = PathsOf(goal) /\ PathsOf(goal) # {}
      BY <1>4, <2>2 DEF MoveRecord, MoveHolds, StoreTypeOK
    <3>2. goal \in Stages
      BY <3>1 DEF PathsOf, Stages
    <3> QED
      BY <3>1, <3>2
  <2>3. CASE DeleteRecord
    BY <1>4, <2>3 DEF DeleteRecord, StoreTypeOK
  <2>4. CASE MoveEnsureRow \/ DeleteLock
    <3>1. \/ row'[u] = row[u] /\ locs'[u] = locs[u]
          \/ locs'[u] = {First}
      BY <1>4, <2>4 DEF MoveEnsureRow, DeleteLock, EnsureRow, StoreTypeOK
    <3> QED
      BY <1>2, <1>3, <3>1
  <2>5. \/ TrimRecord \/ MoveRecord \/ DeleteRecord \/ MoveEnsureRow \/ DeleteLock
        \/ UNCHANGED <<row, locs>>
    <3>1. Sweep => TrimRecord \/ UNCHANGED <<row, locs>>
      BY DEF Sweep, SweepDefer, SweepRefuse, SweepPlace, SweepInterrupted, TrimLock,
         TrimRemove, storeVars, ledgerVars
    <3>2. Act => \/ MoveRecord \/ DeleteRecord \/ MoveEnsureRow \/ DeleteLock
                 \/ UNCHANGED <<row, locs>> \/ \E v \in Units : ActStay(v)
      BY DEF Act, ActHold, DeleteStart, MoveStart, MoveLock, MoveDone, MoveCopy,
         MoveRename, MoveRemove, DeleteRemove
    <3>3. ~ \E v \in Units : ActStay(v)
      BY <1>4 DEF ActStay, Working, Locking
    <3> QED
      BY <3>1, <3>2, <3>3 DEF RunStep, RunFault, ActFail, SnapshotFail, RunStop, RunBegin,
         RunJudge, RunReadBusy, RunDecide, RunFinish, RunSnapshot, storeVars, ledgerVars
  <2> QED
    BY <1>2, <2>1, <2>2, <2>3, <2>4, <2>5
<1> QED
  BY <1>2, <1>3, <1>4, RunLedger

\* UnitsAreComplete: without hand edits a recorded unit is listed at every
\* path of one stage, wherever runs are cut off.
THEOREM UnitsAreComplete == Spec => []StageComplete
<1>1. Init => StageComplete
  BY DEF Init, StoreInit, StageComplete
<1>2. FullInv /\ StageComplete /\ [Next]_vars => StageComplete'
  <2> SUFFICES ASSUME FullInv, StageComplete, [Next]_vars, edits' = 0,
                      NEW u \in Units, row'[u] = "managed"
               PROVE  \E stage \in Stages : locs'[u] = PathsOf(stage)
    BY DEF StageComplete, PathsOf
  <2> USE DEF FullInv, LockTypeInv, TypeInv, TypeOK
  <2>1. CASE Run \/ Fault
    <3>1. edits = 0
      BY <2>1 DEF Run, Fault, countVars
    <3> QED
      BY <2>1, <3>1, RunCompletes DEF Run, Fault
  <2>2. CASE Jobs
    <3>1. UNCHANGED <<row, locs, edits>>
      BY <2>2, JobsKeep DEF countVars
    <3> QED
      BY <3>1 DEF StageComplete
  <2>3. CASE Environment
    <3>0. ~Edit
      <4>1. edits + 1 # 0
        OBVIOUS
      <4> QED
        BY <4>1 DEF Edit
    <3>1. UNCHANGED <<row, locs, edits>>
      BY <2>3, <3>0 DEF Environment, Damage, Remount, PrepareBegin, PrepareEnd,
         ledgerVars, countVars
    <3> QED
      BY <3>1 DEF StageComplete
  <2>4. CASE UNCHANGED vars
    BY <2>4 DEF vars, storeVars, ledgerVars, countVars, StageComplete
  <2> QED
    BY <2>1, <2>2, <2>3, <2>4 DEF Next
<1> QED
  BY <1>1, <1>2, FullInvHolds, PTL DEF Spec
=============================================================================
