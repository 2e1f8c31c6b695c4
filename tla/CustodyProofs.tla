---------------------------- MODULE CustodyProofs ----------------------------
(* The rotation implements Custody: every step of a job, a run, a fault or    *)
(* the environment is a step Custody allows, or one it does not see.          *)
(* Then what holds while nothing outside the code goes wrong: a job keeps its *)
(* last backup, nothing lies where it is not listed, and Inv as a whole.      *)
EXTENDS RotationProofs, FiniteSetTheorems, WellFoundedInduction

----------------------------------------------------------------------------
(* Stages.                                                                    *)

\* Paths that are in some stage have a latest one.
LEMMA LatestExists ==
    ASSUME NEW paths \in SUBSET Paths, paths # {}
    PROVE  \E p \in paths : \A q \in paths : StageOf[q] <= StageOf[p]
<1> USE FirstStageHasOnePath
<1>1. PICK last \in Paths : \A p \in Paths : StageOf[p] <= StageOf[last]
  BY StagesEnd
<1> DEFINE range == 0 .. StageOf[last]
           Above(p) == {i \in range : i > StageOf[p]}
           tops == {Above(p) : p \in paths}
<1>2. IsFiniteSet(range)
  BY FS_Interval
<1>3. IsWellFoundedOn(StrictSubsetOrdering(range), SUBSET range)
  BY <1>2, FS_StrictSubsetOrderingWellFounded, FS_FiniteSubsetsOfFinite
<1>4. tops \subseteq SUBSET range /\ tops # {}
  <2>1. \A p \in paths : Above(p) \in SUBSET range
    OBVIOUS
  <2> HIDE DEF Above
  <2> QED
    BY <2>1
<1>5. PICK x \in tops : \A y \in tops : <<y, x>> \notin StrictSubsetOrdering(range)
  <2> HIDE DEF tops
  <2> QED
    BY <1>3, <1>4, WFMin
<1>6. PICK p \in paths : x = Above(p)
  OBVIOUS
<1>7. ASSUME NEW q \in paths, ~(StageOf[q] <= StageOf[p]) PROVE FALSE
  <2>1. StageOf[q] \in Above(p) /\ StageOf[q] \notin Above(q)
    BY <1>1, <1>7
  <2>2. Above(q) \subseteq Above(p)
    BY <1>7
  <2>3. <<Above(q), Above(p)>> \in StrictSubsetOrdering(range)
    <3>1. Above(q) \in SUBSET range /\ Above(p) \in SUBSET range
      OBVIOUS
    <3> HIDE DEF Above, range
    <3> QED
      BY <2>1, <2>2, <3>1 DEF StrictSubsetOrdering
  <2> QED
    BY <1>5, <1>6, <2>3
<1> QED
  BY <1>7

LEMMA LatestIs ==
    ASSUME NEW paths \in SUBSET Paths
    PROVE  /\ \A i \in Stages :
                 (\E p \in paths : StageOf[p] = i) /\ (\A p \in paths : StageOf[p] <= i)
                 => LatestOf(paths) = i
           /\ paths # {} => LatestOf(paths) \in Stages
<1> USE FirstStageHasOnePath
<1>1. Stages \subseteq Nat
  BY DEF Stages
<1> DEFINE Latest(i) == /\ \E p \in paths : StageOf[p] = i
                        /\ \A p \in paths : StageOf[p] <= i
<1>2. LatestOf(paths) = CHOOSE i \in Stages : Latest(i)
  BY DEF LatestOf
<1>3. \A i, j \in Stages : Latest(i) /\ Latest(j) => i = j
  <2> SUFFICES ASSUME NEW i \in Stages, NEW j \in Stages, Latest(i), Latest(j)
               PROVE  i = j
    OBVIOUS
  <2>1. i <= j /\ j <= i /\ i \in Nat /\ j \in Nat
    BY <1>1
  <2> QED
    BY <2>1
<1>4. paths # {} => \E i \in Stages : Latest(i)
  <2> SUFFICES ASSUME paths # {} PROVE \E i \in Stages : Latest(i)
    OBVIOUS
  <2>1. PICK p \in paths : \A q \in paths : StageOf[q] <= StageOf[p]
    BY LatestExists
  <2> QED
    BY <2>1 DEF Stages
<1> HIDE DEF Latest
<1>5. (\E i \in Stages : Latest(i)) => LatestOf(paths) \in Stages /\ Latest(LatestOf(paths))
  BY <1>2
<1>6. \A i \in Stages : Latest(i) => LatestOf(paths) = i
  BY <1>3, <1>5
<1> QED
  BY <1>4, <1>5, <1>6 DEF Latest

LEMMA StageKnown ==
    ASSUME StoreTypeOK, NEW u \in Units
    PROVE  /\ row[u] = "none" => StageNow(u) = -1
           /\ row[u] = "deleted" => StageNow(u) = -3
           /\ row[u] = "managed" /\ locs[u] = {} => StageNow(u) = -2
           /\ row[u] = "managed" /\ locs[u] # {} => StageNow(u) \in Stages
           /\ row[u] = "managed" =>
                 \A i : InStage(u, i) => StageNow(u) = i /\ i \in Stages
           /\ Stages \subseteq Nat
<1>1. Stages \subseteq Nat
  BY StagesAreNumbers
<1>2. locs[u] \in SUBSET Paths
  BY DEF StoreTypeOK
<1>3. ASSUME row[u] = "managed", NEW i, InStage(u, i)
      PROVE  StageNow(u) = i /\ i \in Stages
  <2>1. /\ \E p \in locs[u] : StageOf[p] = i
        /\ \A p \in locs[u] : StageOf[p] <= i
    BY <1>3 DEF InStage, Listed
  <2>2. i \in Stages /\ locs[u] # {}
    BY <1>2, <2>1 DEF Stages
  <2> QED
    BY <1>2, <1>3, <2>1, <2>2, LatestIs DEF StageNow, StageFor
<1> QED
  BY <1>1, <1>2, <1>3, LatestIs DEF StageNow, StageFor

LEMMA SameStage ==
    ASSUME NEW u, row'[u] = row[u], locs'[u] = locs[u]
    PROVE  StageNow(u)' = StageNow(u)
BY DEF StageNow, StageFor, LatestOf, Stages

----------------------------------------------------------------------------
(* What Custody sees.                                                         *)

Charge == {b \in Backups : Managed(b)}
Safe == {b \in Backups : Managed(b) /\ Kept(b)}
StageMap == [u \in Units |-> StageNow(u)]
Condemned == IF pc = "delete" THEN {cur} ELSE {}

LEMMA Hidden ==
    ASSUME UNCHANGED <<unitOf, damages, edits>>, Charge' = Charge, Safe' = Safe,
           StageMap' = StageMap, Condemned' = Condemned
    PROVE  UNCHANGED Promise!custodyVars
BY DEF Promise!custodyVars, Charge, Safe, StageMap, Condemned

LEMMA StagesSame ==
    ASSUME UNCHANGED <<row, locs>> PROVE StageMap' = StageMap
BY SameStage DEF StageMap

\* Custody's own starting point.
LEMMA InitMaps == Init => Promise!Init
<1> SUFFICES ASSUME Init PROVE Promise!Init
  OBVIOUS
<1>1. Charge = {} /\ Safe = {} /\ Condemned = {}
  BY DEF Init, StoreInit, RunInit, Charge, Safe, Condemned, Managed
<1>2. StageMap = [u \in Units |-> -1]
  BY DEF Init, StoreInit, StageMap, StageNow, StageFor
<1>3. unitOf \in [Backups -> Units \cup {0}] /\ damages = 0 /\ edits = 0
  BY InitialUnits DEF Init, StoreInit
<1> QED
  BY <1>1, <1>2, <1>3 DEF Promise!Init, Promise!Outside, Charge, Safe, Condemned, StageMap

----------------------------------------------------------------------------
(* The jobs.                                                                  *)

\* A job only adds to copies what it is just publishing.
LEMMA JobsHold ==
    ASSUME TypeInv, Jobs, NEW b \in Backups,
           status[b] = "success" \/ phase'[b] \notin Writing,
           NEW p \in Paths, NEW u \in Units, b \in disk'[p][u].held
    PROVE  b \in disk[p][u].held
<1> USE DEF TypeInv, TypeOK, StoreTypeOK, JobTypeOK, JobsInStep, Writing
<1> USE FirstStageHasOnePath
<1>1. ASSUME NEW v \in Units, NEW copy, Put(First, v, copy),
             b \in copy.held => b \in disk[First][v].held
      PROVE  b \in disk[p][u].held
  <2>1. p # First \/ v # u => disk'[p][u] = disk[p][u]
    BY <1>1, PutElsewhere
  <2>2. disk'[First][v] = copy
    BY <1>1 DEF Put
  <2> QED
    BY <1>1, <2>1, <2>2
<1> PICK c \in Backups :
        \/ BackupBegin(c)
        \/ \E v \in Units : EngineStart(c, v)
        \/ EnginePublish(c)
        \/ EngineFinish(c)
        \/ RecordSuccess(c)
        \/ EngineFail(c)
        \/ BackupKilled(c)
        \/ MarkFailed(c)
  BY DEF Jobs, JobNext
<1>2. unitOf[c] # 0 => unitOf[c] \in Units
  OBVIOUS
<1>3. ASSUME NEW v \in Units, EngineStart(c, v) PROVE b \in disk[p][u].held
  BY <1>1, <1>3 DEF EngineStart, Pending, Copy
<1>4. CASE EnginePublish(c)
  <2>1. b # c
    BY <1>4 DEF EnginePublish
  <2> QED
    BY <1>1, <1>2, <1>4, <2>1 DEF EnginePublish, Published, Copy
<1>5. CASE EngineFinish(c) \/ EngineFail(c)
  BY <1>1, <1>2, <1>5 DEF EngineFinish, EngineFail, Sealed, Cleaned, Copy
<1> QED
  BY <1>3, <1>4, <1>5 DEF BackupBegin, RecordSuccess, BackupKilled, MarkFailed, ledgerVars

LEMMA JobsMap ==
    ASSUME FullInv, TypeInv', Jobs PROVE Promise!Engine
<1>0. \A c \in Backups : status[c] = "success" => unitOf[c] \in Units /\ unitOf[c] # 0
  BY RecordedUnits DEF FullInv, LockTypeInv
<1> USE DEF FullInv, LockTypeInv, TypeInv, TypeOK, SafeInv, PassInv
<1>1. UNCHANGED <<judged, row, locs, pc, cur, damages, edits>>
  BY JobsKeep DEF runVars, countVars
<1>2. \A b \in Backups : Managed(b)' <=> Managed(b)
  BY <1>1, JobsKeep DEF Managed, ChargeIsSeen
<1>3. \A b \in Backups : Managed(b) =>
         unitOf'[b] = unitOf[b] /\ unitOf[b] \in Units /\ status[b] = "success"
  BY JobsKeep, <1>0 DEF Managed
<1>4. ASSUME NEW b \in Backups, Managed(b) PROVE Kept(b)' <=> Kept(b)
  <2>1. PICK u \in Units : u = unitOf[b] /\ u = unitOf'[b] /\ status[b] = "success"
    BY <1>3, <1>4
  <2>2. Listed(u)' = Listed(u) /\ Listed(u) \subseteq Paths
    BY <1>1, FirstStageHasOnePath DEF Listed, StoreTypeOK
  <2>3. \A p \in Paths : Intact(b, p)' <=> Intact(b, p)
    BY <2>1, JobsHold, JobsKeep DEF Intact
  <2>4. Listed(unitOf[b])' = Listed(u)' /\ Listed(unitOf[b]) = Listed(u)
    BY <2>1 DEF Listed
  <2> QED
    BY <2>2, <2>3, <2>4 DEF Kept
<1>5. Charge' = Charge /\ Safe' = Safe
  BY <1>2, <1>4 DEF Charge, Safe
<1>6. StageMap' = StageMap /\ Condemned' = Condemned
  BY <1>1, StagesSame DEF Condemned
<1>7. unitOf' \in [Backups -> Units \cup {0}] /\ \A b \in Charge : unitOf'[b] = unitOf[b]
  BY <1>3 DEF StoreTypeOK, Charge
<1> QED
  BY <1>1, <1>5, <1>6, <1>7 DEF Promise!Engine, Charge, Safe, StageMap, Condemned

----------------------------------------------------------------------------
(* What a run does to the copies and the ledger.                              *)

\* A run makes nothing restorable that was not.
LEMMA RunAddsNothing ==
    ASSUME FullInv, RunStep \/ RunFault, NEW b \in Backups, Managed(b), Kept(b)'
    PROVE  Kept(b)
<1> USE FirstStageHasOnePath DEF FullInv, LockTypeInv, TypeInv, TypeOK, SafeInv, WorkInv
<1>1. PICK u \in Units : u = unitOf[b]
  BY RecordedUnits DEF Managed
<1>2. unitOf' = unitOf /\ Listed(u) \subseteq Paths
  BY UnitsStay DEF Listed, StoreTypeOK
<1>3. Listed(unitOf[b])' = Listed(u)' /\ Listed(unitOf[b]) = Listed(u)
  BY <1>1, <1>2 DEF Listed
<1>4. PICK p \in Listed(u)' : Intact(b, p)'
  BY <1>3 DEF Kept
<1>5. ASSUME NEW q \in Listed(u), Intact(b, q) PROVE Kept(b)
  BY <1>3, <1>5 DEF Kept
<1>6. CASE Listed(u)' = Listed(u)
  <2>1. p \in Listed(u) /\ p \in Paths
    BY <1>2, <1>4, <1>6
  <2>2. CASE disk'[p][u] = disk[p][u]
    BY <1>1, <1>2, <1>4, <1>5, <2>1, <2>2 DEF Intact
  <2>3. CASE disk'[p][u] # disk[p][u]
    <3>1. pc \in Locking /\ u = cur /\ p \in work
      BY <2>1, <2>3, RunLeaves
    <3>2. pc # "commit"
      <4>1. goal \in Nat
        BY DEF RunTypeOK
      <4> QED
        BY <2>1, <3>1, <4>1 DEF MoveHolds, PathsOf
    <3>3. disk'[p][u] \in {Rotten(disk[p][u]), Nothing}
      BY <2>1, <2>3, <3>2, RunLeaves DEF Torn
    <3>4. disk'[p][u].sound /\ b \in disk'[p][u].held
      BY <1>1, <1>2, <1>4 DEF Intact
    <3> QED
      BY <3>3, <3>4 DEF Rotten, Nothing, Copy
  <2> QED
    BY <2>2, <2>3
<1>7. CASE Listed(u)' # Listed(u)
  <2>1. u = cur /\ (TrimRecord \/ MoveRecord \/ DeleteRecord)
    BY <1>7, ListingChanges
  <2>2. CASE TrimRecord
    <3>1. /\ pc = "trim" /\ row'[u] = row[u] /\ row[u] # "none" /\ disk' = disk
          /\ locs'[u] \subseteq locs[u]
      BY <2>1, <2>2 DEF TrimRecord, TrimHolds, StoreTypeOK
    <3>2. p \in Listed(u)
      BY <1>4, <3>1 DEF Listed
    <3> QED
      BY <1>1, <1>2, <1>4, <1>5, <3>1, <3>2 DEF Intact
  <2>3. CASE MoveRecord
    <3>1. source \in Listed(u) /\ Good(disk[source][cur]) /\ pc = "commit"
      BY <2>1, <2>3 DEF MoveRecord, MoveHolds
    <3>2. Intact(b, source)
      BY <1>1, <2>1, <3>1, GoodCopiesKeep DEF Working, Locking
    <3> QED
      BY <1>5, <3>1, <3>2
  <2>4. CASE DeleteRecord
    <3>1. row'[u] = "deleted" /\ locs'[u] = {}
      BY <2>1, <2>4 DEF DeleteRecord, StoreTypeOK
    <3> QED
      BY <1>4, <3>1 DEF Listed
  <2> QED
    BY <2>1, <2>2, <2>3, <2>4
<1> QED
  BY <1>6, <1>7

\* Outside of a judgment, a run leaves its charge alone, and of what can be
\* restored it takes only the unit being deleted.
LEMMA RunSafe ==
    ASSUME FullInv, RunStep \/ RunFault, judged' = judged
    PROVE  /\ UNCHANGED unitOf
           /\ Charge' = Charge
           /\ Safe' \subseteq Safe
           /\ pc # "delete" => Safe' = Safe
           /\ \A b \in Safe \ Safe' : pc = "delete" /\ unitOf[b] = cur
<1>1. unitOf' = unitOf /\ \A b \in Backups : Managed(b)' <=> Managed(b)
  BY UnitsStay DEF Managed
<1>2. \A b \in Backups : Managed(b) /\ Kept(b)' => Kept(b)
  BY RunAddsNothing
<1>3. \A b \in Backups : Managed(b) /\ Kept(b) =>
         Kept(b)' \/ (pc = "delete" /\ cur = unitOf[b])
  BY RunKeeps
<1> QED
  BY <1>1, <1>2, <1>3 DEF Charge, Safe

\* A listing with a latest stage is at that stage.
LEMMA StageFits ==
    ASSUME NEW paths \in SUBSET Paths, NEW i,
           \E p \in paths : StageOf[p] = i, \A p \in paths : StageOf[p] <= i
    PROVE  StageFor("managed", paths) = i /\ i \in Stages
<1>1. i \in Stages /\ paths # {}
  BY DEF Stages
<1> QED
  BY <1>1, LatestIs DEF StageFor

\* RunJudge is Custody's Adopt.
LEMMA JudgeMaps ==
    ASSUME FullInv, RunJudge, UNCHANGED countVars PROVE Promise!Adopt
<1> USE DEF FullInv, LockTypeInv, TypeInv, TypeOK
<1>1. /\ UNCHANGED <<disk, status, unitOf, row, locs, damages, edits>>
      /\ pc # "delete" /\ pc' # "delete"
  BY DEF RunJudge, countVars
<1>2. \A b \in Backups : Managed(b) => Managed(b)'
  BY <1>1 DEF RunJudge, Managed, StoreTypeOK
<1>3. \A b \in Backups : Kept(b)' <=> Kept(b)
  BY <1>1 DEF Kept, Intact, Listed
<1>4. StageMap' = StageMap /\ Condemned' = Condemned
  BY <1>1, StagesSame DEF Condemned
<1>5. Charge \subseteq Charge' /\ Charge' \subseteq Backups
      /\ Safe \subseteq Safe' /\ Safe' \subseteq Safe \cup (Charge' \ Charge)
  BY <1>2, <1>3 DEF Charge, Safe
<1> QED
  BY <1>1, <1>4, <1>5 DEF Promise!Adopt, Charge, Safe, StageMap, Condemned

\* Nobody sees a run load, look or finish.
LEMMA BetweenHides ==
    ASSUME FullInv, UNCHANGED countVars,
           RunBegin \/ RunReadBusy \/ RunDecide \/ RunFinish \/ RunSnapshot
    PROVE  UNCHANGED Promise!custodyVars
<1>1. UNCHANGED <<unitOf, judged, row, locs, damages, edits>>
      /\ pc # "delete" /\ pc' # "delete"
  BY DEF RunBegin, RunReadBusy, RunDecide, RunFinish, RunSnapshot,
     storeVars, ledgerVars, countVars
<1>2. RunStep \/ RunFault
  BY DEF RunStep, RunFault
<1>3. Charge' = Charge /\ Safe' = Safe
  BY <1>1, <1>2, RunSafe
<1> QED
  BY <1>1, <1>3, Hidden, StagesSame DEF Condemned

\* Nor a sweep: what it trims stays in its stage.
LEMMA SweepHides ==
    ASSUME FullInv, TypeInv', Sweep, UNCHANGED countVars
    PROVE  UNCHANGED Promise!custodyVars
<1> USE FirstStageHasOnePath DEF FullInv, LockTypeInv, TypeInv, TypeOK, SafeInv, WorkInv, PassInv
<1>1. /\ UNCHANGED <<unitOf, judged, row, damages, edits>>
      /\ pc # "delete" /\ pc' # "delete"
  BY SweepUnit DEF Sweeping, countVars
<1>2. Charge' = Charge /\ Safe' = Safe
  BY <1>1, RunSafe DEF RunStep
<1>3. CASE TrimRecord
  <2>1. PICK x \in Units : x = cur
    BY <1>3 DEF TrimRecord, CurInTodo, RunTypeOK, Working, Locking
  <2>2. /\ pc = "trim" /\ locs' = [locs EXCEPT ![x] = @ \ Leftovers(x, goal)]
        /\ x \in todo /\ goal \in Nat
    BY <1>3, <2>1 DEF TrimRecord, CurInTodo, RunTypeOK, Working, Locking
  <2>3. row[x] = "managed" /\ InStage(x, goal) /\ Listed(x) = locs[x]
    BY <2>1, <2>2 DEF TrimHolds, PassInOrder, StoreTypeOK, Listed
  <2>4. locs'[x] = locs[x] \ Leftovers(x, goal) /\ locs[x] \in SUBSET Paths
    BY <2>2 DEF StoreTypeOK
  <2>5. /\ \E p \in locs'[x] : StageOf[p] = goal
        /\ \A p \in locs'[x] : StageOf[p] <= goal
    BY <2>2, <2>3, <2>4 DEF InStage, Leftovers
  <2>6. StageNow(x)' = goal
    BY <1>1, <2>3, <2>4, <2>5, StageFits DEF StageNow
  <2>7. StageNow(x) = goal
    BY <2>3, StageKnown
  <2>8. \A u \in Units : StageNow(u)' = StageNow(u)
    <3>1. \A u \in Units \ {x} : row'[u] = row[u] /\ locs'[u] = locs[u]
      BY <1>1, <2>2 DEF StoreTypeOK
    <3> QED
      BY <2>6, <2>7, <3>1, SameStage
  <2> QED
    BY <1>1, <1>2, <2>8, Hidden DEF StageMap, Condemned
<1>4. CASE ~TrimRecord
  <2>1. UNCHANGED locs
    BY <1>4 DEF Sweep, SweepDefer, SweepRefuse, SweepPlace, SweepInterrupted, TrimLock,
       TrimRemove, storeVars, ledgerVars
  <2> QED
    BY <1>1, <1>2, <2>1, Hidden, StagesSame DEF Condemned
<1> QED
  BY <1>3, <1>4

----------------------------------------------------------------------------
(* The units a run acts on.                                                   *)

\* A unit the run visits has something in GFS's charge.
LEMMA VisitedInCharge ==
    ASSUME FullInv, pc # "judge", NEW u \in todo \cup placed
    PROVE  \E b \in Charge : unitOf[b] = u
<1>1. PICK b \in Backups : unitOf[b] = u /\ view[b] = "managed"
  BY DEF FullInv, SafeInv, PassInv, ViewIsRecorded, Seen
<1>2. Managed(b)
  BY <1>1 DEF FullInv, SafeInv, PassInv, ViewIsRecorded, ChargeIsSeen, Managed
<1> QED
  BY <1>1, <1>2 DEF Charge

\* The unit in hand has been superseded, as Custody understands it.
LEMMA CurSuperseded ==
    ASSUME FullInv, pc \in Working \cap Acting PROVE Promise!Superseded(cur)
<1> USE DEF FullInv, LockTypeInv, TypeInv, TypeOK, SafeInv, PassInv
<1>1. PICK v \in placed : SeriesOf[v] = SeriesOf[cur] /\ cur < v
  BY DEF Superseding
<1>2. v \in Units /\ cur \in todo /\ cur \in Units
  BY DEF CurInTodo, RunTypeOK
<1>3. v \in todo
  BY <1>1, <1>2, UnitOrder DEF PassInOrder
<1>4. row[v] # "deleted" /\ \E i \in Stages : InStage(v, i)
  BY <1>1, <1>3 DEF PassInOrder, Ahead
<1>5. StageNow(v) # -3
  BY <1>2, <1>4, StageKnown DEF StoreTypeOK
<1>6. \E b \in Charge : unitOf[b] = v
  BY <1>1, VisitedInCharge DEF Working, Locking, Acting
<1> QED
  BY <1>1, <1>2, <1>5, <1>6 DEF Promise!Superseded, Promise!Of, Promise!Deleted, Charge

\* A unit that is taken up enters the first stage if GFS had no row of it yet.
LEMMA TakenUp ==
    ASSUME StoreTypeOK, NEW x \in Units, SameListing(x), OnlyTouches(x)
    PROVE  /\ row'[x] = row[x] => StageMap' = StageMap
           /\ row'[x] # row[x] => /\ StageMap[x] = -1
                                  /\ StageMap' = [StageMap EXCEPT ![x] = 0]
<1> USE FirstStageHasOnePath
<1>1. \A u \in Units \ {x} : StageNow(u)' = StageNow(u)
  BY SameStage DEF OnlyTouches
<1>2. CASE row'[x] = row[x]
  <2>1. row[x] # "none" => locs'[x] = locs[x]
    BY <1>2 DEF SameListing, Listed
  <2>2. StageNow(x)' = StageNow(x)
    <3>1. CASE row[x] = "none"
      BY <1>2, <3>1 DEF StageNow, StageFor
    <3>2. CASE row[x] # "none"
      BY <1>2, <2>1, <3>2, SameStage
    <3> QED
      BY <3>1, <3>2
  <2> QED
    BY <1>1, <1>2, <2>2 DEF StageMap
<1>3. CASE row'[x] # row[x]
  <2>1. row[x] = "none" /\ row'[x] = "managed" /\ locs'[x] = {First}
    BY <1>3 DEF SameListing, Listed
  <2>2. StageNow(x) = -1
    BY <2>1, StageKnown
  <2>3. StageFor("managed", {First}) = 0
    BY StageFits
  <2>4. StageNow(x)' = 0
    BY <2>1, <2>3 DEF StageNow
  <2> QED
    BY <1>1, <1>3, <2>2, <2>4 DEF StageMap
<1> QED
  BY <1>2, <1>3

LEMMA TakingUpMaps ==
    ASSUME FullInv, NEW x \in todo, SameListing(x), OnlyTouches(x), pc # "judge",
           UNCHANGED <<unitOf, damages, edits>>, Charge' = Charge, Safe' = Safe,
           Condemned' = Condemned
    PROVE  UNCHANGED Promise!custodyVars \/ Promise!Enter(x)
<1> USE DEF FullInv, LockTypeInv, TypeInv, TypeOK
<1>1. x \in Units
  BY DEF RunTypeOK
<1>2. CASE row'[x] = row[x]
  BY <1>1, <1>2, TakenUp, Hidden
<1>3. CASE row'[x] # row[x]
  <2>1. StageMap[x] = -1 /\ StageMap' = [StageMap EXCEPT ![x] = 0]
    BY <1>1, <1>3, TakenUp
  <2>2. \E b \in Charge : unitOf[b] = x
    BY VisitedInCharge
  <2> QED
    BY <1>1, <2>1, <2>2
       DEF Promise!Enter, Promise!Of, Promise!Outside, Charge, Safe, StageMap, Condemned
<1> QED
  BY <1>2, <1>3

\* A recorded move advances the unit to a later stage.
LEMMA MovedMaps ==
    ASSUME FullInv, NEW x \in todo, ListsAnew(x), OnlyTouches(x),
           UNCHANGED <<unitOf, damages, edits>>, Charge' = Charge, Safe' = Safe,
           Condemned' = Condemned
    PROVE  \E i \in Stages : Promise!Advance(x, i)
<1> USE FirstStageHasOnePath DEF FullInv, LockTypeInv, TypeInv, TypeOK, SafeInv, PassInv, WorkInv
<1>1. x \in Units /\ x = cur /\ pc = "commit" /\ goal \in Nat
  BY DEF RunTypeOK, ListsAnew
<1>2. row[x] = "managed" /\ row'[x] = "managed" /\ locs'[x] = PathsOf(goal)
  BY <1>1 DEF ListsAnew, PassInOrder, StoreTypeOK
<1>3. /\ PathsOf(goal) # {} /\ PathsOf(goal) \in SUBSET Paths
      /\ \A p \in Listed(x) : StageOf[p] < goal
  BY <1>1 DEF MoveHolds, PathsOf
<1>4. StageNow(x)' = goal /\ goal \in Stages
  <2>1. /\ \E p \in PathsOf(goal) : StageOf[p] = goal
        /\ \A p \in PathsOf(goal) : StageOf[p] <= goal
    BY <1>1, <1>3 DEF PathsOf
  <2> QED
    BY <1>2, <1>3, <2>1, StageFits DEF StageNow
<1>5. StageNow(x) \in Stages /\ StageNow(x) < goal
  <2>1. PICK i \in Stages : InStage(x, i)
    BY <1>1 DEF PassInOrder, Ahead, Acting
  <2>2. StageNow(x) = i /\ i < goal
    BY <1>1, <1>2, <1>3, <2>1, StageKnown DEF InStage
  <2> QED
    BY <2>1, <2>2
<1>6. StageMap' = [StageMap EXCEPT ![x] = goal]
  <2>1. \A u \in Units \ {x} : StageNow(u)' = StageNow(u)
    BY SameStage DEF OnlyTouches
  <2> QED
    BY <1>1, <1>4, <2>1 DEF StageMap
<1>7. Promise!Superseded(x)
  BY <1>1, CurSuperseded DEF Working, Locking, Acting
<1>8. StageMap[x] = StageNow(x)
  BY <1>1 DEF StageMap
<1>9. Promise!Advance(x, goal)
  BY <1>5, <1>6, <1>7, <1>8 DEF Promise!Advance, Charge, Safe, StageMap, Condemned
<1> QED
  BY <1>4, <1>9

\* Taking the locks for a deletion condemns the unit, and only one whose
\* backups could all be restored.
LEMMA CondemnMaps ==
    ASSUME FullInv, NEW x \in todo, DeleteLock, pc' = "delete", x = cur, cur' = x,
           SameListing(x), OnlyTouches(x),
           UNCHANGED <<unitOf, damages, edits>>, Charge' = Charge, Safe' = Safe
    PROVE  Promise!Condemn(x)
<1> USE DEF FullInv, LockTypeInv, TypeInv, TypeOK, SafeInv, PassInv, WorkInv
<1>1. x \in Units /\ pc = "condemn"
  BY DEF RunTypeOK, DeleteLock
<1>2. Condemned = {} /\ Condemned' = {x}
  BY <1>1 DEF Condemned
<1>3. Promise!Superseded(x)
  BY <1>1, CurSuperseded DEF Working, Locking, Acting
<1>4. PICK i \in Stages : InStage(x, i)
  BY <1>1 DEF PassInOrder, Ahead, Acting
<1>5. row[x] = "none" \/ row[x] = "managed"
  BY <1>1 DEF PassInOrder, StoreTypeOK
<1>6. {b \in Charge : unitOf[b] = x} \subseteq Safe
  <2> SUFFICES ASSUME NEW b \in Backups, Managed(b), unitOf[b] = x PROVE Kept(b)
    BY DEF Charge, Safe
  <2>1. PICK p \in Listed(x) : Good(disk[p][cur])
    BY <1>1, <1>4 DEF DeleteHolds, InStage
  <2>2. Intact(b, p)
    BY <1>1, <2>1, GoodCopiesKeep DEF Working
  <2>3. Listed(unitOf[b]) = Listed(x)
    BY DEF Listed
  <2> QED
    BY <2>1, <2>2, <2>3 DEF Kept
<1>7. StageMap[x] = StageNow(x)
  BY <1>1 DEF StageMap
<1>8. /\ StageMap[x] \in Stages \cup {-1}
      /\ StageMap' = [StageMap EXCEPT ![x] = IF @ = -1 THEN 0 ELSE @]
  <2>1. CASE row[x] = "none"
    <3>1. row'[x] # row[x]
      BY <1>1, <2>1 DEF DeleteLock, EnsureRow, StoreTypeOK
    <3> QED
      BY <1>1, <3>1, TakenUp
  <2>2. CASE row[x] = "managed"
    <3>1. row'[x] = row[x]
      BY <2>2 DEF SameListing
    <3>2. StageMap[x] \in Stages /\ StageMap[x] # -1
      BY <1>1, <1>4, <1>7, <2>2, StageKnown
    <3>3. StageMap' = StageMap
      BY <1>1, <3>1, TakenUp
    <3>4. StageMap = [StageMap EXCEPT ![x] = @]
      BY DEF StageMap
    <3> HIDE DEF StageMap
    <3> QED
      BY <3>2, <3>3, <3>4
  <2> QED
    BY <1>5, <2>1, <2>2
<1> QED
  BY <1>2, <1>3, <1>6, <1>8
     DEF Promise!Condemn, Promise!Of, Promise!Outside, Charge, Safe, StageMap, Condemned

\* The copies of a condemned unit go one by one, or as far as a run gets.
LEMMA DiscardMaps ==
    ASSUME FullInv, RunStep \/ RunFault, pc = "delete",
           UNCHANGED <<judged, row, locs, damages, edits>>, pc' = "delete" => cur' = cur
    PROVE  Promise!Discard(cur)
<1>1. /\ UNCHANGED unitOf /\ Charge' = Charge /\ Safe' \subseteq Safe
      /\ \A b \in Safe \ Safe' : unitOf[b] = cur
  BY RunSafe
<1>2. StageMap' = StageMap /\ Condemned = {cur} /\ Condemned' \subseteq {cur}
  BY StagesSame DEF Condemned
<1>3. Safe \ Safe' \subseteq {b \in Charge : unitOf[b] = cur}
  BY <1>1 DEF Safe, Charge
<1> QED
  BY <1>1, <1>2, <1>3
     DEF Promise!Discard, Promise!Of, Charge, Safe, StageMap, Condemned

\* A deletion is recorded once no copy is left.
LEMMA DeleteMaps ==
    ASSUME FullInv, DeleteRecord, UNCHANGED <<damages, edits>>
    PROVE  Promise!Delete(cur)
<1> USE DEF FullInv, LockTypeInv, TypeInv, TypeOK, SafeInv, PassInv, WorkInv
<1>1. PICK x \in Units : x = cur
  BY DEF DeleteRecord, CurInTodo, RunTypeOK, Working, Locking
<1>2. /\ pc = "delete" /\ pc' = "act" /\ work = {} /\ UNCHANGED judged
      /\ row' = [row EXCEPT ![x] = "deleted"] /\ locs' = [locs EXCEPT ![x] = {}]
  BY <1>1 DEF DeleteRecord, Settle
<1>3. /\ UNCHANGED unitOf /\ Charge' = Charge /\ Safe' \subseteq Safe
  BY <1>2, RunSafe DEF RunStep, Act
<1>4. \A b \in Safe : unitOf[b] # x
  <2> SUFFICES ASSUME NEW b \in Backups, Managed(b), Kept(b), unitOf[b] = x PROVE FALSE
    BY DEF Safe
  <2>1. PICK p \in Listed(x) : Intact(b, p)
    BY DEF Kept, Listed
  <2>2. disk[p][x] = Nothing
    BY <1>1, <1>2, <2>1 DEF DeleteHolds
  <2> QED
    BY <2>1, <2>2 DEF Intact, Nothing
<1>5. Safe' = Safe
  <2>1. \A b \in Safe \ Safe' : unitOf[b] = x
    BY <1>1, <1>2, RunSafe DEF RunStep, Act
  <2> QED
    BY <1>3, <1>4, <2>1
<1>6. StageMap' = [StageMap EXCEPT ![x] = -3]
  <2>1. \A u \in Units \ {x} : StageNow(u)' = StageNow(u)
    BY <1>2, SameStage DEF StoreTypeOK
  <2>2. StageNow(x)' = -3
    BY <1>2 DEF StageNow, StageFor, StoreTypeOK
  <2> QED
    BY <2>1, <2>2 DEF StageMap
<1>7. Condemned = {x} /\ Condemned' = {}
  BY <1>1, <1>2 DEF Condemned
<1>8. Safe \cap {b \in Charge : unitOf[b] = x} = {}
  BY <1>4
<1> QED
  BY <1>1, <1>3, <1>5, <1>6, <1>7, <1>8
     DEF Promise!Delete, Promise!Of, Promise!Deleted, Charge, Safe, StageMap, Condemned

LEMMA ActMaps ==
    ASSUME FullInv, Act \/ ActFail, UNCHANGED <<damages, edits>>
    PROVE  Promise!Next \/ UNCHANGED Promise!custodyVars
<1> DEFINE Done == Promise!Next \/ UNCHANGED Promise!custodyVars
<1> SUFFICES Done
  OBVIOUS
<1> USE DEF FullInv, LockTypeInv, TypeInv, TypeOK, SafeInv, PassInv
<1>1. PICK x \in todo :
        /\ Turn(x) /\ (pc \in Working => x = cur) /\ OnlyTouches(x)
        /\ \/ Continues(x) \/ ListsAnew(x) \/ Leaves(x)
           \/ Arrives(x) \/ Vanishes(x)
  BY ActUnit
<1>2. x \in Units /\ pc \in Acting /\ UNCHANGED <<unitOf, judged>>
  BY ActUnit DEF RunTypeOK
<1>3. /\ Charge' = Charge /\ (pc # "delete" => Safe' = Safe)
      /\ RunStep \/ RunFault
  BY <1>2, RunSafe DEF RunStep, RunFault
<1>4. CASE pc = "delete"
  <2>1. x = cur
    BY <1>1, <1>4 DEF Working, Locking
  <2>2. CASE DeleteRecord
    <3>1. Promise!Delete(x)
      BY <2>1, <2>2, DeleteMaps
    <3> QED
      BY <1>2, <3>1 DEF Promise!Next
  <2>3. CASE ~DeleteRecord
    <3>1. UNCHANGED <<row, locs>> /\ (pc' = "delete" => cur' = cur)
      BY <1>4, <2>3 DEF Act, ActFail, ActStay, ActHold, DeleteStart, MoveStart,
         MoveLock, MoveEnsureRow, MoveRecord, MoveDone, DeleteLock, MoveCopy,
         MoveRename, MoveRemove, DeleteRemove
    <3>2. Promise!Discard(x)
      BY <1>2, <1>3, <1>4, <2>1, <3>1, DiscardMaps
    <3> QED
      BY <1>2, <3>2 DEF Promise!Next
  <2> QED
    BY <2>2, <2>3
<1>5. CASE pc # "delete" /\ pc' = "delete"
  <2>1. DeleteLock /\ pc = "condemn" /\ cur' = cur
    BY <1>5 DEF Act, ActFail, ActStay, ActHold, DeleteStart, MoveStart,
       MoveLock, MoveEnsureRow, MoveRecord, MoveDone, DeleteLock, DeleteRecord,
       MoveCopy, MoveRename, MoveRemove, DeleteRemove, Proceed
  <2>2. x = cur /\ cur' = x /\ SameListing(x)
    BY <1>1, <1>5, <2>1
       DEF Working, Locking, Continues, ListsAnew, Leaves, Arrives, Vanishes
  <2>3. Promise!Condemn(x)
    BY <1>1, <1>2, <1>3, <1>5, <2>1, <2>2, CondemnMaps
  <2> QED
    BY <1>2, <2>3 DEF Promise!Next
<1>6. CASE pc # "delete" /\ pc' # "delete"
  <2>1. Condemned' = Condemned /\ Safe' = Safe /\ pc # "judge"
    BY <1>2, <1>3, <1>6 DEF Condemned, Acting
  <2>2. CASE Continues(x) \/ Leaves(x)
    <3>1. SameListing(x)
      BY <2>2 DEF Continues, Leaves
    <3>2. UNCHANGED Promise!custodyVars \/ Promise!Enter(x)
      BY <1>1, <1>2, <1>3, <2>1, <3>1, TakingUpMaps
    <3> QED
      BY <1>2, <3>2 DEF Promise!Next
  <2>3. CASE ListsAnew(x)
    <3>1. \E i \in Stages : Promise!Advance(x, i)
      BY <1>1, <1>2, <1>3, <2>1, <2>3, MovedMaps
    <3> QED
      BY <1>2, <3>1 DEF Promise!Next
  <2>4. CASE Arrives(x)
    <3>1. \A u \in Units : row'[u] = row[u] /\ locs'[u] = locs[u]
      BY <1>1, <2>4 DEF Arrives, OnlyTouches
    <3>2. StageMap' = StageMap
      BY <3>1, SameStage DEF StageMap
    <3> QED
      BY <1>2, <1>3, <2>1, <3>2, Hidden
  <2>5. ~Vanishes(x)
    BY <1>6 DEF Vanishes
  <2> QED
    BY <1>1, <2>2, <2>3, <2>4, <2>5
<1> QED
  BY <1>4, <1>5, <1>6

\* A killed run leaves what it was deleting as it is.
LEMMA StopMaps ==
    ASSUME FullInv, RunStop, UNCHANGED <<damages, edits>>
    PROVE  Promise!Next \/ UNCHANGED Promise!custodyVars
<1>1. /\ UNCHANGED <<judged, unitOf, row, locs>> /\ pc' = "idle"
      /\ RunStep \/ RunFault
  BY DEF RunStop, RunFault, ledgerVars
<1>2. CASE pc = "delete"
  <2>1. Promise!Discard(cur)
    BY <1>1, <1>2, DiscardMaps
  <2>2. cur \in Units
    BY <1>2 DEF FullInv, LockTypeInv, TypeInv, TypeOK, CurInTodo, RunTypeOK,
       Working, Locking
  <2> QED
    BY <2>1, <2>2 DEF Promise!Next
<1>3. CASE pc # "delete"
  <2>1. Charge' = Charge /\ Safe' = Safe /\ Condemned' = Condemned
    BY <1>1, <1>3, RunSafe DEF Condemned
  <2> QED
    BY <1>1, <2>1, Hidden, StagesSame
<1> QED
  BY <1>2, <1>3

----------------------------------------------------------------------------
(* The environment.                                                           *)

\* What rots or vanishes is no longer safe, and Custody says so.
LEMMA DamageMaps ==
    ASSUME FullInv, NEW p \in Paths, NEW u \in Units, Damage(p, u)
    PROVE  Promise!Damage
<1> USE DEF FullInv, LockTypeInv, TypeInv, TypeOK
<1>1. /\ UNCHANGED <<status, unitOf, judged, row, locs, pc, cur, edits>>
      /\ damages' = damages + 1
  BY DEF Damage, ledgerVars, runVars
<1>2. ASSUME NEW b \in Backups, Managed(b), Kept(b)' PROVE Kept(b)
  <2>1. PICK v \in Units : v = unitOf[b]
    BY <1>2, RecordedUnits DEF Managed
  <2>2. PICK q \in Listed(v) : Intact(b, q)' /\ q \in Paths
    BY <1>1, <1>2, <2>1, FirstStageHasOnePath DEF Kept, Listed, StoreTypeOK
  <2>3. disk'[q][v].sound /\ b \in disk'[q][v].held
    BY <1>1, <2>1, <2>2 DEF Intact
  <2>4. CASE q # p \/ v # u
    BY <2>1, <2>2, <2>3, <2>4, PutElsewhere DEF Damage, Kept, Intact, Listed
  <2>5. CASE q = p /\ v = u
    <3>1. disk'[p][u] \in {Rotten(disk[p][u]), Nothing}
      BY DEF Damage, Put, StoreTypeOK
    <3> QED
      BY <2>3, <2>5, <3>1 DEF Rotten, Nothing, Copy
  <2> QED
    BY <2>4, <2>5
<1>3. Charge' = Charge /\ Safe' \subseteq Safe
  BY <1>1, <1>2 DEF Charge, Safe, Managed
<1>4. StageMap' = StageMap /\ Condemned' = Condemned
  BY <1>1, StagesSame DEF Condemned
<1> QED
  BY <1>1, <1>3, <1>4 DEF Promise!Damage, Charge, Safe, StageMap, Condemned

\* Where a unit can be.
LEMMA StageRange ==
    ASSUME NEW paths \in SUBSET Paths, NEW kept \in {"none", "managed", "deleted"}
    PROVE  /\ StageFor(kept, paths) \in Stages \cup {-1, -2, -3}
           /\ StageFor(kept, paths) = -3 => kept = "deleted"
           /\ kept = "managed" => StageFor(kept, paths) \in Stages \cup {-2}
           /\ kept = "deleted" => StageFor(kept, paths) = -3
<1>1. paths # {} => LatestOf(paths) \in Stages
  BY LatestIs
<1>2. \A i \in Stages : i \in Nat
  BY StagesAreNumbers
<1> QED
  BY <1>1, <1>2 DEF StageFor

\* The operator changes one unit.
LEMMA EditMaps ==
    ASSUME FullInv, DeletedUnlisted, TypeInv', DeletedUnlisted', Edit
    PROVE  \E u \in Units : Promise!Edit(u)
<1> USE DEF FullInv, LockTypeInv, TypeInv, TypeOK
<1>1. /\ UNCHANGED <<status, unitOf, judged, pc, cur, damages>>
      /\ edits' = edits + 1 /\ pc = "idle"
  BY DEF Edit, runVars
<1>2. PICK u \in Units :
        /\ row[u] = "managed" \/ UNCHANGED <<row, locs>>
        /\ \A v \in Units \ {u} : row'[v] = row[v] /\ locs'[v] = locs[v]
        /\ \A p \in Paths, v \in Units : v # u => disk'[p][v] = disk[p][v]
        /\ row'[u] = "deleted" => locs[u] = {}
  BY PutElsewhere DEF Edit, DeletedUnlisted, StoreTypeOK
<1>3. StageMap' = [StageMap EXCEPT ![u] = StageNow(u)']
  BY <1>2, SameStage DEF StageMap
<1>4. /\ StageNow(u)' \in Stages \cup {-1, -2, -3}
      /\ StageNow(u)' = -3 => row'[u] = "deleted"
  <2>1. locs'[u] \in SUBSET Paths /\ row'[u] \in {"none", "managed", "deleted"}
    BY DEF StoreTypeOK
  <2> QED
    BY <2>1, StageRange DEF StageNow
<1>5. StageNow(u)' # StageNow(u) => StageNow(u) \in Stages \cup {-2}
  <2>1. CASE row[u] = "managed"
    BY <2>1, StageRange DEF StageNow, StoreTypeOK
  <2>2. CASE UNCHANGED <<row, locs>>
    BY <2>2, SameStage
  <2> QED
    BY <1>2, <2>1, <2>2
<1>6. row'[u] = "deleted" => Safe \cap {b \in Charge : unitOf[b] = u} = {}
  <2> SUFFICES ASSUME row'[u] = "deleted", NEW b \in Backups, Kept(b), unitOf[b] = u
               PROVE  FALSE
    BY DEF Safe
  <2>1. locs[u] = {} /\ row[u] # "none"
    BY <1>2
  <2> QED
    BY <2>1 DEF Kept, Listed
<1>7. Charge' = Charge /\ \A b \in Charge : unitOf[b] # u => (b \in Safe' <=> b \in Safe)
  <2>1. Charge' = Charge
    BY <1>1 DEF Charge, Managed
  <2>2. ASSUME NEW b \in Backups, Managed(b), unitOf[b] # u PROVE Kept(b)' <=> Kept(b)
    <3>1. PICK v \in Units : v = unitOf[b] /\ v # u
      BY <2>2, RecordedUnits DEF Managed
    <3>2. Listed(v)' = Listed(v) /\ Listed(v) \subseteq Paths
      BY <1>2, <3>1, FirstStageHasOnePath DEF Listed, StoreTypeOK
    <3>3. Listed(unitOf[b])' = Listed(v)' /\ Listed(unitOf[b]) = Listed(v)
      BY <1>1, <3>1 DEF Listed
    <3>4. \A p \in Paths : Intact(b, p)' <=> Intact(b, p)
      BY <1>1, <1>2, <3>1 DEF Intact
    <3> QED
      BY <3>2, <3>3, <3>4 DEF Kept
  <2> QED
    BY <1>1, <2>1, <2>2 DEF Charge, Safe, Managed
<1>8. Safe' \subseteq Charge
  BY <1>7 DEF Safe, Charge
<1>9. Safe' \ {b \in Charge : unitOf[b] = u} = Safe \ {b \in Charge : unitOf[b] = u}
  BY <1>7, <1>8 DEF Safe, Charge
<1>10. Condemned = {} /\ Condemned' = {}
  BY <1>1 DEF Condemned
<1>11. StageMap[u] = StageNow(u)
  BY DEF StageMap
<1> DEFINE i == StageNow(u)'
<1>12. /\ i \in Stages \cup {-1, -2, -3}
       /\ i # StageMap[u] => StageMap[u] \in Stages \cup {-2}
       /\ i = -3 => Safe \cap {b \in Charge : unitOf[b] = u} = {}
       /\ StageMap' = [StageMap EXCEPT ![u] = i]
  BY <1>3, <1>4, <1>5, <1>6, <1>11
<1> HIDE DEF i
<1>13. Promise!Edit(u)
  BY <1>1, <1>7, <1>8, <1>9, <1>10, <1>12
     DEF Promise!Edit, Promise!Of, Promise!Outside, Promise!Nowhere, Promise!Deleted,
         Charge, Safe, StageMap, Condemned
<1> QED
  BY <1>13

LEMMA EnvironmentMaps ==
    ASSUME FullInv, DeletedUnlisted, TypeInv', DeletedUnlisted', Environment
    PROVE  Promise!Next \/ UNCHANGED Promise!custodyVars
<1>1. ASSUME NEW p \in Paths, NEW u \in Units, Damage(p, u) PROVE Promise!Next
  BY <1>1, DamageMaps DEF Promise!Next
<1>2. CASE Edit
  <2>1. \E u \in Units : Promise!Edit(u)
    BY <1>2, EditMaps
  <2> QED
    BY <2>1 DEF Promise!Next
<1>3. CASE Remount \/ \E p \in Prepared, s \in Series : PrepareBegin(p, s) \/ PrepareEnd(p, s)
  <2>1. UNCHANGED <<disk, status, unitOf, judged, row, locs, pc, cur, damages, edits>>
    BY <1>3 DEF Remount, PrepareBegin, PrepareEnd, ledgerVars, runVars, countVars
  <2>2. Charge' = Charge /\ Safe' = Safe /\ Condemned' = Condemned
    BY <2>1 DEF Charge, Safe, Condemned, Managed, Kept, Intact, Listed
  <2> QED
    BY <2>1, <2>2, Hidden, StagesSame
<1> QED
  BY <1>1, <1>2, <1>3 DEF Environment

----------------------------------------------------------------------------
(* The refinement.                                                            *)

LEMMA StepMaps ==
    ASSUME FullInv, DeletedUnlisted, TypeInv', DeletedUnlisted', [Next]_vars
    PROVE  Promise!Next \/ UNCHANGED Promise!custodyVars
<1>1. CASE Jobs
  BY <1>1, JobsMap DEF Promise!Next
<1>2. CASE RunStep /\ UNCHANGED countVars
  <2>1. CASE RunJudge
    BY <1>2, <2>1, JudgeMaps DEF Promise!Next
  <2>2. CASE Sweep
    BY <1>2, <2>2, SweepHides
  <2>3. CASE Act
    BY <1>2, <2>3, ActMaps DEF countVars
  <2>4. CASE RunBegin \/ RunReadBusy \/ RunDecide \/ RunFinish \/ RunSnapshot
    BY <1>2, <2>4, BetweenHides
  <2> QED
    BY <1>2, <2>1, <2>2, <2>3, <2>4 DEF RunStep
<1>3. CASE Fault
  <2>1. CASE ActFail
    BY <1>3, <2>1, ActMaps DEF Fault
  <2>2. CASE RunStop
    BY <1>3, <2>2, StopMaps DEF Fault
  <2>3. CASE SnapshotFail
    <3>1. UNCHANGED <<unitOf, judged, row, locs, damages, edits>>
          /\ pc # "delete" /\ pc' # "delete" /\ RunFault
      BY <1>3, <2>3 DEF Fault, SnapshotFail, RunFault, storeVars, ledgerVars
    <3>2. Charge' = Charge /\ Safe' = Safe
      BY <3>1, RunSafe
    <3> QED
      BY <3>1, <3>2, Hidden, StagesSame DEF Condemned
  <2> QED
    BY <1>3, <2>1, <2>2, <2>3 DEF Fault, RunFault
<1>4. CASE Environment
  BY <1>4, EnvironmentMaps
<1>5. CASE UNCHANGED vars
  <2>1. UNCHANGED <<disk, status, unitOf, judged, row, locs, pc, cur, damages, edits>>
    BY <1>5 DEF vars, storeVars, ledgerVars, runVars, countVars
  <2>2. Charge' = Charge /\ Safe' = Safe /\ Condemned' = Condemned
    BY <2>1 DEF Charge, Safe, Condemned, Managed, Kept, Intact, Listed
  <2> QED
    BY <2>1, <2>2, Hidden, StagesSame
<1> QED
  BY <1>1, <1>2, <1>3, <1>4, <1>5 DEF Next, Run

\* CustodyIsKept: with every copy, lock, crash and transaction, the rotation
\* does no more than Custody allows: a managed backup stays restorable but for
\* deletion, damage and the operator, and units only move to later stages and
\* go only behind a newer one.
THEOREM CustodyIsKept == Spec => KeepsCustody
<1>1. FullInv /\ DeletedUnlisted /\ FullInv' /\ DeletedUnlisted' /\ [Next]_vars
         => [Promise!Next]_(Promise!custodyVars)
  BY StepMaps DEF FullInv, LockTypeInv
<1> QED
  BY <1>1, InitMaps, FullInvHolds, DeletedUnlistedHolds, PTL
     DEF Spec, KeepsCustody, Promise!Spec

----------------------------------------------------------------------------
(* Where engines write.                                                       *)

PlaceInv == ArchivesAreOwn /\ UnusedIsEmpty /\ WritesInPlace

\* An attempt starts where a unit is listed in the first stage, an archive in
\* a unit nobody has used.
LEMMA StartsInPlace ==
    ASSUME TypeInv, BaseInv, NEW b \in Backups, NEW u \in Units, EngineStart(b, u)
    PROVE  /\ First \in Listed(u)
           /\ JobOf[b] \in Chained => InChain(u) /\ ~Newer(u)
           /\ JobOf[b] \notin Chained =>
                 row[u] = "none" /\ \A c \in Backups : unitOf[c] # u
<1> USE DEF TypeInv, TypeOK, StoreTypeOK, BaseInv
<1>1. SeriesOf[u] = JobOf[b] /\ MayWrite(b, u)
  BY DEF EngineStart, MayWrite
<1>2. CASE JobOf[b] \in Chained
  <2>1. ~Newer(u)
    <3> SUFFICES ASSUME Newer(u) PROVE FALSE
      OBVIOUS
    <3>1. PICK w \in Units : SeriesOf[w] = JobOf[b] /\ u < w /\ disk[First][w].sealed
      BY <1>1 DEF Newer
    <3>2. w <= u
      BY <1>2, <3>1, StartsNewest
    <3> QED
      BY <3>1, <3>2, UnitsAreNumbers
  <2>2. ~Away(u) /\ InChain(u)
    BY <1>1, <1>2, <2>1 DEF AwayIsOld, InChain
  <2> QED
    BY <1>2, <2>1, <2>2 DEF Away, Listed
<1>3. CASE JobOf[b] \notin Chained
  <2>1. ASSUME NEW c \in Backups, unitOf[c] = u PROVE FALSE
    <3>1. JobOf[c] = JobOf[b]
      BY <1>1, <2>1, UnitsAreNumbers DEF JobsInStep
    <3> QED
      BY <1>1, <1>3, <2>1, <3>1 DEF MayWrite, Used
  <2>2. row[u] = "none"
    BY <2>1 DEF RowsHaveRecords, Recorded
  <2> QED
    BY <1>3, <2>1, <2>2 DEF Listed
<1> QED
  BY <1>2, <1>3

\* What an attempt has pending or published stays while it is at work.
LEMMA JobsHaveTheirs ==
    ASSUME TypeInv, Jobs, NEW b \in Backups, phase[b] \in Writing, phase'[b] \in Writing,
           b \in disk[First][unitOf[b]].held \cup disk[First][unitOf[b]].tmp
    PROVE  b \in disk'[First][unitOf[b]].held \cup disk'[First][unitOf[b]].tmp
<1> USE FirstStageHasOnePath DEF TypeInv, TypeOK, StoreTypeOK, JobTypeOK, JobsInStep, Writing
<1>1. PICK u \in Units : u = unitOf[b]
  OBVIOUS
<1>2. ASSUME NEW v \in Units, NEW copy, Put(First, v, copy),
             v = u => b \in copy.held \cup copy.tmp
      PROVE  b \in disk'[First][u].held \cup disk'[First][u].tmp
  <2>1. CASE v = u
    BY <1>2, <2>1 DEF Put
  <2>2. CASE v # u
    BY <1>1, <1>2, <2>2, PutElsewhere
  <2> QED
    BY <2>1, <2>2
<1>3. ASSUME UNCHANGED disk PROVE b \in disk'[First][u].held \cup disk'[First][u].tmp
  BY <1>1, <1>3
<1> PICK c \in Backups :
        \/ BackupBegin(c)
        \/ \E v \in Units : EngineStart(c, v)
        \/ EnginePublish(c)
        \/ EngineFinish(c)
        \/ RecordSuccess(c)
        \/ EngineFail(c)
        \/ BackupKilled(c)
        \/ MarkFailed(c)
  BY DEF Jobs, JobNext
<1>4. unitOf[c] # 0 => unitOf[c] \in Units
  OBVIOUS
<1>5. ASSUME NEW v \in Units, EngineStart(c, v)
      PROVE  b \in disk'[First][u].held \cup disk'[First][u].tmp
  BY <1>1, <1>2, <1>3, <1>5 DEF EngineStart, Pending, Copy
<1>6. CASE EnginePublish(c)
  BY <1>1, <1>2, <1>4, <1>6 DEF EnginePublish, Published, Copy
<1>7. CASE EngineFinish(c)
  BY <1>1, <1>2, <1>4, <1>7 DEF EngineFinish, Sealed, Copy
<1>8. CASE EngineFail(c)
  <2>1. c # b
    BY <1>8 DEF EngineFail
  <2> QED
    BY <1>1, <1>2, <1>3, <1>4, <1>8, <2>1 DEF EngineFail, Cleaned, Copy
<1> QED
  BY <1>1, <1>3, <1>5, <1>6, <1>7, <1>8
     DEF BackupBegin, RecordSuccess, BackupKilled, MarkFailed, ledgerVars

LEMMA JobsPlace ==
    ASSUME TypeInv, TypeInv', BaseInv, PlaceInv, Jobs PROVE PlaceInv'
<1> USE FirstStageHasOnePath DEF TypeInv, TypeOK, StoreTypeOK, PlaceInv
<1>1. UNCHANGED <<row, locs>>
  BY JobsKeep
<1>2. \A b \in Backups : unitOf[b] # 0 => unitOf'[b] = unitOf[b]
  BY JobsKeep
<1>3. ASSUME NEW b \in Backups, unitOf'[b] # unitOf[b]
      PROVE  unitOf'[b] \in Units /\ EngineStart(b, unitOf'[b])
  <2>1. PICK c \in Backups, u \in Units : EngineStart(c, u)
    BY <1>3 DEF Jobs, JobNext, BackupBegin, EnginePublish, EngineFinish,
       RecordSuccess, EngineFail, BackupKilled, MarkFailed, ledgerVars
  <2>2. c = b /\ unitOf'[b] = u
    BY <1>3, <2>1 DEF EngineStart
  <2> QED
    BY <2>1, <2>2
<1>4. ArchivesAreOwn'
  <2> SUFFICES ASSUME NEW b \in Backups, NEW c \in Backups, b # c,
                      unitOf'[b] # 0, unitOf'[b] = unitOf'[c], JobOf[b] \notin Chained
               PROVE  FALSE
    BY DEF ArchivesAreOwn
  <2>1. PICK u \in Units : u = unitOf'[b] /\ u = unitOf'[c]
    OBVIOUS
  <2>2. JobOf[c] = JobOf[b]
    BY <2>1, UnitsAreNumbers DEF JobsInStep
  <2>3. unitOf'[b] # unitOf[b] => unitOf'[c] # unitOf[c]
    BY <1>3, <2>1, StartsInPlace
  <2>4. unitOf'[c] # unitOf[c] => unitOf'[b] # unitOf[b]
    BY <1>3, <2>1, <2>2, StartsInPlace
  <2>5. ~(unitOf'[b] # unitOf[b] /\ unitOf'[c] # unitOf[c])
    <3>1. ASSUME NEW d \in Backups, unitOf'[d] # unitOf[d]
          PROVE  \A x \in Backups \ {d} : unitOf'[x] = unitOf[x]
      BY <1>3, <3>1 DEF EngineStart
    <3> QED
      BY <3>1
  <2> QED
    BY <2>1, <2>3, <2>4, <2>5 DEF ArchivesAreOwn
<1>5. UnusedIsEmpty'
  <2> SUFFICES ASSUME NEW p \in Paths, NEW u \in Units, disk'[p][u] # Nothing
               PROVE  \E b \in Backups : unitOf'[b] = u
    BY DEF UnusedIsEmpty
  <2>1. CASE disk'[p][u] # disk[p][u]
    BY <2>1, JobsWrite
  <2>2. CASE disk'[p][u] = disk[p][u]
    BY <1>2, <2>2, UnitsAreNumbers DEF UnusedIsEmpty
  <2> QED
    BY <2>1, <2>2
<1>6. WritesInPlace'
  <2> SUFFICES ASSUME NEW b \in Backups, phase'[b] \in Writing
               PROVE  /\ First \in Listed(unitOf[b])'
                      /\ IF JobOf[b] \in Chained
                         THEN b \in disk'[First][unitOf'[b]].held \cup disk'[First][unitOf'[b]].tmp
                         ELSE row'[unitOf'[b]] = "none"
    BY DEF WritesInPlace
  <2>1. CASE phase[b] \in Writing /\ unitOf'[b] = unitOf[b]
    <3>1. Listed(unitOf[b])' = Listed(unitOf[b])
      BY <1>1, <2>1 DEF Listed
    <3>2. CASE JobOf[b] \in Chained
      BY <2>1, <3>1, <3>2, JobsHaveTheirs DEF WritesInPlace
    <3>3. CASE JobOf[b] \notin Chained
      BY <1>1, <2>1, <3>1, <3>3 DEF WritesInPlace
    <3> QED
      BY <3>2, <3>3
  <2>2. ASSUME NEW u \in Units, EngineStart(b, u), unitOf'[b] = u
        PROVE  /\ First \in Listed(unitOf[b])'
               /\ IF JobOf[b] \in Chained
                  THEN b \in disk'[First][unitOf'[b]].held \cup disk'[First][unitOf'[b]].tmp
                  ELSE row'[unitOf'[b]] = "none"
    <3>1. Listed(unitOf[b])' = Listed(u)
      BY <1>1, <2>2 DEF Listed
    <3>2. CASE JobOf[b] \in Chained
      <4>1. disk'[First][u] = Pending(disk[First][u], b)
        BY <2>2, <3>2 DEF EngineStart, Put
      <4> QED
        BY <2>2, <3>1, <3>2, <4>1, StartsInPlace DEF Pending, Copy
    <3>3. CASE JobOf[b] \notin Chained
      BY <1>1, <2>2, <3>1, <3>3, StartsInPlace
    <3> QED
      BY <3>2, <3>3
  <2> QED
    BY <2>1, <2>2, JobsStart
<1> QED
  BY <1>4, <1>5, <1>6

LEMMA RunPlace ==
    ASSUME FullInv, PlaceInv, RunStep \/ RunFault, UNCHANGED phase PROVE PlaceInv'
<1> USE FirstStageHasOnePath
    DEF FullInv, LockTypeInv, TypeInv, TypeOK, StoreTypeOK, SafeInv, PassInv
<1>1. UNCHANGED unitOf
  BY UnitsStay
<1>2. ASSUME NEW p \in Paths, NEW u \in Units, disk'[p][u] # disk[p][u]
      PROVE  pc \in Working /\ u = cur
  BY <1>2, RunLeaves DEF Working
<1>3. ASSUME NEW b \in Backups, phase[b] \in Writing, NEW u \in Units, u = unitOf[b]
      PROVE  ~(pc \in Working /\ u = cur)
  BY <1>3 DEF JobsApart, EngineLeftAlone, Writing
<1>4. UnusedIsEmpty'
  <2> SUFFICES ASSUME NEW p \in Paths, NEW u \in Units, disk'[p][u] # Nothing
               PROVE  \E b \in Backups : unitOf'[b] = u
    BY DEF UnusedIsEmpty
  <2>1. CASE disk'[p][u] # disk[p][u]
    BY <1>1, <1>2, <2>1 DEF ViewIsRecorded, Seen
  <2>2. CASE disk'[p][u] = disk[p][u]
    BY <1>1, <2>2 DEF PlaceInv, UnusedIsEmpty
  <2> QED
    BY <2>1, <2>2
<1>5. ASSUME NEW b \in Backups, phase[b] \in Writing
      PROVE  /\ First \in Listed(unitOf[b])'
             /\ IF JobOf[b] \in Chained
                THEN b \in disk'[First][unitOf'[b]].held \cup disk'[First][unitOf'[b]].tmp
                ELSE row'[unitOf'[b]] = "none"
  <2>1. PICK u \in Units : u = unitOf[b]
    BY <1>5 DEF JobsInStep
  <2>2. Listed(u)' = Listed(u)
    BY <1>3, <1>5, <2>1, ListingChanges DEF Working, Locking, TrimRecord, MoveRecord, DeleteRecord
  <2>3. Listed(unitOf[b])' = Listed(u)
    BY <1>1, <2>1, <2>2 DEF Listed
  <2>4. CASE JobOf[b] \in Chained
    BY <1>1, <1>2, <1>3, <1>5, <2>1, <2>3, <2>4 DEF PlaceInv, WritesInPlace
  <2>5. CASE JobOf[b] \notin Chained
    <3>1. row[u] = "none" /\ First \in Listed(u)
      BY <1>5, <2>1, <2>5 DEF PlaceInv, WritesInPlace
    <3>2. ~(pc = "act" /\ Turn(u))
      <4>1. SUFFICES ASSUME Turn(u) PROVE FALSE
        OBVIOUS
      <4>2. PICK c \in Backups : unitOf[c] = u /\ view[c] = "managed"
        BY <4>1 DEF ViewIsRecorded, Seen, Turn
      <4>3. phase[c] = "done"
        BY <4>2 DEF ChargeIsSeen, JobsInStep
      <4>4. c # b
        BY <1>5, <4>3 DEF Writing
      <4> QED
        BY <2>1, <2>5, <4>2, <4>4, UnitsAreNumbers DEF PlaceInv, ArchivesAreOwn
    <3>3. row'[u] = "none"
      BY <1>3, <1>5, <2>1, <3>1, <3>2, RunLedger
    <3> QED
      BY <1>1, <2>1, <2>3, <2>5, <3>1, <3>3
  <2> QED
    BY <2>4, <2>5
<1> QED
  BY <1>1, <1>4, <1>5 DEF PlaceInv, ArchivesAreOwn, WritesInPlace

\* What is lost or removed outside the code, and by whom.
LEMMA EnvironmentDisk ==
    ASSUME TypeInv, Environment, NEW p \in Paths, NEW u \in Units, disk'[p][u] # disk[p][u]
    PROVE  /\ disk[p][u] # Nothing
           /\ \/ Damage(p, u) /\ damages' = damages + 1
              \/ /\ pc = "idle" /\ edits' = edits + 1
                 /\ disk'[p][u] = Nothing /\ p \notin Listed(u)
                 /\ row[u] = "none" => p # First
<1> USE DEF TypeInv, TypeOK
<1>1. ASSUME NEW q \in Paths, NEW v \in Units, Damage(q, v)
      PROVE  q = p /\ v = u
  BY <1>1, PutElsewhere DEF Damage
<1>2. CASE Edit
  <2>1. PICK q \in Paths, v \in Units :
           /\ q \notin Listed(v) /\ disk[q][v] # Nothing
           /\ row[v] = "none" => q # First
           /\ Put(q, v, Nothing)
    BY <1>2 DEF Edit
  <2>2. q = p /\ v = u
    BY <2>1, PutElsewhere
  <2>3. disk'[p][u] = Nothing
    BY <2>1, <2>2 DEF Put, StoreTypeOK
  <2> QED
    BY <1>2, <2>1, <2>2, <2>3 DEF Edit
<1>3. Edit \/ \E q \in Paths, v \in Units : Damage(q, v)
  BY DEF Environment, Remount, PrepareBegin, PrepareEnd
<1> QED
  BY <1>1, <1>2, <1>3 DEF Damage

LEMMA EnvironmentLedger ==
    ASSUME TypeInv, Environment, NEW u \in Units, row'[u] # row[u] \/ locs'[u] # locs[u]
    PROVE  /\ pc = "idle" /\ edits' = edits + 1 /\ row[u] = "managed" /\ UNCHANGED disk
           /\ \/ row'[u] = "deleted" /\ locs[u] = {} /\ locs'[u] = {}
              \/ /\ row'[u] = "managed"
                 /\ \E p \in locs[u] : disk[p][u] = Nothing /\ locs'[u] = locs[u] \ {p}
              \/ row'[u] = "managed" /\ locs[u] \subseteq locs'[u]
<1> USE DEF TypeInv, TypeOK, StoreTypeOK
<1>1. Edit
  BY DEF Environment, Damage, Remount, PrepareBegin, PrepareEnd, ledgerVars
<1>2. PICK p \in Paths, v \in Units :
        /\ row[v] = "managed" /\ UNCHANGED disk
        /\ \/ /\ p \in locs[v] /\ disk[p][v] = Nothing
              /\ locs' = [locs EXCEPT ![v] = @ \ {p}] /\ UNCHANGED row
           \/ /\ locs[v] = {} /\ row' = [row EXCEPT ![v] = "deleted"] /\ UNCHANGED locs
           \/ locs' = [locs EXCEPT ![v] = @ \cup {p}] /\ UNCHANGED row
  BY <1>1 DEF Edit
<1>3. v = u
  BY <1>2
<1> QED
  BY <1>1, <1>2, <1>3 DEF Edit

LEMMA EnvironmentPlace ==
    ASSUME FullInv, PlaceInv, Environment PROVE PlaceInv'
<1> USE FirstStageHasOnePath
    DEF FullInv, LockTypeInv, TypeInv, TypeOK, StoreTypeOK, PlaceInv
<1>1. UNCHANGED <<unitOf, phase>>
  BY EnvironmentKeeps
<1>2. UnusedIsEmpty'
  BY <1>1, EnvironmentDisk DEF UnusedIsEmpty
<1>3. ASSUME NEW b \in Backups, phase[b] \in Writing
      PROVE  /\ First \in Listed(unitOf[b])'
             /\ IF JobOf[b] \in Chained
                THEN b \in disk'[First][unitOf'[b]].held \cup disk'[First][unitOf'[b]].tmp
                ELSE row'[unitOf'[b]] = "none"
  <2>1. PICK u \in Units : u = unitOf[b]
    BY <1>3 DEF JobsInStep
  <2>2. First \in Listed(u)
    BY <1>3, <2>1 DEF WritesInPlace
  <2>3. disk'[First][u] = disk[First][u]
    BY <1>3, <2>1, <2>2, EnvironmentDisk DEF Damage, Writing
  <2>4. Listed(unitOf[b])' = Listed(u)'
    BY <1>1, <2>1 DEF Listed
  <2>5. CASE JobOf[b] \in Chained
    <3>1. b \in disk[First][u].held \cup disk[First][u].tmp
      BY <1>3, <2>1, <2>5 DEF WritesInPlace
    <3>2. disk[First][u] # Nothing
      BY <3>1 DEF Nothing
    <3>3. First \in Listed(u)'
      BY <2>2, <3>2, EnvironmentLedger DEF Listed
    <3> QED
      BY <1>1, <2>1, <2>3, <2>4, <2>5, <3>1, <3>3
  <2>6. CASE JobOf[b] \notin Chained
    <3>1. row[u] = "none"
      BY <1>3, <2>1, <2>6 DEF WritesInPlace
    <3>2. row'[u] = "none" /\ locs'[u] = locs[u]
      BY <3>1, EnvironmentLedger
    <3> QED
      BY <1>1, <2>1, <2>2, <2>4, <2>6, <3>1, <3>2 DEF Listed
  <2> QED
    BY <2>5, <2>6
<1> QED
  BY <1>1, <1>2, <1>3 DEF ArchivesAreOwn, WritesInPlace

----------------------------------------------------------------------------
(* What a run may judge.                                                      *)

LEMMA JobsTorn ==
    ASSUME FullInv, PlaceInv, TornIsOld, Jobs PROVE TornIsOld'
<1> USE FirstStageHasOnePath
    DEF FullInv, LockTypeInv, TypeInv, TypeOK, StoreTypeOK, SafeInv, TornIsOld
<1>1. damages' = damages
  BY JobsKeep DEF countVars
<1>2. \A u \in Units : disk'[First][u].sound = disk[First][u].sound
  BY JobsKeep
<1>3. ASSUME damages = 0, NEW u \in Units, InChain(u), ~disk'[First][u].sound
      PROVE  Newer(u)'
  BY <1>2, <1>3, JobsSeal, NewerStays
<1>4. ASSUME damages = 0, NEW b \in Backups, phase'[b] \in Writing
      PROVE  disk'[First][unitOf'[b]].sound
  <2>1. CASE phase[b] \in Writing /\ unitOf'[b] = unitOf[b]
    <3>1. PICK u \in Units : u = unitOf[b]
      BY <2>1 DEF JobsInStep
    <3> QED
      BY <1>2, <1>4, <2>1, <3>1
  <2>2. ASSUME NEW u \in Units, EngineStart(b, u), unitOf'[b] = u
        PROVE  disk'[First][unitOf'[b]].sound
    <3>1. CASE JobOf[b] \in Chained
      BY <1>2, <1>4, <2>2, <3>1, StartsInPlace
    <3>2. CASE JobOf[b] \notin Chained
      <4>1. disk[First][u] = Nothing
        BY <2>2, <3>2, StartsInPlace DEF PlaceInv, UnusedIsEmpty
      <4> QED
        BY <1>2, <2>2, <4>1 DEF Nothing
    <3> QED
      BY <3>1, <3>2
  <2> QED
    BY <1>4, <2>1, <2>2, JobsStart
<1> QED
  BY <1>1, <1>3, <1>4 DEF InChain

LEMMA RunTorn ==
    ASSUME FullInv, TornIsOld, RunStep \/ RunFault, UNCHANGED <<phase, damages>>
    PROVE  TornIsOld'
<1> USE FirstStageHasOnePath
    DEF FullInv, LockTypeInv, TypeInv, TypeOK, StoreTypeOK, SafeInv, JobsApart, TornIsOld
<1>1. ASSUME damages = 0, NEW u \in Units, InChain(u), ~disk'[First][u].sound
      PROVE  Newer(u)'
  <2>1. CASE disk'[First][u] = disk[First][u]
    BY <1>1, <2>1, RunSeals, NewerStays
  <2>2. CASE disk'[First][u] # disk[First][u]
    <3>1. pc \in Working /\ u = cur
      BY <2>2, RunLeaves DEF Working
    <3>2. Newer(u)
      BY <1>1, <3>1 DEF CurIsOld
    <3> QED
      BY <1>1, <3>2, RunSeals, NewerStays
  <2> QED
    BY <2>1, <2>2
<1>2. ASSUME damages = 0, NEW b \in Backups, phase'[b] \in Writing
      PROVE  disk'[First][unitOf'[b]].sound
  <2>1. PICK u \in Units : u = unitOf[b]
    BY <1>2 DEF JobsInStep
  <2>2. disk'[First][u] = disk[First][u]
    BY <1>2, <2>1, RunLeaves DEF EngineLeftAlone, Writing, Working
  <2> QED
    BY <1>2, <2>1, <2>2, UnitsStay
<1> QED
  BY <1>1, <1>2 DEF InChain

\* What is on the disk after a step of the environment, before any damage.
LEMMA NotDamaged ==
    ASSUME TypeInv, Environment, damages' = 0, NEW p \in Paths, NEW u \in Units
    PROVE  /\ damages = 0
           /\ \/ disk'[p][u] = disk[p][u]
              \/ disk'[p][u] = Nothing /\ p \notin Listed(u) /\ pc = "idle"
<1>1. damages \in Nat
  BY DEF TypeInv, TypeOK
<1>2. damages = 0
  <2>1. CASE \E q \in Paths, v \in Units : Damage(q, v)
    <3>1. damages' = damages + 1
      BY <2>1 DEF Damage
    <3> QED
      BY <1>1, <3>1
  <2>2. CASE Remount \/ Edit \/ \E q \in Prepared, s \in Series :
               PrepareBegin(q, s) \/ PrepareEnd(q, s)
    BY <2>2 DEF Remount, Edit, PrepareBegin, PrepareEnd, countVars
  <2> QED
    BY <2>1, <2>2 DEF Environment
<1>3. ~Damage(p, u)
  BY <1>2 DEF Damage
<1> QED
  BY <1>2, <1>3, EnvironmentDisk

LEMMA EnvironmentTorn ==
    ASSUME FullInv, TornIsOld, Environment PROVE TornIsOld'
<1> USE FirstStageHasOnePath
    DEF FullInv, LockTypeInv, TypeInv, SafeInv, BaseInv, TornIsOld
<1>1. UNCHANGED <<phase, unitOf>>
  BY EnvironmentKeeps
<1>2. ASSUME damages' = 0, NEW u \in Units, ~disk'[First][u].sound
      PROVE  damages = 0 /\ ~disk[First][u].sound
  BY <1>2, NotDamaged DEF Nothing
<1>3. ASSUME damages' = 0, NEW u \in Units, InChain(u), ~disk'[First][u].sound
      PROVE  Newer(u)'
  BY <1>2, <1>3, EnvironmentSeals, NewerStays
<1>4. ASSUME damages' = 0, NEW b \in Backups, phase'[b] \in Writing
      PROVE  disk'[First][unitOf'[b]].sound
  <2>1. PICK u \in Units : u = unitOf[b]
    BY <1>1, <1>4 DEF JobsInStep, TypeOK, StoreTypeOK
  <2> QED
    BY <1>1, <1>2, <1>4, <2>1
<1> QED
  BY <1>3, <1>4 DEF InChain

\* What a run changes at a unit's place it has loaded and looked at.
LEMMA RunTakesSeen ==
    ASSUME FullInv, RunStep \/ RunFault, NEW p \in Paths, NEW u \in Units,
           disk'[p][u] # disk[p][u]
    PROVE  pc \in Working /\ u = cur /\ disk'[p][u].held \subseteq Seen(u)
<1> USE FirstStageHasOnePath DEF FullInv, LockTypeInv, TypeInv, TypeOK, SafeInv, WorkInv
<1>1. pc \in Locking /\ u = cur /\ p \in work
  BY RunLeaves
<1>2. CASE pc = "commit"
  <2>1. disk'[p][u] = temp[p]
    BY <1>2, RunLeaves
  <2> QED
    BY <1>1, <1>2, <2>1 DEF MoveHolds, Good, Working, Locking
<1>3. CASE pc # "commit"
  <2>1. disk[p][u].held = Seen(u)
    BY <1>1, <1>3, RunLeaves DEF Holds, Verifies, MoveHolds, DeleteHolds, Good, Locking
  <2>2. disk'[p][u] \in {disk[p][u], Rotten(disk[p][u]), Nothing}
    BY <1>3, RunLeaves DEF Torn
  <2>3. disk'[p][u].held \subseteq disk[p][u].held
    BY <2>2 DEF Rotten, Nothing, Copy
  <2> QED
    BY <1>1, <2>1, <2>3 DEF Working
<1> QED
  BY <1>2, <1>3

\* No run brings a deleted unit back.
LEMMA RunKeepsDeleted ==
    ASSUME FullInv, RunStep \/ RunFault, NEW u \in Units, row[u] = "deleted"
    PROVE  row'[u] = "deleted"
<1> USE DEF FullInv, LockTypeInv, TypeInv, TypeOK, SafeInv, PassInv
<1>1. ~(pc \in Working /\ u = cur)
  BY DEF CurInTodo, PassInOrder
<1> QED
  BY <1>1, RunLedger

LEMMA OnlyJudges ==
    ASSUME RunStep \/ RunFault PROVE UNCHANGED judged \/ RunJudge
  BY DEF RunStep, RunFault, RunBegin, RunReadBusy, RunDecide, RunFinish,
     RunSnapshot, SnapshotFail, RunStop, ActFail, Sweep, Act, SweepDefer, SweepRefuse,
     SweepPlace, SweepInterrupted, TrimLock, TrimRecord, TrimRemove, ActStay, ActHold,
     DeleteStart, MoveStart, MoveLock, MoveEnsureRow, MoveRecord, MoveDone, DeleteLock,
     DeleteRecord, MoveCopy, MoveRename, MoveRemove, DeleteRemove, Settle, Proceed,
     storeVars, ledgerVars

UnjudgedInv == UnjudgedInPlace /\ LoadedIsThere

LEMMA JobsUnjudged ==
    ASSUME FullInv, TypeInv', PlaceInv', TornIsOld', UnjudgedInv, Jobs
    PROVE  UnjudgedInv'
<1> USE FirstStageHasOnePath
    DEF FullInv, LockTypeInv, TypeInv, TypeOK, StoreTypeOK, UnjudgedInv
<1>1. UNCHANGED <<damages, judged, row, locs, pc, view>>
  BY JobsKeep DEF countVars, runVars, passVars
<1>2. \A u \in Units : Listed(u)' = Listed(u)
  BY <1>1 DEF Listed
<1>3. ASSUME NEW b \in Backups, damages = 0, judged[b] = "no", NEW u \in Units,
             unitOf'[b] = u, row[u] # "deleted", b \in disk'[First][u].held
      PROVE  First \in Listed(u) /\ disk'[First][u].sound
  <2>1. CASE phase'[b] \in Writing
    <3>1. Listed(unitOf[b])' = Listed(u)'
      BY <1>3 DEF Listed
    <3> QED
      BY <1>1, <1>2, <1>3, <2>1, <3>1 DEF PlaceInv, WritesInPlace, TornIsOld
  <2>2. CASE phase'[b] \notin Writing
    <3>1. b \in disk[First][u].held
      BY <1>3, <2>2, JobsHold
    <3>2. unitOf[b] = u
      <4>1. ASSUME unitOf[b] # u PROVE FALSE
        <5>1. PICK c \in Backups, v \in Units : EngineStart(c, v)
          BY <1>3, <4>1 DEF Jobs, JobNext, BackupBegin, EnginePublish, EngineFinish,
             RecordSuccess, EngineFail, BackupKilled, MarkFailed, ledgerVars
        <5>2. c = b
          BY <1>3, <4>1, <5>1 DEF EngineStart
        <5> QED
          BY <2>2, <5>1, <5>2 DEF EngineStart, Writing, JobTypeOK
      <4> QED
        BY <4>1
    <3>3. u # 0 /\ disk'[First][u].sound = disk[First][u].sound
      BY JobsKeep, UnitsAreNumbers
    <3> QED
      BY <1>3, <3>1, <3>2, <3>3 DEF UnjudgedInPlace
  <2> QED
    BY <2>1, <2>2
<1>4. UnjudgedInPlace'
  <2> SUFFICES ASSUME NEW b \in Backups, damages = 0, judged[b] = "no", unitOf'[b] # 0,
                      row[unitOf'[b]] # "deleted", b \in disk'[First][unitOf'[b]].held
               PROVE  First \in Listed(unitOf[b])' /\ disk'[First][unitOf'[b]].sound
    BY <1>1 DEF UnjudgedInPlace
  <2>1. PICK u \in Units : u = unitOf'[b]
    OBVIOUS
  <2>2. Listed(unitOf[b])' = Listed(u)
    BY <1>1, <2>1 DEF Listed
  <2> QED
    BY <1>3, <2>1, <2>2
<1>5. LoadedIsThere'
  <2> SUFFICES ASSUME NEW b \in Backups, damages = 0, pc = "judge", view[b] = "managed",
                      judged[b] = "no"
               PROVE  row[unitOf'[b]] # "deleted" /\ b \in disk'[First][unitOf'[b]].held
    BY <1>1 DEF LoadedIsThere
  <2>1. PICK u \in Units : u = unitOf[b] /\ u = unitOf'[b]
    BY JobsKeep DEF SafeInv, PassInv, ChargeIsSeen, JobsInStep
  <2>2. row[u] # "deleted" /\ b \in disk[First][u].held
    <3>1. row[unitOf[b]] # "deleted" /\ b \in disk[First][unitOf[b]].held
      BY DEF LoadedIsThere
    <3> QED
      BY <2>1, <3>1
  <2>3. disk[First][u].held \subseteq disk'[First][u].held
    BY JobsKeep
  <2> QED
    BY <2>1, <2>2, <2>3
<1> QED
  BY <1>4, <1>5

LEMMA RunUnjudged ==
    ASSUME FullInv, UnjudgedInv, RunStep \/ RunFault, UNCHANGED damages
    PROVE  UnjudgedInv'
<1> USE FirstStageHasOnePath
    DEF FullInv, LockTypeInv, TypeInv, TypeOK, StoreTypeOK, SafeInv, PassInv, UnjudgedInv
<1>1. UNCHANGED unitOf
  BY UnitsStay
<1>2. \A b \in Backups : judged'[b] = "no" => judged[b] = "no"
  <2>1. CASE RunJudge
    BY <2>1 DEF RunJudge
  <2>2. CASE ~RunJudge
    <3>1. UNCHANGED judged
      BY <2>2, OnlyJudges
    <3> QED
      BY <3>1
  <2> QED
    BY <2>1, <2>2
<1>3. ASSUME NEW b \in Backups, judged[b] = "no", pc \in Working
      PROVE  b \notin Seen(cur)
  BY <1>3 DEF ChargeIsSeen, Seen, Working, Locking
<1>4. ASSUME NEW b \in Backups, damages = 0, judged[b] = "no", NEW u \in Units,
             unitOf[b] = u, row'[u] # "deleted", b \in disk'[First][u].held
      PROVE  First \in Listed(u)' /\ disk'[First][u].sound
  <2>1. disk'[First][u] = disk[First][u]
    BY <1>3, <1>4, RunTakesSeen
  <2>2. row[u] # "deleted"
    BY <1>4, RunKeepsDeleted
  <2>3. First \in Listed(u) /\ disk[First][u].sound
    BY <1>4, <2>1, <2>2, UnitsAreNumbers DEF UnjudgedInPlace
  <2>4. CASE Listed(u)' # Listed(u)
    <3>1. u = cur /\ (TrimRecord \/ MoveRecord \/ DeleteRecord)
      BY <2>4, ListingChanges
    <3>2. CASE TrimRecord
      <4>1. /\ pc = "trim" /\ work = {} /\ row' = row
            /\ locs'[u] = locs[u] \ Leftovers(u, goal) /\ row[u] # "none"
        BY <3>1, <3>2 DEF TrimRecord, WorkInv, TrimHolds
      <4>2. First \notin Leftovers(u, goal)
        BY <1>4, <2>1, <3>1, <4>1 DEF WorkInv, TrimHolds, Nothing
      <4> QED
        BY <2>1, <2>3, <4>1, <4>2 DEF Listed
    <3>3. CASE MoveRecord
      <4>1. pc = "commit" /\ Good(disk[First][cur])
        BY <2>3, <3>1, <3>3 DEF MoveRecord, WorkInv, MoveHolds
      <4> QED
        BY <1>3, <1>4, <2>1, <3>1, <4>1 DEF Good, Working, Locking
    <3>4. CASE DeleteRecord
      BY <1>4, <3>1, <3>4 DEF DeleteRecord
    <3> QED
      BY <3>1, <3>2, <3>3, <3>4
  <2> QED
    BY <2>1, <2>3, <2>4
<1>5. UnjudgedInPlace'
  <2> SUFFICES ASSUME NEW b \in Backups, damages = 0, judged'[b] = "no", unitOf[b] # 0,
                      row'[unitOf[b]] # "deleted", b \in disk'[First][unitOf[b]].held
               PROVE  First \in Listed(unitOf[b])' /\ disk'[First][unitOf[b]].sound
    BY <1>1 DEF UnjudgedInPlace
  <2>1. PICK u \in Units : u = unitOf[b]
    OBVIOUS
  <2>2. Listed(unitOf[b])' = Listed(u)'
    BY <1>1, <2>1 DEF Listed
  <2> QED
    BY <1>2, <1>4, <2>1, <2>2
<1>6. LoadedIsThere'
  <2> SUFFICES ASSUME NEW b \in Backups, pc' = "judge", view'[b] = "managed",
                      judged'[b] = "no"
               PROVE  row'[unitOf[b]] # "deleted" /\ b \in disk'[First][unitOf[b]].held
    BY <1>1 DEF LoadedIsThere
  <2>1. RunBegin
    BY DEF RunStep, RunFault, RunJudge, RunReadBusy, RunDecide, RunFinish,
       RunSnapshot, SnapshotFail, RunStop, ActFail, Sweep, Act, SweepDefer, SweepRefuse,
       SweepPlace, SweepInterrupted, TrimLock, TrimRecord, TrimRemove, ActStay, ActHold,
       DeleteStart, MoveStart, MoveLock, MoveEnsureRow, MoveRecord, MoveDone, DeleteLock,
       DeleteRecord, MoveCopy, MoveRename, MoveRemove, DeleteRemove, Settle, Proceed
  <2> QED
    BY <2>1 DEF RunBegin, Available, storeVars, ledgerVars
<1> QED
  BY <1>5, <1>6

LEMMA EnvironmentUnjudged ==
    ASSUME FullInv, UnjudgedInv, Environment PROVE UnjudgedInv'
<1> USE FirstStageHasOnePath
    DEF FullInv, LockTypeInv, TypeInv, TypeOK, StoreTypeOK, UnjudgedInv
<1>1. UNCHANGED <<unitOf, judged, pc, view>>
  BY EnvironmentKeeps DEF runVars, passVars
<1>2. ASSUME NEW b \in Backups, damages' = 0, judged[b] = "no", NEW u \in Units,
             unitOf[b] = u, row'[u] # "deleted", b \in disk'[First][u].held
      PROVE  First \in Listed(u)' /\ disk'[First][u].sound
  <2>1. damages = 0 /\ disk'[First][u] = disk[First][u]
    BY <1>2, NotDamaged DEF Nothing
  <2>2. row[u] # "deleted"
    BY <1>2, EnvironmentLedger
  <2>3. First \in Listed(u) /\ disk[First][u].sound
    BY <1>2, <2>1, <2>2, UnitsAreNumbers DEF UnjudgedInPlace
  <2>4. disk[First][u] # Nothing
    BY <1>2, <2>1 DEF Nothing
  <2> QED
    BY <1>2, <2>1, <2>3, <2>4, EnvironmentLedger DEF Listed
<1>3. UnjudgedInPlace'
  <2> SUFFICES ASSUME NEW b \in Backups, damages' = 0, judged[b] = "no", unitOf[b] # 0,
                      row'[unitOf[b]] # "deleted", b \in disk'[First][unitOf[b]].held
               PROVE  First \in Listed(unitOf[b])' /\ disk'[First][unitOf[b]].sound
    BY <1>1 DEF UnjudgedInPlace
  <2>1. PICK u \in Units : u = unitOf[b]
    OBVIOUS
  <2>2. Listed(unitOf[b])' = Listed(u)'
    BY <1>1, <2>1 DEF Listed
  <2> QED
    BY <1>2, <2>1, <2>2
<1>4. LoadedIsThere'
  <2> SUFFICES ASSUME NEW b \in Backups, damages' = 0, pc = "judge", view[b] = "managed",
                      judged[b] = "no"
               PROVE  row'[unitOf[b]] # "deleted" /\ b \in disk'[First][unitOf[b]].held
    BY <1>1 DEF LoadedIsThere
  <2>1. PICK u \in Units : u = unitOf[b]
    BY DEF SafeInv, PassInv, ChargeIsSeen, JobsInStep
  <2>2. damages = 0 /\ disk'[First][u] = disk[First][u]
    BY NotDamaged
  <2> QED
    BY <2>1, <2>2, EnvironmentKeeps DEF LoadedIsThere
<1> QED
  BY <1>3, <1>4

----------------------------------------------------------------------------
(* The newest backup of a job.                                                *)

\* While copies are not damaged, a run that takes what can be restored leaves
\* a newer backup of the same job.
LEMMA RunLeavesNewer ==
    ASSUME FullInv, NewestKept, RunStep \/ RunFault, damages = 0,
           NEW b \in Backups, Managed(b), Kept(b)
    PROVE  \E c \in Backups : /\ JobOf[c] = JobOf[b] /\ unitOf[b] <= unitOf[c]
                              /\ Managed(c) /\ Kept(c) /\ Kept(c)'
<1> USE DEF FullInv, LockTypeInv, TypeInv, SafeInv, PassInv
<1>1. PICK u \in Units : u = unitOf[b] /\ SeriesOf[u] = JobOf[b]
  BY UnitsAreNumbers DEF TypeOK, StoreTypeOK, Managed, JobsInStep
<1>2. CASE Kept(b)'
  BY <1>1, <1>2, UnitOrder
<1>3. CASE ~Kept(b)'
  <2>1. pc = "delete" /\ cur = u
    BY <1>1, <1>3, RunKeeps
  <2>2. PICK v \in placed : SeriesOf[v] = SeriesOf[u] /\ u < v
    BY <2>1 DEF Superseding, Working, Acting, Locking
  <2>3. v \in Units /\ u \in todo
    BY <2>1 DEF CurInTodo, TypeOK, RunTypeOK, Working, Locking
  <2>4. v \in todo
    BY <2>1, <2>2, <2>3, UnitsAreNumbers DEF PassInOrder, Acting
  <2>5. row[v] # "deleted"
    BY <2>4 DEF PassInOrder
  <2>6. PICK d \in Backups : Managed(d) /\ unitOf[d] = v
    BY <2>1, <2>2, VisitedInCharge DEF Charge
  <2>7. JobOf[d] = JobOf[b]
    BY <1>1, <2>2, <2>3, <2>6, UnitsAreNumbers DEF JobsInStep
  <2>8. PICK c \in Backups : /\ JobOf[c] = JobOf[d] /\ v <= unitOf[c]
                             /\ Managed(c) /\ Kept(c)
    BY <2>5, <2>6 DEF NewestKept
  <2>9. unitOf[c] \in Nat /\ v \in Nat /\ u \in Nat
    BY <2>3, UnitsAreNumbers DEF TypeOK, StoreTypeOK
  <2>10. u <= unitOf[c] /\ unitOf[c] # u
    BY <2>2, <2>8, <2>9
  <2>11. Kept(c)'
    BY <2>1, <2>8, <2>10, RunKeeps
  <2> QED
    BY <1>1, <2>7, <2>8, <2>10, <2>11
<1> QED
  BY <1>2, <1>3

\* Nobody else takes what can be restored, before any damage.
LEMMA OthersKeep ==
    ASSUME FullInv, TypeInv', Jobs \/ (Environment /\ damages' = 0)
    PROVE  \A b \in Backups :
              /\ Managed(b)' <=> Managed(b)
              /\ Managed(b) => /\ unitOf'[b] = unitOf[b]
                               /\ row[unitOf[b]] = "deleted" => row'[unitOf[b]] = "deleted"
                               /\ Kept(b) => Kept(b)'
<1>0. \A c \in Backups : status[c] = "success" => unitOf[c] \in Units /\ unitOf[c] # 0
  BY RecordedUnits DEF FullInv, LockTypeInv
<1> USE FirstStageHasOnePath
    DEF FullInv, LockTypeInv, TypeInv, TypeOK, StoreTypeOK, SafeInv, PassInv
<1> SUFFICES ASSUME NEW b \in Backups
             PROVE  /\ Managed(b)' <=> Managed(b)
                    /\ Managed(b) =>
                          /\ unitOf'[b] = unitOf[b]
                          /\ row[unitOf[b]] = "deleted" => row'[unitOf[b]] = "deleted"
                          /\ Kept(b) => Kept(b)'
  OBVIOUS
<1>1. CASE Jobs
  <2>1. UNCHANGED <<judged, row, locs>>
    BY <1>1, JobsKeep
  <2>2. Managed(b)' <=> Managed(b)
    BY <1>1, <2>1, JobsKeep DEF Managed, ChargeIsSeen
  <2>3. ASSUME Managed(b) PROVE unitOf'[b] = unitOf[b] /\ (Kept(b) => Kept(b)')
    <3>1. PICK u \in Units : u = unitOf[b] /\ u = unitOf'[b]
      BY <1>1, <2>3, JobsKeep, <1>0 DEF Managed
    <3>2. Listed(unitOf[b])' = Listed(u) /\ Listed(u) \subseteq Paths
      BY <2>1, <3>1 DEF Listed
    <3>3. \A p \in Paths : Intact(b, p) => Intact(b, p)'
      BY <1>1, <3>1, JobsKeep DEF Intact
    <3> QED
      BY <3>1, <3>2, <3>3 DEF Kept
  <2> QED
    BY <2>1, <2>2, <2>3
<1>2. CASE Environment /\ damages' = 0
  <2>1. UNCHANGED <<status, unitOf, judged>>
    BY <1>2, EnvironmentKeeps
  <2>2. ASSUME Managed(b)
        PROVE  /\ row[unitOf[b]] = "deleted" => row'[unitOf[b]] = "deleted"
               /\ Kept(b) => Kept(b)'
    <3>1. PICK u \in Units : u = unitOf[b]
      BY <2>2, <1>0 DEF Managed
    <3>2. row[u] = "deleted" => row'[u] = "deleted"
      BY <1>2, EnvironmentLedger
    <3>3. ASSUME NEW p \in Listed(u), Intact(b, p) PROVE p \in Listed(u)' /\ Intact(b, p)'
      <4>1. p \in Paths /\ disk[p][u] # Nothing
        BY <3>1, <3>3 DEF Listed, Intact, Nothing
      <4>2. disk'[p][u] = disk[p][u]
        BY <1>2, <3>3, <4>1, NotDamaged
      <4>3. p \in Listed(u)'
        BY <1>2, <3>3, <4>1, EnvironmentLedger DEF Listed
      <4> QED
        BY <2>1, <3>1, <3>3, <4>2, <4>3 DEF Intact
    <3>4. Listed(unitOf[b])' = Listed(u)'
      BY <2>1, <3>1 DEF Listed
    <3> QED
      BY <3>1, <3>2, <3>3, <3>4 DEF Kept
  <2> QED
    BY <2>1, <2>2 DEF Managed
<1> QED
  BY <1>1, <1>2

LEMMA NewestStays ==
    ASSUME FullInv, TypeInv', UnjudgedInv, NewestKept,
           \/ (RunStep \/ RunFault) /\ UNCHANGED damages
           \/ Jobs \/ Environment
    PROVE  NewestKept'
<1>0. \A c \in Backups : status[c] = "success" => unitOf[c] \in Units /\ unitOf[c] # 0
  BY RecordedUnits DEF FullInv, LockTypeInv
<1> USE FirstStageHasOnePath
    DEF FullInv, LockTypeInv, TypeInv, TypeOK, StoreTypeOK, SafeInv, PassInv
<1> SUFFICES ASSUME damages' = 0, NEW b \in Backups, Managed(b)', row'[unitOf'[b]] # "deleted"
             PROVE  \E c \in Backups : /\ JobOf[c] = JobOf[b] /\ unitOf'[b] <= unitOf'[c]
                                       /\ Managed(c)' /\ Kept(c)'
  BY DEF NewestKept
<1>1. CASE Jobs \/ Environment
  <2>1. damages = 0
    BY <1>1, JobsKeep, NotDamaged, FirstStageHasOnePath DEF countVars, Managed, JobsInStep
  <2>2. \A c \in Backups :
              /\ Managed(c)' <=> Managed(c)
              /\ Managed(c) => /\ unitOf'[c] = unitOf[c]
                               /\ row[unitOf[c]] = "deleted" => row'[unitOf[c]] = "deleted"
                               /\ Kept(c) => Kept(c)'
    BY <1>1, OthersKeep
  <2> QED
    BY <2>1, <2>2 DEF NewestKept
<1>2. CASE (RunStep \/ RunFault) /\ UNCHANGED damages
  <2>0. damages = 0 /\ UNCHANGED <<status, unitOf>>
    BY <1>2, UnitsStay
  <2>1. PICK u \in Units : u = unitOf[b] /\ status[b] = "success"
    BY <2>0, <1>0 DEF Managed
  <2>2. row[u] # "deleted"
    BY <1>2, <2>0, <2>1, RunKeepsDeleted
  <2>3. CASE RunJudge
    <3>1. UNCHANGED <<disk, row, locs>> /\ pc = "judge"
      BY <2>3 DEF RunJudge
    <3>2. \A c \in Backups : Kept(c)' <=> Kept(c)
      BY <2>0, <3>1 DEF Kept, Intact, Listed
    <3>3. \A c \in Backups : Managed(c) => Managed(c)'
      BY <2>3 DEF RunJudge, Managed
    <3>4. CASE Managed(b)
      BY <2>0, <2>1, <2>2, <3>2, <3>3, <3>4 DEF NewestKept
    <3>5. CASE ~Managed(b)
      <4>1. view[b] = "managed" /\ judged[b] = "no"
        BY <2>0, <2>3, <3>5 DEF RunJudge, Managed
      <4>2. b \in disk[First][u].held
        BY <2>0, <2>1, <3>1, <4>1 DEF UnjudgedInv, LoadedIsThere
      <4>3. First \in Listed(u) /\ disk[First][u].sound
        BY <2>0, <2>1, <2>2, <4>1, <4>2, UnitsAreNumbers DEF UnjudgedInv, UnjudgedInPlace
      <4>4. Kept(b)
        BY <2>1, <4>2, <4>3 DEF Kept, Intact
      <4> QED
        BY <2>0, <2>1, <3>2, <4>4, UnitOrder
    <3> QED
      BY <3>4, <3>5
  <2>4. CASE UNCHANGED judged
    <3>1. Managed(b) /\ \A c \in Backups : Managed(c) => Managed(c)'
      BY <2>0, <2>4 DEF Managed
    <3>2. PICK c \in Backups : /\ JobOf[c] = JobOf[b] /\ u <= unitOf[c]
                               /\ Managed(c) /\ Kept(c)
      BY <2>0, <2>1, <2>2, <3>1 DEF NewestKept
    <3>3. PICK d \in Backups : /\ JobOf[d] = JobOf[c] /\ unitOf[c] <= unitOf[d]
                               /\ Managed(d) /\ Kept(d)'
      BY <1>2, <2>0, <3>2, RunLeavesNewer
    <3>4. unitOf[c] \in Nat /\ unitOf[d] \in Nat /\ u \in Nat
      BY AttemptUnits, UnitsAreNumbers
    <3>5. u <= unitOf[d]
      BY <3>2, <3>3, <3>4
    <3> QED
      BY <2>0, <2>1, <3>1, <3>2, <3>3, <3>5
  <2>5. UNCHANGED judged \/ RunJudge
    BY <1>2, OnlyJudges
  <2> QED
    BY <2>3, <2>4, <2>5
<1> QED
  BY <1>1, <1>2

\* The invariant behind NewestKept.
KeepInv == PlaceInv /\ TornIsOld /\ UnjudgedInv /\ NewestKept

LEMMA KeepFromStart == Init => KeepInv
<1> SUFFICES ASSUME Init PROVE KeepInv
  OBVIOUS
<1> USE FirstStageHasOnePath, UnitsAreNumbers
    DEF Init, StoreInit, JobInit, RunInit
<1>1. PlaceInv
  <2>1. ArchivesAreOwn
    BY InitialUnits DEF ArchivesAreOwn
  <2>2. UnusedIsEmpty
    BY DEF UnusedIsEmpty, InitialBackups
  <2>3. WritesInPlace
    BY DEF WritesInPlace, Writing
  <2> QED
    BY <2>1, <2>2, <2>3 DEF PlaceInv
<1>2. \A u \in Units : disk[First][u].sound
  BY DEF Copy, Nothing
<1>3. TornIsOld
  BY <1>2 DEF TornIsOld, Writing
<1>4. UnjudgedInPlace
  BY <1>2, InitialUnits DEF UnjudgedInPlace, Listed
<1> QED
  BY <1>1, <1>3, <1>4 DEF KeepInv, UnjudgedInv, LoadedIsThere, NewestKept, Managed

LEMMA KeepStutters ==
    ASSUME KeepInv, UNCHANGED vars PROVE KeepInv'
<1> USE DEF vars, storeVars, ledgerVars, runVars, passVars, reportVars, countVars
<1>1. /\ \A u : Listed(u)' = Listed(u) /\ Newer(u)' = Newer(u)
      /\ \A b : Managed(b)' = Managed(b)
      /\ \A b : Kept(b)' = Kept(b)
  BY DEF Listed, Newer, Managed, Kept, Intact
<1>2. PlaceInv'
  BY <1>1 DEF KeepInv, PlaceInv, ArchivesAreOwn, UnusedIsEmpty, WritesInPlace
<1>3. TornIsOld'
  BY <1>1 DEF KeepInv, TornIsOld, InChain
<1>4. UnjudgedInv'
  BY <1>1 DEF KeepInv, UnjudgedInv, UnjudgedInPlace, LoadedIsThere
<1>5. NewestKept'
  BY <1>1 DEF KeepInv, NewestKept
<1> QED
  BY <1>2, <1>3, <1>4, <1>5 DEF KeepInv

LEMMA KeepStays ==
    ASSUME FullInv, TypeInv', KeepInv, [Next]_vars PROVE KeepInv'
<1>1. CASE UNCHANGED vars
  BY <1>1, KeepStutters
<1>2. CASE Jobs
  <2>1. PlaceInv' /\ TornIsOld'
    BY <1>2, JobsPlace, JobsTorn DEF KeepInv, FullInv, LockTypeInv, SafeInv
  <2>2. UnjudgedInv' /\ NewestKept'
    BY <1>2, <2>1, JobsUnjudged, NewestStays DEF KeepInv
  <2> QED
    BY <2>1, <2>2 DEF KeepInv
<1>3. CASE Run \/ Fault
  <2>1. (RunStep \/ RunFault) /\ UNCHANGED <<phase, damages>>
    BY <1>3 DEF Run, Fault, countVars
  <2>2. PlaceInv' /\ TornIsOld' /\ UnjudgedInv'
    BY <2>1, RunPlace, RunTorn, RunUnjudged DEF KeepInv
  <2>3. NewestKept'
    BY <2>1, NewestStays DEF KeepInv
  <2> QED
    BY <2>2, <2>3 DEF KeepInv
<1>4. CASE Environment
  BY <1>4, EnvironmentPlace, EnvironmentTorn, EnvironmentUnjudged, NewestStays DEF KeepInv
<1> QED
  BY <1>1, <1>2, <1>3, <1>4 DEF Next

LEMMA KeepInvHolds == Spec => []KeepInv
<1>1. FullInv /\ TypeInv' /\ KeepInv /\ [Next]_vars => KeepInv'
  BY KeepStays
<1> QED
  BY <1>1, KeepFromStart, FullInvHolds, TypeInvHolds, PTL DEF Spec

\* LastBackupIsKept: while copies are not damaged, no step of a run takes the
\* last restorable backup of a job.
THEOREM LastBackupIsKept == Spec => LastBackupStays
<1> DEFINE Stays == (Run \/ Fault) /\ damages = 0 =>
         \A s \in Series :
            (\E b \in Backups : JobOf[b] = s /\ Managed(b) /\ Kept(b))
            => (\E b \in Backups : JobOf[b] = s /\ Managed(b) /\ Kept(b))'
<1>1. FullInv /\ KeepInv /\ [Next]_vars => [Stays]_vars
  <2> SUFFICES ASSUME FullInv, KeepInv, Run \/ Fault, damages = 0, NEW s \in Series,
                      NEW b \in Backups, JobOf[b] = s, Managed(b), Kept(b)
               PROVE  \E c \in Backups : JobOf[c] = s /\ Managed(c)' /\ Kept(c)'
    OBVIOUS
  <2>1. RunStep \/ RunFault
    BY DEF Run, Fault
  <2>2. PICK c \in Backups : JobOf[c] = s /\ Managed(c) /\ Kept(c)'
    BY <2>1, RunLeavesNewer DEF KeepInv
  <2>3. Managed(c)'
    BY <2>1, <2>2, OnlyJudges, UnitsStay DEF Managed, RunJudge, FullInv, LockTypeInv, TypeInv,
       TypeOK, StoreTypeOK
  <2> QED
    BY <2>2, <2>3
<1> QED
  BY <1>1, FullInvHolds, KeepInvHolds, PTL DEF Spec, LastBackupStays

----------------------------------------------------------------------------
(* Copies without a listing.                                                  *)

\* What Tidy says of one place.
TidyAt(p, u) ==
    IF p \in Listed(u)
    THEN \/ Recorded(u) \subseteq disk[p][u].held
         \/ pc = "delete" /\ u = cur /\ p \notin work
    ELSE \/ disk[p][u] = Nothing
         \/ pc = "commit" /\ u = cur /\ p \in PathsOf(goal) \ work
         \/ pc = "clear" /\ u = cur /\ p \in work

TidyPlaces == \A p \in Paths, u \in Units : TidyAt(p, u)

\* A unit an engine writes into is listed in the first stage only.
LEMMA WrittenInFirst ==
    ASSUME FullInv, PlaceInv, DeletedUnlisted, StageComplete, edits = 0,
           NEW b \in Backups, phase[b] \in Writing, NEW u \in Units, u = unitOf[b]
    PROVE  Listed(u) = {First}
<1> USE FirstStageHasOnePath DEF FullInv, LockTypeInv, TypeInv, TypeOK, StoreTypeOK
<1>1. First \in Listed(u)
  BY DEF PlaceInv, WritesInPlace
<1>2. CASE row[u] = "managed"
  <2>1. PICK stage \in Stages : locs[u] = PathsOf(stage)
    BY <1>2 DEF StageComplete
  <2>2. stage = 0
    BY <1>1, <1>2, <2>1 DEF Listed, PathsOf
  <2> QED
    BY <1>2, <2>1, <2>2 DEF Listed, PathsOf
<1> QED
  BY <1>1, <1>2 DEF Listed, DeletedUnlisted

LEMMA JobsTidy ==
    ASSUME FullInv, TypeInv', PlaceInv, PlaceInv', DeletedUnlisted, StageComplete,
           edits = 0, TidyPlaces, Jobs
    PROVE  TidyPlaces'
<1> USE FirstStageHasOnePath DEF FullInv, LockTypeInv, TypeInv, TypeOK, StoreTypeOK
<1>1. UNCHANGED <<row, locs, pc, cur, work, goal>>
  BY JobsKeep DEF runVars
<1> SUFFICES ASSUME NEW p \in Paths, NEW u \in Units PROVE TidyAt(p, u)'
  BY DEF TidyPlaces
<1>2. Listed(u)' = Listed(u) /\ PathsOf(goal)' = PathsOf(goal)
  BY <1>1 DEF Listed, PathsOf
<1>3. CASE p \in Listed(u)
  <2>1. disk[p][u].held \subseteq disk'[p][u].held
    BY JobsKeep
  <2>2. ASSUME NEW b \in Recorded(u)', b \notin Recorded(u) PROVE b \in disk'[p][u].held
    <3>1. phase[b] = "stored" /\ unitOf[b] = u
      BY <2>2, JobsRecord, JobsKeep, UnitsAreNumbers DEF Recorded, JobsInStep
    <3>2. p = First
      BY <1>3, <3>1, WrittenInFirst DEF Writing, Recorded
    <3>3. b \in disk[First][u].held
      <4>1. PICK c \in Backups :
              \/ RecordSuccess(c)
              \/ status'[b] = status[b]
              \/ status'[b] # "success"
        BY DEF Jobs, JobNext, BackupBegin, EngineStart, EnginePublish, EngineFinish,
           EngineFail, BackupKilled, MarkFailed, ledgerVars, Recorded
      <4>2. status'[b] = "success" /\ status[b] # "success"
        BY <2>2, <3>1 DEF Recorded
      <4>3. RecordSuccess(c)
        BY <4>1, <4>2
      <4>4. c = b
        BY <4>2, <4>3 DEF RecordSuccess
      <4> QED
        BY <3>1, <4>3, <4>4 DEF RecordSuccess
    <3> QED
      BY <2>1, <3>2, <3>3
  <2> QED
    BY <1>1, <1>2, <1>3, <2>1, <2>2 DEF TidyPlaces, TidyAt
<1>4. CASE p \notin Listed(u)
  <2>1. disk'[p][u] = disk[p][u]
    <3>1. SUFFICES ASSUME disk'[p][u] # disk[p][u] PROVE FALSE
      OBVIOUS
    <3>2. p = First /\ \E b \in Backups : /\ unitOf'[b] = u
                                          /\ phase[b] \in Writing \/ phase'[b] \in Writing
      BY <3>1, JobsWrite
    <3>3. PICK b \in Backups : unitOf'[b] = u /\ (phase[b] \in Writing \/ phase'[b] \in Writing)
      BY <3>2
    <3>4. CASE phase[b] \in Writing
      <4>1. unitOf[b] = u
        BY <3>3, <3>4, JobsKeep DEF JobsInStep
      <4> QED
        BY <1>4, <3>2, <3>4, <4>1 DEF PlaceInv, WritesInPlace
    <3>5. CASE phase'[b] \in Writing
      <4>1. Listed(unitOf[b])' = Listed(u)'
        BY <3>3 DEF Listed
      <4> QED
        BY <1>2, <1>4, <3>2, <3>5, <4>1 DEF PlaceInv, WritesInPlace
    <3> QED
      BY <3>3, <3>4, <3>5
  <2> QED
    BY <1>1, <1>2, <1>4, <2>1 DEF TidyPlaces, TidyAt
<1> QED
  BY <1>3, <1>4

\* A run that completes nothing has no leftovers to look at.
LEMMA NothingLeftOver ==
    ASSUME FullInv, DeletedUnlisted, StageComplete, edits = 0, NEW u \in Units,
           NEW stage, InStage(u, stage)
    PROVE  Leftovers(u, stage) = {}
<1> USE FirstStageHasOnePath DEF FullInv, LockTypeInv, TypeInv, TypeOK, StoreTypeOK
<1>1. PICK i \in Stages : Listed(u) \subseteq PathsOf(i)
  <2>1. CASE row[u] = "none"
    BY <2>1 DEF Listed, PathsOf, Stages
  <2>2. CASE row[u] = "managed"
    BY <2>2 DEF Listed, StageComplete
  <2>3. CASE row[u] = "deleted"
    BY <2>3 DEF Listed, InStage, DeletedUnlisted
  <2> QED
    BY <2>1, <2>2, <2>3
<1>2. stage = i /\ i \in Nat
  BY <1>1 DEF InStage, PathsOf, Stages
<1> QED
  BY <1>1, <1>2 DEF Leftovers, PathsOf

\* The steps between taking the locks and releasing them.
LEMMA LockedSteps ==
    ASSUME RunStep
    PROVE  /\ pc = "commit" =>
                \/ \E p \in Paths : MoveRename(p)
                \/ MoveEnsureRow \/ MoveRecord
           /\ pc = "clear" => (\E p \in Paths : MoveRemove(p)) \/ MoveDone
           /\ pc = "delete" => (\E p \in Paths : DeleteRemove(p)) \/ DeleteRecord
<1>1. pc \in {"commit", "clear", "delete"} => Act
  BY DEF RunStep, RunBegin, RunJudge, RunReadBusy, RunDecide, RunFinish, RunSnapshot,
     Sweep, SweepDefer, SweepRefuse, SweepPlace, SweepInterrupted, TrimLock, TrimRecord,
     TrimRemove
<1>2. Act /\ pc \in {"commit", "clear", "delete"} =>
        \/ MoveEnsureRow \/ MoveRecord \/ MoveDone \/ DeleteRecord
        \/ \E p \in Paths : MoveRename(p) \/ MoveRemove(p) \/ DeleteRemove(p)
  BY DEF Act, ActStay, ActHold, DeleteStart, MoveStart, MoveLock, MoveCopy, DeleteLock
<1>3. pc = "commit" => ~MoveDone /\ ~DeleteRecord
                       /\ \A p \in Paths : ~MoveRemove(p) /\ ~DeleteRemove(p)
  BY DEF MoveDone, DeleteRecord, MoveRemove, DeleteRemove
<1>4. pc = "clear" => ~MoveEnsureRow /\ ~MoveRecord /\ ~DeleteRecord
                      /\ \A p \in Paths : ~MoveRename(p) /\ ~DeleteRemove(p)
  BY DEF MoveEnsureRow, MoveRecord, DeleteRecord, MoveRename, DeleteRemove
<1>5. pc = "delete" => ~MoveEnsureRow /\ ~MoveRecord /\ ~MoveDone
                       /\ \A p \in Paths : ~MoveRename(p) /\ ~MoveRemove(p)
  BY DEF MoveEnsureRow, MoveRecord, MoveDone, MoveRename, MoveRemove
<1> QED
  BY <1>1, <1>2, <1>3, <1>4, <1>5

LEMMA RunSkipsTrim ==
    ASSUME FullInv, DeletedUnlisted, StageComplete, edits = 0, RunStep,
           pc \notin {"keep", "trim"}
    PROVE  pc' \notin {"keep", "trim"}
<1>1. ASSUME NEW u \in Units, NEW stage \in Stages, SweepInterrupted(u, stage) PROVE FALSE
  BY <1>1, NothingLeftOver DEF SweepInterrupted
<1> QED
  BY <1>1 DEF RunStep, RunBegin, RunJudge, RunReadBusy, RunDecide, RunFinish, RunSnapshot,
     Sweep, Act, SweepDefer, SweepRefuse, SweepPlace, TrimLock, TrimRecord,
     TrimRemove, ActStay, ActHold, DeleteStart, MoveStart, MoveLock, MoveCopy, MoveRename,
     MoveEnsureRow, MoveRecord, MoveRemove, MoveDone, DeleteLock, DeleteRemove, DeleteRecord,
     Settle, Proceed

\* A move while its copies are given their names, and recorded.
LEMMA CommitTidy ==
    ASSUME FullInv, TidyPlaces, RunStep, pc = "commit" PROVE TidyPlaces'
<1> USE FirstStageHasOnePath
    DEF FullInv, LockTypeInv, TypeInv, TypeOK, StoreTypeOK, SafeInv, WorkInv
<1>1. cur \in Units /\ goal \in Nat
  BY DEF CurInTodo, RunTypeOK, Working, Locking
<1>2. unitOf' = unitOf /\ \A u : Recorded(u)' = Recorded(u)
  BY UnitsStay DEF Recorded
<1>3. \A p \in Paths : p \in PathsOf(goal) => p \notin Listed(cur)
  BY <1>1 DEF MoveHolds, PathsOf
<1>4. \A p \in work : disk[p][cur] = Nothing
  BY <1>1, <1>3 DEF TidyPlaces, TidyAt, MoveHolds, PathsOf
<1> SUFFICES ASSUME NEW p \in Paths, NEW u \in Units PROVE TidyAt(p, u)'
  BY DEF TidyPlaces
<1>5. TidyAt(p, u)
  BY DEF TidyPlaces
<1>6. ASSUME NEW q \in Paths, MoveRename(q) PROVE TidyAt(p, u)'
  <2>1. /\ q \in work /\ pc' = "commit" /\ cur' = cur /\ goal' = goal
        /\ work' = work \ {q} /\ Put(q, cur, temp[q]) /\ UNCHANGED <<row, locs>>
    BY <1>4, <1>6 DEF MoveRename, Exists, Proceed
  <2>2. Listed(u)' = Listed(u) /\ PathsOf(goal)' = PathsOf(goal)
    BY <2>1 DEF Listed, PathsOf
  <2>3. CASE p = q /\ u = cur
    BY <1>3, <2>1, <2>2, <2>3 DEF TidyAt, MoveHolds
  <2>4. CASE ~(p = q /\ u = cur)
    <3>1. disk'[p][u] = disk[p][u]
      BY <1>1, <2>1, <2>4, PutElsewhere
    <3> QED
      BY <1>2, <1>5, <2>1, <2>2, <3>1 DEF TidyAt
  <2> QED
    BY <2>3, <2>4
<1>7. CASE MoveEnsureRow
  <2>1. UNCHANGED <<disk, pc, cur, goal, work>> /\ Listed(u)' = Listed(u)
    <3>1. UNCHANGED <<disk, pc, cur, goal, work>> /\ EnsureRow(cur)
      BY <1>7 DEF MoveEnsureRow, Proceed
    <3> QED
      BY <1>1, <3>1, RowListing DEF SameListing, Listed
  <2>2. PathsOf(goal)' = PathsOf(goal)
    BY <2>1 DEF PathsOf
  <2> QED
    BY <1>2, <1>5, <2>1, <2>2 DEF TidyAt
<1>8. CASE MoveRecord
  <2>1. /\ work = {} /\ pc' = "clear" /\ cur' = cur /\ goal' = goal /\ work' = Listed(cur)
        /\ UNCHANGED <<disk, row>> /\ locs' = [locs EXCEPT ![cur] = PathsOf(goal)]
        /\ row[cur] # "none"
    BY <1>8 DEF MoveRecord, Proceed, Listed
  <2>2. CASE u = cur
    <3>1. Listed(u)' = PathsOf(goal)
      BY <1>1, <2>1, <2>2 DEF Listed
    <3>2. CASE p \in PathsOf(goal)
      <4>1. source \in Paths /\ source \in Listed(cur) /\ disk[source][cur].held = Seen(cur)
        BY DEF MoveHolds, Good, RunTypeOK
      <4>2. Recorded(cur) \subseteq Seen(cur)
        BY <1>1, <4>1 DEF TidyPlaces, TidyAt
      <4>3. disk[p][cur].held = Seen(cur)
        BY <2>1, <3>2 DEF MoveHolds, Good
      <4> QED
        BY <1>2, <2>1, <2>2, <3>1, <3>2, <4>2, <4>3 DEF TidyAt
    <3>3. CASE p \notin PathsOf(goal)
      BY <1>5, <2>1, <2>2, <3>1, <3>3 DEF TidyAt
    <3> QED
      BY <3>2, <3>3
  <2>3. CASE u # cur
    <3>1. Listed(u)' = Listed(u)
      BY <1>1, <2>1, <2>3 DEF Listed
    <3> QED
      BY <1>2, <1>5, <2>1, <2>3, <3>1 DEF TidyAt
  <2> QED
    BY <2>2, <2>3
<1> QED
  BY <1>6, <1>7, <1>8, LockedSteps

\* A move while its old copies are removed.
LEMMA ClearTidy ==
    ASSUME FullInv, TidyPlaces, RunStep, pc = "clear" PROVE TidyPlaces'
<1> USE FirstStageHasOnePath
    DEF FullInv, LockTypeInv, TypeInv, TypeOK, StoreTypeOK, SafeInv, WorkInv
<1>1. cur \in Units /\ goal \in Nat
  BY DEF CurInTodo, RunTypeOK, Working, Locking
<1>2. unitOf' = unitOf /\ \A u : Recorded(u)' = Recorded(u)
  BY UnitsStay DEF Recorded
<1>3. \A p \in work : p \in Paths /\ p \notin Listed(cur)
  BY <1>1 DEF MoveHolds, PathsOf, Listed, RunTypeOK
<1> SUFFICES ASSUME NEW p \in Paths, NEW u \in Units PROVE TidyAt(p, u)'
  BY DEF TidyPlaces
<1>4. TidyAt(p, u)
  BY DEF TidyPlaces
<1>5. ASSUME NEW q \in Paths, MoveRemove(q) PROVE TidyAt(p, u)'
  <2>1. /\ q \in work /\ pc' = "clear" /\ cur' = cur
        /\ work' = work \ {q} /\ Put(q, cur, Nothing) /\ UNCHANGED <<row, locs>>
    BY <1>5 DEF MoveRemove, Proceed
  <2>2. Listed(u)' = Listed(u)
    BY <2>1 DEF Listed
  <2>3. CASE p = q /\ u = cur
    <3>1. disk'[p][u] = Nothing
      BY <2>1, <2>3 DEF Put
    <3> QED
      BY <1>3, <2>1, <2>2, <2>3, <3>1 DEF TidyAt
  <2>4. CASE ~(p = q /\ u = cur)
    <3>1. disk'[p][u] = disk[p][u]
      BY <1>1, <2>1, <2>4, PutElsewhere
    <3> QED
      BY <1>2, <1>4, <2>1, <2>2, <2>4, <3>1 DEF TidyAt
  <2> QED
    BY <2>3, <2>4
<1>6. CASE MoveDone
  <2>1. work = {} /\ pc' = "act" /\ UNCHANGED <<disk, row, locs>>
    BY <1>6 DEF MoveDone
  <2>2. Listed(u)' = Listed(u)
    BY <2>1 DEF Listed
  <2> QED
    BY <1>2, <1>4, <2>1, <2>2 DEF TidyAt
<1> QED
  BY <1>5, <1>6, LockedSteps

\* A deletion.
LEMMA DeleteTidy ==
    ASSUME FullInv, TidyPlaces, RunStep, pc = "delete" PROVE TidyPlaces'
<1> USE FirstStageHasOnePath
    DEF FullInv, LockTypeInv, TypeInv, TypeOK, StoreTypeOK, SafeInv, WorkInv
<1>1. cur \in Units
  BY DEF CurInTodo, RunTypeOK, Working, Locking
<1>2. unitOf' = unitOf /\ \A u : Recorded(u)' = Recorded(u)
  BY UnitsStay DEF Recorded
<1> SUFFICES ASSUME NEW p \in Paths, NEW u \in Units PROVE TidyAt(p, u)'
  BY DEF TidyPlaces
<1>3. TidyAt(p, u)
  BY DEF TidyPlaces
<1>4. ASSUME NEW q \in Paths, DeleteRemove(q) PROVE TidyAt(p, u)'
  <2>1. /\ q \in work /\ pc' = "delete" /\ cur' = cur
        /\ work' = work \ {q} /\ Put(q, cur, Nothing) /\ UNCHANGED <<row, locs>>
    BY <1>4 DEF DeleteRemove, Proceed
  <2>2. Listed(u)' = Listed(u)
    BY <2>1 DEF Listed
  <2>3. CASE p = q /\ u = cur
    <3>1. disk'[p][u] = Nothing
      BY <2>1, <2>3 DEF Put
    <3> QED
      BY <2>1, <2>2, <2>3, <3>1 DEF TidyAt
  <2>4. CASE ~(p = q /\ u = cur)
    <3>1. disk'[p][u] = disk[p][u]
      BY <1>1, <2>1, <2>4, PutElsewhere
    <3> QED
      BY <1>2, <1>3, <2>1, <2>2, <2>4, <3>1 DEF TidyAt
  <2> QED
    BY <2>3, <2>4
<1>5. CASE DeleteRecord
  <2>1. /\ work = {} /\ pc' = "act" /\ UNCHANGED disk
        /\ row' = [row EXCEPT ![cur] = "deleted"] /\ locs' = [locs EXCEPT ![cur] = {}]
    BY <1>5 DEF DeleteRecord
  <2>2. CASE u = cur
    <3>1. Listed(u)' = {}
      BY <1>1, <2>1, <2>2 DEF Listed
    <3>2. disk[p][u] = Nothing
      BY <1>3, <2>1, <2>2 DEF TidyAt, DeleteHolds
    <3> QED
      BY <2>1, <3>1, <3>2 DEF TidyAt
  <2>3. CASE u # cur
    <3>1. Listed(u)' = Listed(u)
      BY <1>1, <2>1, <2>3 DEF Listed
    <3> QED
      BY <1>2, <1>3, <2>1, <2>3, <3>1 DEF TidyAt
  <2> QED
    BY <2>2, <2>3
<1> QED
  BY <1>4, <1>5, LockedSteps

LEMMA RunTidy ==
    ASSUME FullInv, TypeInv', TidyPlaces, RunStep, pc \notin {"keep", "trim"} PROVE TidyPlaces'
<1>1. CASE pc \notin {"commit", "clear", "delete"}
  <2> SUFFICES ASSUME NEW p \in Paths, NEW u \in Units PROVE TidyAt(p, u)'
    BY DEF TidyPlaces
  <2>1. disk'[p][u] = disk[p][u]
    BY <1>1, RunLeaves DEF FullInv, LockTypeInv, Locking
  <2>2. Listed(u)' = Listed(u)
    BY <1>1, ListingChanges DEF FullInv, LockTypeInv, TrimRecord, MoveRecord, DeleteRecord
  <2>3. Recorded(u)' = Recorded(u)
    BY UnitsStay DEF Recorded
  <2> QED
    BY <1>1, <2>1, <2>2, <2>3 DEF TidyPlaces, TidyAt
<1> QED
  BY <1>1, CommitTidy, ClearTidy, DeleteTidy

LEMMA EnvironmentTidy ==
    ASSUME TypeInv, TidyPlaces, Environment, damages' = 0, edits' = 0
    PROVE  damages = 0 /\ edits = 0 /\ TidyPlaces' /\ UNCHANGED pc
<1> USE FirstStageHasOnePath DEF TypeInv, TypeOK, StoreTypeOK
<1>1. ~Edit
  <2>1. edits + 1 # 0
    OBVIOUS
  <2> QED
    BY <2>1 DEF Edit
<1>2. \A p \in Paths, u \in Units : ~Damage(p, u)
  <2>1. damages + 1 # 0
    OBVIOUS
  <2> QED
    BY <2>1 DEF Damage
<1>3. /\ UNCHANGED <<disk, row, locs, status, unitOf, pc, cur, work, goal>>
      /\ UNCHANGED <<damages, edits>>
  BY <1>1, <1>2 DEF Environment, Remount, PrepareBegin, PrepareEnd, ledgerVars, runVars, countVars
<1>4. TidyPlaces'
  BY <1>3 DEF TidyPlaces, TidyAt, Listed, Recorded, PathsOf
<1> QED
  BY <1>3, <1>4

TidyInv ==
    faults = 0 /\ damages = 0 /\ edits = 0 => TidyPlaces /\ pc \notin {"keep", "trim"}

LEMMA TidyStays ==
    ASSUME FullInv, TypeInv', PlaceInv, PlaceInv', DeletedUnlisted, StageComplete,
           TidyInv, [Next]_vars
    PROVE  TidyInv'
<1> SUFFICES ASSUME faults' = 0, damages' = 0, edits' = 0
             PROVE  TidyPlaces' /\ pc' \notin {"keep", "trim"}
  BY DEF TidyInv
<1> USE DEF FullInv, LockTypeInv, TypeInv
<1>1. CASE UNCHANGED vars
  BY <1>1 DEF vars, storeVars, ledgerVars, runVars, countVars, TidyInv, TidyPlaces,
     TidyAt, Listed, Recorded, PathsOf
<1>2. CASE Jobs
  <2>1. UNCHANGED <<pc, faults, damages, edits>>
    BY <1>2, JobsKeep DEF runVars, countVars
  <2> QED
    BY <1>2, <2>1, JobsTidy DEF TidyInv
<1>3. CASE Run
  <2>1. RunStep /\ UNCHANGED <<faults, damages, edits>>
    BY <1>3 DEF Run, countVars
  <2> QED
    BY <2>1, RunTidy, RunSkipsTrim DEF TidyInv
<1>4. CASE Fault
  <2>1. faults \in Nat /\ faults' = faults + 1
    BY <1>4 DEF Fault, TypeOK
  <2> QED
    BY <2>1
<1>5. CASE Environment
  <2>1. UNCHANGED <<faults, pc>>
    BY <1>5, EnvironmentKeeps DEF Environment, Damage, Remount, PrepareBegin, PrepareEnd, Edit,
       countVars, runVars
  <2>2. damages = 0 /\ edits = 0
    <3>1. /\ damages \in Nat /\ edits \in Nat
          /\ damages' \in {damages, damages + 1} /\ edits' \in {edits, edits + 1}
      BY <1>5 DEF TypeOK, Environment, Damage, Remount, PrepareBegin, PrepareEnd, Edit,
         countVars
    <3> QED
      BY <3>1
  <2> QED
    BY <1>5, <2>1, <2>2, EnvironmentTidy DEF TidyInv
<1> QED
  BY <1>1, <1>2, <1>3, <1>4, <1>5 DEF Next

LEMMA TidyInvHolds == Spec => []TidyInv
<1>1. Init => TidyInv
  BY FirstStageHasOnePath
     DEF Init, StoreInit, RunInit, TidyInv, TidyPlaces, TidyAt, Listed, Recorded,
         InitialBackups, Copy
<1>2. FullInv /\ TypeInv' /\ PlaceInv /\ PlaceInv' /\ DeletedUnlisted /\ StageComplete
      /\ TidyInv /\ [Next]_vars => TidyInv'
  BY TidyStays
<1>3. KeepInv => PlaceInv
  BY DEF KeepInv
<1> QED
  BY <1>1, <1>2, <1>3, FullInvHolds, TypeInvHolds, KeepInvHolds, DeletedUnlistedHolds,
     UnitsAreComplete, PTL DEF Spec

\* InvHolds: the invariant the runs check, with all its parts, holds in every
\* state the rotation reaches.
THEOREM InvHolds == Spec => []Inv
<1>1. TidyInv /\ StageComplete => Tidy
  BY DEF TidyInv, TidyPlaces, TidyAt, Tidy
<1>2. RunInv /\ KeepInv /\ TidyInv /\ StageComplete => Inv
  BY <1>1 DEF Inv, CalmInv, KeepInv, PlaceInv, UnjudgedInv
<1> QED
  BY <1>2, RunInvHolds, KeepInvHolds, TidyInvHolds, UnitsAreComplete, PTL

\* NothingStrays: without faults, damage and hand edits, between runs the
\* copies on the disk are the listed ones, whatever was deferred or refused.
THEOREM NothingStrays == Spec => []NoStrays
<1>1. TidyInv /\ TypeOK => NoStrays
  <2> SUFFICES ASSUME TidyInv, TypeOK, pc = "idle", faults = 0, damages = 0, edits = 0,
                      NEW u \in Units, Recorded(u) # {}
               PROVE  {p \in Paths : disk[p][u] # Nothing} = Listed(u)
    BY DEF NoStrays
  <2>1. Listed(u) \subseteq Paths
    BY FirstStageHasOnePath DEF Listed, TypeOK, StoreTypeOK
  <2>2. \A p \in Paths : IF p \in Listed(u) THEN Recorded(u) \subseteq disk[p][u].held
                                             ELSE disk[p][u] = Nothing
    BY DEF TidyInv, TidyPlaces, TidyAt
  <2>3. \A p \in Paths : p \in Listed(u) => disk[p][u] # Nothing
    BY <2>2 DEF Nothing
  <2> QED
    BY <2>1, <2>2, <2>3
<1> QED
  BY <1>1, TidyInvHolds, TypeCorrect, PTL
=============================================================================
