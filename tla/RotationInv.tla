----------------------------- MODULE RotationInv -----------------------------
(* The inductive invariant behind the safety properties of Rotation.  Each    *)
(* conjunct is named for what it rules out.                                   *)
EXTENDS Rotation

Writing == {"writing", "published", "stored"}

\* A newer directory of the series is there for the engine to continue.
Newer(u) ==
    \E w \in Units : SeriesOf[w] = SeriesOf[u] /\ u < w /\ disk[First][w].sealed

Based(u) ==
    \E w \in Units : SeriesOf[w] = SeriesOf[u] /\ u <= w /\ disk[First][w].sealed

InChain(u) == SeriesOf[u] \in Chained

\* JobsInStep: the row of an attempt follows its process.
JobsInStep ==
    \A b \in Backups :
        /\ unitOf[b] # 0 => SeriesOf[unitOf[b]] = JobOf[b]
        /\ phase[b] \in {"idle", "begun"} => unitOf[b] = 0
        /\ phase[b] \in Writing => unitOf[b] # 0
        /\ phase[b] \in Writing \cup {"begun"} => status[b] = "running"
        /\ status[b] = "success" => phase[b] = "done" /\ unitOf[b] # 0

\* CurInTodo: a run works on one unit of the pass it is in, or on none.
CurInTodo == IF pc \in Working THEN cur \in todo ELSE cur = 0

\* RowsHaveRecords: GFS records only units with a successful backup.
RowsHaveRecords == \A u \in Units : row[u] # "none" => Recorded(u) # {}

\* DeletedUnlisted: nothing is listed for a deleted unit.
DeletedUnlisted == \A u \in Units : row[u] = "deleted" => locs[u] = {}

\* SealedIsUsed: only a backup seals a directory.
SealedIsUsed ==
    \A w \in Units : InChain(w) /\ disk[First][w].sealed =>
        \E b \in Backups : unitOf[b] = w

\* StoredHasBase: BaseStays holds already for a backup not recorded yet.
StoredHasBase ==
    \A b \in Backups :
        phase[b] = "stored" /\ JobOf[b] \in Chained => Based(unitOf[b])

\* AwayIsOld: a unit that left the first stage, or has a copy beyond it, is
\* not the one the engine would continue.
Away(u) ==
    \/ row[u] # "none" /\ First \notin locs[u]
    \/ \E p \in Paths \ {First} : disk[p][u] # Nothing \/ p \in locs[u]

AwayIsOld == \A u \in Units : InChain(u) /\ Away(u) => Newer(u)

\* The steps of a run after policy.decide.
Acting == {"act", "copy", "condemn", "commit", "clear", "delete"}

\* ViewIsRecorded: what a run loaded stays recorded, and it visits only that.
ViewIsRecorded ==
    /\ \A b \in Backups :
          view[b] = "managed" => status[b] = "success"
    /\ \A u \in todo \cup placed : Seen(u) # {}
    /\ pc \in Working => Seen(cur) # {}
    /\ \A u \in placed : SeriesOf[u] \notin busy
    /\ pc \in Working => SeriesOf[cur] \notin busy
    /\ pc \in {"idle", "judge", "busy", "snapshot"} => placed = {}
    /\ pc \in {"idle", "snapshot"} => todo = {}
    /\ pc \in Acting => todo \subseteq placed

\* ChargeIsSeen: only recorded backups are judged; what a run loaded is in
\* GFS's charge once judged; and in a unit it visits it loaded all that is.
ChargeIsSeen ==
    \A b \in Backups :
        /\ view[b] # "no" \/ judged[b] # "no" => status[b] = "success"
        /\ view[b] = "managed" =>
              judged[b] = "managed" \/ (pc = "judge" /\ judged[b] = "no")
        /\ Managed(b) /\ unitOf[b] \in todo \cup placed => view[b] = "managed"

\* PassInOrder: a pass visits its units in order, each one in some stage and
\* none of them deleted before.
Ahead == IF pc \in Acting THEN todo ELSE placed

PassInOrder ==
    /\ \A u \in todo \cup Ahead : row[u] # "deleted"
    /\ \A u \in Ahead : \E i \in Stages : InStage(u, i)
    /\ pc \in Acting => \A u \in placed \ todo, v \in todo : u < v
    /\ pc \in Working => \A v \in todo : cur <= v

\* Superseding: what policy.decide moves or deletes is not the newest.
Superseding ==
    pc \in Working \cap Acting =>
        \E v \in placed : SeriesOf[v] = SeriesOf[cur] /\ cur < v

\* LateJobsElsewhere: a backup begun after the run read the running rows
\* writes at or after every loaded unit, and after every unit that was moved.
LateJobsElsewhere ==
    pc \notin {"idle", "judge", "busy", "snapshot"} =>
        \A b \in Backups : phase[b] \in Writing /\ JobOf[b] \notin busy =>
            \A v \in Units :
                SeriesOf[v] = JobOf[b] /\ Seen(v) # {} =>
                    IF JobOf[b] \in Chained
                    THEN /\ v <= unitOf[b]
                         /\ (\E p \in locs[v] : p # First) => v < unitOf[b]
                    ELSE v # unitOf[b]

\* CurIsOld: the unit being worked on is not the one the engine would continue.
CurIsOld == pc \in Working /\ InChain(cur) => Newer(cur)

\* A verified copy, once its directory holds nothing else.
Good(copy) == copy.held = Seen(cur) /\ copy.tmp = {} /\ copy.sound

\* TrimHolds: leftovers go only while every later copy is good.
TrimHolds ==
    /\ pc \in {"keep", "trim"} =>
          /\ InStage(cur, goal) /\ row[cur] # "none"
          /\ \A p \in Listed(cur) : StageOf[p] = goal => Good(disk[p][cur])
    /\ pc = "trim" =>
          /\ work \subseteq Leftovers(cur, goal)
          /\ \A p \in Leftovers(cur, goal) \ work : disk[p][cur] = Nothing

\* MoveHolds: nothing is removed before every new copy is good and listed.
MoveHolds ==
    /\ pc \in {"copy", "commit"} =>
          /\ source \in Listed(cur)
          /\ PathsOf(goal) # {} /\ work \subseteq PathsOf(goal)
          /\ \A p \in Listed(cur) : StageOf[p] < goal
          /\ \A p \in Listed(cur) \ {source} : Good(disk[p][cur])
          /\ PathsOf(goal) \subseteq mounted
          /\ pc = "commit" \/ work # PathsOf(goal) => Good(disk[source][cur])
    /\ pc = "copy" => \A p \in PathsOf(goal) \ work : Good(temp[p])
    /\ pc = "commit" =>
          /\ \A p \in work : Good(temp[p])
          /\ \A p \in PathsOf(goal) \ work : Good(disk[p][cur])
    /\ pc = "clear" =>
          /\ row[cur] # "none" /\ locs[cur] = PathsOf(goal) /\ PathsOf(goal) # {}
          /\ \A p \in PathsOf(goal) : Good(disk[p][cur])
          /\ \A p \in work : StageOf[p] < goal /\ disk[p][cur].held = Seen(cur)

\* DeleteHolds: what a delete removes was verified, and is all that is listed.
DeleteHolds ==
    /\ pc = "condemn" => \A p \in Listed(cur) : Good(disk[p][cur])
    /\ pc = "delete" =>
          /\ row[cur] # "none"
          /\ \A p \in work : Good(disk[p][cur])
          /\ work \subseteq Listed(cur)
          /\ \A p \in Listed(cur) \ work : disk[p][cur] = Nothing

\* ReportHolds: ReportIsTrue already while the run is on its way, but for the
\* unit whose move is recorded and not yet reported.
ReportHolds ==
    /\ pc # "idle" =>
          \A u \in Units :
              /\ outcome[u] # "failed" /\ where[u] # Unreported
              /\ ~(pc = "clear" /\ u = cur)
              => IF where[u] = Gone THEN row[u] = "deleted" ELSE InStage(u, where[u])
    /\ \A u \in todo \cup Ahead : where[u] # Gone /\ outcome[u] # "failed"

\* LocksHeld: removing and renaming happen under the lock of every root.
LocksHeld ==
    pc \in Locking /\ InChain(cur) => \A p \in work : lock[p][SeriesOf[cur]] = Gfs

RunInv ==
    /\ TypeOK /\ JobsInStep /\ CurInTodo /\ RowsHaveRecords /\ DeletedUnlisted
    /\ SealedIsUsed /\ BaseStays /\ StoredHasBase /\ AwayIsOld
    /\ ViewIsRecorded /\ LateJobsElsewhere /\ CurIsOld /\ EngineLeftAlone
    /\ ChargeIsSeen /\ PassInOrder /\ Superseding
    /\ TrimHolds /\ MoveHolds /\ DeleteHolds /\ ReportHolds /\ LocksHeld

----------------------------------------------------------------------------
(* What holds besides while nothing outside the code has gone wrong.          *)

\* ArchivesAreOwn: an archive is the work of one attempt.
ArchivesAreOwn ==
    \A b, c \in Backups :
        b # c /\ unitOf[b] # 0 /\ unitOf[b] = unitOf[c] => JobOf[b] \in Chained

\* UnusedIsEmpty: only attempts put something at a unit's place.
UnusedIsEmpty ==
    \A p \in Paths, u \in Units :
        disk[p][u] # Nothing => \E b \in Backups : unitOf[b] = u

\* WritesInPlace: what an engine writes into is listed where it writes.
WritesInPlace ==
    \A b \in Backups : phase[b] \in Writing =>
        /\ First \in Listed(unitOf[b])
        /\ IF JobOf[b] \in Chained
           THEN b \in disk[First][unitOf[b]].held \cup disk[First][unitOf[b]].tmp
           ELSE row[unitOf[b]] = "none"

\* TornIsOld: the remains of a removal are not what an engine continues.
TornIsOld == damages = 0 =>
    /\ \A u \in Units : InChain(u) /\ ~disk[First][u].sound => Newer(u)
    /\ \A b \in Backups : phase[b] \in Writing => disk[First][unitOf[b]].sound

\* UnjudgedInPlace: what a run may still judge managed is listed and sound.
UnjudgedInPlace == damages = 0 =>
    \A b \in Backups :
        /\ judged[b] = "no" /\ unitOf[b] # 0 /\ row[unitOf[b]] # "deleted"
        /\ b \in disk[First][unitOf[b]].held
        => First \in Listed(unitOf[b]) /\ disk[First][unitOf[b]].sound

\* LoadedIsThere: what a run is about to judge managed is still available.
LoadedIsThere == damages = 0 /\ pc = "judge" =>
    \A b \in Backups : view[b] = "managed" /\ judged[b] = "no" =>
        row[unitOf[b]] # "deleted" /\ b \in disk[First][unitOf[b]].held

\* NewestKept: of everything in GFS's charge and not deleted, the backup or a
\* newer one of its job can be restored.
NewestKept == damages = 0 =>
    \A b \in Backups : Managed(b) /\ row[unitOf[b]] # "deleted" =>
        \E c \in Backups : /\ JobOf[c] = JobOf[b] /\ unitOf[b] <= unitOf[c]
                           /\ Managed(c) /\ Kept(c)

\* Tidy: copies are where they are listed, but for those of the unit in hand
\* that a move has renamed and not recorded, or not yet removed, and those
\* that a deletion has removed and not recorded.
Tidy == faults = 0 /\ damages = 0 /\ edits = 0 =>
    /\ StageComplete /\ pc \notin {"keep", "trim"}
    /\ \A p \in Paths, u \in Units :
          IF p \in Listed(u)
          THEN \/ Recorded(u) \subseteq disk[p][u].held
               \/ pc = "delete" /\ u = cur /\ p \notin work
          ELSE \/ disk[p][u] = Nothing
               \/ pc = "commit" /\ u = cur /\ p \in PathsOf(goal) \ work
               \/ pc = "clear" /\ u = cur /\ p \in work

CalmInv ==
    /\ ArchivesAreOwn /\ UnusedIsEmpty /\ WritesInPlace
    /\ TornIsOld /\ UnjudgedInPlace /\ LoadedIsThere /\ NewestKept /\ Tidy

Inv == RunInv /\ CalmInv
=============================================================================
