---------------------------- MODULE ManagedRestore ----------------------------
(* One restore of a recorded backup (recovery.restore_record, store.places)   *)
(* while runs, backups and disks go on as in Rotation.  It reads the ledger    *)
(* table by table, with no transaction around the reads, tries the places it   *)
(* found one after the other, and uses the first one that verifies.           *)
EXTENDS Rotation

CONSTANTS
    Wanted,  \* the backup to restore
    Sources  \* what it takes: the full, the incrementals between, and itself

ASSUME WantedIsABackup == Wanted \in Backups /\ Prepared = {}
ASSUME SourcesOfOneJob ==
    /\ Wanted \in Sources /\ Sources \subseteq {b \in Backups : JobOf[b] = JobOf[Wanted]}
    /\ JobOf[Wanted] \notin Chained => Sources = {Wanted}
    /\ InitialUnit[Wanted] # 0 =>
          \A b \in Sources : InitialUnit[b] = InitialUnit[Wanted]

VARIABLES
    reading,  \* where the restore is
    read,     \* the locations it read
    found,    \* the unit's row it read
    members,  \* the recorded members of the unit it read
    place,    \* the stage path it is at
    bytes,    \* what it verified or copied there
    quiet     \* nobody else has touched the unit since it began

restoreVars == <<reading, read, found, members, place, bytes, quiet>>
allVars == <<vars, restoreVars>>

U == unitOf[Wanted]
IsChain == JobOf[Wanted] \in Chained

Ended == {"done", "deleted", "busy", "failed", "stopped"}

RestoreInit ==
    /\ Init
    /\ reading = "idle" /\ read = {} /\ found = "none" /\ members = {}
    /\ place = First /\ bytes = Nothing /\ quiet = TRUE

\* The restore goes on; the world stands still.
Goes(from, to) ==
    /\ reading = from /\ reading' = to
    /\ UNCHANGED <<disk, mounted, ledgerVars, phase, runVars, countVars, quiet>>

----------------------------------------------------------------------------
(* store.places: the tables in the order it reads them.                       *)

ReadLocations ==
    /\ status[Wanted] = "success" /\ Goes("idle", "units")
    /\ read' = locs[U]
    /\ UNCHANGED <<lock, found, members, place, bytes>>

ReadUnits ==
    /\ Goes("units", "members")
    /\ found' = row[U]
    /\ UNCHANGED <<lock, read, members, place, bytes>>

\* A record GFS does not manage is restored from where its engine wrote it:
\* HistoryLog.
IsManaged == found # "none" /\ judged[Wanted] = "managed"

\* The managed records of the unit.
Members == {b \in Backups : Managed(b) /\ unitOf[b] = U}

\* Mutant of ReadMembers: only the record itself is looked up.
ReadItself ==
    /\ IsManaged /\ members' = {Wanted}
    /\ IF found = "deleted" \/ read = {} THEN Goes("members", "deleted")
       ELSE Goes("members", "try")
    /\ UNCHANGED <<lock, read, found, place, bytes>>

\* Only successful records are judged, for good: the records, read again by
\* restore_record, add nothing to the judgments.
ReadMembers ==
    /\ IsManaged /\ members' = Members
    /\ IF found = "deleted" \/ read = {} THEN Goes("members", "deleted")
       ELSE Goes("members", "try")
    /\ UNCHANGED <<lock, read, found, place, bytes>>

\* Another time, perhaps.
ReadUnmanaged ==
    /\ ~IsManaged /\ Goes("members", "idle")
    /\ read' = {} /\ found' = "none"
    /\ UNCHANGED <<lock, members, place, bytes>>

----------------------------------------------------------------------------
(* restore_record and _restore, place by place.                               *)

\* store.place_available
PlaceAvailable(p) == p \in mounted /\ Wanted \in disk[p][U].held

\* All it takes lies there as it was written.
Whole(p) == disk[p][U].sound /\ Sources \subseteq disk[p][U].held

\* _verify: every source is a recorded member, and has the recorded bytes.
Verified(p) == Sources \subseteq members /\ Whole(p)

Skip(p) ==
    /\ p \in read /\ ~PlaceAvailable(p) /\ Goes("try", "try")
    /\ read' = read \ {p}
    /\ UNCHANGED <<lock, found, members, place, bytes>>

\* Mutant of PrepareLock: the copy is verified and read without the lock.
PrepareUnlocked(p) ==
    /\ IsChain /\ p \in read /\ PlaceAvailable(p) /\ Goes("try", "locked")
    /\ place' = p /\ read' = read \ {p}
    /\ UNCHANGED <<lock, found, members, bytes>>

\* XtraBackup.prepare asks for the lock of the root; a busy one ends it.
PrepareLock(p) ==
    /\ IsChain /\ p \in read /\ PlaceAvailable(p)
    /\ IF lock[p][SeriesOf[U]] = Free
       THEN /\ Goes("try", "locked")
            /\ lock' = Locked({p}, SeriesOf[U], Recovery)
       ELSE Goes("try", "busy") /\ UNCHANGED lock
    /\ place' = p /\ read' = read \ {p}
    /\ UNCHANGED <<found, members, bytes>>

\* The sources are verified under the lock.
PrepareVerify ==
    /\ IsChain /\ Verified(place) /\ Goes("locked", "verified")
    /\ bytes' = disk[place][U]
    /\ UNCHANGED <<lock, read, found, members, place>>

\* A source that is no recorded member, or whose checksum differs, sends it to
\* the next place; damaged checkpoints or metadata end it before any is looked at.
PrepareRefused ==
    /\ IsChain /\ ~Verified(place)
    /\ \/ Goes("locked", "try")
       \/ Goes("locked", "failed") /\ ~Whole(place)
    /\ lock' = Unlocked(Recovery)
    /\ UNCHANGED <<read, found, members, place, bytes>>

\* The sources are copied, and the lock is released.
PrepareDone ==
    /\ IsChain /\ Goes("verified", "done")
    /\ bytes' = disk[place][U]
    /\ lock' = Unlocked(Recovery)
    /\ UNCHANGED <<read, found, members, place>>

\* An archive is verified, and opened again to be extracted, under no lock.
VerifyArchive(p) ==
    /\ ~IsChain /\ p \in read /\ PlaceAvailable(p)
    /\ IF Verified(p) THEN Goes("try", "verified") ELSE Goes("try", "try")
    /\ place' = p /\ read' = read \ {p}
    /\ UNCHANGED <<lock, found, members, bytes>>

Extract ==
    /\ ~IsChain
    /\ Goes("verified", IF Exists(place, U) THEN "extracted" ELSE "failed")
    /\ bytes' = disk[place][U]
    /\ UNCHANGED <<lock, read, found, members, place>>

\* Mutant of StillAvailable: nobody looks again.
NotAskedAgain == place \in Paths

\* place_available once more: what is left of a copy that verified has another
\* identity.
StillAvailable == PlaceAvailable(place) /\ Whole(place)

ExtractDone ==
    /\ Goes("extracted", IF StillAvailable THEN "done" ELSE "failed")
    /\ UNCHANGED <<lock, read, found, members, place, bytes>>

\* "No location of this backup verifies"
NoPlaceLeft ==
    /\ read = {} /\ Goes("try", "failed")
    /\ UNCHANGED <<lock, read, found, members, place, bytes>>

\* Killed, or a tool or a disk that fails: the destination is discarded.
RestoreStop ==
    /\ reading \notin Ended \cup {"idle"} /\ Goes(reading, "stopped")
    /\ lock' = Unlocked(Recovery)
    /\ UNCHANGED <<read, found, members, place, bytes>>

Restore ==
    \/ ReadLocations \/ ReadUnits \/ ReadMembers \/ ReadUnmanaged
    \/ \E p \in Paths : Skip(p) \/ PrepareLock(p) \/ VerifyArchive(p)
    \/ PrepareVerify \/ PrepareRefused \/ PrepareDone
    \/ Extract \/ ExtractDone \/ NoPlaceLeft \/ RestoreStop

----------------------------------------------------------------------------

\* What belongs to the unit.
Unit == <<[p \in Paths |-> disk[p][U]], locs[U], row[U], Members, mounted>>

\* A full begins a directory or adds to the newest; an incremental continues
\* the chain of the latest full, and takes all of it.
ContinuesChain(u) ==
    IF Sources = {Wanted} THEN \A v \in Used(JobOf[Wanted]) : v <= u
    ELSE LatestFull(JobOf[Wanted], u) /\ Sources \ {Wanted} \subseteq disk[First][u].held

\* Everyone else.  A copy that rots, or that the operator removes, after it was
\* hashed is beyond the code.
Others ==
    /\ Next
    /\ unitOf'[Wanted] # unitOf[Wanted] /\ IsChain => ContinuesChain(unitOf'[Wanted])
    /\ reading \in {"verified", "extracted"} => damages' = damages /\ edits' = edits
    /\ quiet' = (reading = "idle" \/ (quiet /\ Unit' = Unit))
    /\ UNCHANGED <<reading, read, found, members, place, bytes>>

RestoreNext == Restore \/ Others

RestoreSpec == RestoreInit /\ [][RestoreNext]_allVars

----------------------------------------------------------------------------
(* Properties.                                                                *)

\* DeliversRecorded: a restore of a managed backup that finishes delivered the
\* recorded bytes of all it takes, and nothing GFS has no record of, whatever a
\* run moved, removed or tore in between (restore_record, _verify under the
\* lock, still_available after the fact).
DeliversRecorded ==
    reading = "done" =>
        Sources \subseteq Members \cap bytes.held /\ bytes.sound

Usable(p) == p \in mounted /\ Whole(p)

\* GivesUpForAReason: when nobody touched the unit meanwhile, a restore finds no
\* place that verifies only where a source is no managed record or no listed
\* copy would do, or, for a chain, some listed copy is damaged or away
\* (restore_record, "the first location that verifies is used").
GivesUpForAReason ==
    reading = "failed" /\ quiet =>
        \/ ~(Sources \subseteq Members)
        \/ IF IsChain THEN \E p \in Listed(U) : ~Usable(p)
           ELSE \A p \in Listed(U) : ~Usable(p)

\* store.places: "A deleted unit's members map to ()".
OnlyDeletedRefused == reading = "deleted" => row[U] = "deleted"
=============================================================================
