----------------------------- MODULE HistoryLog -----------------------------
(* The records of one file job (history.py) and the archives they speak of    *)
(* (filebackup.py): attempts that publish under the lock of the destination   *)
(* and are identified and hashed after it, record_checksums over records from *)
(* before there were checksums, and restores of what is available.            *)
EXTENDS Integers, FiniteSets

CONSTANTS
    Attempts,  \* backup attempts; each is the artifact it writes, and its record
    Old,       \* those recorded by a release that wrote no checksums
    Names,     \* archive names
    Plain,     \* the one name without the timestamp setting
    Clerks,    \* history --create-checksum processes
    Restores,  \* restore processes
    None

ASSUME HistoryConstants ==
    /\ Old \subseteq Attempts /\ None \notin Attempts \cup Names
    /\ IsFiniteSet(Attempts) /\ Plain \in Names

VARIABLES
    stamped, \* the job's timestamp setting
    at,      \* the artifact under each name
    locked,  \* the attempt that holds the lock of the destination
    row,     \* backup_runs
    step,    \* where each attempt is
    name,    \* the name it publishes under
    found,   \* the identity it read back
    digest,  \* the artifact it hashed
    todo,    \* records each clerk has still to visit
    hand,    \* the record it has found available
    hashed,  \* the artifact it hashed
    pick,    \* the record each restore was asked for
    bytes    \* the artifact it extracts

attemptVars == <<locked, step, name, found, digest>>
clerkVars == <<todo, hand, hashed>>
restoreVars == <<pick, bytes>>
vars == <<stamped, at, row, attemptVars, clerkVars, restoreVars>>

Artifact == Attempts \cup {None}

Rows == [status : {"none", "running", "success", "failed"},
         path : Names \cup {None}, identity : Artifact, checksum : Artifact]

Row(status, path, identity, checksum) ==
    [status |-> status, path |-> path, identity |-> identity, checksum |-> checksum]

Before == {"idle", "begun", "staging"}

TypeOK ==
    /\ stamped \in BOOLEAN
    /\ at \in [Names -> Artifact] /\ locked \in Artifact
    /\ row \in [Attempts -> Rows]
    /\ step \in [Attempts -> Before \cup {"published", "closed", "identified",
                                         "hashed", "done", "dead"}]
    /\ name \in [Attempts -> Names \cup {None}]
    /\ found \in [Attempts -> Artifact] /\ digest \in [Attempts -> Artifact]
    /\ todo \in [Clerks -> SUBSET Attempts]
    /\ hand \in [Clerks -> Artifact] /\ hashed \in [Clerks -> Artifact]
    /\ pick \in [Restores -> Artifact] /\ bytes \in [Restores -> Artifact]

\* A job without timestamp has one archive name.
PathsOfJob == IF stamped THEN Names ELSE {Plain}

\* Old records, some of whose artifacts were replaced or removed since.
Init ==
    /\ stamped \in BOOLEAN
    /\ at \in [Names -> Old \cup {None}]
    /\ \E path \in [Old -> PathsOfJob] :
          /\ stamped => \A a, b \in Old : path[a] = path[b] => a = b
          /\ \A n \in Names : at[n] # None => path[at[n]] = n
          /\ row = [a \in Attempts |->
                      IF a \in Old THEN Row("success", path[a], a, None)
                      ELSE Row("none", None, None, None)]
    /\ step = [a \in Attempts |-> IF a \in Old THEN "done" ELSE "idle"]
    /\ name = [a \in Attempts |-> None]
    /\ found = [a \in Attempts |-> None] /\ digest = [a \in Attempts |-> None]
    /\ locked = None
    /\ todo = [c \in Clerks |-> {}]
    /\ hand = [c \in Clerks |-> None] /\ hashed = [c \in Clerks |-> None]
    /\ pick = [r \in Restores |-> None] /\ bytes = [r \in Restores |-> None]

\* BackupRecord.available: the identity (inode, size and time) of what lies
\* under the recorded name.
Available(a) ==
    /\ row[a].status = "success"
    /\ row[a].identity # None /\ at[row[a].path] = row[a].identity

----------------------------------------------------------------------------
(* History.run around FileBackup.backup.                                      *)

Step(a, from, to) == step[a] = from /\ step' = [step EXCEPT ![a] = to]

BackupBegin(a) ==
    /\ Step(a, "idle", "begun")
    /\ row' = [row EXCEPT ![a] = Row("running", None, None, None)]
    /\ UNCHANGED <<at, locked, name, found, digest, clerkVars, restoreVars>>

\* The name is stamped, then open_archive takes the lock.
OpenArchive(a, n) ==
    /\ locked = None /\ n \in PathsOfJob /\ Step(a, "begun", "staging")
    /\ locked' = a
    /\ name' = [name EXCEPT ![a] = n]
    /\ UNCHANGED <<at, row, found, digest, clerkVars, restoreVars>>

\* Mutant of CloseArchive: a stamped name that exists is replaced too.
ReplaceArchive(a) ==
    /\ Step(a, "staging", "published")
    /\ at' = [at EXCEPT ![name[a]] = a]
    /\ UNCHANGED <<row, locked, name, found, digest, clerkVars, restoreVars>>

\* close_archive: an archive with a stamped name is never replaced.
CloseArchive(a) ==
    /\ Step(a, "staging", "published")
    /\ stamped => at[name[a]] = None
    /\ at' = [at EXCEPT ![name[a]] = a]
    /\ UNCHANGED <<row, locked, name, found, digest, clerkVars, restoreVars>>

Unlock(a) ==
    /\ Step(a, "published", "closed")
    /\ locked' = None
    /\ UNCHANGED <<at, row, name, found, digest, clerkVars, restoreVars>>

\* artifact_identity, of what lies under the name by now.
Identify(a) ==
    /\ Step(a, "closed", "identified") /\ at[name[a]] # None
    /\ found' = [found EXCEPT ![a] = at[name[a]]]
    /\ UNCHANGED <<at, row, locked, name, digest, clerkVars, restoreVars>>

\* ledger.checksum
Hash(a) ==
    /\ Step(a, "identified", "hashed") /\ at[name[a]] # None
    /\ digest' = [digest EXCEPT ![a] = at[name[a]]]
    /\ UNCHANGED <<at, row, locked, name, found, clerkVars, restoreVars>>

\* Mutant of RecordSuccess: the identity is read again when the row is written.
RecordIdentified(a) ==
    /\ Step(a, "hashed", "done")
    /\ row' = [row EXCEPT ![a] = Row("success", name[a], at[name[a]], digest[a])]
    /\ UNCHANGED <<at, locked, name, found, digest, clerkVars, restoreVars>>

RecordSuccess(a) ==
    /\ Step(a, "hashed", "done")
    /\ row' = [row EXCEPT ![a] = Row("success", name[a], found[a], digest[a])]
    /\ UNCHANGED <<at, locked, name, found, digest, clerkVars, restoreVars>>

Active(a) == step[a] \notin {"idle", "done", "dead"}

Freed(a) == locked' = IF locked = a THEN None ELSE locked

\* Any exception: the staged archive goes, a published one stays.
BackupFail(a) ==
    /\ Active(a) /\ step' = [step EXCEPT ![a] = "done"]
    /\ row' = [row EXCEPT ![a] = Row("failed", None, None, None)]
    /\ Freed(a)
    /\ UNCHANGED <<at, name, found, digest, clerkVars, restoreVars>>

\* The row stays running; the kernel drops the lock.
BackupKilled(a) ==
    /\ Active(a) /\ step' = [step EXCEPT ![a] = "dead"]
    /\ Freed(a)
    /\ UNCHANGED <<at, row, name, found, digest, clerkVars, restoreVars>>

Backup(a) ==
    \/ BackupBegin(a) \/ \E n \in Names : OpenArchive(a, n)
    \/ CloseArchive(a) \/ Unlock(a)
    \/ Identify(a) \/ Hash(a) \/ RecordSuccess(a)
    \/ BackupFail(a) \/ BackupKilled(a)

----------------------------------------------------------------------------
(* History.record_checksums.                                                  *)

Unhashed == {a \in Attempts : row[a].status = "success" /\ row[a].checksum = None}

\* The rows are read once.
ClerkBegin(c) ==
    /\ todo[c] = {} /\ hand[c] = None /\ Unhashed # {}
    /\ todo' = [todo EXCEPT ![c] = Unhashed]
    /\ UNCHANGED <<at, row, attemptVars, hand, hashed, restoreVars>>

\* "skipped: unavailable", or on to the checksum.
ClerkCheck(c, a) ==
    /\ a \in todo[c] /\ hand[c] = None
    /\ todo' = [todo EXCEPT ![c] = @ \ {a}]
    /\ hand' = [hand EXCEPT ![c] = IF Available(a) THEN a ELSE None]
    /\ UNCHANGED <<at, row, attemptVars, hashed, restoreVars>>

ClerkHash(c) ==
    /\ hand[c] # None /\ hashed[c] = None
    /\ at[row[hand[c]].path] # None
    /\ hashed' = [hashed EXCEPT ![c] = at[row[hand[c]].path]]
    /\ UNCHANGED <<at, row, attemptVars, todo, hand, restoreVars>>

Completed(a, checksum) ==
    Row(row[a].status, row[a].path, row[a].identity, checksum)

\* Mutant of ClerkWrite: UPDATE without "checksum IS NULL".
ClerkOverwrite(c) ==
    /\ hashed[c] # None
    /\ row' = [row EXCEPT ![hand[c]] = Completed(hand[c], hashed[c])]
    /\ hand' = [hand EXCEPT ![c] = None] /\ hashed' = [hashed EXCEPT ![c] = None]
    /\ UNCHANGED <<at, attemptVars, todo, restoreVars>>

\* A checksum written meanwhile stays.
ClerkWrite(c) ==
    /\ hashed[c] # None
    /\ row' = IF row[hand[c]].checksum = None
              THEN [row EXCEPT ![hand[c]] = Completed(hand[c], hashed[c])]
              ELSE row
    /\ hand' = [hand EXCEPT ![c] = None] /\ hashed' = [hashed EXCEPT ![c] = None]
    /\ UNCHANGED <<at, attemptVars, todo, restoreVars>>

\* The archive went while it was hashed: skipped.  Or the process is killed.
ClerkStop(c) ==
    /\ hand[c] # None
    /\ hand' = [hand EXCEPT ![c] = None] /\ hashed' = [hashed EXCEPT ![c] = None]
    /\ todo' \in {todo, [todo EXCEPT ![c] = {}]}
    /\ UNCHANGED <<at, row, attemptVars, restoreVars>>

Clerk(c) ==
    \/ ClerkBegin(c) \/ \E a \in Attempts : ClerkCheck(c, a)
    \/ ClerkHash(c) \/ ClerkWrite(c) \/ ClerkStop(c)

----------------------------------------------------------------------------
(* recovery.restore_record of a record GFS does not manage, and the operator. *)

RestoreBegin(r, a) ==
    /\ pick[r] = None /\ Available(a)
    /\ pick' = [pick EXCEPT ![r] = a]
    /\ UNCHANGED <<at, row, attemptVars, clerkVars, bytes>>

\* The archive is opened; whoever replaces it does not change what is read.
RestoreRead(r) ==
    /\ pick[r] # None /\ bytes[r] = None /\ at[row[pick[r]].path] # None
    /\ bytes' = [bytes EXCEPT ![r] = at[row[pick[r]].path]]
    /\ UNCHANGED <<at, row, attemptVars, clerkVars, pick>>

\* Mutant of StillAvailable: nobody looks again.
Unchecked(r) == r \in Restores

\* restore_record hands _restore a second look at the record.
StillAvailable(r) == Available(pick[r])

Delivers(r) == bytes[r] # None /\ StillAvailable(r)

RestoreFinish(r) ==
    /\ Delivers(r)
    /\ pick' = [pick EXCEPT ![r] = None] /\ bytes' = [bytes EXCEPT ![r] = None]
    /\ UNCHANGED <<at, row, attemptVars, clerkVars>>

\* Any exception, and "Backup changed during restoration".
RestoreFail(r) ==
    /\ pick[r] # None
    /\ pick' = [pick EXCEPT ![r] = None] /\ bytes' = [bytes EXCEPT ![r] = None]
    /\ UNCHANGED <<at, row, attemptVars, clerkVars>>

Recovery(r) ==
    \/ \E a \in Attempts : RestoreBegin(r, a)
    \/ RestoreRead(r) \/ RestoreFinish(r) \/ RestoreFail(r)

\* The operator, or a run, removes an archive no backup is at work on.
Remove(n) ==
    /\ at[n] # None
    /\ \A a \in Attempts : Active(a) => name[a] # n
    /\ at' = [at EXCEPT ![n] = None]
    /\ UNCHANGED <<row, attemptVars, clerkVars, restoreVars>>

Next ==
    /\ \/ \E a \in Attempts : Backup(a)
       \/ \E c \in Clerks : Clerk(c)
       \/ \E r \in Restores : Recovery(r)
       \/ \E n \in Names : Remove(n)
    /\ UNCHANGED stamped

Spec == Init /\ [][Next]_vars

----------------------------------------------------------------------------
(* Properties.                                                                *)

\* ChecksumMatches: the checksum of an available record is that of the artifact
\* that is available, though identity and checksum are read one after the other
\* with no lock held, by the attempt or long after by a clerk (History.run,
\* record_checksums).
ChecksumMatches ==
    \A a \in Attempts :
        Available(a) => row[a].checksum \in {None, at[row[a].path]}

\* ChecksumKept: a checksum already recorded is never changed, even if one is
\* written meanwhile (record_checksums).
ChecksumKept ==
    [][\A a \in Attempts :
          row[a].checksum # None => row'[a].checksum = row[a].checksum]_vars

\* DeliversRecorded: what a restore delivers is the artifact its record
\* identifies, and hashes to the record's checksum, whoever published, removed
\* or recorded meanwhile (restore_record, _restore).
DeliversRecorded ==
    \A r \in Restores :
        Delivers(r) => /\ bytes[r] = row[pick[r]].identity
                       /\ row[pick[r]].checksum \in {None, bytes[r]}

\* AvailableIsOwn: with stamped names an available record is the archive its own
\* attempt wrote (close_archive under the lock, artifact_identity after it).
AvailableIsOwn ==
    stamped => \A a \in Attempts : Available(a) => row[a].identity = a
=============================================================================
