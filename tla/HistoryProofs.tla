---------------------------- MODULE HistoryProofs ----------------------------
(* An artifact is published once, so one that was replaced never comes back:  *)
(* whatever was read of a name while it held an artifact agrees with whatever *)
(* is read of it while it holds it again.                                     *)
EXTENDS HistoryLog, TLAPS

\* x has been published, or never will be.
Settled(x) == x # None => step[x] \notin Before

SettledInv ==
    /\ \A n \in Names : Settled(at[n])
    /\ \A a \in Attempts : Settled(row[a].identity) /\ Settled(found[a])

\* What each process relies on of the record it is at work on.
RowInv ==
    /\ \A a \in Attempts :
          /\ row[a].status = "success" => step[a] = "done" /\ row[a].path \in Names
          /\ row[a].status # "success" => row[a].checksum = None
          /\ step[a] \in {"identified", "hashed"} => found[a] # None
          /\ step[a] \notin Before \cup {"done", "dead"} => name[a] \in Names
          /\ step[a] = "staging" => name[a] \in Names
          /\ step[a] = "hashed" => digest[a] # None
    /\ \A c \in Clerks : todo[c] \subseteq {a \in Attempts : row[a].status = "success"}
    /\ \A c \in Clerks : /\ hand[c] # None => row[hand[c]].status = "success"
                         /\ hashed[c] # None => hand[c] # None
    /\ \A r \in Restores : /\ pick[r] # None => row[pick[r]].status = "success"
                           /\ bytes[r] # None => pick[r] # None

\* While the artifact a record identifies lies there, so does what was hashed
\* or opened for it.
MatchInv ==
    /\ \A a \in Attempts :
          /\ row[a].status = "success" /\ row[a].checksum # None
             /\ row[a].identity # None /\ at[row[a].path] = row[a].identity
             => row[a].checksum = row[a].identity
          /\ step[a] = "hashed" /\ at[name[a]] = found[a] => digest[a] = found[a]
    /\ \A c \in Clerks :
          hand[c] # None /\ hashed[c] # None
          /\ row[hand[c]].identity # None
          /\ at[row[hand[c]].path] = row[hand[c]].identity
          => hashed[c] = row[hand[c]].identity
    /\ \A r \in Restores :
          pick[r] # None /\ bytes[r] # None
          /\ row[pick[r]].identity # None
          /\ at[row[pick[r]].path] = row[pick[r]].identity
          => bytes[r] = row[pick[r]].identity

HistoryInv == TypeOK /\ SettledInv /\ RowInv /\ MatchInv

\* Attempts.
LEMMA BackupStep ==
  ASSUME HistoryInv, UNCHANGED stamped, NEW a \in Attempts, Backup(a) PROVE HistoryInv'
<1> USE HistoryConstants DEF HistoryInv, TypeOK, Artifact, Rows, Before
<1>1. CASE BackupBegin(a)
  <2>1. TypeOK'
    BY <1>1 DEF RowInv, BackupBegin, Row, Step, clerkVars, restoreVars
  <2>2. SettledInv'
    BY <1>1 DEF SettledInv, Settled, RowInv, BackupBegin, Row, Step,
                clerkVars, restoreVars
  <2>3. RowInv'
    BY <1>1 DEF RowInv, BackupBegin, Row, Step, clerkVars, restoreVars
  <2>4. MatchInv'
    BY <1>1 DEF SettledInv, Settled, RowInv, MatchInv, BackupBegin, Row, Step,
                clerkVars, restoreVars
  <2> QED
    BY <2>1, <2>2, <2>3, <2>4
<1>2. CASE \E n \in Names : OpenArchive(a, n)
  <2>1. TypeOK'
    BY <1>2 DEF RowInv, OpenArchive, Step, clerkVars, restoreVars
  <2>2. SettledInv'
    BY <1>2 DEF SettledInv, Settled, RowInv, OpenArchive, Step, clerkVars,
                restoreVars
  <2>3. RowInv'
    BY <1>2 DEF RowInv, OpenArchive, Step, clerkVars, restoreVars
  <2>4. MatchInv'
    BY <1>2 DEF SettledInv, Settled, RowInv, MatchInv, OpenArchive, Step,
                clerkVars, restoreVars
  <2> QED
    BY <2>1, <2>2, <2>3, <2>4
<1>3. CASE CloseArchive(a)
  <2>1. TypeOK'
    BY <1>3 DEF RowInv, CloseArchive, Step, clerkVars, restoreVars
  <2>2. SettledInv'
    BY <1>3 DEF SettledInv, Settled, RowInv, CloseArchive, Step, clerkVars,
                restoreVars
  <2>3. RowInv'
    BY <1>3 DEF RowInv, CloseArchive, Step, clerkVars, restoreVars
  <2>4. MatchInv'
    BY <1>3 DEF SettledInv, Settled, RowInv, MatchInv, CloseArchive, Step,
                clerkVars, restoreVars
  <2> QED
    BY <2>1, <2>2, <2>3, <2>4
<1>4. CASE Unlock(a)
  <2>1. TypeOK'
    BY <1>4 DEF RowInv, Unlock, Step, clerkVars, restoreVars
  <2>2. SettledInv'
    BY <1>4 DEF SettledInv, Settled, RowInv, Unlock, Step, clerkVars,
                restoreVars
  <2>3. RowInv'
    BY <1>4 DEF RowInv, Unlock, Step, clerkVars, restoreVars
  <2>4. MatchInv'
    BY <1>4 DEF SettledInv, Settled, RowInv, MatchInv, Unlock, Step,
                clerkVars, restoreVars
  <2> QED
    BY <2>1, <2>2, <2>3, <2>4
<1>5. CASE Identify(a)
  <2>1. TypeOK'
    BY <1>5 DEF RowInv, Identify, Step, clerkVars, restoreVars
  <2>2. SettledInv'
    BY <1>5 DEF SettledInv, Settled, RowInv, Identify, Step, clerkVars,
                restoreVars
  <2>3. RowInv'
    BY <1>5 DEF RowInv, Identify, Step, clerkVars, restoreVars
  <2>4. MatchInv'
    BY <1>5 DEF SettledInv, Settled, RowInv, MatchInv, Identify, Step,
                clerkVars, restoreVars
  <2> QED
    BY <2>1, <2>2, <2>3, <2>4
<1>6. CASE Hash(a)
  <2>1. TypeOK'
    BY <1>6 DEF RowInv, Hash, Step, clerkVars, restoreVars
  <2>2. SettledInv'
    BY <1>6 DEF SettledInv, Settled, RowInv, Hash, Step, clerkVars, restoreVars
  <2>3. RowInv'
    BY <1>6 DEF RowInv, Hash, Step, clerkVars, restoreVars
  <2>4. MatchInv'
    BY <1>6 DEF SettledInv, Settled, RowInv, MatchInv, Hash, Step, clerkVars,
                restoreVars
  <2> QED
    BY <2>1, <2>2, <2>3, <2>4
<1>7. CASE RecordSuccess(a)
  <2>1. TypeOK'
    BY <1>7 DEF RowInv, RecordSuccess, Row, Step, clerkVars, restoreVars
  <2>2. SettledInv'
    BY <1>7 DEF SettledInv, Settled, RowInv, RecordSuccess, Row, Step,
                clerkVars, restoreVars
  <2>3. RowInv'
    BY <1>7 DEF RowInv, RecordSuccess, Row, Step, clerkVars, restoreVars
  <2>4. MatchInv'
    BY <1>7 DEF SettledInv, Settled, RowInv, MatchInv, RecordSuccess, Row,
                Step, clerkVars, restoreVars
  <2> QED
    BY <2>1, <2>2, <2>3, <2>4
<1>8. CASE BackupFail(a)
  <2>1. TypeOK'
    BY <1>8 DEF RowInv, BackupFail, Active, Freed, Row, clerkVars, restoreVars
  <2>2. SettledInv'
    BY <1>8 DEF SettledInv, Settled, RowInv, BackupFail, Active, Freed, Row,
                clerkVars, restoreVars
  <2>3. RowInv'
    BY <1>8 DEF RowInv, BackupFail, Active, Freed, Row, clerkVars, restoreVars
  <2>4. MatchInv'
    BY <1>8 DEF SettledInv, Settled, RowInv, MatchInv, BackupFail, Active,
                Freed, Row, clerkVars, restoreVars
  <2> QED
    BY <2>1, <2>2, <2>3, <2>4
<1>9. CASE BackupKilled(a)
  <2>1. TypeOK'
    BY <1>9 DEF RowInv, BackupKilled, Active, Freed, clerkVars, restoreVars
  <2>2. SettledInv'
    BY <1>9 DEF SettledInv, Settled, RowInv, BackupKilled, Active, Freed,
                clerkVars, restoreVars
  <2>3. RowInv'
    BY <1>9 DEF RowInv, BackupKilled, Active, Freed, clerkVars, restoreVars
  <2>4. MatchInv'
    BY <1>9 DEF SettledInv, Settled, RowInv, MatchInv, BackupKilled, Active,
                Freed, clerkVars, restoreVars
  <2> QED
    BY <2>1, <2>2, <2>3, <2>4
<1> QED
  BY <1>1, <1>2, <1>3, <1>4, <1>5, <1>6, <1>7, <1>8, <1>9 DEF Backup

\* Clerks.
LEMMA ClerkStep ==
  ASSUME HistoryInv, UNCHANGED stamped, NEW c \in Clerks, Clerk(c) PROVE HistoryInv'
<1> USE HistoryConstants DEF HistoryInv, TypeOK, Artifact, Rows, Before
<1>1. CASE ClerkBegin(c)
  <2>1. TypeOK'
    BY <1>1 DEF RowInv, ClerkBegin, Unhashed, attemptVars, restoreVars
  <2>2. SettledInv'
    BY <1>1 DEF SettledInv, Settled, RowInv, ClerkBegin, Unhashed,
                attemptVars, restoreVars
  <2>3. RowInv'
    BY <1>1 DEF RowInv, ClerkBegin, Unhashed, attemptVars, restoreVars
  <2>4. MatchInv'
    BY <1>1 DEF SettledInv, Settled, RowInv, MatchInv, ClerkBegin, Unhashed,
                attemptVars, restoreVars
  <2> QED
    BY <2>1, <2>2, <2>3, <2>4
<1>2. CASE \E a \in Attempts : ClerkCheck(c, a)
  <2>1. TypeOK'
    BY <1>2 DEF RowInv, ClerkCheck, Available, attemptVars, restoreVars
  <2>2. SettledInv'
    BY <1>2 DEF SettledInv, Settled, RowInv, ClerkCheck, Available,
                attemptVars, restoreVars
  <2>3. RowInv'
    BY <1>2 DEF RowInv, ClerkCheck, Available, attemptVars, restoreVars
  <2>4. MatchInv'
    BY <1>2 DEF SettledInv, Settled, RowInv, MatchInv, ClerkCheck, Available,
                attemptVars, restoreVars
  <2> QED
    BY <2>1, <2>2, <2>3, <2>4
<1>3. CASE ClerkHash(c)
  <2>1. TypeOK'
    BY <1>3 DEF RowInv, ClerkHash, attemptVars, restoreVars
  <2>2. SettledInv'
    BY <1>3 DEF SettledInv, Settled, RowInv, ClerkHash, attemptVars, restoreVars
  <2>3. RowInv'
    BY <1>3 DEF RowInv, ClerkHash, attemptVars, restoreVars
  <2>4. MatchInv'
    BY <1>3 DEF SettledInv, Settled, RowInv, MatchInv, ClerkHash, attemptVars,
                restoreVars
  <2> QED
    BY <2>1, <2>2, <2>3, <2>4
<1>4. CASE ClerkWrite(c)
  <2>1. TypeOK'
    BY <1>4 DEF RowInv, ClerkWrite, Completed, Row, attemptVars, restoreVars
  <2>2. SettledInv'
    BY <1>4 DEF SettledInv, Settled, RowInv, ClerkWrite, Completed, Row,
                attemptVars, restoreVars
  <2>3. RowInv'
    BY <1>4 DEF RowInv, ClerkWrite, Completed, Row, attemptVars, restoreVars
  <2>4. MatchInv'
    BY <1>4 DEF SettledInv, Settled, RowInv, MatchInv, ClerkWrite, Completed,
                Row, attemptVars, restoreVars
  <2> QED
    BY <2>1, <2>2, <2>3, <2>4
<1>5. CASE ClerkStop(c)
  <2>1. TypeOK'
    BY <1>5 DEF RowInv, ClerkStop, attemptVars, restoreVars
  <2>2. SettledInv'
    BY <1>5 DEF SettledInv, Settled, RowInv, ClerkStop, attemptVars, restoreVars
  <2>3. RowInv'
    BY <1>5 DEF RowInv, ClerkStop, attemptVars, restoreVars
  <2>4. MatchInv'
    BY <1>5 DEF SettledInv, Settled, RowInv, MatchInv, ClerkStop, attemptVars,
                restoreVars
  <2> QED
    BY <2>1, <2>2, <2>3, <2>4
<1> QED
  BY <1>1, <1>2, <1>3, <1>4, <1>5 DEF Clerk

\* Restores.
LEMMA RecoveryStep ==
  ASSUME HistoryInv, UNCHANGED stamped, NEW r \in Restores, Recovery(r) PROVE HistoryInv'
<1> USE HistoryConstants DEF HistoryInv, TypeOK, Artifact, Rows, Before
<1>1. CASE \E a \in Attempts : RestoreBegin(r, a)
  <2>1. TypeOK'
    BY <1>1 DEF RowInv, RestoreBegin, Available, attemptVars, clerkVars
  <2>2. SettledInv'
    BY <1>1 DEF SettledInv, Settled, RowInv, RestoreBegin, Available,
                attemptVars, clerkVars
  <2>3. RowInv'
    BY <1>1 DEF RowInv, RestoreBegin, Available, attemptVars, clerkVars
  <2>4. MatchInv'
    BY <1>1 DEF SettledInv, Settled, RowInv, MatchInv, RestoreBegin,
                Available, attemptVars, clerkVars
  <2> QED
    BY <2>1, <2>2, <2>3, <2>4
<1>2. CASE RestoreRead(r)
  <2>1. TypeOK'
    BY <1>2 DEF RowInv, RestoreRead, attemptVars, clerkVars
  <2>2. SettledInv'
    BY <1>2 DEF SettledInv, Settled, RowInv, RestoreRead, attemptVars, clerkVars
  <2>3. RowInv'
    BY <1>2 DEF RowInv, RestoreRead, attemptVars, clerkVars
  <2>4. MatchInv'
    BY <1>2 DEF SettledInv, Settled, RowInv, MatchInv, RestoreRead,
                attemptVars, clerkVars
  <2> QED
    BY <2>1, <2>2, <2>3, <2>4
<1>3. CASE RestoreFinish(r) \/ RestoreFail(r)
  <2>1. TypeOK'
    BY <1>3 DEF RowInv, RestoreFinish, RestoreFail, attemptVars, clerkVars
  <2>2. SettledInv'
    BY <1>3 DEF SettledInv, Settled, RowInv, RestoreFinish, RestoreFail,
                attemptVars, clerkVars
  <2>3. RowInv'
    BY <1>3 DEF RowInv, RestoreFinish, RestoreFail, attemptVars, clerkVars
  <2>4. MatchInv'
    <3>1. /\ pick' = [pick EXCEPT ![r] = None] /\ bytes' = [bytes EXCEPT ![r] = None]
          /\ UNCHANGED <<at, row, step, name, found, digest, hand, hashed>>
      BY <1>3 DEF RestoreFinish, RestoreFail, attemptVars, clerkVars
    <3> QED
      BY <3>1 DEF RowInv, MatchInv
  <2> QED
    BY <2>1, <2>2, <2>3, <2>4
<1> QED
  BY <1>1, <1>2, <1>3 DEF Recovery

\* HistoryInv is inductive.
LEMMA HistoryInvHolds == Spec => []HistoryInv
<1> USE HistoryConstants DEF HistoryInv, TypeOK, Artifact, Rows, Before
<1>1. Init => HistoryInv
  BY DEF Init, PathsOfJob, Row, SettledInv, Settled, RowInv, MatchInv
<1>2. HistoryInv /\ [Next]_vars => HistoryInv'
  <2> SUFFICES ASSUME HistoryInv, [Next]_vars PROVE HistoryInv'
    OBVIOUS
  <2>1. ASSUME NEW n \in Names, Remove(n), UNCHANGED stamped PROVE HistoryInv'
    BY <2>1 DEF Remove, SettledInv, Settled, RowInv, MatchInv,
                attemptVars, clerkVars, restoreVars
  <2>2. CASE UNCHANGED vars
    BY <2>2 DEF vars, SettledInv, Settled, RowInv, MatchInv,
                attemptVars, clerkVars, restoreVars
  <2> QED
    BY <2>1, <2>2, BackupStep, ClerkStep, RecoveryStep DEF Next
<1> QED
  BY <1>1, <1>2, PTL DEF Spec

\* TypeOK, for any number of attempts, clerks, restores and names.
THEOREM HistoryTypeCorrect == Spec => []TypeOK
<1> QED
  BY HistoryInvHolds, PTL DEF HistoryInv

\* ChecksumMatches: no lock spans artifact_identity and checksum, and none is
\* needed.
THEOREM ChecksumsMatch == Spec => []ChecksumMatches
<1>1. HistoryInv => ChecksumMatches
  BY DEF HistoryInv, MatchInv, ChecksumMatches, Available
<1> QED
  BY <1>1, HistoryInvHolds, PTL

\* DeliversRecorded: looking twice is enough to know what was read between.
THEOREM RestoresDeliverRecorded == Spec => []DeliversRecorded
<1>1. HistoryInv => DeliversRecorded
  BY HistoryConstants
     DEF HistoryInv, TypeOK, Artifact, RowInv, MatchInv, DeliversRecorded,
         Delivers, StillAvailable, Available
<1> QED
  BY <1>1, HistoryInvHolds, PTL

\* ChecksumKept: the clause of the UPDATE, and an attempt writes its row once.
THEOREM ChecksumsKept == Spec => ChecksumKept
<1> DEFINE Same == \A a \in Attempts :
              row[a].checksum # None => row'[a].checksum = row[a].checksum
<1>1. ASSUME HistoryInv, [Next]_vars PROVE Same
  <2> USE HistoryConstants, <1>1 DEF HistoryInv, TypeOK, Artifact, Rows, Before
  <2>1. ASSUME NEW a \in Attempts, Backup(a) PROVE Same
    <3>1. CASE BackupBegin(a) \/ RecordSuccess(a) \/ BackupFail(a)
      BY <3>1 DEF BackupBegin, RecordSuccess, BackupFail, Active, Step, Row,
                  RowInv
    <3>2. CASE UNCHANGED row
      BY <3>2
    <3> QED
      BY <2>1, <3>1, <3>2
         DEF Backup, OpenArchive, CloseArchive, Unlock, Identify, Hash,
             BackupKilled
  <2>2. ASSUME NEW c \in Clerks, Clerk(c) PROVE Same
    BY <2>2 DEF Clerk, ClerkBegin, ClerkCheck, ClerkHash, ClerkWrite, ClerkStop,
                Completed, Row, RowInv
  <2>3. ASSUME \/ \E r \in Restores : Recovery(r)
               \/ \E n \in Names : Remove(n)
               \/ UNCHANGED vars
        PROVE  Same
    BY <2>3 DEF Recovery, RestoreBegin, RestoreRead, RestoreFinish, RestoreFail,
                Remove, vars
  <2> QED
    BY <2>1, <2>2, <2>3 DEF Next
<1>2. HistoryInv /\ [Next]_vars
        => [\A a \in Attempts :
              row[a].checksum # None => row'[a].checksum = row[a].checksum]_vars
  BY <1>1
<1> QED
  BY <1>2, HistoryInvHolds, PTL DEF Spec, ChecksumKept

\* With stamped names nobody takes a name from an attempt that reads it back.
OwnInv ==
    stamped => \A a \in Attempts :
        /\ step[a] \in {"published", "closed", "identified", "hashed"}
              => at[name[a]] = a
        /\ step[a] \in {"identified", "hashed"} => found[a] = a
        /\ row[a].status = "success" => row[a].identity = a

\* AvailableIsOwn: a name that is taken is refused under the lock.
THEOREM AvailableOnesAreOwn == Spec => []AvailableIsOwn
<1> USE HistoryConstants DEF HistoryInv, TypeOK, Artifact, Rows, Before
<1>1. Init => OwnInv
  BY DEF Init, PathsOfJob, Row, OwnInv
<1>2. HistoryInv /\ OwnInv /\ [Next]_vars => OwnInv'
  <2> SUFFICES ASSUME HistoryInv, OwnInv, [Next]_vars PROVE OwnInv'
    OBVIOUS
  <2>0. UNCHANGED stamped
    BY DEF Next, vars
  <2>1. ASSUME NEW a \in Attempts, Backup(a) PROVE OwnInv'
    <3>1. CASE BackupBegin(a) \/ \E n \in Names : OpenArchive(a, n)
      BY <2>0, <3>1 DEF BackupBegin, OpenArchive, Step, Row, OwnInv
    <3>2. CASE CloseArchive(a)
      BY <2>0, <3>2 DEF CloseArchive, Step, RowInv, OwnInv
    <3>3. CASE Unlock(a) \/ Identify(a) \/ Hash(a)
      BY <2>0, <3>3 DEF Unlock, Identify, Hash, Step, OwnInv
    <3>4. CASE RecordSuccess(a)
      BY <2>0, <3>4 DEF RecordSuccess, Step, Row, OwnInv
    <3>5. CASE BackupFail(a) \/ BackupKilled(a)
      BY <2>0, <3>5 DEF BackupFail, BackupKilled, Row, OwnInv
    <3> QED
      BY <2>1, <3>1, <3>2, <3>3, <3>4, <3>5 DEF Backup
  <2>2. ASSUME NEW c \in Clerks, Clerk(c) PROVE OwnInv'
    <3>1. CASE ClerkWrite(c)
      BY <2>0, <3>1 DEF ClerkWrite, Completed, Row, RowInv, OwnInv, attemptVars
    <3>2. CASE UNCHANGED <<at, row, attemptVars>>
      BY <2>0, <3>2 DEF OwnInv, attemptVars
    <3> QED
      BY <2>2, <3>1, <3>2
         DEF Clerk, ClerkBegin, ClerkCheck, ClerkHash, ClerkStop
  <2>3. ASSUME NEW n \in Names, Remove(n) PROVE OwnInv'
    BY <2>0, <2>3 DEF Remove, Active, OwnInv, attemptVars
  <2>4. ASSUME (\E r \in Restores : Recovery(r)) \/ UNCHANGED vars
        PROVE  OwnInv'
    BY <2>0, <2>4 DEF Recovery, RestoreBegin, RestoreRead, RestoreFinish, RestoreFail,
                vars, OwnInv, attemptVars
  <2> QED
    BY <2>1, <2>2, <2>3, <2>4 DEF Next
<1>3. OwnInv => AvailableIsOwn
  BY DEF OwnInv, AvailableIsOwn, Available
<1> QED
  BY <1>1, <1>2, <1>3, HistoryInvHolds, PTL DEF Spec
=============================================================================
