----------------------------- MODULE LedgerFile -----------------------------
(* The history database as a file: processes create it, bring it to the       *)
(* current schema inside the transaction they write in, and may be killed at  *)
(* any statement; others read it as it is, one statement after the other, and *)
(* never migrate.  A schema is the number of the last step applied to it.     *)
EXTENDS Integers

CONSTANTS
    Writers,  \* processes that open the ledger to write
    Readers,  \* processes that only read (a dry run, history, a restore)
    Records,  \* successful backups the ledger tells of
    Found,    \* bound: what older or newer software may have left
    Nobody

VARIABLES
    file,   \* what is committed
    lock,   \* who is inside BEGIN IMMEDIATE
    draft,  \* what the transaction of the lock's holder has made of it
    phase,  \* per writer: "closed", "opened", "inside", "refused" or "broken"
    step,   \* per writer: the migration step it executes next
    asking, \* per reader: "closed", "opened", "members" or "done"
    units,  \* per reader: the recorded units it has read
    answer  \* per reader: what it made of them

ledgerVars == <<file, lock, draft, phase, step, asking, units, answer>>
fileVars == <<file, lock, draft, phase, step>>
readVars == <<asking, units, answer>>

Absent == -1
Last == 5
Recorded == 4   \* the step that adds gfs_units, gfs_locations and gfs_steps
Judging == 5    \* the step that adds gfs_members

Verdicts == {"new", "managed", "unmanaged"}
Unjudged == [r \in Records |-> "new"]

\* A file older software left: members exist from step 5 on, units from 4 on.
Left(schema, recorded, judged) ==
    [schema |-> schema, has |-> 1..schema, units |-> recorded, judged |-> judged]

Files ==
    {Left(s, {}, Unjudged) : s \in Absent..(Recorded - 1)}
    \cup {Left(Recorded, rs, Unjudged) : rs \in SUBSET Records}
    \cup {Left(s, rs, js) : s \in {Last, Last + 1}, rs \in SUBSET Records,
                            js \in [Records -> Verdicts]}

ASSUME LedgerAssumption == Nobody \notin Writers /\ Found \subseteq Files

LedgerInit ==
    /\ file \in Found
    /\ lock = Nobody /\ draft = file
    /\ phase = [w \in Writers |-> "closed"] /\ step = [w \in Writers |-> 0]
    /\ asking = [r \in Readers |-> "closed"]
    /\ units = [r \in Readers |-> {}] /\ answer = [r \in Readers |-> Unjudged]

\* A process that only reads leaves a missing file alone; one that writes
\* creates it empty, once.
Open(w) ==
    /\ phase[w] = "closed" /\ phase' = [phase EXCEPT ![w] = "opened"]
    /\ file' = IF file.schema = Absent THEN [file EXCEPT !.schema = 0] ELSE file
    /\ UNCHANGED <<lock, draft, step, readVars>>

\* Mutant of Begin: the version is read outside the transaction.
BeginUnlocked(w) ==
    /\ phase[w] = "opened" /\ file.schema \in 0..Last
    /\ phase' = [phase EXCEPT ![w] = "inside"]
    /\ step' = [step EXCEPT ![w] = file.schema + 1]
    /\ UNCHANGED <<file, lock, draft, readVars>>

\* BEGIN IMMEDIATE, then the version is read: nobody else migrates meanwhile.
Begin(w) ==
    /\ phase[w] = "opened" /\ lock = Nobody
    /\ IF file.schema \in 0..Last
       THEN /\ phase' = [phase EXCEPT ![w] = "inside"]
            /\ lock' = w /\ draft' = file
            /\ step' = [step EXCEPT ![w] = file.schema + 1]
       ELSE /\ phase' = [phase EXCEPT ![w] = "refused"]
            /\ UNCHANGED <<lock, draft, step>>
    /\ UNCHANGED <<file, readVars>>

\* Another process stays inside for the 30 seconds sqlite3 waits.
TimedOut(w) ==
    /\ phase[w] = "opened" /\ lock # Nobody
    /\ phase' = [phase EXCEPT ![w] = "refused"]
    /\ UNCHANGED <<file, lock, draft, step, readVars>>

\* Step 5 makes every record of a recorded unit a member, as it was read so far.
Backfilled(f) == [r \in Records |-> IF r \in f.units THEN "managed" ELSE f.judged[r]]

\* Mutant of Migrated: nothing is made of the units recorded so far.
MigratedBare(f, s) == [f EXCEPT !.schema = s, !.has = @ \cup {s}]

Migrated(f, s) ==
    [schema |-> s, has |-> f.has \cup {s}, units |-> f.units,
     judged |-> IF s = Judging THEN Backfilled(f) ELSE f.judged]

\* A statement writes into the transaction; without one it locks by itself.
Seen(w) == IF lock = w THEN draft ELSE file

\* A table or column that is already there is an error.
Migrate(w) ==
    /\ phase[w] = "inside" /\ lock \in {w, Nobody} /\ step[w] \in 1..Last
    /\ IF step[w] \in Seen(w).has
       THEN /\ phase' = [phase EXCEPT ![w] = "broken"] /\ lock' = Nobody
            /\ UNCHANGED <<draft, step>>
       ELSE /\ lock' = w /\ draft' = Migrated(Seen(w), step[w])
            /\ step' = [step EXCEPT ![w] = @ + 1]
            /\ UNCHANGED phase
    /\ UNCHANGED <<file, readVars>>

\* The caller's own statements follow, and the transaction is committed.
Commit(w) ==
    /\ phase[w] = "inside" /\ lock \in {w, Nobody} /\ step[w] = Last + 1
    /\ phase' = [phase EXCEPT ![w] = "closed"]
    /\ file' = Seen(w) /\ draft' = Seen(w) /\ lock' = Nobody
    /\ step' = [step EXCEPT ![w] = 0]
    /\ UNCHANGED readVars

\* A process that ends or is killed: the transaction is rolled back.
Rollback(w) ==
    /\ phase[w] # "closed" /\ phase' = [phase EXCEPT ![w] = "closed"]
    /\ IF lock = w THEN lock' = Nobody /\ draft' = file ELSE UNCHANGED <<lock, draft>>
    /\ step' = [step EXCEPT ![w] = 0]
    /\ UNCHANGED <<file, readVars>>

\* Nothing is asked of a missing file; a file without a schema is an error.
Ask(r) ==
    /\ asking[r] = "closed" /\ file.schema \in {Absent} \cup 1..Last
    /\ asking' = [asking EXCEPT ![r] = IF file.schema = Absent THEN "done" ELSE "opened"]
    /\ UNCHANGED <<fileVars, units, answer>>

\* Without the three GFS tables there is nothing to place.
ReadUnits(r) ==
    /\ asking[r] = "opened"
    /\ asking' = [asking EXCEPT ![r] = IF Recorded \in file.has THEN "members" ELSE "done"]
    /\ units' = [units EXCEPT ![r] = IF Recorded \in file.has THEN file.units ELSE {}]
    /\ UNCHANGED <<fileVars, answer>>

\* Before step 5 every record of a recorded unit is a member.
Verdict(recorded, f) ==
    [r \in Records |-> IF Judging \notin f.has /\ r \in recorded
                       THEN "managed" ELSE f.judged[r]]

ReadMembers(r) ==
    /\ asking[r] = "members" /\ asking' = [asking EXCEPT ![r] = "done"]
    /\ answer' = [answer EXCEPT ![r] = Verdict(units[r], file)]
    /\ UNCHANGED <<fileVars, units>>

LedgerNext ==
    \/ \E w \in Writers : \/ Open(w) \/ Begin(w) \/ TimedOut(w)
                          \/ Migrate(w) \/ Commit(w) \/ Rollback(w)
    \/ \E r \in Readers : Ask(r) \/ ReadUnits(r) \/ ReadMembers(r)

LedgerSpec == LedgerInit /\ [][LedgerNext]_ledgerVars

----------------------------------------------------------------------------
(* Properties.                                                                *)

\* SameAnswer: whatever a process read of the backups GFS manages, before,
\* during or after a migration by another one, or a migration that was cut
\* off, holds of the ledger for good (history._connect, store._read, places).
SameAnswer ==
    \A r \in Readers : asking[r] = "done" => answer[r] = Verdict(file.units, file)

\* AppliedOnce: no process meets a table or column another one has made, and
\* the version says exactly which steps the file has had (history._connect).
AppliedOnce ==
    /\ \A w \in Writers : phase[w] # "broken"
    /\ file.has = 1..file.schema
=============================================================================
