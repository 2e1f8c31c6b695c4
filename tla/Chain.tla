-------------------------------- MODULE Chain --------------------------------
(* The root of one xtrabackup job (mysql/xtrabackup.py): full backups in      *)
(* dated directories, the incrementals that continue them, the marks by which *)
(* the next run finds what to continue, and pruning.  Everything the engine   *)
(* does happens under the lock of the root; what a killed process leaves      *)
(* behind is what the next one finds.                                         *)
EXTENDS Integers, FiniteSets, Sequences

CONSTANTS
    Ids,           \* names of backup directories; one that is gone is used again
    None,          \* no attempt
    Restore,       \* the holder of the lock that is not an attempt
    Legacy,        \* a full from before bdbackup.json, or None
    Keys,          \* encryption keys; 0 is no encryption
    RetentionDays, \* the job's retention_days; 0 leaves pruning to others
    MaxDay,        \* bound: the last day
    MaxLsn,        \* bound: the largest LSN
    MaxTampers     \* bound: what an operator does to a root

ASSUME ChainConstants ==
    /\ None \notin Ids /\ Restore \notin Ids \cup {None}
    /\ Legacy \in Ids \cup {None} /\ IsFiniteSet(Ids)
    /\ 0 \in Keys
    /\ RetentionDays \in Nat /\ MaxTampers \in Nat
    /\ MaxDay \in Nat \ {0} /\ MaxLsn \in Nat \ {0}

Days == 1..MaxDay

VARIABLES
    today,    \* the UTC date
    key,      \* the job's key setting
    entry,    \* the directory each attempt made
    latest,   \* Full_Latest of each dated directory
    marked,   \* dated directories with .full_success
    torn,     \* dated directories whose removal was cut off
    lock,     \* who holds <root>/.bdbackup.lock
    step,     \* what the attempt at each directory is doing
    doomed,   \* dated directories the running prune has still to remove
    reading,  \* the directories a restore copies, in order of application
    tampers   \* how often an operator interfered

vars == <<today, key, entry, latest, marked, torn, lock, step, doomed, reading,
          tampers>>

\* A directory: at is "none", "tmp" under its .tmp name, "here" when committed,
\* or left over from a removal, with readable checkpoints ("partial") or without
\* ("broken").  A full's base is itself.  raw: not prepared by its checkpoints.
Directory(at, day, full, parent, to, k, meta) ==
    [at |-> at, day |-> day, base |-> full, parent |-> parent,
     from |-> 0, to |-> to, raw |-> TRUE, key |-> k, meta |-> meta]

Absent == Directory("none", 0, None, None, 0, 0, TRUE)
Pending(i, day, full, parent) == Directory("tmp", day, full, parent, 0, key, TRUE)

Dumping == {"full", "incremental"}
Running == Dumping \cup {"published", "linked", "marked", "pruning"}

Init ==
    /\ today = 1 /\ key = 0
    /\ entry = [i \in Ids |->
                  IF i = Legacy
                  THEN Directory("here", 1, i, None, 1, 0, FALSE) ELSE Absent]
    /\ latest = [d \in Days |-> IF d = 1 THEN Legacy ELSE None]
    /\ marked = IF Legacy = None THEN {} ELSE {1}
    /\ torn = {}
    /\ step = [i \in Ids |-> "idle"]
    /\ lock = None /\ doomed = {} /\ reading = <<>> /\ tampers = 0

----------------------------------------------------------------------------
(* What is read back from the root.                                           *)

\* _checkpoints and _metadata do not raise.
Readable(i) == entry[i].at \in {"here", "partial"}
Described(i) == Readable(i) /\ entry[i].meta

\* _latest_full_date_dir
Newest(d) == d \in marked /\ \A e \in marked : e <= d

\* _latest_full: the link of the newest marked directory leads to an
\* unprepared full.
LatestFull(f) ==
    /\ f \in Ids /\ Readable(f) /\ entry[f].raw
    /\ \E d \in marked : Newest(d) /\ latest[d] = f

\* What lies in Incremental/<full>, temporary names aside.
Children(f) ==
    {i \in Ids : entry[i].base = f /\ i # f /\ entry[i].at \notin {"none", "tmp"}}

Continues(f, p) == {i \in Children(f) : entry[i].parent = p}

\* The chain: the full, what continues it, and so on.
Walk(f) ==
    LET w[n \in 0..Cardinality(Ids)] ==
          IF n = 0 THEN f
          ELSE IF Continues(f, w[n - 1]) = {} THEN None
               ELSE CHOOSE i \in Continues(f, w[n - 1]) : TRUE
    IN  w

Place(f, i) == CHOOSE n \in 0..Cardinality(Ids) : Walk(f)[n] = i

\* _chain does not raise.
Committed(f) ==
    /\ \A i \in Children(f) :
          /\ Described(i) /\ entry[i].raw
          /\ Continues(f, entry[i].parent) = {i}
          /\ \E n \in 1..Cardinality(Ids) : Walk(f)[n] = i
          /\ Readable(entry[i].parent)
          /\ entry[i].from = entry[entry[i].parent].to
\* Mutant of Tip: the newest full is continued, whatever continued it before.
TipIsFull(f) == f

\* The last of a committed chain.
Tip(f) == CHOOSE i \in Children(f) \cup {f} : Continues(f, i) = {}

\* _parent, and _create's comparison of the settings.
CanContinue(f) ==
    /\ LatestFull(f) /\ Described(f) /\ Committed(f)
    /\ Described(Tip(f)) /\ entry[Tip(f)].key = key

\* prepare: what it copies, and when it agrees to.
Sources(s) ==
    IF entry[s].parent = None THEN <<s>>
    ELSE [n \in 1..(Place(entry[s].base, s) + 1) |-> Walk(entry[s].base)[n - 1]]

CanPrepare(s) ==
    /\ Readable(s) /\ entry[s].raw
    /\ entry[s].parent # None => Described(s) /\ Committed(entry[s].base)

----------------------------------------------------------------------------
(* The engine.                                                                *)

At(i, from, to) == step[i] = from /\ step' = [step EXCEPT ![i] = to]

\* _identity: a name that nothing refers to.
Fresh(i) ==
    /\ step[i] = "idle" /\ entry[i] = Absent
    /\ \A j \in Ids : i # entry[j].base /\ i # entry[j].parent
    /\ \A d \in Days : i # latest[d]

\* Mutant of Acquire: the lock of the root is not asked for.
AcquireAnyway(i) == lock' = i

\* process_lock: the attempt that finds it taken exits, and leaves nothing.
Acquire(i) == lock = None /\ lock' = i

FullStart(i) ==
    /\ Fresh(i) /\ Acquire(i)
    /\ step' = [step EXCEPT ![i] = "full"]
    /\ entry' = [entry EXCEPT ![i] = Pending(i, today, i, None)]
    /\ UNCHANGED <<today, key, latest, marked, torn, doomed, reading, tampers>>

\* Without a chain to continue it fails, and leaves nothing.
IncrementalStart(i, f) ==
    /\ Fresh(i) /\ Acquire(i) /\ CanContinue(f)
    /\ step' = [step EXCEPT ![i] = "incremental"]
    /\ entry' = [entry EXCEPT ![i] = Pending(i, entry[f].day, f, Tip(f))]
    /\ UNCHANGED <<today, key, latest, marked, torn, doomed, reading, tampers>>

\* _create: the checkpoints the tool wrote are compared, then the directory
\* gets its name.  Anything else is a failure: Fail.
Publish(i, from, to) ==
    /\ step[i] \in Dumping /\ from <= to /\ to > 0
    /\ IF step[i] = "full" THEN from = 0
       ELSE Readable(entry[i].parent) /\ from = entry[entry[i].parent].to
    /\ step' = [step EXCEPT ![i] = "published"]
    /\ entry' = [entry EXCEPT ![i].at = "here", ![i].from = from, ![i].to = to]
    /\ UNCHANGED <<today, key, latest, marked, torn, lock, doomed, reading, tampers>>

IsFull(i) == entry[i].parent = None

\* os.replace of Full_Latest
Link(i) ==
    /\ IsFull(i) /\ At(i, "published", "linked")
    /\ latest' = [latest EXCEPT ![entry[i].day] = i]
    /\ UNCHANGED <<today, key, entry, marked, torn, lock, doomed, reading, tampers>>

\* .full_success
Mark(i) ==
    /\ At(i, "linked", "marked")
    /\ marked' = marked \cup {entry[i].day}
    /\ UNCHANGED <<today, key, entry, latest, torn, lock, doomed, reading, tampers>>
\* Mutant of Expired: the newest directory ages as the others do.
ExpiredAnyway(d) == d \in marked /\ d < today - (RetentionDays - 1)

Expired(d) ==
    /\ d \in marked /\ ~Newest(d)
    /\ d < today - (RetentionDays - 1)

\* prune: refuses without a valid full; Fail.
PruneStart(i) ==
    /\ At(i, "marked", "pruning")
    /\ RetentionDays > 0 => \E f \in Ids : LatestFull(f)
    /\ doomed' = IF RetentionDays = 0 THEN {} ELSE {d \in marked : Expired(d)}
    /\ UNCHANGED <<today, key, entry, latest, marked, torn, lock, reading, tampers>>

In(d) == {i \in Ids : entry[i].at # "none" /\ entry[i].day = d}

\* shutil.rmtree of a dated directory.
PruneDay(i, d) ==
    /\ step[i] = "pruning" /\ d \in doomed
    /\ doomed' = doomed \ {d}
    /\ entry' = [j \in Ids |-> IF j \in In(d) THEN Absent ELSE entry[j]]
    /\ latest' = [latest EXCEPT ![d] = None]
    /\ marked' = marked \ {d} /\ torn' = torn \ {d}
    /\ UNCHANGED <<today, key, lock, step, reading, tampers>>

\* An rmtree that is cut off: some directories are gone, one is half removed.
Tear ==
    \E d \in doomed : \E gone \in SUBSET In(d) :
    \E half \in {{}} \cup {{i} : i \in In(d) \ gone}, left \in {"partial", "broken"} :
       /\ entry' = [j \in Ids |->
                       IF j \in gone THEN Absent
                       ELSE IF j \in half /\ entry[j].at # "tmp"
                            THEN [entry[j] EXCEPT !.at = left] ELSE entry[j]]
       /\ latest' \in {latest, [latest EXCEPT ![d] = None]}
       /\ marked' \in {marked, marked \ {d}}
       /\ torn' = torn \cup {d}

\* The lock is released.  History.run goes on from here: BackupJob.
Release(i) ==
    /\ \/ ~IsFull(i) /\ At(i, "published", "idle")
       \/ doomed = {} /\ At(i, "pruning", "idle")
    /\ lock' = None
    /\ UNCHANGED <<today, key, entry, latest, marked, torn, doomed, reading, tampers>>

\* An exception removes the directory under its temporary name; kill -9 does
\* not.  Either may cut off a removal.
Stop(i) ==
    /\ step[i] \in Running
    /\ step' = [step EXCEPT ![i] = "idle"]
    /\ lock' = IF lock = i THEN None ELSE lock
    /\ doomed' = {}
    /\ \/ UNCHANGED <<entry, latest, marked, torn>>
       \/ /\ step[i] \in Dumping
          /\ entry' = [entry EXCEPT ![i] = Absent]
          /\ UNCHANGED <<latest, marked, torn>>
       \/ step[i] = "pruning" /\ Tear
    /\ UNCHANGED <<today, key, reading, tampers>>

Engine(i) ==
    \/ FullStart(i) \/ \E f \in Ids : IncrementalStart(i, f)
    \/ \E from, to \in 0..MaxLsn : Publish(i, from, to)
    \/ Link(i) \/ Mark(i) \/ PruneStart(i) \/ Release(i) \/ Stop(i)
    \/ \E d \in Days : PruneDay(i, d)

----------------------------------------------------------------------------
(* Restores and the world.                                                    *)

\* Mutant of PrepareStart: the sources are copied without the lock.
PrepareUnlocked(s) ==
    /\ lock = None /\ CanPrepare(s)
    /\ reading' = Sources(s)
    /\ UNCHANGED <<today, key, entry, latest, marked, torn, lock, step, doomed, tampers>>

\* XtraBackup.prepare copies its sources under the lock of the root; success,
\* failure and a kill all leave the root as it was.
PrepareStart(s) ==
    /\ lock = None /\ CanPrepare(s)
    /\ lock' = Restore /\ reading' = Sources(s)
    /\ UNCHANGED <<today, key, entry, latest, marked, torn, step, doomed, tampers>>

PrepareEnd ==
    /\ lock = Restore /\ lock' = None /\ reading' = <<>>
    /\ UNCHANGED <<today, key, entry, latest, marked, torn, step, doomed, tampers>>

Midnight ==
    /\ today < MaxDay /\ today' = today + 1
    /\ UNCHANGED <<key, entry, latest, marked, torn, lock, step, doomed, reading,
                   tampers>>

\* The operator changes the key of the job, or prepares an original in place.
Tamper ==
    /\ tampers < MaxTampers /\ tampers' = tampers + 1
    /\ \/ key' \in Keys \ {key} /\ UNCHANGED entry
       \/ \E i \in Ids : /\ entry[i].at = "here" /\ lock = None
                         /\ entry' = [entry EXCEPT ![i].raw = FALSE]
                         /\ UNCHANGED key
    /\ UNCHANGED <<today, latest, marked, torn, lock, step, doomed, reading>>

Next ==
    \/ \E i \in Ids : Engine(i) \/ PrepareStart(i)
    \/ PrepareEnd \/ Midnight \/ Tamper

Spec == Init /\ [][Next]_vars

----------------------------------------------------------------------------
(* Properties.                                                                *)

\* A dated directory nobody prepared in place or began to remove.
Untouched(d) == d \notin torn /\ \A i \in In(d) : entry[i].raw

\* Restorable: every committed backup of an untouched day can be prepared, from
\* sources that are all there, continue each other and share one key, however
\* engines were killed, overlapped or crossed midnight (_chain, _create).
Restorable ==
    \A i \in Ids : entry[i].at = "here" /\ Untouched(entry[i].day) =>
        /\ CanPrepare(i)
        /\ \A n \in DOMAIN Sources(i) :
              LET s == Sources(i)[n] IN
              /\ entry[s].at = "here" /\ entry[s].key = entry[i].key
              /\ IF n = 1 THEN IsFull(s) ELSE entry[s].from = entry[Sources(i)[n - 1]].to

\* FullIsFound: once a full is marked there is one to continue, and pruning
\* never leaves a root without (_latest_full, prune).
FullIsFound ==
    marked # {} /\ (\A i \in Ids : entry[i].raw) => \E f \in Ids : LatestFull(f)

\* ReadsAChain: while a restore copies, what it reads stays there and stays one
\* chain from a full on (prepare under the lock of the root).
ReadsAChain ==
    \A n \in DOMAIN reading :
        /\ Readable(reading[n])
        /\ IF n = 1 THEN IsFull(reading[n])
           ELSE /\ entry[reading[n]].parent = reading[n - 1]
                /\ entry[reading[n]].from = entry[reading[n - 1]].to

\* SourcesStay: while a restore copies, no step of anyone renames, rewrites or
\* removes a directory of the root; an operator may still prepare an original
\* in place (process_lock in prepare, full_backup and incremental_backup).
SourcesStay ==
    [][reading # <<>> /\ reading' # <<>> =>
          \A i \in Ids : /\ entry'[i].at = entry[i].at
                         /\ entry'[i].parent = entry[i].parent
                         /\ entry'[i].from = entry[i].from
                         /\ entry'[i].to = entry[i].to]_vars
=============================================================================
