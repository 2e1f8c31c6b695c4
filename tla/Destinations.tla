---------------------------- MODULE Destinations ----------------------------
(* The later stage paths of a gfs job: --initialize-structure and --validate  *)
(* prepare and look at them, a run copies the whole ledger to each and tells  *)
(* in its own row how it ended, and file systems are mounted or not.  A path  *)
(* whose file system is away shows the bare directory it is mounted on.       *)
EXTENDS LedgerFile, Sequences

CONSTANTS
    Gfs,         \* the writer that is the gfs run
    End,         \* how many later paths the configuration has
    MaxRuns,     \* bound: runs started
    MaxTroubles, \* bound: kills, I/O errors and refused ledger writes
    MaxChanges   \* bound: mounts, permissions, preparations

ASSUME DestinationsAssumption ==
    /\ Gfs \in Writers
    /\ End \in Nat \ {0} /\ {MaxRuns, MaxTroubles, MaxChanges} \subseteq Nat

Paths == 1..End  \* in the order of the configuration

VARIABLES
    mounted,   \* paths whose file system is there
    place,     \* what is at <<path, side>>: on the file system, or below it
    ready,     \* paths found or made ready and not touched from outside since
    preparing, \* the path --initialize-structure is at, 0 for none, and how far
    rows,      \* gfs_runs: one row per applying run
    exits,     \* how the process of each row ended
    pc, at,    \* the run: what it does next, and at which path
    failed, deferred,  \* its tally
    local,     \* the local snapshot: the rows in it, None for no file
    outcome,   \* per path: "", "served", or why not
    troubles, strays, changes  \* what went wrong, temporary copies left by it

runVars == <<rows, exits, pc, at, failed, deferred, local, outcome>>
pathVars == <<mounted, place, ready, preparing>>
bounds == <<troubles, strays, changes>>
dvars == <<ledgerVars, pathVars, runVars, bounds>>

None == <<>>    \* no copy of the ledger; one has at least the run's own row
Me == Len(rows) \* the run's row
Alive == -1     \* exits of a process that runs, that was killed, and that
Killed == -2    \* exits 1 but could not tell the ledger
Untold == -3
Sides == {"mounted", "bare"}
Here(p) == <<p, IF p \in mounted THEN "mounted" ELSE "bare">>
At(p) == place[Here(p)]

Kinds == {"dir", "absent", "other"}  \* other: a file, or without a parent
Places == [kind : Kinds, writable : BOOLEAN, marker : {"none", "ours", "other"},
           copy : {None}, temps : {0}]
Usual(m) == [kind |-> "dir", writable |-> TRUE, marker |-> m, copy |-> None, temps |-> 0]

\* The first path is in any state the operator may have left it in.
Init ==
    /\ LedgerInit
    /\ mounted = Paths
    /\ \E found \in Places :
          /\ found.kind # "dir" => found.marker = "none" /\ found.writable
          /\ place = [x \in Paths \X Sides |->
                IF x = <<1, "mounted">> THEN found
                ELSE Usual(IF x[2] = "mounted" THEN "ours" ELSE "none")]
    /\ ready = {} /\ preparing = <<0, "">>
    /\ rows = <<>> /\ exits = <<>>
    /\ pc = "idle" /\ at = 0 /\ failed = FALSE /\ deferred = FALSE
    /\ local = None /\ outcome = [p \in Paths |-> ""]
    /\ troubles = 0 /\ strays = 0 /\ changes = 0

Trouble == troubles < MaxTroubles /\ troubles' = troubles + 1
Change == changes < MaxChanges /\ changes' = changes + 1

----------------------------------------------------------------------------
(* Preparing and validating.                                                  *)

PrepareStart ==
    /\ preparing[1] = 0 /\ preparing' = <<1, "directory">>
    /\ Change
    /\ UNCHANGED <<ledgerVars, mounted, place, ready, runVars, troubles, strays>>

Onward(p) == IF p = End THEN <<0, "">> ELSE <<p + 1, "directory">>

\* A path that cannot be made ready is reported, and the next one is prepared.
PrepareDirectory(p) ==
    /\ preparing = <<p, "directory">>
    /\ place' = [place EXCEPT ![Here(p)].kind = IF @ = "absent" THEN "dir" ELSE @]
    /\ preparing' = IF At(p).kind \in {"dir", "absent"} /\ At(p).writable
                    THEN <<p, "marker">> ELSE Onward(p)
    /\ UNCHANGED <<ledgerVars, mounted, ready, runVars, bounds>>

\* The marker is rewritten in place; another user's cannot be opened.
PrepareMarker(p) ==
    /\ preparing = <<p, "marker">> /\ preparing' = Onward(p)
    /\ IF \/ At(p).marker = "ours"
          \/ At(p).kind = "dir" /\ At(p).writable /\ At(p).marker = "none"
       THEN /\ place' = [place EXCEPT ![Here(p)].marker = "ours"]
            /\ ready' = IF At(p).writable THEN ready \cup {p} ELSE ready
       ELSE UNCHANGED <<place, ready>>
    /\ UNCHANGED <<ledgerVars, mounted, runVars, bounds>>

\* Mutant of ValidatePath: the marker is not looked for.
ValidatePathBarely(p) ==
    /\ At(p).kind = "dir" /\ At(p).writable
    /\ ready' = ready \cup {p}
    /\ UNCHANGED <<ledgerVars, mounted, place, preparing, runVars, bounds>>

\* --validate reports a path that a run can write and mark as ready.
ValidatePath(p) ==
    /\ At(p).kind = "dir" /\ At(p).writable /\ At(p).marker = "ours"
    /\ ready' = ready \cup {p}
    /\ UNCHANGED <<ledgerVars, mounted, place, preparing, runVars, bounds>>

----------------------------------------------------------------------------
(* A run, from its row to its exit.                                           *)

RunStart ==
    /\ pc = "idle" /\ Len(rows) < MaxRuns /\ pc' = "opening"
    /\ failed' = FALSE /\ deferred' = FALSE /\ outcome' = [p \in Paths |-> ""]
    /\ UNCHANGED <<ledgerVars, pathVars, rows, exits, at, local, bounds>>

\* begin_run commits the row with whatever migration came before it.
RunBegin ==
    /\ pc = "opening" /\ Commit(Gfs) /\ pc' = "acting"
    /\ rows' = Append(rows, [status |-> "running", code |-> -1])
    /\ exits' = Append(exits, Alive)
    /\ UNCHANGED <<pathVars, at, failed, deferred, local, outcome, bounds>>

\* It could not open the ledger: there is no row to end.
RunRefused ==
    /\ pc = "opening" /\ phase[Gfs] \in {"refused", "broken"} /\ Rollback(Gfs)
    /\ pc' = "idle"
    /\ UNCHANGED <<pathVars, rows, exits, at, failed, deferred, local, outcome, bounds>>

\* The actions: failures and refusals, deferrals, neither, or an exception.
RunAct ==
    /\ pc = "acting"
    /\ \/ pc' = "finish" /\ failed' \in BOOLEAN /\ deferred' \in BOOLEAN
          /\ UNCHANGED troubles
       \/ pc' = "except" /\ Trouble /\ UNCHANGED <<failed, deferred>>
    /\ UNCHANGED <<ledgerVars, pathVars, rows, exits, at, local, outcome, strays, changes>>

ExitCode == IF failed THEN 1 ELSE IF deferred THEN 3 ELSE 0

Completed == [status |-> "completed", code |-> ExitCode]

Exit(code) == exits' = [exits EXCEPT ![Me] = code] /\ pc' = "idle"

\* finish(): once before the snapshots, again after them if one failed.
RunFinish ==
    /\ pc \in {"finish", "again"} /\ lock = Nobody
    /\ \/ /\ rows' = [rows EXCEPT ![Me] = Completed]
          /\ IF pc = "finish" THEN pc' = "local" /\ UNCHANGED exits
             ELSE Exit(ExitCode)
          /\ UNCHANGED troubles
       \/ pc' = "except" /\ Trouble /\ UNCHANGED <<rows, exits>>
    /\ UNCHANGED <<ledgerVars, pathVars, at, failed, deferred, local, outcome,
                   strays, changes>>

\* What an interrupted run left is removed and the ledger copied anew.
RunLocal ==
    /\ pc = "local"
    /\ \/ pc' = "check" /\ at' = 1 /\ local' = rows /\ UNCHANGED troubles
       \/ pc' = "except" /\ local' = None /\ Trouble /\ UNCHANGED at
    /\ UNCHANGED <<ledgerVars, pathVars, rows, exits, failed, deferred, outcome,
                   strays, changes>>

\* Mutant of Done: the row is not written again.
DoneOnce(result) ==
    /\ outcome' = [outcome EXCEPT ![at] = result]
    /\ failed' = (failed \/ result # "served")
    /\ IF at # End THEN pc' = "check" /\ at' = at + 1 /\ UNCHANGED <<local, exits>>
       ELSE /\ local' = None /\ UNCHANGED at
            /\ pc' = "idle"
            /\ exits' = [exits EXCEPT ![Me] = IF failed' THEN 1 ELSE ExitCode]
    /\ UNCHANGED <<rows, deferred>>

\* The next path; after the last the local snapshot goes, and the row is
\* written again if a copy failed.
Done(result) ==
    /\ outcome' = [outcome EXCEPT ![at] = result]
    /\ failed' = (failed \/ result # "served")
    /\ IF at # End THEN pc' = "check" /\ at' = at + 1 /\ UNCHANGED <<local, exits>>
       ELSE /\ local' = None /\ UNCHANGED at
            /\ IF \A p \in Paths : outcome'[p] = "served"
               THEN Exit(ExitCode) ELSE pc' = "again" /\ UNCHANGED exits
    /\ UNCHANGED <<rows, deferred>>

\* Mutant of RunCheck: any directory will do.
RunCheckBlind ==
    /\ pc = "check"
    /\ IF At(at).kind = "dir"
       THEN pc' = "copy" /\ UNCHANGED <<rows, exits, at, failed, deferred, local, outcome>>
       ELSE Done("not ready")
    /\ UNCHANGED <<ledgerVars, pathVars, bounds>>

\* Where there is no marker, the file system is away or was never prepared.
RunCheck ==
    /\ pc = "check"
    /\ IF At(at).kind = "dir" /\ At(at).marker # "none"
       THEN pc' = "copy" /\ UNCHANGED <<rows, exits, at, failed, deferred, local, outcome>>
       ELSE Done("not ready")
    /\ UNCHANGED <<ledgerVars, pathVars, bounds>>

Temps(n) == [place EXCEPT ![Here(at)].temps = @ + n]

RunCopy ==
    /\ pc = "copy"
    /\ IF At(at).writable
       THEN /\ pc' = "replace" /\ place' = Temps(1)
            /\ UNCHANGED <<rows, exits, at, failed, deferred, local, outcome>>
       ELSE Done("not writable") /\ UNCHANGED place
    /\ UNCHANGED <<ledgerVars, mounted, ready, preparing, bounds>>

RunReplace ==
    /\ pc = "replace"
    /\ place' = [Temps(-1) EXCEPT ![Here(at)].copy = local]
    /\ Done("served")
    /\ UNCHANGED <<ledgerVars, mounted, ready, preparing, bounds>>

\* Mutant of RunCopyFails: the temporary copy stays.
RunCopyFailsOnly ==
    /\ pc = "replace" /\ Done("error") /\ Trouble
    /\ UNCHANGED <<ledgerVars, pathVars, strays, changes>>

\* The copy or the rename fails; what there is of the temporary copy goes,
\* unless that fails too and raises.
RunCopyFails ==
    /\ pc = "replace" /\ place' = Temps(-1) /\ Done("error") /\ Trouble
    /\ UNCHANGED <<ledgerVars, mounted, ready, preparing, strays, changes>>

RunCleanFails ==
    /\ pc = "replace" /\ pc' = "except" /\ local' = None
    /\ Trouble /\ strays' = strays + 1
    /\ UNCHANGED <<ledgerVars, pathVars, rows, exits, at, failed, deferred, outcome, changes>>

\* fail_run, which may be refused as well; the exception ends the process.
RunFail ==
    /\ pc = "except"
    /\ \/ /\ lock = Nobody /\ Exit(1) /\ UNCHANGED troubles
          /\ rows' = [rows EXCEPT ![Me].status = "failed"]
       \/ Exit(Untold) /\ Trouble /\ UNCHANGED rows
    /\ UNCHANGED <<ledgerVars, pathVars, at, failed, deferred, local, outcome, strays, changes>>

RunKilled ==
    /\ pc # "idle" /\ Trouble
    /\ IF pc = "opening"
       THEN /\ pc' = "idle" /\ UNCHANGED exits
            /\ IF phase[Gfs] = "closed" THEN UNCHANGED ledgerVars ELSE Rollback(Gfs)
       ELSE Exit(Killed) /\ UNCHANGED ledgerVars
    /\ strays' = strays + (IF pc = "replace" THEN 1 ELSE 0)
    /\ UNCHANGED <<pathVars, rows, at, failed, deferred, local, outcome, changes>>

Run ==
    \/ RunStart \/ RunBegin \/ RunRefused \/ RunAct \/ RunFinish \/ RunLocal
    \/ RunCheck \/ RunCopy \/ RunReplace \/ RunCopyFails \/ RunCleanFails
    \/ RunFail \/ RunKilled

----------------------------------------------------------------------------
(* Everything else.                                                           *)

\* The other connections, and the run's own up to its commit.
Ledger ==
    /\ \/ \E w \in Writers \ {Gfs} : \/ Open(w) \/ Begin(w) \/ TimedOut(w)
                                     \/ Migrate(w) \/ Commit(w) \/ Rollback(w)
       \/ pc = "opening" /\ (Open(Gfs) \/ Begin(Gfs) \/ TimedOut(Gfs) \/ Migrate(Gfs))
       \/ \E r \in Readers : Ask(r) \/ ReadUnits(r) \/ ReadMembers(r)
    /\ UNCHANGED <<pathVars, runVars, bounds>>

\* File systems come and go and permissions change, except at the path a
\* snapshot is being copied to.
Outside(p) ==
    /\ Change
    /\ ~(pc \in {"copy", "replace"} /\ at = p)
    /\ \/ /\ mounted' = IF p \in mounted THEN mounted \ {p} ELSE mounted \cup {p}
          /\ UNCHANGED place
       \/ /\ place' = [place EXCEPT ![Here(p)].writable = ~@]
          /\ UNCHANGED mounted
    /\ ready' = ready \ {p}
    /\ UNCHANGED <<ledgerVars, preparing, runVars, troubles, strays>>

Prepare ==
    \/ PrepareStart
    \/ \E p \in Paths : PrepareDirectory(p) \/ PrepareMarker(p) \/ ValidatePath(p)

Next == Run \/ Ledger \/ Prepare \/ \E p \in Paths : Outside(p)

Spec == Init /\ [][Next]_dvars

----------------------------------------------------------------------------
(* Properties.                                                                *)

\* RowTellsExit: unless it was killed or the ledger refused, the run's row
\* says how its process ended: completed with its exit code, or failed
\* (_Run.run, store.finish_run, store.fail_run).
RowTellsExit ==
    \A i \in 1..Me : exits[i] \in {0, 1, 3} =>
        \/ rows[i] = [status |-> "completed", code |-> exits[i]]
        \/ rows[i].status = "failed" /\ exits[i] = 1

\* NoFailureMeansCopies: a run that exits without a failure has left at every
\* later path, where its marker is, a whole copy of the ledger that shows this
\* run ended with that code (_Run.snapshot, _Run._run).
NoFailureMeansCopies ==
    \A i \in 1..Me, p \in Paths : exits[i] \in {0, 3} =>
        \E side \in Sides :
            LET copy == place[<<p, side>>].copy
            IN  /\ place[<<p, side>>].marker # "none"
                /\ i <= Len(copy) /\ copy[i] = [status |-> "completed", code |-> exits[i]]

\* TempsFromKills: temporary copies are left behind only by a kill or when
\* their removal fails (_Run.snapshot).
TempsFromKills ==
    \A x \in Paths \X Sides :
        place[x].temps <= strays + (IF pc = "replace" /\ x = Here(at) THEN 1 ELSE 0)

\* ReadyIsServed: a run never turns away from a path that was initialised or
\* validated and that nothing outside has changed since, though markers are
\* rewritten meanwhile (structure._write_marker, validation._gfs).
ReadyIsServed ==
    [][\A p \in ready : outcome'[p] \in {"not ready", "not writable"} =>
          outcome[p] = outcome'[p]]_dvars
=============================================================================
