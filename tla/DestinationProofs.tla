-------------------------- MODULE DestinationProofs --------------------------
(* The ledger file: whoever is inside holds the lock, and a migration changes *)
(* nothing of what the ledger says of a record, for the writer only writes    *)
(* down what a reader of the older file makes of it by itself.                *)
(* The later paths: the run writes its row last unless every copy is served,  *)
(* and copies it only when it is written, so whoever looks at the row, at the *)
(* exit or at the copies of an ended run is told the same.                    *)
EXTENDS Destinations, TLAPS

----------------------------------------------------------------------------
(* The ledger file by itself: LedgerSpec.                                     *)

LedgerFiles == [schema : Absent..(Last + 1), has : SUBSET Nat,
                units : SUBSET Records, judged : [Records -> Verdicts]]

LedgerTypeOK ==
    /\ file \in LedgerFiles /\ draft \in LedgerFiles
    /\ lock \in Writers \cup {Nobody}
    /\ phase \in [Writers -> {"closed", "opened", "inside", "refused", "broken"}]
    /\ step \in [Writers -> 0..(Last + 1)]
    /\ asking \in [Readers -> {"closed", "opened", "members", "done"}]
    /\ units \in [Readers -> SUBSET Records]
    /\ answer \in [Readers -> [Records -> Verdicts]]

\* A file has the steps its version counts, and only what they made room for.
WellFormed(f) ==
    /\ f.has = 1..f.schema
    /\ f.schema < Recorded => f.units = {}
    /\ f.schema < Judging => f.judged = Unjudged

\* One writer is inside: it alone migrates, from the version it read there.
WriterInv ==
    /\ WellFormed(file) /\ WellFormed(draft)
    /\ lock # Nobody => phase[lock] = "inside"
    /\ \A w \in Writers :
          /\ phase[w] # "broken"
          /\ phase[w] = "inside" =>
                /\ lock = w /\ file.schema \in 0..Last
                /\ draft.schema = step[w] - 1
                /\ Verdict(draft.units, draft) = Verdict(file.units, file)
                /\ draft.units = file.units /\ file.schema <= draft.schema

\* What a reader has read so far is what the ledger says now.
ReaderInv ==
    \A r \in Readers :
        /\ asking[r] \in {"closed", "opened"} => answer[r] = Unjudged /\ units[r] = {}
        /\ asking[r] = "members" => units[r] = file.units
        /\ asking[r] = "done" => answer[r] = Verdict(file.units, file)

LedgerInv == LedgerTypeOK /\ WriterInv /\ ReaderInv

LEMMA InitInv == ASSUME LedgerInit PROVE LedgerInv
<1> USE DEF Absent, Last, Recorded, Judging
<1>1. ASSUME NEW s \in -1..6, NEW rs \in SUBSET Records, NEW js \in [Records -> Verdicts],
             s < 4 => rs = {}, s < 5 => js = Unjudged
      PROVE  Left(s, rs, js) \in LedgerFiles /\ WellFormed(Left(s, rs, js))
  BY <1>1 DEF Left, WellFormed, LedgerFiles
<1>2. Unjudged \in [Records -> Verdicts]
  BY DEF Unjudged, Verdicts
<1>3. ASSUME NEW f \in Files PROVE f \in LedgerFiles /\ WellFormed(f)
  BY <1>1, <1>2 DEF Files
<1>4. QED
  BY <1>2, <1>3, LedgerAssumption
     DEF LedgerInit, LedgerInv, LedgerTypeOK, WriterInv, ReaderInv

\* A step leaves what the ledger says of the records it can be asked about.
LEMMA MigratedSays ==
  ASSUME NEW f \in LedgerFiles, WellFormed(f), f.schema \in 0..(Last - 1)
  PROVE  /\ Migrated(f, f.schema + 1) \in LedgerFiles
         /\ WellFormed(Migrated(f, f.schema + 1))
         /\ Migrated(f, f.schema + 1).units = f.units
         /\ Verdict(f.units, Migrated(f, f.schema + 1)) = Verdict(f.units, f)
<1> DEFINE g == Migrated(f, f.schema + 1)
<1>0. g = [schema |-> f.schema + 1, has |-> f.has \cup {f.schema + 1}, units |-> f.units,
           judged |-> IF f.schema + 1 = Judging THEN Backfilled(f) ELSE f.judged]
  BY DEF Migrated, LedgerFiles
<1> HIDE DEF g
<1>1. g.schema = f.schema + 1 /\ g.has = f.has \cup {f.schema + 1} /\ g.units = f.units
  BY <1>0
<1>2. g.judged = IF f.schema + 1 = Judging THEN Backfilled(f) ELSE f.judged
  BY <1>0
<1>3. Backfilled(f) \in [Records -> Verdicts] /\ f.schema \in Int /\ f.schema + 1 \in Nat
  BY DEF Backfilled, LedgerFiles, Verdicts, Last
<1>4. g \in LedgerFiles
  BY <1>0, <1>3 DEF LedgerFiles, Last, Absent
<1>5. WellFormed(g)
  <2>1. g.has = 1..g.schema
    BY <1>1, <1>3 DEF WellFormed
  <2>2. QED
    BY <2>1, <1>1, <1>2, <1>3 DEF WellFormed, Recorded, Judging
<1>6. Verdict(f.units, g) = Verdict(f.units, f)
  <2>1. CASE f.schema + 1 = Judging
    BY <2>1, <1>1, <1>2, <1>3 DEF Verdict, Backfilled, WellFormed, Judging
  <2>2. CASE f.schema + 1 # Judging
    BY <2>2, <1>1, <1>2, <1>3 DEF Verdict, Judging
  <2>3. QED
    BY <2>1, <2>2
<1>7. QED
  BY <1>1, <1>4, <1>5, <1>6 DEF g

----------------------------------------------------------------------------
(* Writers.                                                                   *)

LEMMA VerdictType ==
  ASSUME NEW f \in LedgerFiles, NEW us \in SUBSET Records
  PROVE  Verdict(us, f) \in [Records -> Verdicts]
BY DEF Verdict, LedgerFiles, Verdicts

LEMMA OpenStep == ASSUME LedgerInv, NEW w \in Writers, Open(w) PROVE LedgerInv'
<1> USE DEF LedgerInv, Open, readVars
<1>1. file' \in LedgerFiles /\ WellFormed(file') /\ file'.units = file.units
      /\ Verdict(file'.units, file') = Verdict(file.units, file)
  <2>1. CASE file.schema = Absent
    <3>1. file' = [schema |-> 0, has |-> file.has, units |-> file.units, judged |-> file.judged]
      BY <2>1 DEF LedgerTypeOK, LedgerFiles
    <3>2. file'.has = 1..0 /\ 1..0 = {} /\ file.has = {}
      BY <3>1, <2>1 DEF WriterInv, WellFormed, Absent
    <3>3. QED
      BY <3>1, <3>2, <2>1, SMTT(20) DEF LedgerTypeOK, LedgerFiles, WriterInv, WellFormed, Verdict,
         Absent, Last, Recorded, Judging
  <2>2. CASE file.schema # Absent
    BY <2>2 DEF LedgerTypeOK, WriterInv
  <2>3. QED
    BY <2>1, <2>2
<1>2. ASSUME NEW v \in Writers, phase[v] = "inside" PROVE file' = file /\ v # w
  BY <1>2 DEF LedgerTypeOK, WriterInv, Absent, Last
<1>3. LedgerTypeOK'
  BY <1>1 DEF LedgerTypeOK
<1>4. WriterInv'
  BY <1>1, <1>2 DEF LedgerTypeOK, WriterInv
<1>5. ReaderInv'
  BY <1>1 DEF ReaderInv
<1>6. QED
  BY <1>3, <1>4, <1>5

LEMMA BeginStep ==
  ASSUME LedgerInv, NEW w \in Writers, Begin(w) \/ TimedOut(w) PROVE LedgerInv'
<1> USE DEF LedgerInv, readVars
<1>1. CASE Begin(w)
  <2>1. LedgerTypeOK'
    BY <1>1 DEF LedgerTypeOK, Begin, Last, LedgerFiles
  <2>2. WriterInv'
    BY <1>1, LedgerAssumption DEF LedgerTypeOK, WriterInv, Begin, Last, LedgerFiles, Absent
  <2>3. ReaderInv'
    BY <1>1 DEF ReaderInv, Begin
  <2>4. QED
    BY <2>1, <2>2, <2>3
<1>2. CASE TimedOut(w)
  BY <1>2, LedgerAssumption DEF LedgerTypeOK, WriterInv, ReaderInv, TimedOut
<1>3. QED
  BY <1>1, <1>2

LEMMA MigrateStep == ASSUME LedgerInv, NEW w \in Writers, Migrate(w) PROVE LedgerInv'
<1> USE DEF LedgerInv, Migrate, readVars
<1>1. /\ lock = w /\ Seen(w) = draft /\ draft \in LedgerFiles /\ WellFormed(draft)
      /\ step[w] = draft.schema + 1 /\ draft.schema \in 0..(Last - 1)
  BY DEF LedgerTypeOK, WriterInv, LedgerFiles, Seen, Last, Absent
<1>2. step[w] \notin Seen(w).has
  BY <1>1 DEF WellFormed
<1>3. lock' = w /\ phase' = phase /\ draft' = Migrated(draft, draft.schema + 1)
      /\ step' = [step EXCEPT ![w] = step[w] + 1] /\ file' = file
  BY <1>1, <1>2
<1>4. /\ draft' \in LedgerFiles /\ WellFormed(draft') /\ draft'.units = draft.units
      /\ Verdict(draft'.units, draft') = Verdict(draft.units, draft)
      /\ draft'.schema = draft.schema + 1
  BY <1>1, <1>3, MigratedSays DEF Migrated
<1>5. LedgerTypeOK'
  BY <1>1, <1>3, <1>4 DEF LedgerTypeOK, Last
<1>6. WriterInv'
  BY <1>1, <1>3, <1>4 DEF LedgerTypeOK, WriterInv, LedgerFiles, Last, Absent
<1>7. ReaderInv'
  BY <1>3 DEF ReaderInv
<1>8. QED
  BY <1>5, <1>6, <1>7

LEMMA CommitStep ==
  ASSUME LedgerInv, NEW w \in Writers, Commit(w) \/ Rollback(w) PROVE LedgerInv'
<1> USE LedgerAssumption DEF LedgerInv, readVars
<1>1. CASE Commit(w)
  <2>1. file' = draft /\ draft' = draft /\ lock = w
    BY <1>1 DEF LedgerTypeOK, WriterInv, Commit, Seen
  <2>2. file'.units = file.units /\ Verdict(file'.units, file') = Verdict(file.units, file)
    BY <1>1, <2>1 DEF WriterInv, Commit
  <2>3. LedgerTypeOK'
    BY <1>1, <2>1 DEF LedgerTypeOK, Commit, Last
  <2>4. WriterInv'
    BY <1>1, <2>1 DEF LedgerTypeOK, WriterInv, Commit
  <2>5. ReaderInv'
    BY <1>1, <2>2 DEF ReaderInv, Commit
  <2>6. QED
    BY <2>3, <2>4, <2>5
<1>2. CASE Rollback(w)
  <2>1. LedgerTypeOK'
    BY <1>2 DEF LedgerTypeOK, Rollback, Last
  <2>2. WriterInv'
    BY <1>2 DEF LedgerTypeOK, WriterInv, Rollback
  <2>3. ReaderInv'
    BY <1>2 DEF ReaderInv, Rollback
  <2>4. QED
    BY <2>1, <2>2, <2>3
<1>3. QED
  BY <1>1, <1>2

----------------------------------------------------------------------------
(* Readers.                                                                   *)

LEMMA ReaderStep ==
  ASSUME LedgerInv, NEW r \in Readers, Ask(r) \/ ReadUnits(r) \/ ReadMembers(r)
  PROVE  LedgerInv'
<1> USE DEF LedgerInv, fileVars
<1>1. UNCHANGED fileVars
  BY DEF Ask, ReadUnits, ReadMembers
<1>2. WriterInv'
  BY <1>1 DEF WriterInv, WellFormed
<1>3. CASE Ask(r)
  <2>1. file.schema = Absent => Verdict(file.units, file) = Unjudged
    BY DEF LedgerTypeOK, WriterInv, WellFormed, Verdict, Unjudged, Absent, Recorded, Judging
  <2>2. QED
    BY <1>1, <1>2, <1>3, <2>1 DEF LedgerTypeOK, ReaderInv, Ask
<1>4. CASE ReadUnits(r)
  <2>1. Recorded \notin file.has => Verdict(file.units, file) = Unjudged
    BY DEF LedgerTypeOK, LedgerFiles, WriterInv, WellFormed, Verdict, Unjudged, Absent,
           Last, Recorded, Judging
  <2>2. LedgerTypeOK'
    BY <1>1, <1>4 DEF LedgerTypeOK, LedgerFiles, ReadUnits
  <2>3. ReaderInv'
    BY <1>1, <1>4, <2>1 DEF LedgerTypeOK, ReaderInv, ReadUnits
  <2>4. QED
    BY <1>2, <2>2, <2>3
<1>5. CASE ReadMembers(r)
  <2>1. Verdict(units[r], file) \in [Records -> Verdicts]
    BY VerdictType DEF LedgerTypeOK
  <2>2. QED
    BY <1>1, <1>2, <1>5, <2>1 DEF LedgerTypeOK, ReaderInv, ReadMembers
<1>6. QED
  BY <1>3, <1>4, <1>5

----------------------------------------------------------------------------

LEMMA NextInv == ASSUME LedgerInv, [LedgerNext]_ledgerVars PROVE LedgerInv'
<1>1. CASE LedgerNext
  BY <1>1, OpenStep, BeginStep, MigrateStep, CommitStep, ReaderStep DEF LedgerNext
<1>2. CASE UNCHANGED ledgerVars
  <2>1. LedgerTypeOK'
    BY <1>2 DEF LedgerInv, LedgerTypeOK, ledgerVars
  <2>2. WriterInv'
    BY <1>2 DEF LedgerInv, WriterInv, ledgerVars
  <2>3. ReaderInv'
    BY <1>2 DEF LedgerInv, ReaderInv, ledgerVars
  <2>4. QED
    BY <2>1, <2>2, <2>3 DEF LedgerInv
<1>3. QED
  BY <1>1, <1>2

\* The invariant, for any number of writers and readers and any file found.
THEOREM LedgerHolds == LedgerSpec => []LedgerInv
BY InitInv, NextInv, PTL DEF LedgerSpec

\* AppliedOnce, for any number of processes that open the ledger and any
\* older version they find: no step of a migration is applied twice.
THEOREM StepsAppliedOnce == LedgerSpec => []AppliedOnce
<1>1. LedgerInv => AppliedOnce
  BY DEF LedgerInv, LedgerTypeOK, WriterInv, WellFormed, AppliedOnce
<1>2. QED
  BY <1>1, LedgerHolds, PTL

\* SameAnswer, for any number of readers and records: a migration, by another
\* process or cut off, never changes what was read of a record.
THEOREM AnswersStay == LedgerSpec => []SameAnswer
<1>1. LedgerInv => SameAnswer
  BY DEF LedgerInv, ReaderInv, SameAnswer
<1>2. QED
  BY <1>1, LedgerHolds, PTL

----------------------------------------------------------------------------
(* The run and the later paths.                                               *)


Row == [status : {"running", "completed", "failed"}, code : Int]
Spots == Paths \X Sides
Place == [kind : Kinds, writable : BOOLEAN, marker : {"none", "ours", "other"},
          copy : Seq(Row), temps : Int]
Results == {"", "served", "not ready", "not writable", "error"}
Copying == {"check", "copy", "replace"}
Ending == {"acting", "finish", "local", "again", "except"} \cup Copying

PlacesTypeOK ==
    /\ mounted \subseteq Paths /\ place \in [Spots -> Place] /\ ready \subseteq Paths
    /\ strays \in Nat

RunTypeOK ==
    /\ rows \in Seq(Row) /\ exits \in Seq(Int) /\ Len(exits) = Len(rows)
    /\ pc \in {"idle", "opening"} \cup Ending
    /\ at \in Nat /\ (pc \in Copying => at \in Paths)
    /\ failed \in BOOLEAN /\ deferred \in BOOLEAN
    /\ local \in Seq(Row) /\ outcome \in [Paths -> Results]
    /\ pc \in Ending => Len(rows) # 0

\* The row of the run in hand, from the moment it is completed: it is right as
\* long as every path so far was served, and written again otherwise.
RowInv ==
    /\ pc \in Ending => exits[Me] = Alive
    /\ pc = "local" => rows[Me] = Completed
    /\ pc \in Copying => local = rows
    /\ pc \in Copying /\ (\A p \in Paths : p < at => outcome[p] = "served")
       => rows[Me] = Completed
    /\ pc \in Copying => failed \/ \A p \in Paths : p < at => outcome[p] = "served"
    /\ pc = "again" => failed

----------------------------------------------------------------------------
(* Types.                                                                     *)

LEMMA RowAppended ==
  ASSUME NEW T, NEW s \in Seq(T), NEW e \in T
  PROVE  /\ Append(s, e) \in Seq(T) /\ Len(Append(s, e)) = Len(s) + 1
         /\ Append(s, e)[Len(s) + 1] = e
         /\ \A i \in 1..Len(s) : Append(s, e)[i] = s[i]
OBVIOUS

LEMMA RowReplaced ==
  ASSUME NEW T, NEW s \in Seq(T), NEW i \in 1..Len(s), NEW e \in T,
         NEW q, q = [s EXCEPT ![i] = e]
  PROVE  /\ q \in Seq(T) /\ Len(q) = Len(s) /\ q[i] = e
         /\ \A j \in 1..Len(s) : j # i => q[j] = s[j]
OBVIOUS

LEMMA HereIsSpot == ASSUME NEW p \in Paths PROVE Here(p) \in Spots /\ Here(p)[1] = p
BY DEF Here, Spots, Sides

\* What a step may do to one place: one of its fields changes, and nothing else.
LEMMA KindChanged ==
  ASSUME NEW P \in [Spots -> Place], NEW Q, NEW x \in Spots, NEW k \in Kinds,
         Q = [P EXCEPT ![x].kind = k]
  PROVE  /\ Q \in [Spots -> Place]
         /\ Q[x].kind = k
         /\ \A y \in Spots : y # x => Q[y] = P[y]
         /\ \A y \in Spots : /\ Q[y].writable = P[y].writable /\ Q[y].marker = P[y].marker
                             /\ Q[y].copy = P[y].copy /\ Q[y].temps = P[y].temps
<1>1. P[x] \in Place /\ Q[x] = [P[x] EXCEPT !.kind = k]
  OBVIOUS
<1>2. [P[x] EXCEPT !.kind = k] =
      [kind |-> k, writable |-> P[x].writable, marker |-> P[x].marker, copy |-> P[x].copy, temps |-> P[x].temps]
  BY <1>1 DEF Place
<1>3. QED
  BY <1>1, <1>2 DEF Place

LEMMA WritableChanged ==
  ASSUME NEW P \in [Spots -> Place], NEW Q, NEW x \in Spots, NEW b \in BOOLEAN,
         Q = [P EXCEPT ![x].writable = b]
  PROVE  /\ Q \in [Spots -> Place]
         /\ Q[x].writable = b
         /\ \A y \in Spots : y # x => Q[y] = P[y]
         /\ \A y \in Spots : /\ Q[y].kind = P[y].kind /\ Q[y].marker = P[y].marker
                             /\ Q[y].copy = P[y].copy /\ Q[y].temps = P[y].temps
<1>1. P[x] \in Place /\ Q[x] = [P[x] EXCEPT !.writable = b]
  OBVIOUS
<1>2. [P[x] EXCEPT !.writable = b] =
      [kind |-> P[x].kind, writable |-> b, marker |-> P[x].marker, copy |-> P[x].copy, temps |-> P[x].temps]
  BY <1>1 DEF Place
<1>3. QED
  BY <1>1, <1>2 DEF Place

LEMMA MarkerChanged ==
  ASSUME NEW P \in [Spots -> Place], NEW Q, NEW x \in Spots, NEW m \in {"none", "ours", "other"},
         Q = [P EXCEPT ![x].marker = m]
  PROVE  /\ Q \in [Spots -> Place]
         /\ Q[x].marker = m
         /\ \A y \in Spots : y # x => Q[y] = P[y]
         /\ \A y \in Spots : /\ Q[y].kind = P[y].kind /\ Q[y].writable = P[y].writable
                             /\ Q[y].copy = P[y].copy /\ Q[y].temps = P[y].temps
<1>1. P[x] \in Place /\ Q[x] = [P[x] EXCEPT !.marker = m]
  OBVIOUS
<1>2. [P[x] EXCEPT !.marker = m] =
      [kind |-> P[x].kind, writable |-> P[x].writable, marker |-> m, copy |-> P[x].copy, temps |-> P[x].temps]
  BY <1>1 DEF Place
<1>3. QED
  BY <1>1, <1>2 DEF Place

LEMMA CopyChanged ==
  ASSUME NEW P \in [Spots -> Place], NEW Q, NEW x \in Spots, NEW c \in Seq(Row),
         Q = [P EXCEPT ![x].copy = c]
  PROVE  /\ Q \in [Spots -> Place]
         /\ Q[x].copy = c
         /\ \A y \in Spots : y # x => Q[y] = P[y]
         /\ \A y \in Spots : /\ Q[y].kind = P[y].kind /\ Q[y].writable = P[y].writable
                             /\ Q[y].marker = P[y].marker /\ Q[y].temps = P[y].temps
<1>1. P[x] \in Place /\ Q[x] = [P[x] EXCEPT !.copy = c]
  OBVIOUS
<1>2. [P[x] EXCEPT !.copy = c] =
      [kind |-> P[x].kind, writable |-> P[x].writable, marker |-> P[x].marker, copy |-> c, temps |-> P[x].temps]
  BY <1>1 DEF Place
<1>3. QED
  BY <1>1, <1>2 DEF Place

LEMMA TempsChanged ==
  ASSUME NEW P \in [Spots -> Place], NEW Q, NEW x \in Spots, NEW n \in Int,
         Q = [P EXCEPT ![x].temps = n]
  PROVE  /\ Q \in [Spots -> Place]
         /\ Q[x].temps = n
         /\ \A y \in Spots : y # x => Q[y] = P[y]
         /\ \A y \in Spots : /\ Q[y].kind = P[y].kind /\ Q[y].writable = P[y].writable
                             /\ Q[y].marker = P[y].marker /\ Q[y].copy = P[y].copy
<1>1. P[x] \in Place /\ Q[x] = [P[x] EXCEPT !.temps = n]
  OBVIOUS
<1>2. [P[x] EXCEPT !.temps = n] =
      [kind |-> P[x].kind, writable |-> P[x].writable, marker |-> P[x].marker, copy |-> P[x].copy, temps |-> n]
  BY <1>1 DEF Place
<1>3. QED
  BY <1>1, <1>2 DEF Place

----------------------------------------------------------------------------
(* Types.                                                                     *)

LEMMA ResultType ==
  ASSUME RunTypeOK, pc \in Copying, NEW result \in Results, Done(result)
  PROVE  RunTypeOK'
<1> USE DestinationsAssumption DEF RunTypeOK, Paths, Ending, Copying
<1>1. ExitCode \in Int /\ Me \in 1..Len(exits)
  BY DEF ExitCode, Me
<1>2. outcome' \in [Paths -> Results] /\ failed' \in BOOLEAN
      /\ deferred' = deferred /\ rows' = rows
  BY DEF Done
<1>3. CASE at # End
  BY <1>2, <1>3 DEF Done
<1>4. CASE at = End
  <2>1. local' = None /\ at' = at
    BY <1>4 DEF Done
  <2>2. exits' \in Seq(Int) /\ Len(exits') = Len(exits) /\ pc' \in {"idle", "again"}
    <3>1. [exits EXCEPT ![Me] = ExitCode] \in Seq(Int)
          /\ Len([exits EXCEPT ![Me] = ExitCode]) = Len(exits)
      BY <1>1
    <3>2. CASE \A p \in Paths : outcome'[p] = "served"
      BY <1>4, <3>1, <3>2 DEF Done, Exit
    <3>3. CASE ~\A p \in Paths : outcome'[p] = "served"
      BY <1>4, <3>3 DEF Done
    <3>4. QED
      BY <3>2, <3>3
  <2>3. QED
    BY <1>2, <2>1, <2>2 DEF None
<1>5. QED
  BY <1>3, <1>4

----------------------------------------------------------------------------
(* The row and the exit.                                                      *)

EndInv == RunTypeOK /\ RowInv /\ RowTellsExit

LEMMA ExitType == ASSUME RunTypeOK PROVE ExitCode \in {0, 1, 3} /\ Completed \in Row
BY DEF RunTypeOK, ExitCode, Completed, Row

LEMMA PathsInOrder ==
  /\ End \in Paths
  /\ \A p \in Paths : p \in Int /\ p <= End /\ (p # End => p < End /\ p + 1 \in Paths)
BY DestinationsAssumption DEF Paths

\* The paths before the next one, and all of them, when at is done.
LEMMA Before ==
  ASSUME NEW f \in [Paths -> Results], NEW i \in Paths, NEW r \in Results, NEW g,
         g = [f EXCEPT ![i] = r]
  PROVE  /\ (\A p \in Paths : p < i + 1 => g[p] = "served") <=>
               r = "served" /\ \A p \in Paths : p < i => f[p] = "served"
         /\ i = End => ((\A p \in Paths : g[p] = "served") <=>
               (r = "served" /\ \A p \in Paths : p < i => f[p] = "served"))
<1>1. \A p \in Paths : g[p] = IF p = i THEN r ELSE f[p]
  OBVIOUS
<1>2. \A p \in Paths : (p < i + 1 <=> p = i \/ p < i) /\ (i = End => p = i \/ p < i)
      /\ (p < i => p # i)
  BY PathsInOrder
<1>3. QED
  BY <1>1, <1>2

LEMMA DoneEnds ==
  ASSUME EndInv, pc \in Copying, NEW result \in Results, Done(result)
  PROVE  EndInv'
<1> USE DEF Copying, Ending
<1> DEFINE Good == \A p \in Paths : p < at => outcome[p] = "served"
<1> HIDE DEF Good
<1>0. RunTypeOK'
  BY ResultType DEF EndInv
<1>1. RunTypeOK /\ at \in Paths /\ pc \in Ending
  BY DEF EndInv, RunTypeOK, Ending
<1>2. outcome' = [outcome EXCEPT ![at] = result] /\ outcome \in [Paths -> Results]
  BY <1>1 DEF Done, RunTypeOK
<1>3. rows' = rows /\ Completed' = [status |-> "completed", code |-> ExitCode']
  BY DEF Done, Completed
<1>4. result = "served" => ExitCode' = ExitCode
  BY DEF Done, ExitCode
<1>5. Good => rows[Me] = Completed
  BY <1>1 DEF EndInv, RowInv, Good
<1>6. ~Good \/ result # "served" => failed'
  BY DEF Done, EndInv, RowInv, Good
<1>7. CASE at # End
  <2>1. pc' = "check" /\ at' = at + 1 /\ local' = local /\ exits' = exits
    BY <1>7 DEF Done
  <2>2. (\A p \in Paths : p < at' => outcome'[p] = "served") <=> result = "served" /\ Good
    <3>1. at' = at + 1
      BY <2>1
    <3>2. QED
      BY <1>1, <1>2, <3>1, Before DEF Good
  <2>3. RowInv'
    <3>1. exits'[Me'] = Alive /\ local' = rows'
      BY <1>1, <1>3, <2>1 DEF EndInv, RowInv, Me
    <3>2. result = "served" /\ Good => rows'[Me'] = Completed'
      BY <1>3, <1>4, <1>5 DEF Me, Completed
    <3>3. QED
      BY <1>6, <2>1, <2>2, <3>1, <3>2 DEF RowInv, Ending, Copying
  <2>4. RowTellsExit'
    BY <1>3, <2>1 DEF EndInv, RowTellsExit, Me
  <2>5. QED
    BY <1>0, <2>3, <2>4 DEF EndInv
<1>8. CASE at = End
  <2>1. (\A p \in Paths : outcome'[p] = "served") <=> result = "served" /\ Good
    BY <1>1, <1>2, <1>8, Before DEF Good
  <2>2. CASE result = "served" /\ Good
    <3>1. exits' = [exits EXCEPT ![Me] = ExitCode] /\ pc' = "idle"
      BY <1>8, <2>1, <2>2 DEF Done, Exit
    <3>2. Me \in 1..Len(exits) /\ exits \in Seq(Int) /\ Len(exits) = Me
      BY <1>1 DEF RunTypeOK, Me
    <3>3. exits'[Me] = ExitCode /\ \A i \in 1..Me : i # Me => exits'[i] = exits[i]
      BY <1>1, <3>1, <3>2, ExitType, RowReplaced
    <3>4. RowTellsExit'
      BY <1>3, <1>5, <2>2, <3>3 DEF EndInv, RowTellsExit, Completed, Me
    <3>5. QED
      BY <1>0, <3>1, <3>4 DEF EndInv, RowInv, Ending, Copying
  <2>3. CASE ~(result = "served" /\ Good)
    <3>1. pc' = "again" /\ exits' = exits
      BY <1>8, <2>1, <2>3 DEF Done
    <3>2. RowInv'
      BY <1>1, <1>3, <1>6, <2>3, <3>1 DEF EndInv, RowInv, Ending, Copying, Me
    <3>3. RowTellsExit'
      BY <1>3, <3>1 DEF EndInv, RowTellsExit, Me
    <3>4. QED
      BY <1>0, <3>2, <3>3 DEF EndInv
  <2>4. QED
    BY <2>2, <2>3
<1>9. QED
  BY <1>7, <1>8

LEMMA ResultNames ==
  "" \in Results /\ "served" \in Results /\ "error" \in Results
  /\ "not ready" \in Results /\ "not writable" \in Results
BY DEF Results

\* The run ends: its row keeps what it said, or says that it failed.
Ends(code) ==
    /\ Exit(code)
    /\ rows' \in Seq(Row) /\ Len(rows') = Len(rows)
    /\ \A i \in 1..Len(rows) : i # Len(rows) => rows'[i] = rows[i]
    /\ code \in {0, 1, 3} =>
          \/ rows'[Len(rows)] = [status |-> "completed", code |-> code]
          \/ rows'[Len(rows)].status = "failed" /\ code = 1
    /\ UNCHANGED <<at, failed, deferred, outcome>>
    /\ local' = local \/ local' = None

LEMMA ExitEnds ==
  ASSUME EndInv, pc \in Ending, NEW code \in Int, Ends(code)
  PROVE  EndInv'
<1> USE DEF Copying, Ending
<1>1. Me \in 1..Len(exits) /\ exits \in Seq(Int) /\ Len(exits) = Me /\ Len(rows) = Me
  BY DEF EndInv, RunTypeOK, Me
<1>2. exits' = [exits EXCEPT ![Me] = code] /\ pc' = "idle"
  BY DEF Ends, Exit
<1>3. exits' \in Seq(Int) /\ Len(exits') = Len(exits) /\ exits'[Me] = code
      /\ \A i \in 1..Me : i # Me => exits'[i] = exits[i]
  BY <1>1, <1>2, RowReplaced
<1>4. RunTypeOK'
  <2>1. local' \in Seq(Row)
    <3>1. <<>> \in Seq(Row) /\ local \in Seq(Row)
      BY DEF EndInv, RunTypeOK
    <3>2. QED
      BY <3>1 DEF Ends, None
  <2>2. QED
    BY <1>1, <1>2, <1>3, <2>1 DEF Ends, EndInv, RunTypeOK
<1>5. RowTellsExit'
  BY <1>1, <1>3 DEF Ends, EndInv, RowTellsExit, Me
<1>6. QED
  BY <1>2, <1>4, <1>5 DEF EndInv, RowInv

LEMMA RunBeginEnds == ASSUME EndInv, RunBegin PROVE EndInv'
<1> USE DEF Copying, Ending
<1> DEFINE new == [status |-> "running", code |-> -1]
<1>1. /\ rows' = Append(rows, new) /\ exits' = Append(exits, Alive) /\ pc' = "acting"
      /\ UNCHANGED <<at, failed, deferred, local, outcome>>
  BY DEF RunBegin
<1>2. new \in Row /\ Alive \in Int /\ rows \in Seq(Row) /\ exits \in Seq(Int)
      /\ Len(exits) = Len(rows)
  BY DEF Row, Alive, EndInv, RunTypeOK
<1>3. rows' \in Seq(Row) /\ Len(rows') = Len(rows) + 1
      /\ \A i \in 1..Len(rows) : rows'[i] = rows[i]
  BY <1>1, <1>2, RowAppended
<1>4. exits' \in Seq(Int) /\ Len(exits') = Len(rows) + 1 /\ exits'[Len(rows) + 1] = Alive
      /\ \A i \in 1..Len(rows) : exits'[i] = exits[i]
  BY <1>1, <1>2, RowAppended
<1>5. Len(rows) \in Nat
  BY <1>2
<1>6. RunTypeOK'
  BY <1>1, <1>3, <1>4, <1>5 DEF EndInv, RunTypeOK
<1>7. RowInv'
  BY <1>1, <1>3, <1>4 DEF RowInv, Me
<1>8. RowTellsExit'
  <2>1. ASSUME NEW i \in 1..(Len(rows) + 1), exits'[i] \in {0, 1, 3}
        PROVE  i \in 1..Len(rows) /\ exits'[i] = exits[i] /\ rows'[i] = rows[i]
    BY <1>3, <1>4, <1>5, <2>1 DEF Alive
  <2>2. QED
    BY <1>3, <2>1 DEF EndInv, RowTellsExit, Me
<1>9. QED
  BY <1>6, <1>7, <1>8 DEF EndInv

LEMMA RunFinishEnds == ASSUME EndInv, RunFinish PROVE EndInv'
<1> USE DEF Copying, Ending
<1>1. Me \in 1..Len(exits) /\ Len(exits) = Me /\ Len(rows) = Me /\ rows \in Seq(Row)
  BY DEF EndInv, RunTypeOK, Me, RunFinish
<1>2. Completed \in Row /\ ExitCode \in {0, 1, 3}
  BY ExitType DEF EndInv
<1>3. CASE pc' = "except" /\ UNCHANGED <<rows, exits>>
  BY <1>3 DEF RunFinish, EndInv, RunTypeOK, RowInv, RowTellsExit, Me
<1>4. CASE /\ rows' = [rows EXCEPT ![Me] = Completed]
           /\ IF pc = "finish" THEN pc' = "local" /\ UNCHANGED exits ELSE Exit(ExitCode)
  <2>1. rows' \in Seq(Row) /\ Len(rows') = Me /\ rows'[Me] = Completed
        /\ \A i \in 1..Me : i # Me => rows'[i] = rows[i]
    BY <1>1, <1>2, <1>4, RowReplaced
  <2>2. CASE pc = "finish" /\ pc' = "local" /\ UNCHANGED exits
    <3>1. UNCHANGED <<at, failed, deferred, local, outcome>>
      BY DEF RunFinish
    <3>2. Completed' = Completed
      BY <3>1 DEF Completed, ExitCode
    <3>3. RunTypeOK'
      BY <1>1, <2>1, <2>2, <3>1 DEF EndInv, RunTypeOK
    <3>4. RowInv'
      BY <1>1, <2>1, <2>2, <3>2 DEF EndInv, RowInv, Me
    <3>5. RowTellsExit'
      BY <1>1, <2>1, <2>2 DEF EndInv, RowInv, RowTellsExit, Me, Alive
    <3>6. QED
      BY <3>3, <3>4, <3>5 DEF EndInv
  <2>3. CASE pc = "again" /\ Exit(ExitCode)
    <3>1. UNCHANGED <<at, failed, deferred, outcome>> /\ local' = local
      BY DEF RunFinish
    <3>2. rows'[Len(rows)] = [status |-> "completed", code |-> ExitCode]
      BY <1>1, <2>1 DEF Completed
    <3>3. ExitCode \in Int /\ \A i \in 1..Len(rows) : i # Len(rows) => rows'[i] = rows[i]
      BY <1>1, <1>2, <2>1
    <3>4. Ends(ExitCode)
      BY <1>1, <2>1, <2>3, <3>1, <3>2, <3>3 DEF Ends
    <3>5. pc \in Ending
      BY <2>3
    <3>6. QED
      BY <3>3, <3>4, <3>5, ExitEnds
  <2>4. QED
    BY <1>4, <2>2, <2>3 DEF RunFinish
<1>5. QED
  BY <1>3, <1>4 DEF RunFinish

LEMMA RunFailEnds == ASSUME EndInv, RunFail PROVE EndInv'
<1> USE DEF Copying, Ending
<1>1. Len(rows) \in Nat \ {0} /\ rows \in Seq(Row) /\ Me = Len(rows) /\ pc = "except"
      /\ UNCHANGED <<at, failed, deferred, outcome>> /\ local' = local
  BY DEF EndInv, RunTypeOK, Me, RunFail
<1>2. CASE rows' = [rows EXCEPT ![Me].status = "failed"] /\ Exit(1)
  <2> DEFINE row == [rows[Me] EXCEPT !.status = "failed"]
  <2>1. row = [status |-> "failed", code |-> rows[Me].code] /\ rows[Me] \in Row
    <3>1. rows[Me] \in Row
      BY <1>1
    <3>2. QED
      BY <3>1 DEF Row
  <2>2. row \in Row /\ row.status = "failed"
    BY <2>1 DEF Row
  <2>3. rows' = [rows EXCEPT ![Me] = row]
    BY <1>2
  <2> HIDE DEF row
  <2>4. rows' \in Seq(Row) /\ Len(rows') = Len(rows) /\ rows'[Len(rows)] = row
        /\ \A i \in 1..Len(rows) : i # Len(rows) => rows'[i] = rows[i]
    BY <1>1, <2>2, <2>3, RowReplaced
  <2>5. Ends(1)
    BY <1>1, <1>2, <2>2, <2>4 DEF Ends
  <2>6. QED
    BY <1>1, <2>5, ExitEnds
<1>3. CASE rows' = rows /\ Exit(Untold)
  <2>1. Ends(Untold) /\ Untold \in Int
    BY <1>1, <1>3 DEF Ends, Untold
  <2>2. QED
    BY <1>1, <2>1, ExitEnds
<1>4. QED
  BY <1>2, <1>3 DEF RunFail

\* Steps of the run that leave its row and every exit alone.
LEMMA RunGoesOn ==
  ASSUME EndInv, pc \in Ending, UNCHANGED <<rows, exits>>, local' \in Seq(Row),
         at' \in Nat, failed' \in BOOLEAN, deferred' \in BOOLEAN, UNCHANGED outcome,
         \/ pc = "acting" /\ pc' = "finish"
         \/ pc' = "except"
         \/ pc = "local" /\ pc' = "check" /\ at' = 1 /\ local' = rows
            /\ UNCHANGED <<failed, deferred>>
         \/ pc \in Copying /\ pc' \in Copying
            /\ UNCHANGED <<at, local, failed, deferred>>
  PROVE  EndInv'
<1> USE DEF Copying, Ending
<1>1. 1 \in Paths /\ \A p \in Paths : ~(p < 1)
  BY DestinationsAssumption DEF Paths
<1>2. RunTypeOK'
  BY <1>1 DEF EndInv, RunTypeOK
<1>3. RowTellsExit'
  BY DEF EndInv, RowTellsExit, Me
<1>4. RowInv'
  <2>1. UNCHANGED <<failed, deferred>> => Completed' = Completed
    BY DEF Completed, ExitCode
  <2>2. QED
    BY <1>1, <2>1 DEF EndInv, RowInv, Me
<1>5. QED
  BY <1>2, <1>3, <1>4 DEF EndInv

LEMMA RunEnds == ASSUME EndInv, Run PROVE EndInv'
<1> USE DEF Copying, Ending
<1>0. RunTypeOK /\ None \in Seq(Row)
  BY DEF EndInv, None
<1>1. CASE RunStart
  <2>1. [p \in Paths |-> ""] \in [Paths -> Results]
    BY ResultNames
  <2>2. /\ pc' = "opening" /\ failed' = FALSE /\ deferred' = FALSE
        /\ outcome' = [p \in Paths |-> ""] /\ UNCHANGED <<rows, exits, at, local>>
    BY <1>1 DEF RunStart
  <2>3. QED
    BY <2>1, <2>2 DEF EndInv, RunTypeOK, RowInv, RowTellsExit, Me
<1>2. CASE RunRefused
  BY <1>2 DEF RunRefused, EndInv, RunTypeOK, RowInv, RowTellsExit, Me
<1>3. CASE RunAct
  BY <1>0, <1>3, RunGoesOn DEF RunAct, RunTypeOK
<1>4. CASE RunLocal
  BY <1>0, <1>4, RunGoesOn DEF RunLocal, RunTypeOK
<1>5. CASE RunCheck
  <2>1. CASE Done("not ready")
    BY <1>5, <2>1, DoneEnds, ResultNames DEF RunCheck
  <2>2. CASE pc' = "copy" /\ UNCHANGED <<rows, exits, at, failed, deferred, local, outcome>>
    BY <1>0, <1>5, <2>2, RunGoesOn DEF RunCheck, RunTypeOK
  <2>3. QED
    BY <1>5, <2>1, <2>2 DEF RunCheck
<1>6. CASE RunCopy
  <2>1. CASE Done("not writable")
    BY <1>6, <2>1, DoneEnds, ResultNames DEF RunCopy
  <2>2. CASE pc' = "replace" /\ UNCHANGED <<rows, exits, at, failed, deferred, local, outcome>>
    BY <1>0, <1>6, <2>2, RunGoesOn DEF RunCopy, RunTypeOK
  <2>3. QED
    BY <1>6, <2>1, <2>2 DEF RunCopy
<1>7. CASE RunReplace
  BY <1>7, DoneEnds, ResultNames DEF RunReplace
<1>8. CASE RunCopyFails
  BY <1>8, DoneEnds, ResultNames DEF RunCopyFails
<1>9. CASE RunCleanFails
  BY <1>0, <1>9, RunGoesOn DEF RunCleanFails, RunTypeOK
<1>10. CASE RunKilled
  <2>1. CASE pc = "opening"
    BY <1>10, <2>1 DEF RunKilled, EndInv, RunTypeOK, RowInv, RowTellsExit, Me
  <2>2. CASE pc # "opening"
    <3>1. pc \in Ending /\ Killed \in Int
      BY <1>0, <1>10, <2>2 DEF RunKilled, RunTypeOK, Killed
    <3>2. Ends(Killed)
      BY <1>0, <1>10, <2>2 DEF RunKilled, RunTypeOK, Ends, Killed
    <3>3. QED
      BY <3>1, <3>2, ExitEnds
  <2>3. QED
    BY <2>1, <2>2
<1>11. QED
  BY <1>1, <1>2, <1>3, <1>4, <1>5, <1>6, <1>7, <1>8, <1>9, <1>10,
     RunBeginEnds, RunFinishEnds, RunFailEnds DEF Run

LEMMA OthersEnd == ASSUME EndInv, UNCHANGED runVars PROVE EndInv'
BY DEF EndInv, RunTypeOK, RowInv, RowTellsExit, Me, Completed, ExitCode, runVars

LEMMA NextEnds == ASSUME EndInv, [Next]_dvars PROVE EndInv'
BY RunEnds, OthersEnd DEF Next, Ledger, Prepare, PrepareStart, PrepareDirectory,
   PrepareMarker, ValidatePath, Outside, dvars

LEMMA InitEnds == ASSUME Init PROVE EndInv
<1>1. [p \in Paths |-> ""] \in [Paths -> Results]
  BY ResultNames
<1>2. /\ rows = <<>> /\ exits = <<>> /\ local = <<>> /\ outcome = [p \in Paths |-> ""]
      /\ pc = "idle" /\ at = 0 /\ failed = FALSE /\ deferred = FALSE
  BY DEF Init, None
<1>3. rows \in Seq(Row) /\ exits \in Seq(Int) /\ local \in Seq(Row)
      /\ Len(rows) = 0 /\ Len(exits) = 0
  <2>1. <<>> \in Seq(Row) /\ <<>> \in Seq(Int) /\ Len(<<>>) = 0
    OBVIOUS
  <2>2. QED
    BY <1>2, <2>1
<1>4. RunTypeOK
  <2>1. outcome \in [Paths -> Results]
    BY <1>1, <1>2
  <2>2. pc \notin Ending /\ pc \notin Copying /\ pc \in {"idle", "opening"}
    BY <1>2 DEF Ending, Copying
  <2>3. QED
    BY <1>2, <1>3, <2>1, <2>2 DEF RunTypeOK
<1>5. RowInv
  BY <1>2 DEF RowInv, Ending, Copying
<1>6. 1..Me = {}
  BY <1>3 DEF Me
<1>7. QED
  BY <1>4, <1>5, <1>6 DEF EndInv, RowTellsExit

\* RowTellsExit, for any number of runs, paths and failures: what the row says
\* of a run is how its process ended.
THEOREM RowsTellExits == Spec => []RowTellsExit
<1>1. Spec => []EndInv
  BY InitEnds, NextEnds, PTL DEF Spec
<1>2. EndInv => RowTellsExit
  BY DEF EndInv
<1>3. QED
  BY <1>1, <1>2, PTL

----------------------------------------------------------------------------
(* The ledger is the one of LedgerFile, whatever else goes on.                *)

LEMMA LedgerSteps == ASSUME [Next]_dvars PROVE [LedgerNext]_ledgerVars
<1> USE DestinationsAssumption
<1>1. CASE Run
  BY <1>1 DEF Run, RunStart, RunBegin, RunRefused, RunAct, RunFinish, RunLocal, RunCheck,
     RunCopy, RunReplace, RunCopyFails, RunCleanFails, RunFail, RunKilled, LedgerNext
<1>2. CASE Ledger
  BY <1>2 DEF Ledger, LedgerNext
<1>3. CASE Prepare \/ \E p \in Paths : Outside(p)
  BY <1>3 DEF Prepare, PrepareStart, PrepareDirectory, PrepareMarker, ValidatePath, Outside
<1>4. CASE UNCHANGED dvars
  BY <1>4 DEF dvars
<1>5. QED
  BY <1>1, <1>2, <1>3, <1>4 DEF Next

\* Runs, paths and preparations use the ledger as LedgerFile has it, so its
\* theorems hold of them.
THEOREM LedgerIsKept == Spec => LedgerSpec
<1>1. Init => LedgerInit
  BY DEF Init
<1>2. QED
  BY <1>1, LedgerSteps, PTL DEF Spec, LedgerSpec

----------------------------------------------------------------------------
(* What is at the paths.                                                      *)

PlaceInv ==
    /\ PlacesTypeOK
    /\ \A x \in Spots : place[x].marker # "none" => place[x].kind = "dir"
    /\ \A p \in ready : At(p).kind = "dir" /\ At(p).writable /\ At(p).marker = "ours"
    /\ pc \in {"copy", "replace"} => at \in Paths /\ At(at).marker # "none"
    /\ TempsFromKills

\* A step that copies nothing there, and takes no marker away.
Keeps(x) ==
    /\ place'[x].copy = place[x].copy
    /\ place[x].marker # "none" => place'[x].marker # "none"

LEMMA DirectoryPlaces ==
  ASSUME PlaceInv, NEW p \in Paths, PrepareDirectory(p)
  PROVE  PlaceInv' /\ \A x \in Spots : Keeps(x)
<1> DEFINE k == IF place[Here(p)].kind = "absent" THEN "dir" ELSE place[Here(p)].kind
<1>1. place \in [Spots -> Place] /\ Here(p) \in Spots
  BY HereIsSpot DEF PlaceInv, PlacesTypeOK
<1>2. k \in Kinds /\ (place[Here(p)].kind = "dir" => k = "dir")
  BY <1>1 DEF Place, Kinds
<1>3. place' = [place EXCEPT ![Here(p)].kind = k] /\ UNCHANGED <<mounted, ready, strays, pc, at>>
  BY DEF PrepareDirectory, runVars, bounds
<1> HIDE DEF k
<1>4. /\ place' \in [Spots -> Place] /\ place'[Here(p)].kind = k
      /\ \A x \in Spots : x # Here(p) => place'[x] = place[x]
      /\ \A x \in Spots : /\ place'[x].writable = place[x].writable
                          /\ place'[x].marker = place[x].marker
                          /\ place'[x].copy = place[x].copy /\ place'[x].temps = place[x].temps
  BY <1>1, <1>2, <1>3, KindChanged
<1>5. \A q \in Paths : Here(q)' = Here(q) /\ Here(q) \in Spots
  BY <1>3, HereIsSpot DEF Here
<1>6. ready \subseteq Paths
  BY DEF PlaceInv, PlacesTypeOK
<1>7. PlacesTypeOK'
  BY <1>3, <1>4 DEF PlaceInv, PlacesTypeOK
<1>8. \A x \in Spots : place[x].kind = "dir" => place'[x].kind = "dir"
  BY <1>2, <1>4
<1>9. TempsFromKills'
  BY <1>3, <1>4 DEF PlaceInv, TempsFromKills, Spots, Here
<1>10. QED
  BY <1>3, <1>4, <1>5, <1>6, <1>7, <1>8, <1>9 DEF PlaceInv, Keeps, At

LEMMA MarkerPlaces ==
  ASSUME PlaceInv, NEW p \in Paths, PrepareMarker(p)
  PROVE  PlaceInv' /\ \A x \in Spots : Keeps(x)
<1>1. place \in [Spots -> Place] /\ Here(p) \in Spots /\ ready \subseteq Paths
  BY HereIsSpot DEF PlaceInv, PlacesTypeOK
<1>2. UNCHANGED <<mounted, strays, pc, at>>
  BY DEF PrepareMarker, runVars, bounds
<1>3. \A q \in Paths : Here(q)' = Here(q) /\ Here(q) \in Spots
  BY <1>2, HereIsSpot DEF Here
<1>4. CASE UNCHANGED <<place, ready>>
  <2>1. TempsFromKills'
    BY <1>2, <1>4 DEF PlaceInv, TempsFromKills, Here
  <2>2. QED
    BY <1>1, <1>2, <1>3, <1>4, <2>1 DEF PlaceInv, PlacesTypeOK, Keeps, At
<1>5. CASE /\ \/ At(p).marker = "ours"
              \/ At(p).kind = "dir" /\ At(p).writable /\ At(p).marker = "none"
           /\ place' = [place EXCEPT ![Here(p)].marker = "ours"]
           /\ ready' = IF At(p).writable THEN ready \cup {p} ELSE ready
  <2>1. /\ place' \in [Spots -> Place] /\ place'[Here(p)].marker = "ours"
        /\ \A x \in Spots : x # Here(p) => place'[x] = place[x]
        /\ \A x \in Spots : /\ place'[x].kind = place[x].kind
                            /\ place'[x].writable = place[x].writable
                            /\ place'[x].copy = place[x].copy /\ place'[x].temps = place[x].temps
    BY <1>1, <1>5, MarkerChanged
  <2>2. At(p).kind = "dir"
    BY <1>1, <1>5 DEF PlaceInv, At
  <2>3. PlacesTypeOK'
    BY <1>1, <1>2, <1>5, <2>1 DEF PlaceInv, PlacesTypeOK
  <2>4. TempsFromKills'
    BY <1>2, <2>1 DEF PlaceInv, TempsFromKills, Spots, Here
  <2>5. \A x \in Spots : place'[x].marker # "none" => place'[x].kind = "dir"
    BY <2>1, <2>2 DEF PlaceInv, At
  <2>6. ASSUME NEW q \in ready'
        PROVE  At(q).kind' = "dir" /\ At(q).writable' /\ At(q).marker' = "ours"
    <3>1. CASE q = p /\ At(p).writable
      BY <1>3, <2>1, <2>2, <3>1 DEF At
    <3>2. CASE q \in ready
      BY <1>1, <1>3, <2>1, <3>2 DEF PlaceInv, At
    <3>3. QED
      BY <1>5, <3>1, <3>2
  <2>7. QED
    BY <1>2, <1>3, <2>1, <2>3, <2>4, <2>5, <2>6 DEF PlaceInv, Keeps, At
<1>6. QED
  BY <1>4, <1>5 DEF PrepareMarker

LEMMA ValidatePlaces ==
  ASSUME PlaceInv, NEW p \in Paths, ValidatePath(p)
  PROVE  PlaceInv' /\ \A x \in Spots : Keeps(x)
<1>1. UNCHANGED <<mounted, place, strays, pc, at>> /\ ready' = ready \cup {p}
  BY DEF ValidatePath, runVars, bounds
<1>2. \A q : Here(q)' = Here(q) /\ At(q)' = At(q)
  BY <1>1 DEF Here, At
<1>3. TempsFromKills'
  BY <1>1, <1>2 DEF PlaceInv, TempsFromKills
<1>4. QED
  BY <1>1, <1>2, <1>3 DEF PlaceInv, PlacesTypeOK, Keeps, ValidatePath

LEMMA OutsidePlaces ==
  ASSUME PlaceInv, NEW p \in Paths, Outside(p)
  PROVE  PlaceInv' /\ \A x \in Spots : Keeps(x)
<1>1. place \in [Spots -> Place] /\ Here(p) \in Spots /\ ready \subseteq Paths
      /\ mounted \subseteq Paths
  BY HereIsSpot DEF PlaceInv, PlacesTypeOK
<1>2. UNCHANGED <<strays, pc, at>> /\ ready' = ready \ {p}
      /\ (pc \in {"copy", "replace"} => at # p)
  BY DEF Outside, runVars
<1>3. /\ mounted' \subseteq Paths /\ place' \in [Spots -> Place]
      /\ \A x \in Spots : x # Here(p) => place'[x] = place[x]
      /\ \A x \in Spots : /\ place'[x].kind = place[x].kind
                          /\ place'[x].marker = place[x].marker
                          /\ place'[x].copy = place[x].copy /\ place'[x].temps = place[x].temps
  <2>1. CASE mounted' \in {mounted \ {p}, mounted \cup {p}} /\ UNCHANGED place
    BY <1>1, <2>1
  <2>2. CASE /\ place' = [place EXCEPT ![Here(p)].writable = ~place[Here(p)].writable]
             /\ UNCHANGED mounted
    <3> DEFINE b == ~place[Here(p)].writable
    <3>1. b \in BOOLEAN
      <4>1. ASSUME NEW q PROVE (~q) \in BOOLEAN
        BY Zenon
      <4>2. QED
        BY <4>1, Zenon
    <3>2. place' = [place EXCEPT ![Here(p)].writable = b] /\ mounted' = mounted
      BY <2>2
    <3> HIDE DEF b
    <3>3. QED
      BY <1>1, <3>1, <3>2, WritableChanged
  <2>3. QED
    BY <2>1, <2>2 DEF Outside
<1>4. \A q \in Paths : q # p => Here(q)' = Here(q) /\ Here(q) # Here(p) /\ Here(q) \in Spots
  <2>1. \A q \in Paths : q # p => (q \in mounted' <=> q \in mounted)
    BY DEF Outside
  <2>2. QED
    BY <2>1, HereIsSpot DEF Here
<1>5. \A q \in Paths : q # p => At(q)' = At(q)
  BY <1>3, <1>4 DEF At
<1>6. PlacesTypeOK'
  BY <1>1, <1>2, <1>3 DEF PlaceInv, PlacesTypeOK
<1>7. TempsFromKills'
  <2>1. pc = "replace" => Here(at)' = Here(at)
    BY <1>2, <1>4 DEF PlaceInv
  <2>2. QED
    BY <1>2, <1>3, <2>1 DEF PlaceInv, TempsFromKills, Spots
<1>8. QED
  BY <1>1, <1>2, <1>3, <1>5, <1>6, <1>7 DEF PlaceInv, Keeps

\* Steps of the run that leave the paths alone.
LEMMA PathsLeft ==
  ASSUME PlaceInv, UNCHANGED <<mounted, place, ready>>,
         strays' \in Nat, strays' >= strays + (IF pc = "replace" THEN 1 ELSE 0),
         pc' # "replace",
         pc' = "copy" => at' = at /\ at \in Paths /\ At(at).marker # "none"
  PROVE  PlaceInv' /\ \A x \in Spots : Keeps(x)
<1>1. \A q : Here(q)' = Here(q) /\ At(q)' = At(q)
  BY DEF Here, At
<1>2. PlacesTypeOK' /\ place \in [Spots -> Place]
  BY DEF PlaceInv, PlacesTypeOK
<1>3. TempsFromKills'
  <2>1. ASSUME NEW x \in Spots PROVE place[x].temps <= strays'
    <3>1. place[x].temps \in Int /\ strays \in Nat
      BY <1>2, <2>1 DEF Place, PlaceInv, PlacesTypeOK
    <3>2. place[x].temps <= strays + (IF pc = "replace" THEN 1 ELSE 0)
      BY <3>1 DEF PlaceInv, TempsFromKills, Spots
    <3>3. QED
      BY <3>1, <3>2
  <2>2. QED
    BY <2>1 DEF TempsFromKills, Spots
<1>4. QED
  BY <1>1, <1>2, <1>3 DEF PlaceInv, Keeps

\* A temporary copy is written or goes.
LEMMA TempsPlaces ==
  ASSUME PlaceInv, at \in Paths, UNCHANGED <<mounted, ready, strays>>, NEW n \in Int,
         NEW Q, Q = Temps(n)
  PROVE  /\ Q \in [Spots -> Place] /\ place \in [Spots -> Place] /\ Here(at) \in Spots
         /\ Q[Here(at)].temps = place[Here(at)].temps + n
         /\ \A x \in Spots : x # Here(at) => Q[x] = place[x]
         /\ \A x \in Spots : /\ Q[x].kind = place[x].kind
                             /\ Q[x].writable = place[x].writable
                             /\ Q[x].marker = place[x].marker /\ Q[x].copy = place[x].copy
<1>1. place \in [Spots -> Place] /\ Here(at) \in Spots
  BY HereIsSpot DEF PlaceInv, PlacesTypeOK
<1> DEFINE m == place[Here(at)].temps + n
<1>2. m \in Int
  BY <1>1 DEF Place
<1>3. Q = [place EXCEPT ![Here(at)].temps = m]
  BY DEF Temps
<1> HIDE DEF m
<1>4. /\ Q \in [Spots -> Place] /\ Q[Here(at)].temps = m
      /\ \A x \in Spots : x # Here(at) => Q[x] = place[x]
      /\ \A x \in Spots : /\ Q[x].kind = place[x].kind
                          /\ Q[x].writable = place[x].writable
                          /\ Q[x].marker = place[x].marker /\ Q[x].copy = place[x].copy
  BY <1>1, <1>2, <1>3, TempsChanged
<1>5. QED
  BY <1>1, <1>4 DEF m

\* What is left to see once one place has been written to.
LEMMA WrittenPlaces ==
  ASSUME PlaceInv, at \in Paths, UNCHANGED <<mounted, ready, strays>>,
         NEW n \in {-1, 1}, n = 1 => pc = "copy" /\ pc' = "replace" /\ at' = at,
         n = -1 => pc = "replace" /\ pc' \notin {"copy", "replace"},
         place' \in [Spots -> Place], place \in [Spots -> Place], Here(at) \in Spots,
         place'[Here(at)].temps = place[Here(at)].temps + n,
         \A x \in Spots : x # Here(at) => place'[x] = place[x],
         \A x \in Spots : /\ place'[x].kind = place[x].kind
                          /\ place'[x].writable = place[x].writable
                          /\ place'[x].marker = place[x].marker
  PROVE  PlaceInv'
<1>1. \A q : Here(q)' = Here(q)
  BY DEF Here
<1>2. \A q \in Paths : Here(q) \in Spots
  BY HereIsSpot
<1>3. PlacesTypeOK' /\ ready \subseteq Paths /\ strays \in Nat
  BY DEF PlaceInv, PlacesTypeOK
<1>4. TempsFromKills'
  <2>1. ASSUME NEW x \in Spots
        PROVE  place'[x].temps <= strays + (IF pc' = "replace" /\ x = Here(at)' THEN 1 ELSE 0)
    <3>1. place[x].temps \in Int
      BY DEF Place
    <3>2. place[x].temps <= strays + (IF pc = "replace" /\ x = Here(at) THEN 1 ELSE 0)
      BY DEF PlaceInv, TempsFromKills, Spots
    <3>3. CASE x = Here(at)
      BY <1>1, <1>3, <3>1, <3>2, <3>3
    <3>4. CASE x # Here(at)
      BY <1>1, <1>3, <3>1, <3>2, <3>4
    <3>5. QED
      BY <3>3, <3>4
  <2>2. QED
    BY <2>1 DEF TempsFromKills, Spots
<1>5. QED
  BY <1>1, <1>2, <1>3, <1>4 DEF PlaceInv, At

LEMMA DoneGoesOn ==
  ASSUME NEW result, Done(result)
  PROVE  pc' \in {"check", "again", "idle"}
BY DEF Done, Exit

LEMMA RunPlaces ==
  ASSUME PlaceInv, RunTypeOK, Run
  PROVE  /\ PlaceInv'
         /\ \A x \in Spots : ~(RunReplace /\ x = Here(at)) => Keeps(x)
<1> USE DEF Copying, Ending
<1>1. strays \in Nat
  BY DEF PlaceInv, PlacesTypeOK
<1>2. CASE RunStart \/ RunBegin \/ RunRefused \/ RunAct \/ RunFinish \/ RunLocal \/ RunFail
  <2>1. /\ UNCHANGED <<mounted, place, ready, strays>>
        /\ pc # "replace" /\ pc' # "replace" /\ pc' # "copy"
    BY <1>2 DEF RunStart, RunBegin, RunRefused, RunAct, RunFinish, RunLocal, RunFail, Exit,
       pathVars, bounds
  <2>2. QED
    BY <1>1, <2>1, PathsLeft
<1>3. CASE RunCheck
  <2>1. pc' = "copy" => at' = at /\ at \in Paths /\ At(at).marker # "none"
    BY <1>3, DoneGoesOn DEF RunCheck, RunTypeOK
  <2>2. pc' # "replace" /\ pc # "replace" /\ UNCHANGED <<mounted, place, ready, strays>>
    BY <1>3, DoneGoesOn DEF RunCheck, pathVars, bounds
  <2>3. QED
    BY <1>1, <2>1, <2>2, PathsLeft
<1>4. CASE RunCopy
  <2>1. at \in Paths /\ pc = "copy" /\ UNCHANGED <<mounted, ready, strays>>
    BY <1>4 DEF RunCopy, RunTypeOK, bounds
  <2>2. CASE pc' = "replace" /\ place' = Temps(1) /\ at' = at
    <3>1. /\ place' \in [Spots -> Place] /\ place \in [Spots -> Place] /\ Here(at) \in Spots
          /\ place'[Here(at)].temps = place[Here(at)].temps + 1
          /\ \A x \in Spots : x # Here(at) => place'[x] = place[x]
          /\ \A x \in Spots : /\ place'[x].kind = place[x].kind
                              /\ place'[x].writable = place[x].writable
                              /\ place'[x].marker = place[x].marker
                              /\ place'[x].copy = place[x].copy
      BY <2>1, <2>2, TempsPlaces
    <3>2. PlaceInv'
      BY <2>1, <2>2, <3>1, WrittenPlaces
    <3>3. QED
      BY <3>1, <3>2 DEF Keeps
  <2>3. CASE Done("not writable") /\ UNCHANGED place
    <3>1. pc' # "copy" /\ pc' # "replace"
      BY <2>3, DoneGoesOn
    <3>2. UNCHANGED <<mounted, place, ready, strays>> /\ pc # "replace"
      BY <2>1, <2>3
    <3>3. QED
      BY <1>1, <3>1, <3>2, PathsLeft
  <2>4. QED
    BY <1>4, <2>2, <2>3 DEF RunCopy
<1>5. CASE RunCopyFails
  <2>1. at \in Paths /\ pc = "replace" /\ UNCHANGED <<mounted, ready, strays>>
        /\ place' = Temps(-1) /\ pc' \notin {"copy", "replace"}
    BY <1>5, DoneGoesOn DEF RunCopyFails, RunTypeOK
  <2>2. /\ place' \in [Spots -> Place] /\ place \in [Spots -> Place] /\ Here(at) \in Spots
        /\ place'[Here(at)].temps = place[Here(at)].temps + -1
        /\ \A x \in Spots : x # Here(at) => place'[x] = place[x]
        /\ \A x \in Spots : /\ place'[x].kind = place[x].kind
                            /\ place'[x].writable = place[x].writable
                            /\ place'[x].marker = place[x].marker
                            /\ place'[x].copy = place[x].copy
    BY <2>1, TempsPlaces
  <2>3. PlaceInv'
    BY <2>1, <2>2, WrittenPlaces
  <2>4. QED
    BY <2>2, <2>3 DEF Keeps
<1>6. CASE RunReplace
  <2>1. at \in Paths /\ pc = "replace" /\ UNCHANGED <<mounted, ready, strays>>
        /\ pc' \notin {"copy", "replace"} /\ local \in Seq(Row)
    BY <1>6, DoneGoesOn DEF RunReplace, RunTypeOK, bounds
  <2> DEFINE gone == Temps(-1)
  <2>2. /\ gone \in [Spots -> Place] /\ place \in [Spots -> Place] /\ Here(at) \in Spots
        /\ gone[Here(at)].temps = place[Here(at)].temps + -1
        /\ \A x \in Spots : x # Here(at) => gone[x] = place[x]
        /\ \A x \in Spots : /\ gone[x].kind = place[x].kind
                            /\ gone[x].writable = place[x].writable
                            /\ gone[x].marker = place[x].marker /\ gone[x].copy = place[x].copy
    BY <2>1, TempsPlaces
  <2>3. place' = [gone EXCEPT ![Here(at)].copy = local]
    BY <1>6 DEF RunReplace
  <2> HIDE DEF gone
  <2>4. /\ place' \in [Spots -> Place]
        /\ \A x \in Spots : x # Here(at) => place'[x] = gone[x]
        /\ \A x \in Spots : /\ place'[x].kind = gone[x].kind
                            /\ place'[x].writable = gone[x].writable
                            /\ place'[x].marker = gone[x].marker
                            /\ place'[x].temps = gone[x].temps
    BY <2>1, <2>2, <2>3, CopyChanged
  <2>5. PlaceInv'
    BY <2>1, <2>2, <2>4, WrittenPlaces
  <2>6. QED
    BY <1>6, <2>2, <2>4, <2>5 DEF Keeps
<1>7. CASE RunCleanFails
  BY <1>1, <1>7, PathsLeft DEF RunCleanFails, pathVars
<1>8. CASE RunKilled
  <2>1. pc' = "idle" /\ strays' = strays + (IF pc = "replace" THEN 1 ELSE 0)
        /\ UNCHANGED <<mounted, place, ready>>
    BY <1>8 DEF RunKilled, Exit, pathVars
  <2>2. QED
    BY <1>1, <2>1, PathsLeft
<1>9. QED
  BY <1>2, <1>3, <1>4, <1>5, <1>6, <1>7, <1>8 DEF Run

LEMMA NextPlaces ==
  ASSUME PlaceInv, EndInv, [Next]_dvars
  PROVE  /\ PlaceInv'
         /\ \A x \in Spots : ~(RunReplace /\ x = Here(at)) => Keeps(x)
<1>1. CASE Run
  BY <1>1, RunPlaces DEF EndInv
<1>2. CASE Ledger \/ PrepareStart \/ UNCHANGED dvars
  <2>1. UNCHANGED <<mounted, place, ready, strays, pc, at>>
    BY <1>2 DEF Ledger, PrepareStart, dvars, pathVars, runVars, bounds
  <2>2. \A q : Here(q)' = Here(q) /\ At(q)' = At(q)
    BY <2>1 DEF Here, At
  <2>3. TempsFromKills'
    BY <2>1, <2>2 DEF PlaceInv, TempsFromKills
  <2>4. QED
    BY <2>1, <2>2, <2>3 DEF PlaceInv, PlacesTypeOK, Keeps
<1>3. CASE \E p \in Paths : PrepareDirectory(p) \/ PrepareMarker(p) \/ ValidatePath(p) \/ Outside(p)
  BY <1>3, DirectoryPlaces, MarkerPlaces, ValidatePlaces, OutsidePlaces
<1>4. QED
  BY <1>1, <1>2, <1>3 DEF Next, Prepare

LEMMA InitPlaces == ASSUME Init PROVE PlaceInv
<1>1. PICK found \in Places :
        /\ found.kind # "dir" => found.marker = "none"
        /\ place = [x \in Spots |->
              IF x = <<1, "mounted">> THEN found
              ELSE Usual(IF x[2] = "mounted" THEN "ours" ELSE "none")]
  BY DEF Init, Spots
<1>2. None \in Seq(Row)
  BY DEF None
<1>3. \A m \in {"ours", "none"} :
         Usual(m) \in Place /\ Usual(m).temps = 0 /\ Usual(m).kind = "dir"
  BY <1>2 DEF Usual, Place, Kinds
<1>4. found \in Place /\ found.temps = 0
  BY <1>2 DEF Place, Places
<1>5. /\ mounted = Paths /\ ready = {} /\ strays = 0 /\ pc = "idle"
  BY DEF Init
<1>6. \A x \in Spots : /\ place[x] \in Place /\ place[x].temps = 0
                       /\ place[x].marker # "none" => place[x].kind = "dir"
  BY <1>1, <1>3, <1>4
<1>7. place \in [Spots -> Place]
  BY <1>1, <1>6
<1>8. TempsFromKills
  BY <1>5, <1>6 DEF TempsFromKills, Spots
<1>9. QED
  BY <1>5, <1>6, <1>7, <1>8 DEF PlaceInv, PlacesTypeOK

\* The two invariants, for any number of paths and runs.
THEOREM PlacesHold == Spec => [](PlaceInv /\ EndInv)
BY InitPlaces, InitEnds, NextPlaces, NextEnds, PTL DEF Spec

\* TempsFromKills, for any number of paths: every failure but a kill, or one of
\* the removal itself, takes its temporary copy away.
THEOREM TempsAreFromKills == Spec => []TempsFromKills
<1>1. PlaceInv => TempsFromKills
  BY DEF PlaceInv
<1>2. QED
  BY <1>1, PlacesHold, PTL

ReadyStep == \A p \in ready : outcome'[p] \in {"not ready", "not writable"} =>
                outcome[p] = outcome'[p]

LEMMA ReadyStays == ASSUME PlaceInv, EndInv, [Next]_dvars PROVE ReadyStep
<1>1. outcome \in [Paths -> Results] /\ ready \subseteq Paths
  BY DEF EndInv, RunTypeOK, PlaceInv, PlacesTypeOK
<1>2. ASSUME NEW result, Done(result), at \in Paths,
             result \in {"not ready", "not writable"} => at \notin ready
      PROVE  ReadyStep
  <2>1. outcome' = [outcome EXCEPT ![at] = result]
    BY <1>2 DEF Done
  <2>2. \A p \in Paths : outcome'[p] = IF p = at THEN result ELSE outcome[p]
    BY <1>1, <2>1
  <2>3. QED
    BY <1>1, <1>2, <2>2 DEF ReadyStep
<1>3. pc \in Copying => at \in Paths
  BY DEF EndInv, RunTypeOK
<1>4. CASE RunStart
  BY <1>1, <1>4 DEF RunStart, ReadyStep
<1>5. CASE RunCheck
  <2>1. at \in ready => At(at).kind = "dir" /\ At(at).marker # "none"
    BY DEF PlaceInv
  <2>2. at \in Paths
    BY <1>3, <1>5 DEF RunCheck, Copying
  <2>3. CASE UNCHANGED outcome
    BY <2>3 DEF ReadyStep
  <2>4. CASE ~(At(at).kind = "dir" /\ At(at).marker # "none") /\ Done("not ready")
    BY <1>2, <2>1, <2>2, <2>4
  <2>5. QED
    BY <1>5, <2>3, <2>4 DEF RunCheck
<1>6. CASE RunCopy
  <2>1. at \in ready => At(at).writable
    BY DEF PlaceInv
  <2>2. at \in Paths
    BY <1>3, <1>6 DEF RunCopy, Copying
  <2>3. CASE UNCHANGED outcome
    BY <2>3 DEF ReadyStep
  <2>4. CASE ~At(at).writable /\ Done("not writable")
    BY <1>2, <2>1, <2>2, <2>4
  <2>5. QED
    BY <1>6, <2>3, <2>4 DEF RunCopy
<1>7. CASE RunReplace \/ RunCopyFails
  <2>1. at \in Paths
    BY <1>3, <1>7 DEF RunReplace, RunCopyFails, Copying
  <2>2. QED
    BY <1>2, <1>7, <2>1 DEF RunReplace, RunCopyFails
<1>8. CASE UNCHANGED outcome
  BY <1>8 DEF ReadyStep
<1>9. Next => \/ RunStart \/ RunCheck \/ RunCopy \/ RunReplace \/ RunCopyFails
              \/ UNCHANGED outcome
  BY DEF Next, Run, RunBegin, RunRefused, RunAct, RunFinish, RunLocal, RunCleanFails, RunFail,
     RunKilled, Ledger, Prepare, PrepareStart, PrepareDirectory, PrepareMarker, ValidatePath,
     Outside, runVars
<1>10. QED
  BY <1>4, <1>5, <1>6, <1>7, <1>8, <1>9 DEF dvars, runVars

\* ReadyIsServed, for any number of paths: what initialisation or validation
\* found ready is what the run asks for, whoever rewrites the marker meanwhile.
THEOREM ReadyOnesAreServed == Spec => ReadyIsServed
<1>1. PlaceInv /\ EndInv /\ [Next]_dvars => [ReadyStep]_dvars
  BY ReadyStays
<1>2. ReadyIsServed <=> [][ReadyStep]_dvars
  BY DEF ReadyIsServed, ReadyStep
<1>3. QED
  BY <1>1, <1>2, PlacesHold, PTL DEF Spec

----------------------------------------------------------------------------
(* What a run that ends without a failure leaves at the paths.                *)

\* In P, the path p holds a copy of the ledger that shows row r of run i.
Shows(P, p, i, r) ==
    \E side \in Sides :
        /\ P[<<p, side>>].marker # "none"
        /\ i <= Len(P[<<p, side>>].copy) /\ P[<<p, side>>].copy[i] = r

\* Every path shows the row of every run that ended without a failure.
EndedShown ==
    \A i \in 1..Len(rows), p \in Paths :
        exits[i] \in {0, 3} => Shows(place, p, i, rows[i])

\* Every path the run in hand has served shows its row.
ServedShown ==
    \A p \in Paths : p < at /\ outcome[p] = "served" =>
        Shows(place, p, Len(rows), rows[Len(rows)])

CopyInv == EndedShown /\ (pc \in Copying => ServedShown)

LEMMA ShownStays ==
  ASSUME \A x \in Spots : Keeps(x)
  PROVE  \A p \in Paths : \A i, r : Shows(place, p, i, r) => Shows(place', p, i, r)
BY DEF Shows, Keeps, Spots

\* Steps that change no row and no exit.
LEMMA EndedLeft ==
  ASSUME EndedShown, \A x \in Spots : Keeps(x), UNCHANGED <<rows, exits>>
  PROVE  EndedShown'
BY ShownStays DEF EndedShown

LEMMA ServedLeft ==
  ASSUME ServedShown, \A x \in Spots : Keeps(x), UNCHANGED <<rows, at, outcome>>
  PROVE  ServedShown'
BY ShownStays DEF ServedShown

\* Steps that begin a run, write its row, or end it other than without a failure.
LEMMA EndedWritten ==
  ASSUME EndedShown, \A x \in Spots : Keeps(x),
         \A i \in 1..Len(rows') : exits'[i] \in {0, 3} =>
            i \in 1..Len(rows) /\ exits'[i] = exits[i] /\ rows'[i] = rows[i]
  PROVE  EndedShown'
<1>1. ASSUME NEW i \in 1..Len(rows'), NEW p \in Paths, exits'[i] \in {0, 3}
      PROVE  Shows(place', p, i, rows'[i])
  <2>1. i \in 1..Len(rows) /\ exits[i] \in {0, 3} /\ rows'[i] = rows[i]
    BY <1>1
  <2>2. Shows(place, p, i, rows[i])
    BY <2>1 DEF EndedShown
  <2>3. QED
    BY <2>1, <2>2, ShownStays
<1>2. QED
  BY <1>1 DEF EndedShown

\* The copy shows every row, this run's own included.
LEMMA ReplaceShows ==
  ASSUME PlaceInv, EndInv, RunReplace, \A x \in Spots : x # Here(at) => Keeps(x)
  PROVE  /\ \A i \in 1..Len(rows) : Shows(place', at, i, rows[i])
         /\ \A i \in 1..Len(rows), p \in Paths :
               Shows(place, p, i, rows[i]) => Shows(place', p, i, rows[i])
<1> USE DEF Copying, Ending
<1>1. at \in Paths /\ pc = "replace" /\ local = rows /\ rows \in Seq(Row)
      /\ At(at).marker # "none" /\ Here(at) \in Spots /\ local \in Seq(Row)
  BY HereIsSpot DEF RunReplace, EndInv, RunTypeOK, RowInv, PlaceInv
<1>2. UNCHANGED <<mounted, ready, strays>>
  BY DEF RunReplace, bounds
<1> DEFINE gone == Temps(-1)
<1>3. /\ gone \in [Spots -> Place]
      /\ \A x \in Spots : gone[x].marker = place[x].marker
  BY <1>1, <1>2, TempsPlaces
<1>4. place' = [gone EXCEPT ![Here(at)].copy = local]
  BY DEF RunReplace
<1> HIDE DEF gone
<1>5. place'[Here(at)].copy = local /\ place'[Here(at)].marker = gone[Here(at)].marker
  BY <1>1, <1>3, <1>4, CopyChanged
<1>6. place'[Here(at)].copy = rows /\ place'[Here(at)].marker # "none"
  BY <1>1, <1>3, <1>5 DEF At
<1>7. PICK here \in Sides : Here(at) = <<at, here>>
  BY DEF Here, Sides
<1>8. ASSUME NEW i \in 1..Len(rows) PROVE Shows(place', at, i, rows[i])
  BY <1>1, <1>6, <1>7 DEF Shows
<1>9. ASSUME NEW i \in 1..Len(rows), NEW p \in Paths, Shows(place, p, i, rows[i])
      PROVE  Shows(place', p, i, rows[i])
  <2>1. PICK side \in Sides : /\ place[<<p, side>>].marker # "none"
                             /\ i <= Len(place[<<p, side>>].copy)
                             /\ place[<<p, side>>].copy[i] = rows[i]
    BY <1>9 DEF Shows
  <2>2. CASE <<p, side>> = Here(at)
    <3>1. place'[<<p, side>>].copy = rows /\ place'[<<p, side>>].marker # "none"
      BY <1>6, <2>2
    <3>2. QED
      BY <1>1, <3>1 DEF Shows
  <2>3. CASE <<p, side>> # Here(at)
    BY <2>1, <2>3 DEF Keeps, Shows, Spots
  <2>4. QED
    BY <2>2, <2>3
<1>10. QED
  BY <1>8, <1>9

\* A path that was not served is passed by.
LEMMA PassedBy ==
  ASSUME CopyInv, EndInv, \A x \in Spots : Keeps(x), pc \in Copying,
         NEW result \in Results, result # "served", Done(result)
  PROVE  CopyInv'
<1> USE DEF Copying
<1>1. at \in Paths /\ outcome \in [Paths -> Results] /\ rows' = rows
      /\ outcome' = [outcome EXCEPT ![at] = result]
  BY DEF EndInv, RunTypeOK, Done
<1>2. \A p \in Paths : outcome'[p] = IF p = at THEN result ELSE outcome[p]
  BY <1>1
<1>3. exits' = exits /\ (at # End => at' = at + 1) /\ (at = End => pc' = "again")
  <2>1. CASE at # End
    BY <2>1 DEF Done
  <2>2. CASE at = End
    BY <1>1, <1>2, <2>2 DEF Done
  <2>3. QED
    BY <2>1, <2>2
<1>4. EndedShown'
  BY <1>1, <1>3, EndedLeft DEF CopyInv
<1>5. ASSUME at # End PROVE ServedShown'
  <2>1. ASSUME NEW p \in Paths, p < at', outcome'[p] = "served"
        PROVE  p < at /\ outcome[p] = "served"
    <3>1. p # at /\ outcome[p] = "served"
      BY <1>2, <2>1
    <3>2. p \in Int /\ at \in Int /\ p < at + 1
      BY <1>1, <1>3, <1>5, <2>1, PathsInOrder
    <3>3. QED
      BY <3>1, <3>2
  <2>2. ServedShown
    BY DEF CopyInv
  <2>3. ASSUME NEW p \in Paths, p < at', outcome'[p] = "served"
        PROVE  Shows(place', p, Len(rows), rows[Len(rows)])
    BY <2>1, <2>2, <2>3, ShownStays DEF ServedShown
  <2>4. QED
    BY <1>1, <2>3 DEF ServedShown
<1>6. QED
  BY <1>3, <1>4, <1>5 DEF CopyInv

LEMMA ReplaceCopies ==
  ASSUME CopyInv, PlaceInv, EndInv, RunReplace, \A x \in Spots : x # Here(at) => Keeps(x)
  PROVE  CopyInv'
<1> USE DEF Copying
<1> DEFINE me == Len(rows)
<1>1. at \in Paths /\ outcome \in [Paths -> Results] /\ rows' = rows /\ rows \in Seq(Row)
      /\ outcome' = [outcome EXCEPT ![at] = "served"] /\ ServedShown /\ EndedShown
      /\ me \in 1..Len(exits) /\ exits \in Seq(Int) /\ Len(exits) = me
  BY DEF EndInv, RunTypeOK, RunReplace, Done, CopyInv, Ending
<1>2. \A p \in Paths : outcome'[p] = IF p = at THEN "served" ELSE outcome[p]
  BY <1>1
<1>3. /\ \A i \in 1..me : Shows(place', at, i, rows[i])
      /\ \A i \in 1..me, p \in Paths : Shows(place, p, i, rows[i]) => Shows(place', p, i, rows[i])
  BY ReplaceShows
<1>4. ASSUME NEW p \in Paths, p < at + 1, outcome'[p] = "served"
      PROVE  Shows(place', p, me, rows[me])
  <2>1. CASE p = at
    BY <1>1, <1>3, <2>1
  <2>2. CASE p # at
    <3>1. outcome[p] = "served"
      BY <1>2, <1>4, <2>2
    <3>2. p \in Int /\ at \in Int
      BY <1>1, PathsInOrder
    <3>3. p < at
      BY <1>4, <2>2, <3>2
    <3>4. QED
      BY <1>1, <1>3, <3>1, <3>3 DEF ServedShown
  <2>3. QED
    BY <2>1, <2>2
<1>5. CASE UNCHANGED exits
  <2>1. EndedShown'
    BY <1>1, <1>3, <1>5 DEF EndedShown
  <2>2. pc' \in Copying => at' = at + 1
    BY DEF RunReplace, Done, Exit
  <2>3. QED
    BY <1>1, <1>4, <2>1, <2>2 DEF CopyInv, ServedShown
<1>6. CASE /\ at = End /\ \A p \in Paths : outcome'[p] = "served"
           /\ Exit(ExitCode)
  <2>1. exits' = [exits EXCEPT ![me] = ExitCode] /\ pc' = "idle"
    BY <1>6 DEF Exit, Me
  <2>2. ExitCode \in Int
    BY ExitType DEF EndInv
  <2>3. \A i \in 1..me : i # me => exits'[i] = exits[i]
    BY <1>1, <2>1, <2>2, RowReplaced
  <2>4. \A p \in Paths : Shows(place', p, me, rows[me])
    <3>1. \A p \in Paths : p < at + 1
      <4>1. \A p \in Paths : p \in Int /\ p <= End
        BY PathsInOrder
      <4>2. at \in Int /\ at = End
        BY <1>1, <1>6, PathsInOrder
      <4>3. QED
        BY <4>1, <4>2
    <3>2. QED
      BY <1>4, <1>6, <3>1
  <2>5. ASSUME NEW i \in 1..me, NEW p \in Paths, exits'[i] \in {0, 3}
        PROVE  Shows(place', p, i, rows[i])
    <3>1. CASE i = me
      BY <2>4, <3>1
    <3>2. CASE i # me
      <4>1. Shows(place, p, i, rows[i])
        BY <1>1, <2>3, <2>5, <3>2 DEF EndedShown
      <4>2. QED
        BY <1>3, <4>1
    <3>3. QED
      BY <3>1, <3>2
  <2>6. EndedShown'
    BY <1>1, <2>5 DEF EndedShown
  <2>7. QED
    BY <2>1, <2>6 DEF CopyInv
<1>7. QED
  BY <1>5, <1>6 DEF RunReplace, Done

LEMMA RowWritten ==
  ASSUME CopyInv, EndInv, \A x \in Spots : Keeps(x),
         RunBegin \/ RunFinish \/ RunFail \/ RunKilled
  PROVE  CopyInv'
<1> USE DEF Copying
<1> DEFINE me == Len(rows)
<1>1. /\ rows \in Seq(Row) /\ exits \in Seq(Int) /\ Len(exits) = me
      /\ pc \in Ending => me \in 1..me /\ me \in 1..Len(exits) /\ exits[me] = Alive
      /\ EndedShown
  BY DEF EndInv, RunTypeOK, RowInv, CopyInv, Me
<1>2. ASSUME NEW code \in Int, code \notin {0, 3}, pc \in Ending, Exit(code),
             Len(rows') = me, \A i \in 1..me : i # me => rows'[i] = rows[i]
      PROVE  CopyInv'
  <2>1. exits' = [exits EXCEPT ![me] = code] /\ pc' = "idle"
    BY <1>2 DEF Exit, Me
  <2>2. exits'[me] = code /\ \A i \in 1..me : i # me => exits'[i] = exits[i]
    BY <1>1, <1>2, <2>1, RowReplaced
  <2>3. EndedShown'
    BY <1>1, <1>2, <2>2, EndedWritten
  <2>4. QED
    BY <2>1, <2>3 DEF CopyInv
<1>3. CASE RunBegin
  <2> DEFINE new == [status |-> "running", code |-> -1]
  <2>1. /\ rows' = Append(rows, new) /\ exits' = Append(exits, Alive) /\ pc' = "acting"
    BY <1>3 DEF RunBegin
  <2>2. new \in Row /\ Alive \in Int
    BY DEF Row, Alive
  <2>3. Len(rows') = me + 1 /\ \A i \in 1..me : rows'[i] = rows[i]
    BY <1>1, <2>1, <2>2, RowAppended
  <2>4. exits'[me + 1] = Alive /\ \A i \in 1..me : exits'[i] = exits[i]
    BY <1>1, <2>1, <2>2, RowAppended
  <2>5. ASSUME NEW i \in 1..Len(rows'), exits'[i] \in {0, 3} PROVE i \in 1..me
    BY <1>1, <2>3, <2>4, <2>5 DEF Alive
  <2>6. EndedShown'
    BY <1>1, <2>3, <2>4, <2>5, EndedWritten
  <2>7. QED
    BY <2>1, <2>6 DEF CopyInv
<1>4. CASE RunFinish
  <2>1. pc \in Ending /\ pc' \notin Copying
    BY <1>4 DEF RunFinish, Ending, Exit
  <2>2. CASE UNCHANGED <<rows, exits>>
    BY <1>1, <2>1, <2>2, EndedLeft DEF CopyInv
  <2>3. CASE rows' = [rows EXCEPT ![Me] = Completed]
    <3>1. Completed \in Row
      BY ExitType DEF EndInv
    <3>2. Len(rows') = me /\ \A i \in 1..me : i # me => rows'[i] = rows[i]
      BY <1>1, <2>1, <2>3, <3>1, RowReplaced DEF Me
    <3>3. CASE UNCHANGED exits
      <4>1. EndedShown'
        BY <1>1, <2>1, <3>2, <3>3, EndedWritten DEF Alive
      <4>2. QED
        BY <2>1, <4>1 DEF CopyInv
    <3>4. CASE pc = "again" /\ Exit(ExitCode)
      <4>1. ExitCode = 1
        BY <3>4 DEF EndInv, RowInv, ExitCode
      <4>2. QED
        BY <1>2, <2>1, <3>2, <3>4, <4>1
    <3>5. QED
      BY <1>4, <2>1, <2>2, <3>3, <3>4 DEF RunFinish
  <2>4. QED
    BY <1>4, <2>2, <2>3 DEF RunFinish
<1>5. CASE RunFail
  <2>1. pc \in Ending
    BY <1>5 DEF RunFail, Ending
  <2>2. CASE Exit(1) /\ rows' = [rows EXCEPT ![Me].status = "failed"]
    <3>1. Len(rows') = me /\ \A i \in 1..me : i # me => rows'[i] = rows[i]
      BY <1>1, <2>1, <2>2 DEF Me
    <3>2. QED
      BY <1>2, <2>1, <2>2, <3>1
  <2>3. CASE Exit(Untold) /\ UNCHANGED rows
    BY <1>2, <2>1, <2>3 DEF Untold
  <2>4. QED
    BY <1>5, <2>2, <2>3 DEF RunFail
<1>6. CASE RunKilled
  <2>1. rows' = rows
    BY <1>6 DEF RunKilled
  <2>2. CASE pc = "opening"
    <3>1. exits' = exits /\ pc' = "idle"
      BY <1>6, <2>2 DEF RunKilled
    <3>2. QED
      BY <1>1, <2>1, <3>1, EndedLeft DEF CopyInv
  <2>3. CASE pc # "opening"
    <3>1. pc \in Ending /\ Exit(Killed)
      BY <1>6, <2>3 DEF RunKilled, EndInv, RunTypeOK
    <3>2. QED
      BY <1>2, <2>1, <3>1 DEF Killed
  <2>4. QED
    BY <2>2, <2>3
<1>7. QED
  BY <1>3, <1>4, <1>5, <1>6

LEMMA NextCopies ==
  ASSUME CopyInv, PlaceInv, EndInv, [Next]_dvars
  PROVE  CopyInv'
<1> USE DEF Copying
<1>1. \A x \in Spots : ~(RunReplace /\ x = Here(at)) => Keeps(x)
  BY NextPlaces
<1>2. CASE RunReplace
  BY <1>1, <1>2, ReplaceCopies
<1>3. CASE RunBegin \/ RunFinish \/ RunFail \/ RunKilled
  <2>1. CASE pc # "replace"
    BY <1>1, <1>3, <2>1, RowWritten DEF RunReplace
  <2>2. CASE pc = "replace"
    <3>1. RunKilled
      BY <1>3, <2>2 DEF RunBegin, RunFinish, RunFail
    <3>2. \A x \in Spots : Keeps(x)
      BY <3>1 DEF RunKilled, pathVars, Keeps
    <3>3. QED
      BY <3>1, <3>2, RowWritten
  <2>3. QED
    BY <2>1, <2>2
<1>4. CASE RunCheck \/ RunCopy
  <2>1. \A x \in Spots : Keeps(x)
    BY <1>1, <1>4 DEF RunCheck, RunCopy, RunReplace
  <2>2. pc \in Copying
    BY <1>4 DEF RunCheck, RunCopy
  <2>3. CASE UNCHANGED <<rows, exits, at, outcome>>
    BY <2>1, <2>2, <2>3, EndedLeft, ServedLeft DEF CopyInv
  <2>4. CASE Done("not ready") \/ Done("not writable")
    BY <2>1, <2>2, <2>4, ResultNames, PassedBy
  <2>5. QED
    BY <1>4, <2>3, <2>4 DEF RunCheck, RunCopy
<1>5. CASE RunCopyFails
  <2>1. pc = "replace" /\ at \in Paths /\ UNCHANGED <<mounted, ready, strays>>
        /\ place' = Temps(-1) /\ Done("error")
    BY <1>5 DEF RunCopyFails, EndInv, RunTypeOK
  <2>2. \A x \in Spots : Keeps(x)
    BY <2>1, TempsPlaces DEF Keeps
  <2>3. QED
    BY <2>1, <2>2, ResultNames, PassedBy
<1>6. CASE RunLocal
  <2>1. \A x \in Spots : Keeps(x)
    BY <1>6 DEF RunLocal, pathVars, Keeps
  <2>2. UNCHANGED <<rows, exits>> /\ (pc' \notin Copying \/ at' = 1)
    BY <1>6 DEF RunLocal
  <2>3. EndedShown'
    BY <2>1, <2>2, EndedLeft DEF CopyInv
  <2>4. at' = 1 => ServedShown'
    BY DestinationsAssumption DEF ServedShown, Paths
  <2>5. QED
    BY <2>2, <2>3, <2>4 DEF CopyInv
<1>7. CASE RunStart \/ RunRefused \/ RunAct \/ RunCleanFails
  <2>1. UNCHANGED <<place, rows, exits>> /\ pc' \notin Copying
    BY <1>7 DEF RunStart, RunRefused, RunAct, RunCleanFails, pathVars
  <2>2. EndedShown'
    BY <2>1, EndedLeft DEF CopyInv, Keeps
  <2>3. QED
    BY <2>1, <2>2 DEF CopyInv
<1>8. CASE UNCHANGED runVars
  <2>1. UNCHANGED <<rows, exits, pc, at, outcome>>
    BY <1>8 DEF runVars
  <2>2. CASE RunReplace
    BY <1>2, <2>2
  <2>3. CASE ~RunReplace
    BY <1>1, <2>1, <2>3, EndedLeft, ServedLeft DEF CopyInv
  <2>4. QED
    BY <2>2, <2>3
<1>9. Next => \/ RunReplace \/ RunBegin \/ RunFinish \/ RunFail \/ RunKilled
              \/ RunCheck \/ RunCopy \/ RunCopyFails \/ RunLocal \/ RunStart
              \/ RunRefused \/ RunAct \/ RunCleanFails \/ UNCHANGED runVars
  BY DEF Next, Run, Ledger, Prepare, PrepareStart, PrepareDirectory, PrepareMarker,
     ValidatePath, Outside
<1>10. QED
  BY <1>2, <1>3, <1>4, <1>5, <1>6, <1>7, <1>8, <1>9 DEF dvars

LEMMA InitCopies == ASSUME Init PROVE CopyInv
<1>1. rows = <<>> /\ pc = "idle"
  BY DEF Init
<1>2. EndedShown
  BY <1>1 DEF EndedShown
<1>3. QED
  BY <1>1, <1>2 DEF CopyInv, Copying

\* NoFailureMeansCopies, for any number of paths and runs, whatever is mounted,
\* unmounted, marked or killed in between.
THEOREM CopiesAreShown == Spec => []NoFailureMeansCopies
<1>1. PlaceInv /\ EndInv /\ CopyInv /\ [Next]_dvars => CopyInv'
  BY NextCopies
<1>2. EndInv /\ CopyInv => NoFailureMeansCopies
  <2> SUFFICES ASSUME EndInv, CopyInv, NEW i \in 1..Me, NEW p \in Paths, exits[i] \in {0, 3}
      PROVE  Shows(place, p, i, [status |-> "completed", code |-> exits[i]])
    BY DEF NoFailureMeansCopies, Shows
  <2>1. rows[i] = [status |-> "completed", code |-> exits[i]]
    BY DEF EndInv, RowTellsExit
  <2>2. QED
    BY <2>1 DEF CopyInv, EndedShown, Me
<1>3. Spec => []CopyInv
  BY <1>1, InitCopies, PlacesHold, PTL DEF Spec
<1>4. QED
  BY <1>2, <1>3, PlacesHold, PTL
=============================================================================
