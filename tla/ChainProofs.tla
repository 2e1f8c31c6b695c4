----------------------------- MODULE ChainProofs -----------------------------
(* The lock of an xtrabackup root keeps restores and engines apart; a full to *)
(* continue is always found; what is committed is a chain and can be restored; *)
(* for any number of names and days.                                           *)
EXTENDS Chain, FiniteSetTheorems, WellFoundedInduction, TLAPS

\* A directory has its fields; of their values nothing is needed.
Shaped(e) ==
    DOMAIN e = {"at", "day", "base", "parent", "from", "to", "raw", "key", "meta"}

\* RootInv: whoever is at work in the root holds its lock, and a removal is
\* the work of a prune.
RootInv ==
    /\ DOMAIN entry = Ids /\ entry = [i \in Ids |-> entry[i]]
    /\ \A i \in Ids : Shaped(entry[i])
    /\ step \in [Ids -> {"idle"} \cup Running]
    /\ \A i \in Ids : step[i] # "idle" => lock = i
    /\ reading # <<>> => lock = Restore

LEMMA PendingShaped ==
    ASSUME NEW i, NEW d, NEW f, NEW p
    PROVE  Shaped(Pending(i, d, f, p))
  BY DEF Shaped, Pending, Directory

LEMMA PreparedShaped ==
    ASSUME NEW e, Shaped(e)
    PROVE  LET f == [e EXCEPT !.raw = FALSE]
           IN  /\ Shaped(f) /\ f.at = e.at /\ f.parent = e.parent
               /\ f.from = e.from /\ f.to = e.to
  BY DEF Shaped

LEMMA EngineStep ==
    ASSUME RootInv, NEW i \in Ids, Engine(i)
    PROVE  RootInv' /\ lock # Restore /\ reading' = reading
<1> USE ChainConstants DEF RootInv
<1>1. CASE FullStart(i)
  <2>1. Shaped(Pending(i, today, i, None))
    BY PendingShaped
  <2> QED
    BY <1>1, <2>1 DEF FullStart, Acquire, Fresh, Running, Dumping
<1>2. ASSUME NEW f \in Ids, IncrementalStart(i, f)
      PROVE  RootInv' /\ lock # Restore /\ reading' = reading
  <2>1. Shaped(Pending(i, entry[f].day, f, Tip(f)))
    BY PendingShaped
  <2> QED
    BY <1>2, <2>1 DEF IncrementalStart, Acquire, Fresh, Running, Dumping
<1>3. ASSUME NEW from \in 0..MaxLsn, NEW to \in 0..MaxLsn, Publish(i, from, to)
      PROVE  RootInv' /\ lock # Restore /\ reading' = reading
  <2>1. Shaped(entry[i]) => Shaped(entry'[i])
    BY <1>3 DEF Publish, Shaped
  <2> QED
    BY <1>3, <2>1 DEF Publish, Running, Dumping
<1>4. CASE Link(i) \/ Mark(i) \/ PruneStart(i) \/ Release(i)
  BY <1>4 DEF Link, Mark, PruneStart, Release, At, Running, Dumping
<1>5. CASE Stop(i)
  <2>1. Shaped(Absent)
    BY DEF Shaped, Absent, Directory
  <2>2. step[i] \in Running /\ step' = [step EXCEPT ![i] = "idle"] /\ reading' = reading
    BY <1>5 DEF Stop
  <2>3. lock = i /\ lock # Restore
    BY <2>2 DEF Running, Dumping
  <2>4. ASSUME DOMAIN entry' = Ids, entry' = [j \in Ids |-> entry'[j]],
               \A j \in Ids : Shaped(entry'[j])
        PROVE  RootInv'
    <3>1. step' \in [Ids -> {"idle"} \cup Running] /\ reading' = <<>>
      BY <2>2, <2>3
    <3>2. \A j \in Ids : step'[j] = "idle"
      BY <2>2, <2>3
    <3> QED
      BY <2>4, <3>1, <3>2
  <2>5. CASE Tear
    <3>1. \A j \in Ids : Shaped([entry[j] EXCEPT !.at = "partial"])
      BY DEF Shaped
    <3>2. \A j \in Ids : Shaped([entry[j] EXCEPT !.at = "broken"])
      BY DEF Shaped
    <3>3. /\ entry' = [j \in Ids |-> entry'[j]]
          /\ \A j \in Ids : entry'[j] \in {Absent, entry[j],
                [entry[j] EXCEPT !.at = "partial"], [entry[j] EXCEPT !.at = "broken"]}
      BY <2>5 DEF Tear
    <3>4. \A j \in Ids : Shaped(entry'[j])
      BY <2>1, <3>1, <3>2, <3>3
    <3> QED
      BY <2>2, <2>3, <2>4, <3>3, <3>4
  <2>6. CASE ~Tear
    <3>1. entry' = entry \/ entry' = [entry EXCEPT ![i] = Absent]
      BY <1>5, <2>6 DEF Stop
    <3>2. \A j \in Ids : Shaped(entry'[j])
      BY <2>1, <3>1
    <3>3. DOMAIN entry' = Ids /\ entry' = [j \in Ids |-> entry'[j]]
      BY <3>1
    <3> QED
      BY <2>2, <2>3, <2>4, <3>2, <3>3
  <2> QED
    BY <2>5, <2>6
<1>6. ASSUME NEW d \in Days, PruneDay(i, d)
      PROVE  RootInv' /\ lock # Restore /\ reading' = reading
  <2>1. Shaped(Absent)
    BY DEF Shaped, Absent, Directory
  <2> QED
    BY <1>6, <2>1 DEF PruneDay, Running, Dumping
<1> QED
  BY <1>1, <1>2, <1>3, <1>4, <1>5, <1>6 DEF Engine

LEMMA OtherStep ==
    ASSUME RootInv, (\E s \in Ids : PrepareStart(s)) \/ PrepareEnd \/ Midnight \/ Tamper
    PROVE  /\ RootInv'
           /\ reading # <<>> => \A i \in Ids : /\ entry'[i].at = entry[i].at
                                               /\ entry'[i].parent = entry[i].parent
                                               /\ entry'[i].from = entry[i].from
                                               /\ entry'[i].to = entry[i].to
<1> USE ChainConstants DEF RootInv
<1>1. CASE (\E s \in Ids : PrepareStart(s)) \/ PrepareEnd \/ Midnight
  BY <1>1 DEF PrepareStart, PrepareEnd, Midnight
<1>2. CASE Tamper
  <2>1. CASE UNCHANGED entry
    BY <1>2, <2>1 DEF Tamper
  <2>2. ASSUME NEW i \in Ids, entry' = [entry EXCEPT ![i].raw = FALSE]
        PROVE  /\ RootInv'
               /\ reading # <<>> => \A j \in Ids : /\ entry'[j].at = entry[j].at
                                                   /\ entry'[j].parent = entry[j].parent
                                                   /\ entry'[j].from = entry[j].from
                                                   /\ entry'[j].to = entry[j].to
    <3> DEFINE e == [entry[i] EXCEPT !.raw = FALSE]
    <3>1. /\ Shaped(e) /\ e.at = entry[i].at /\ e.parent = entry[i].parent
          /\ e.from = entry[i].from /\ e.to = entry[i].to
      BY PreparedShaped
    <3> HIDE DEF e
    <3>2. entry' = [entry EXCEPT ![i] = e]
      BY <2>2 DEF e
    <3> QED
      BY <1>2, <3>1, <3>2 DEF Tamper
  <2> QED
    BY <1>2, <2>1, <2>2 DEF Tamper
<1> QED
  BY <1>1, <1>2

LEMMA RootInvHolds == Spec => []RootInv
<1>1. Init => RootInv
  <2>1. Shaped(Absent) /\ \A i \in Ids : Shaped(Directory("here", 1, i, None, 1, 0, FALSE))
    BY DEF Shaped, Absent, Directory
  <2> QED
    BY <2>1, ChainConstants DEF Init, RootInv
<1>2. RootInv /\ [Next]_vars => RootInv'
  <2>1. CASE UNCHANGED vars
    BY <2>1 DEF RootInv, vars, Shaped
  <2> QED
    BY <2>1, EngineStep, OtherStep DEF Next
<1> QED
  BY <1>1, <1>2, PTL DEF Spec

\* RestoreIsAlone: whatever engines, prunes, crashes and operators do, a restore
\* reads a root in which nothing is written, renamed or removed.
THEOREM RestoreIsAlone == Spec => SourcesStay
<1> DEFINE Stays == reading # <<>> /\ reading' # <<>> =>
          \A i \in Ids : /\ entry'[i].at = entry[i].at
                         /\ entry'[i].parent = entry[i].parent
                         /\ entry'[i].from = entry[i].from
                         /\ entry'[i].to = entry[i].to
<1>1. RootInv /\ [Next]_vars => [Stays]_vars
  <2>1. RootInv /\ Next => Stays
    BY EngineStep, OtherStep DEF Next, RootInv
  <2> QED
    BY <2>1
<1> QED
  BY <1>1, RootInvHolds, PTL DEF Spec, SourcesStay

\* OneAtATime: at most one engine works in the root, and none while a restore
\* reads it.
THEOREM OneAtATime ==
    Spec => [](\A i, j \in Ids : step[i] # "idle" /\ step[j] # "idle" => i = j)
<1>1. RootInv => \A i, j \in Ids : step[i] # "idle" /\ step[j] # "idle" => i = j
  BY DEF RootInv
<1> QED
  BY <1>1, RootInvHolds, PTL

----------------------------------------------------------------------------
(* The full to continue.                                                      *)

\* Among the marked days is a newest one.
LEMMA NewestExists ==
    ASSUME marked \subseteq Days, marked # {}
    PROVE  \E d \in marked : Newest(d)
<1> USE ChainConstants DEF Days
<1> DEFINE left == {MaxDay - d : d \in marked}
           below == {n \in Nat \X Nat : n[1] < n[2]}
<1>1. left \subseteq Nat /\ left # {}
  <2>1. \A d \in marked : MaxDay - d \in Nat
    OBVIOUS
  <2>2. PICK d \in marked : TRUE
    OBVIOUS
  <2>3. MaxDay - d \in left
    OBVIOUS
  <2> QED
    BY <2>1, <2>3
<1>2. PICK least \in left : \A n \in left : <<n, least>> \notin below
  <2>1. IsWellFoundedOn(below, Nat)
    BY NatLessThanWellFounded DEF OpToRel
  <2> HIDE DEF left, below
  <2> QED
    BY <1>1, <2>1, WFMin
<1>3. \A n \in left : ~(n < least)
  BY <1>1, <1>2
<1>4. PICK d \in marked : least = MaxDay - d
  OBVIOUS
<1>5. \A e \in marked : e <= d
  BY <1>3, <1>4
<1> QED
  BY <1>5 DEF Newest

\* The full that ended last in a dated directory is there.
HasFull(d) ==
    latest[d] \in Ids /\ entry[latest[d]].at = "here" /\ entry[latest[d]].day = d

\* What a prune removes, or began to, is older than a marked day it leaves.
Behind(d) == \E e \in marked \ (torn \cup doomed) : d < e

\* FoundInv: every marked day has its full, but for those whose removal was cut
\* off, and these are never the newest.
FoundInv ==
    /\ today \in Days /\ marked \cup torn \cup doomed \subseteq Days
    /\ latest \in [Days -> Ids \cup {None}]
    /\ \A i \in Ids :
          /\ entry[i].at # "none" => entry[i].day \in Days
          /\ step[i] \in Dumping => entry[i].at = "tmp"
          /\ step[i] \in {"published", "linked"} => entry[i].at = "here"
          /\ step[i] = "linked" => latest[entry[i].day] = i
    /\ \A d \in marked \ torn : HasFull(d)
    /\ \A d \in torn \cup doomed : Behind(d)


\* A removal was cut off in this directory.
HalfRemoved(i, d) ==
    /\ entry[i].at # "none" /\ entry[i].day = d /\ entry'[i].day = d
    /\ entry'[i].at \in {"partial", "broken"}
    /\ entry'[i].base = entry[i].base /\ entry'[i].parent = entry[i].parent

\* A removal leaves what is not of its day as it was, and of its day nothing new.
LEMMA TearTakes ==
    ASSUME RootInv, Tear
    PROVE  \E d \in doomed :
              /\ torn' = torn \cup {d}
              /\ marked \ {d} \subseteq marked' /\ marked' \subseteq marked
              /\ latest' \in {latest, [latest EXCEPT ![d] = None]}
              /\ \A i \in Ids :
                    /\ entry[i].day # d => entry'[i] = entry[i]
                    /\ entry'[i].at # "none" =>
                          entry[i].at # "none" /\ entry'[i].day = entry[i].day
                    /\ entry'[i] = Absent \/ entry'[i] = entry[i] \/ HalfRemoved(i, d)
<1> USE DEF RootInv
<1> DEFINE Left(gone, half, left) ==
        [j \in Ids |-> IF j \in gone THEN Absent
                       ELSE IF j \in half /\ entry[j].at # "tmp"
                            THEN [entry[j] EXCEPT !.at = left] ELSE entry[j]]
<1> DEFINE Rest(d) == /\ latest' \in {latest, [latest EXCEPT ![d] = None]}
                      /\ marked' \in {marked, marked \ {d}}
                      /\ torn' = torn \cup {d}
<1>1. PICK d \in doomed : \E gone \in SUBSET In(d) :
        \E half \in {{}} \cup {{i} : i \in In(d) \ gone}, left \in {"partial", "broken"} :
           entry' = Left(gone, half, left) /\ Rest(d)
  BY DEF Tear
<1>2. PICK gone \in SUBSET In(d), half \in SUBSET In(d), left \in {"partial", "broken"} :
        entry' = Left(gone, half, left) /\ Rest(d)
  <2> HIDE DEF Left, Rest
  <2>1. PICK gone \in SUBSET In(d) :
          \E half \in {{}} \cup {{i} : i \in In(d) \ gone}, left \in {"partial", "broken"} :
             entry' = Left(gone, half, left) /\ Rest(d)
    BY <1>1
  <2>2. {{}} \cup {{i} : i \in In(d) \ gone} \subseteq SUBSET In(d)
    OBVIOUS
  <2> QED
    BY <2>1, <2>2
<1>3. \A i \in Ids : entry[i].day # d => i \notin gone /\ i \notin half
  <2>1. \A i \in In(d) : entry[i].day = d
    BY DEF In
  <2> QED
    BY <2>1
<1>4. Absent.at = "none"
  BY DEF Absent, Directory
<1>5. ASSUME NEW i \in Ids, entry'[i].at # "none"
      PROVE  entry[i].at # "none" /\ entry'[i].day = entry[i].day
  <2>1. CASE i \in half /\ i \notin gone
    <3>1. entry[i].at # "none"
      BY <2>1 DEF In
    <3>2. [entry[i] EXCEPT !.at = left].day = entry[i].day
      BY DEF Shaped
    <3> QED
      BY <1>2, <2>1, <3>1, <3>2
  <2>2. CASE ~(i \in half /\ i \notin gone)
    BY <1>2, <1>4, <1>5, <2>2
  <2> QED
    BY <2>1, <2>2
<1>6. ASSUME NEW i \in Ids, entry'[i] # Absent, entry'[i] # entry[i] PROVE HalfRemoved(i, d)
  <2>1. i \in half /\ i \notin gone /\ entry'[i] = [entry[i] EXCEPT !.at = left]
    BY <1>2, <1>6
  <2>2. entry[i].at # "none" /\ entry[i].day = d
    BY <2>1 DEF In
  <2>3. /\ [entry[i] EXCEPT !.at = left].day = entry[i].day
        /\ [entry[i] EXCEPT !.at = left].base = entry[i].base
        /\ [entry[i] EXCEPT !.at = left].parent = entry[i].parent
        /\ [entry[i] EXCEPT !.at = left].at = left
    BY DEF Shaped
  <2> QED
    BY <2>1, <2>2, <2>3 DEF HalfRemoved
<1> QED
  BY <1>2, <1>3, <1>5, <1>6

\* The steps of an engine keep FoundInv.
LEMMA EngineFinds ==
    ASSUME RootInv, FoundInv, NEW i \in Ids, Engine(i) PROVE FoundInv'
<1> USE ChainConstants DEF RootInv, Dumping, Running
<1>0. Days \subseteq Nat
  BY DEF Days
<1>1. ASSUME NEW e, Fresh(i), Acquire(i), e.at = "tmp", e.day \in Days,
             entry' = [entry EXCEPT ![i] = e],
             step' \in {[step EXCEPT ![i] = "full"], [step EXCEPT ![i] = "incremental"]},
             UNCHANGED <<today, latest, marked, torn, doomed>>
      PROVE  FoundInv'
  <2>1. \A j \in Ids \ {i} : entry'[j] = entry[j] /\ step'[j] = step[j]
    BY <1>1
  <2>2. entry'[i].at = "tmp" /\ entry'[i].day \in Days
    BY <1>1
  <2>3. \A d \in marked \ torn : latest[d] # i
    BY <1>1 DEF Fresh, FoundInv
  <2>4. step'[i] \in Dumping
    BY <1>1
  <2> QED
    BY <1>1, <2>1, <2>2, <2>3, <2>4 DEF FoundInv, HasFull, Behind
<1>2. CASE FullStart(i)
  <2>1. /\ Pending(i, today, i, None).at = "tmp"
        /\ Pending(i, today, i, None).day = today
    BY DEF Pending, Directory
  <2> QED
    BY <1>1, <1>2, <2>1 DEF FullStart, FoundInv
<1>3. ASSUME NEW f \in Ids, IncrementalStart(i, f) PROVE FoundInv'
  <2>1. /\ Pending(i, entry[f].day, f, Tip(f)).at = "tmp"
        /\ Pending(i, entry[f].day, f, Tip(f)).day = entry[f].day
    BY DEF Pending, Directory
  <2>2. entry[f].day \in Days
    BY <1>3 DEF IncrementalStart, CanContinue, LatestFull, Readable, FoundInv
  <2> QED
    BY <1>1, <1>3, <2>1, <2>2 DEF IncrementalStart
<1>4. ASSUME NEW from \in 0..MaxLsn, NEW to \in 0..MaxLsn, Publish(i, from, to)
      PROVE  FoundInv'
  <2>1. entry'[i].at = "here" /\ entry'[i].day = entry[i].day
    BY <1>4 DEF Publish, Shaped
  <2>2. \A j \in Ids \ {i} : entry'[j] = entry[j] /\ step'[j] = step[j]
    BY <1>4 DEF Publish
  <2>3. step'[i] = "published" /\ entry[i].at = "tmp"
    BY <1>4 DEF Publish, FoundInv
  <2> QED
    BY <1>4, <2>1, <2>2, <2>3 DEF Publish, FoundInv, HasFull, Behind
<1>5. CASE Link(i)
  <2>1. entry[i].at = "here" /\ entry[i].day \in Days /\ step'[i] = "linked"
    BY <1>5 DEF Link, At, FoundInv
  <2>2. \A j \in Ids \ {i} : step'[j] = step[j] /\ step[j] = "idle"
    BY <1>5 DEF Link, At
  <2> QED
    BY <1>5, <2>1, <2>2 DEF Link, FoundInv, HasFull, Behind
<1>6. CASE Mark(i)
  <2>1. HasFull(entry[i].day) /\ entry[i].day \in Days
    BY <1>6 DEF Mark, At, FoundInv, HasFull
  <2>2. step'[i] = "marked" /\ \A j \in Ids \ {i} : step'[j] = step[j]
    BY <1>6 DEF Mark, At
  <2> QED
    BY <1>6, <2>1, <2>2 DEF Mark, FoundInv, HasFull, Behind
<1>7. CASE PruneStart(i)
  <2>1. step'[i] = "pruning" /\ \A j \in Ids \ {i} : step'[j] = step[j]
    BY <1>7 DEF PruneStart, At
  <2>2. doomed' \subseteq marked
    BY <1>7 DEF PruneStart
  <2>3. \A d \in torn \cup doomed' : Behind(d)'
    <3>1. CASE doomed' = {}
      BY <1>7, <3>1 DEF PruneStart, FoundInv, Behind
    <3>2. CASE doomed' # {}
      <4>1. PICK n \in marked : Newest(n)
        BY <2>2, <3>2, NewestExists DEF FoundInv
      <4>2. n \notin torn
        BY <1>0, <4>1 DEF FoundInv, Behind, Newest
      <4>3. n \notin doomed'
        BY <1>7, <4>1 DEF PruneStart, Expired
      <4>4. \A d \in torn \cup doomed' : d < n
        BY <1>0, <1>7, <4>1, <4>3 DEF PruneStart, FoundInv, Behind, Newest
      <4> QED
        BY <1>7, <4>2, <4>3, <4>4 DEF PruneStart, Behind
    <3> QED
      BY <3>1, <3>2
  <2> QED
    BY <1>7, <2>1, <2>2, <2>3 DEF PruneStart, FoundInv, HasFull
<1>8. CASE Release(i)
  BY <1>8 DEF Release, At, FoundInv, HasFull, Behind
<1>9. ASSUME NEW d \in Days, PruneDay(i, d) PROVE FoundInv'
  <2>1. \A j \in Ids : entry[j].day # d => entry'[j] = entry[j]
    BY <1>9 DEF PruneDay, In
  <2>2. Absent.at = "none"
    BY DEF Absent, Directory
  <2>3. \A j \in Ids : entry'[j].at # "none" => entry'[j] = entry[j]
    BY <1>9, <2>2 DEF PruneDay
  <2>4. \A j \in Ids : step[j] \in {"idle", "pruning"}
    BY <1>9 DEF PruneDay
  <2>5. \A e \in Days \ {d} : latest'[e] = latest[e]
    BY <1>9 DEF PruneDay, FoundInv
  <2>6. \A e \in Days \ {d} : HasFull(e) => HasFull(e)'
    BY <2>1, <2>5 DEF HasFull
  <2>7. \A e \in torn' \cup doomed' : Behind(e)'
    BY <1>9 DEF PruneDay, FoundInv, Behind
  <2> QED
    BY <1>9, <2>3, <2>4, <2>6, <2>7 DEF PruneDay, FoundInv
<1>10. CASE Stop(i)
  <2>1. step'[i] = "idle" /\ \A j \in Ids \ {i} : step'[j] = step[j]
    BY <1>10 DEF Stop
  <2>2. CASE UNCHANGED <<entry, latest, marked, torn>>
    BY <1>10, <2>1, <2>2 DEF Stop, FoundInv, HasFull, Behind
  <2>3. CASE step[i] \in Dumping /\ entry' = [entry EXCEPT ![i] = Absent]
             /\ UNCHANGED <<latest, marked, torn>>
    <3>1. entry[i].at = "tmp"
      BY <2>3 DEF FoundInv
    <3>2. entry'[i].at = "none" /\ \A j \in Ids \ {i} : entry'[j] = entry[j]
      BY <2>3 DEF Absent, Directory
    <3> QED
      BY <1>10, <2>1, <2>3, <3>1, <3>2 DEF Stop, FoundInv, HasFull, Behind
  <2>4. CASE step[i] = "pruning" /\ Tear
    <3>1. PICK d \in doomed :
              /\ torn' = torn \cup {d}
              /\ marked \ {d} \subseteq marked' /\ marked' \subseteq marked
              /\ latest' \in {latest, [latest EXCEPT ![d] = None]}
              /\ \A j \in Ids :
                    /\ entry[j].day # d => entry'[j] = entry[j]
                    /\ entry'[j].at # "none" =>
                          entry[j].at # "none" /\ entry'[j].day = entry[j].day
      BY <2>4, TearTakes
    <3>2. \A j \in Ids : step'[j] = "idle"
      BY <2>1, <2>4
    <3>3. \A e \in Days \ {d} : HasFull(e) => HasFull(e)'
      BY <3>1 DEF HasFull, FoundInv
    <3>4. doomed' = {}
      BY <1>10 DEF Stop
    <3>5. \A e \in torn' \cup doomed' : Behind(e)'
      BY <3>1, <3>4 DEF FoundInv, Behind
    <3> QED
      BY <1>10, <3>1, <3>2, <3>3, <3>4, <3>5 DEF Stop, FoundInv
  <2> QED
    BY <1>10, <2>2, <2>3, <2>4 DEF Stop
<1> QED
  BY <1>2, <1>3, <1>4, <1>5, <1>6, <1>7, <1>8, <1>9, <1>10 DEF Engine

LEMMA FoundInvHolds == Spec => []FoundInv
<1> USE ChainConstants
<1>1. Init => FoundInv
  <2> SUFFICES ASSUME Init PROVE FoundInv
    OBVIOUS
  <2>1. /\ Absent.at = "none"
        /\ Directory("here", 1, Legacy, None, 1, 0, FALSE).at = "here"
        /\ Directory("here", 1, Legacy, None, 1, 0, FALSE).day = 1
    BY DEF Absent, Directory
  <2>2. 1 \in Days
    BY DEF Days
  <2>3. \A i \in Ids : entry[i].at # "none" => i = Legacy
    BY <2>1 DEF Init
  <2>4. Legacy \in Ids => entry[Legacy].at = "here" /\ entry[Legacy].day = 1
    BY <2>1 DEF Init
  <2> QED
    BY <2>2, <2>3, <2>4 DEF Init, FoundInv, HasFull, Behind, Dumping
<1>2. RootInv /\ FoundInv /\ [Next]_vars => FoundInv'
  <2> SUFFICES ASSUME RootInv, FoundInv, [Next]_vars PROVE FoundInv'
    OBVIOUS
  <2>1. CASE \E i \in Ids : Engine(i)
    BY <2>1, EngineFinds
  <2>2. CASE (\E s \in Ids : PrepareStart(s)) \/ PrepareEnd \/ UNCHANGED vars
    BY <2>2 DEF PrepareStart, PrepareEnd, vars, FoundInv, HasFull, Behind
  <2>3. CASE Midnight
    BY <2>3 DEF Midnight, Days, FoundInv, HasFull, Behind
  <2>4. CASE Tamper
    <3>1. \A i \in Ids : entry'[i].at = entry[i].at /\ entry'[i].day = entry[i].day
      BY <2>4 DEF Tamper, RootInv, Shaped
    <3> QED
      BY <2>4, <3>1 DEF Tamper, FoundInv, HasFull, Behind
  <2> QED
    BY <2>1, <2>2, <2>3, <2>4 DEF Next
<1> QED
  BY <1>1, <1>2, RootInvHolds, PTL DEF Spec

\* FullIsAlwaysFound: wherever fulls and prunes are killed, and however long
\* they take, a root with a marked day has a full to continue unless an
\* operator prepared one in place.
THEOREM FullIsAlwaysFound == Spec => []FullIsFound
<1>1. FoundInv => FullIsFound
  <2> SUFFICES ASSUME FoundInv, marked # {}, \A i \in Ids : entry[i].raw
               PROVE  \E f \in Ids : LatestFull(f)
    BY DEF FullIsFound
  <2>1. PICK n \in marked : Newest(n)
    BY NewestExists DEF FoundInv
  <2>2. n \notin torn
    BY <2>1 DEF FoundInv, Behind, Newest, Days
  <2>3. HasFull(n)
    BY <2>2 DEF FoundInv
  <2> QED
    BY <2>1, <2>3 DEF HasFull, LatestFull, Readable
<1> QED
  BY <1>1, FoundInvHolds, PTL

\* Any set of natural numbers has a least one.
LEMMA LeastOf ==
    ASSUME NEW T \in SUBSET Nat, T # {}
    PROVE  \E m \in T : \A n \in T : m <= n
<1>1. PICK top \in T : TRUE
  OBVIOUS
<1> DEFINE R == StrictSubsetOrdering(0..top)
<1> DEFINE small == {0..(n - 1) : n \in {n \in T : n <= top}}
<1>2. IsFiniteSet(0..top)
  BY FS_Interval
<1>3. IsWellFoundedOn(R, SUBSET (0..top))
  BY <1>2, FS_StrictSubsetOrderingWellFounded, FS_FiniteSubsetsOfFinite
<1>4. small \subseteq SUBSET (0..top) /\ 0..(top - 1) \in small
  BY <1>1
<1>5. PICK s \in small : \A t \in small : <<t, s>> \notin R
  <2> HIDE DEF small, R
  <2>1. QED
    BY <1>3, <1>4, WFMin
<1>6. PICK m \in T : m <= top /\ s = 0..(m - 1)
  OBVIOUS
<1>7. ASSUME NEW n \in T, n < m PROVE FALSE
  <2>1. 0..(n - 1) \in small
    BY <1>6, <1>7
  <2>2. 0..(n - 1) \subseteq s /\ 0..(n - 1) # s /\ s \subseteq 0..top
    <3>1. n \in s /\ n \notin 0..(n - 1)
      BY <1>6, <1>7
    <3>2. QED
      BY <1>6, <1>7, <3>1
  <2>3. QED
    BY <1>5, <2>1, <2>2 DEF StrictSubsetOrdering
<1>8. QED
  BY <1>6, <1>7

----------------------------------------------------------------------------
(* The walk along a chain.                                                    *)

After(f, p) == IF Continues(f, p) = {} THEN None ELSE CHOOSE i \in Continues(f, p) : TRUE

Walks(f, k, w) == w = [n \in 0..k |-> IF n = 0 THEN f ELSE After(f, w[n - 1])]

LEMMA NamesAreFinite == Cardinality(Ids) \in Nat
BY ChainConstants, FS_CardinalityType

LEMMA WalkChoice ==
    ASSUME NEW f
    PROVE  Walk(f) = CHOOSE w : Walks(f, Cardinality(Ids), w)
BY DEF Walk, Walks, After

\* However long, there is such a walk.
LEMMA WalkExists ==
    ASSUME NEW f, NEW k \in Nat
    PROVE  \E w : Walks(f, k, w)
<1> DEFINE T == {n \in Nat : ~\E w : Walks(f, n, w)}
<1>1. SUFFICES ASSUME T # {} PROVE FALSE
  OBVIOUS
<1>2. PICK m \in T : \A n \in T : m <= n
  <2> HIDE DEF T
  <2>1. T \in SUBSET Nat
    BY DEF T
  <2>2. QED
    BY <1>1, <2>1, LeastOf
<1>3. m # 0
  <2>1. Walks(f, 0, [n \in 0..0 |-> f])
    BY DEF Walks
  <2>2. QED
    BY <1>2, <2>1
<1>4. PICK w : Walks(f, m - 1, w)
  <2>1. m - 1 \in Nat /\ ~(m <= m - 1)
    BY <1>2, <1>3
  <2>2. QED
    BY <1>2, <2>1
<1> DEFINE x == [n \in 0..m |-> IF n = m THEN After(f, w[m - 1]) ELSE w[n]]
<1>5. Walks(f, m, x)
  <2>1. m \in Nat /\ m - 1 \in Nat
    BY <1>2, <1>3
  <2>2. \A n \in 0..(m - 1) : w[n] = IF n = 0 THEN f ELSE After(f, w[n - 1])
    BY <1>4 DEF Walks
  <2>3. \A n \in 0..m : x[n] = IF n = 0 THEN f ELSE After(f, x[n - 1])
    BY <1>3, <2>1, <2>2
  <2>4. x = [n \in 0..m |-> x[n]]
    OBVIOUS
  <2> HIDE DEF x
  <2>5. [n \in 0..m |-> x[n]] = [n \in 0..m |-> IF n = 0 THEN f ELSE After(f, x[n - 1])]
    BY <2>3
  <2>6. QED
    BY <2>4, <2>5 DEF Walks
<1>6. QED
  BY <1>2, <1>5

LEMMA WalkKnown ==
    ASSUME NEW f
    PROVE  /\ Walk(f)[0] = f
           /\ \A n \in 1..Cardinality(Ids) : Walk(f)[n] = After(f, Walk(f)[n - 1])
<1>1. PICK k \in Nat : k = Cardinality(Ids)
  BY NamesAreFinite
<1>2. PICK w : w = Walk(f)
  OBVIOUS
<1>3. Walks(f, k, w)
  BY <1>1, <1>2, WalkChoice, WalkExists
<1>4. w[0] = f /\ \A n \in 1..k : w[n] = After(f, w[n - 1])
  BY <1>3 DEF Walks
<1>5. QED
  BY <1>1, <1>2, <1>4

----------------------------------------------------------------------------
(* Chains.                                                                    *)

\* A full and what continues it in order, each from what was last when it was
\* taken, under one key.
Links(f, m, c) ==
    /\ c[0] = f /\ \A a, b \in 0..m : c[a] = c[b] => a = b
    /\ Children(f) = {c[n] : n \in 1..m}
    /\ \A n \in 1..m : /\ entry[c[n]].parent = c[n - 1]
                       /\ entry[c[n]].from = entry[c[n - 1]].to
                       /\ entry[c[n]].key = entry[f].key /\ entry[c[n]].meta
                       /\ entry[c[n]].at = "here"

Chained(f) == \E m \in Nat : \E c \in [0..m -> Ids] : Links(f, m, c)

EntryOK(i) ==
    LET e == entry[i] IN
    /\ e.at \in {"none", "tmp", "here", "partial", "broken"}
    /\ e.at \in {"partial", "broken"} => e.day \in torn
    /\ e.at = "none" => e = Absent
    /\ e.at # "none" =>
          /\ e.base \in Ids /\ entry[e.base].parent = None
          /\ entry[e.base].at # "none" => entry[e.base].day = e.day
          /\ e.parent = None <=> e.base = i
    /\ e.at = "here" /\ e.day \notin torn => entry[e.base].at = "here" /\ Chained(e.base)

StepOK(i) ==
    LET e == entry[i] IN
    /\ step[i] = "full" => e.parent = None /\ \A j \in Ids : entry[j].base = i => i = j
    /\ step[i] = "incremental" =>
          /\ e.parent # None /\ entry[e.base].at = "here" /\ e.day \notin torn
          /\ e.key = entry[e.base].key /\ e.meta
          /\ e.parent \in Children(e.base) \cup {e.base}
          /\ Continues(e.base, e.parent) = {}

\* ChainInv: outside what a removal left every full has its chain, and what is
\* being dumped continues its last.
ChainInv ==
    /\ \A i \in Ids : EntryOK(i) /\ StepOK(i)
    /\ \A d \in Days : latest[d] \in Ids => entry[latest[d]].parent = None

AsBefore(i) ==
    /\ entry'[i].at = entry[i].at /\ entry'[i].day = entry[i].day
    /\ entry'[i].base = entry[i].base /\ entry'[i].parent = entry[i].parent
    /\ entry'[i].from = entry[i].from /\ entry'[i].to = entry[i].to
    /\ entry'[i].key = entry[i].key /\ entry'[i].meta = entry[i].meta

LEMMA AbsentFields ==
    /\ Absent.at = "none" /\ Absent.parent = None /\ Absent.base = None
    /\ Absent.at # "here" /\ None \notin Ids
BY ChainConstants DEF Absent, Directory

LEMMA ChainedStays ==
    ASSUME NEW f \in Ids, Chained(f), Children(f)' = Children(f),
           \A j \in Children(f) \cup {f} : AsBefore(j)
    PROVE  Chained(f)'
<1>0. PICK m \in Nat : \E c \in [0..m -> Ids] : Links(f, m, c)
  BY DEF Chained
<1>1. PICK c \in [0..m -> Ids] : Links(f, m, c)
  BY <1>0
<1>2. \A n \in 0..m : c[n] \in Children(f) \cup {f}
  BY <1>1 DEF Links
<1>3. \A n \in 0..m : AsBefore(c[n])
  BY <1>2
<1>4. \A n \in 1..m : n \in 0..m /\ n - 1 \in 0..m
  OBVIOUS
<1>5. \A n \in 1..m : /\ entry'[c[n]].parent = c[n - 1]
                      /\ entry'[c[n]].from = entry'[c[n - 1]].to
                      /\ entry'[c[n]].key = entry'[f].key /\ entry'[c[n]].meta
                      /\ entry'[c[n]].at = "here"
  <2> SUFFICES ASSUME NEW n \in 1..m
               PROVE  /\ entry'[c[n]].parent = c[n - 1]
                      /\ entry'[c[n]].from = entry'[c[n - 1]].to
                      /\ entry'[c[n]].key = entry'[f].key /\ entry'[c[n]].meta
                      /\ entry'[c[n]].at = "here"
    OBVIOUS
  <2>1. AsBefore(c[n]) /\ AsBefore(c[n - 1]) /\ AsBefore(f)
    BY <1>3, <1>4
  <2>2. /\ entry[c[n]].parent = c[n - 1] /\ entry[c[n]].from = entry[c[n - 1]].to
        /\ entry[c[n]].key = entry[f].key /\ entry[c[n]].meta /\ entry[c[n]].at = "here"
    BY <1>1 DEF Links
  <2>3. QED
    BY <2>1, <2>2 DEF AsBefore
<1>6. Links(f, m, c)'
  BY <1>1, <1>5 DEF Links
<1>7. QED
  BY <1>6 DEF Chained

\* Nothing continues the last of a chain, and everything else is continued.
LEMMA ChainEnds ==
    ASSUME NEW f \in Ids, NEW m \in Nat, NEW c \in [0..m -> Ids], Links(f, m, c)
    PROVE  /\ \A n \in 1..m : Continues(f, c[n - 1]) = {c[n]}
           /\ Continues(f, c[m]) = {} /\ Continues(f, None) = {}
           /\ \A p \in Children(f) \cup {f} : Continues(f, p) = {} => p = c[m]
<1>1. \A j \in Children(f) : \E n \in 1..m : j = c[n] /\ entry[j].parent = c[n - 1]
  BY DEF Links
<1>2. \A n \in 1..m : n \in 0..m /\ n - 1 \in 0..m /\ c[n - 1] \in Ids /\ c[n] \in Children(f)
  BY DEF Links
<1>3. \A a, b \in 0..m : c[a] = c[b] => a = b
  BY DEF Links
<1>4. \A n \in 1..m : Continues(f, c[n - 1]) = {c[n]}
  <2> SUFFICES ASSUME NEW n \in 1..m PROVE Continues(f, c[n - 1]) = {c[n]}
    OBVIOUS
  <2>1. c[n] \in Continues(f, c[n - 1])
    BY <1>2 DEF Continues, Links
  <2>2. ASSUME NEW j \in Continues(f, c[n - 1]) PROVE j = c[n]
    <3>1. j \in Children(f) /\ entry[j].parent = c[n - 1]
      BY DEF Continues
    <3>2. PICK k \in 1..m : j = c[k] /\ c[k - 1] = c[n - 1]
      BY <1>1, <3>1
    <3>3. k - 1 = n - 1
      BY <1>2, <1>3, <3>2
    <3>4. QED
      BY <3>2, <3>3
  <2>3. QED
    BY <2>1, <2>2
<1>5. Continues(f, c[m]) = {}
  <2>1. ASSUME NEW j \in Continues(f, c[m]) PROVE FALSE
    <3>1. j \in Children(f) /\ entry[j].parent = c[m]
      BY DEF Continues
    <3>2. PICK k \in 1..m : j = c[k] /\ c[k - 1] = c[m]
      BY <1>1, <3>1
    <3>3. k - 1 = m
      BY <1>2, <1>3, <3>2
    <3>4. QED
      BY <3>3
  <2>2. QED
    BY <2>1
<1>6. Continues(f, None) = {}
  <2>1. ASSUME NEW j \in Continues(f, None) PROVE FALSE
    <3>1. j \in Children(f) /\ entry[j].parent = None
      BY DEF Continues
    <3>2. PICK k \in 1..m : c[k - 1] = None
      BY <1>1, <3>1
    <3>3. QED
      BY <1>2, <3>2, AbsentFields
  <2>2. QED
    BY <2>1
<1>7. ASSUME NEW p \in Children(f) \cup {f}, Continues(f, p) = {} PROVE p = c[m]
  <2>1. PICK n \in 0..m : p = c[n]
    <3>1. CASE p = f
      <4>1. c[0] = f /\ 0 \in 0..m
        BY DEF Links
      <4>2. QED
        BY <3>1, <4>1
    <3>2. CASE p \in Children(f)
      BY <1>1, <1>2, <3>2
    <3>3. QED
      BY <3>1, <3>2
  <2>2. CASE n = m
    BY <2>1, <2>2
  <2>3. CASE n # m
    <3>1. n + 1 \in 1..m /\ (n + 1) - 1 = n
      BY <2>3
    <3>2. Continues(f, c[n]) = {c[n + 1]}
      BY <1>4, <3>1
    <3>3. QED
      BY <1>7, <2>1, <3>2
  <2>4. QED
    BY <2>2, <2>3
<1>8. QED
  BY <1>4, <1>5, <1>6, <1>7

\* A step that renames, writes and removes nothing.
LEMMA ChainUnmoved ==
    ASSUME ChainInv, torn' = torn,
           \A j \in Ids : entry'[j] = entry[j] \/ (entry[j].at = "here" /\ AsBefore(j)),
           \A j \in Ids : step'[j] = step[j] \/ step'[j] \notin Dumping,
           \A d \in Days : latest'[d] \in Ids => entry[latest'[d]].parent = None
    PROVE  ChainInv'
<1>1. \A j \in Ids : AsBefore(j)
  BY DEF AsBefore
<1>2. \A f \in Ids : Children(f)' = Children(f)
  BY <1>1 DEF Children, AsBefore
<1>3. \A f \in Ids : Chained(f) => Chained(f)'
  BY <1>1, <1>2, ChainedStays DEF Children
<1>4. \A f, p : f \in Ids /\ p \in Ids => Continues(f, p)' = Continues(f, p)
  BY <1>1, <1>2 DEF Continues, Children, AsBefore
<1>5. ASSUME NEW i \in Ids PROVE EntryOK(i)'
  <2>1. EntryOK(i) /\ AsBefore(i)
    BY <1>1 DEF ChainInv
  <2>2. entry[i].at = "none" => entry'[i] = entry[i]
    OBVIOUS
  <2>3. entry[i].base \in Ids => AsBefore(entry[i].base)
    BY <1>1
  <2>4. QED
    BY <1>3, <2>1, <2>2, <2>3 DEF EntryOK, AsBefore
<1>6. ASSUME NEW i \in Ids PROVE StepOK(i)'
  <2>1. StepOK(i) /\ EntryOK(i) /\ AsBefore(i)
    BY <1>1 DEF ChainInv
  <2>2. CASE step'[i] \notin Dumping
    BY <2>2 DEF StepOK, Dumping
  <2>3. CASE step'[i] = step[i] /\ step[i] = "full"
    BY <1>1, <2>1, <2>3 DEF StepOK, AsBefore
  <2>4. CASE step'[i] = step[i] /\ step[i] = "incremental"
    <3>1. entry[i].at # "none"
      BY <2>1, <2>4, AbsentFields DEF EntryOK, StepOK
    <3>2. PICK f \in Ids : f = entry[i].base
      BY <2>1, <3>1 DEF EntryOK
    <3>3. AsBefore(f) /\ AsBefore(i) /\ Children(f)' = Children(f)
      BY <1>1, <1>2
    <3>4. entry[i].parent \in Children(f) \cup {f} /\ Continues(f, entry[i].parent) = {}
      BY <2>1, <2>4, <3>2 DEF StepOK
    <3>5. PICK p \in Ids : p = entry[i].parent
      BY <3>4 DEF Children
    <3>6. Continues(f, p)' = {}
      BY <1>4, <3>4, <3>5
    <3>7. entry'[i].base = f /\ entry'[i].parent = p
      BY <3>2, <3>3, <3>5 DEF AsBefore
    <3>8. QED
      BY <2>1, <2>4, <3>2, <3>3, <3>4, <3>5, <3>6, <3>7 DEF StepOK, AsBefore
  <2>5. QED
    BY <2>2, <2>3, <2>4 DEF Dumping
<1>7. \A d \in Days : latest'[d] \in Ids => entry'[latest'[d]].parent = None
  BY <1>1 DEF AsBefore
<1>8. QED
  BY <1>5, <1>6, <1>7 DEF ChainInv

\* A directory under a temporary name comes or goes: no chain has it.
LEMMA ChainedAside ==
    ASSUME ChainInv, NEW i \in Ids, entry[i].at \in {"none", "tmp"}, entry'[i].at \in {"none", "tmp"},
           \A j \in Ids \ {i} : entry'[j] = entry[j]
    PROVE  /\ \A f \in Ids : Children(f)' = Children(f)
           /\ \A f \in Ids : Chained(f) /\ f # i => Chained(f)'
           /\ \A f, p : f \in Ids /\ p \in Ids => Continues(f, p)' = Continues(f, p)
<1>1. \A f \in Ids : Children(f)' = Children(f)
  BY DEF Children
<1>2. ASSUME NEW f \in Ids, Chained(f), f # i PROVE Chained(f)'
  <2>1. \A j \in Children(f) \cup {f} : entry'[j] = entry[j]
    BY <1>2 DEF Children
  <2>2. \A j \in Children(f) \cup {f} : AsBefore(j)
    BY <2>1 DEF AsBefore
  <2>3. QED
    BY <1>1, <1>2, <2>2, ChainedStays
<1>3. \A f, p : f \in Ids /\ p \in Ids => Continues(f, p)' = Continues(f, p)
  <2> SUFFICES ASSUME NEW f \in Ids, NEW p \in Ids PROVE Continues(f, p)' = Continues(f, p)
    OBVIOUS
  <2>1. \A j \in Children(f) : j # i
    BY DEF Children
  <2>2. \A j \in Children(f) : entry'[j] = entry[j]
    BY <2>1 DEF Children
  <2>3. QED
    BY <1>1, <2>2 DEF Continues
<1>4. QED
  BY <1>1, <1>2, <1>3

\* An attempt starts: nothing refers to its name yet.
LEMMA ChainStarts ==
    ASSUME RootInv, ChainInv, NEW i \in Ids, Fresh(i), lock = None, NEW e,
           e.at = "tmp", entry' = [entry EXCEPT ![i] = e], torn' = torn, latest' = latest,
           \A j \in Ids \ {i} : step'[j] = step[j],
           e.base \in Ids, entry'[e.base].parent = None,
           entry'[e.base].at # "none" => entry'[e.base].day = e.day,
           e.parent = None <=> e.base = i,
           StepOK(i)'
    PROVE  ChainInv'
<1>1. /\ entry[i] = Absent /\ entry[i].at = "none" /\ entry'[i] = e
      /\ \A j \in Ids \ {i} : entry'[j] = entry[j]
      /\ \A j \in Ids : entry[j].base # i
      /\ \A d \in Days : latest[d] # i
  BY AbsentFields DEF Fresh, RootInv
<1>2. /\ \A f \in Ids : Children(f)' = Children(f)
      /\ \A f \in Ids : Chained(f) /\ f # i => Chained(f)'
  BY <1>1, ChainedAside
<1>3. ASSUME NEW j \in Ids, j # i PROVE EntryOK(j)' /\ StepOK(j)'
  <2>1. EntryOK(j) /\ entry'[j] = entry[j] /\ entry[j].base # i
    BY <1>1, <1>3 DEF ChainInv
  <2>2. entry[j].base \in Ids => entry'[entry[j].base] = entry[entry[j].base]
    BY <1>1
  <2>3. EntryOK(j)'
    BY <1>2, <2>1, <2>2 DEF EntryOK
  <2>4. step[j] = "idle" /\ step'[j] = "idle"
    BY <1>3, ChainConstants DEF RootInv
  <2>5. QED
    BY <2>3, <2>4 DEF StepOK
<1>4. EntryOK(i)'
  BY <1>1 DEF EntryOK
<1>5. \A d \in Days : latest'[d] \in Ids => entry'[latest'[d]].parent = None
  BY <1>1 DEF ChainInv
<1>6. QED
  BY <1>3, <1>4, <1>5 DEF ChainInv

LEMMA FullStartChains ==
    ASSUME RootInv, ChainInv, NEW i \in Ids, FullStart(i)
    PROVE  ChainInv'
<1>1. PICK e : e = Pending(i, today, i, None)
  OBVIOUS
<1>2. e.at = "tmp" /\ e.base = i /\ e.parent = None /\ e.day = today
  BY <1>1 DEF Pending, Directory
<1>3. /\ Fresh(i) /\ lock = None /\ entry' = [entry EXCEPT ![i] = e] /\ torn' = torn /\ latest' = latest
      /\ step' = [step EXCEPT ![i] = "full"] /\ step'[i] = "full"
  BY <1>1 DEF FullStart, Acquire, RootInv
<1>4. entry'[i] = e /\ \A j \in Ids \ {i} : entry'[j] = entry[j] /\ entry[j].base # i /\ step'[j] = step[j]
  BY <1>3 DEF Fresh, RootInv
<1>5. StepOK(i)'
  BY <1>2, <1>3, <1>4 DEF StepOK
<1>6. QED
  BY <1>2, <1>3, <1>4, <1>5, ChainStarts

LEMMA IncrementalStartChains ==
    ASSUME RootInv, FoundInv, ChainInv, NEW i \in Ids, NEW f \in Ids, IncrementalStart(i, f)
    PROVE  ChainInv'
<1>1. /\ Fresh(i) /\ lock = None /\ CanContinue(f)
      /\ entry' = [entry EXCEPT ![i] = Pending(i, entry[f].day, f, Tip(f))]
      /\ torn' = torn /\ latest' = latest
      /\ step' = [step EXCEPT ![i] = "incremental"] /\ step'[i] = "incremental"
  BY DEF IncrementalStart, Acquire, RootInv
<1>2. PICK d \in marked : Newest(d) /\ latest[d] = f
  BY <1>1 DEF CanContinue, LatestFull
<1>3. d \in Days /\ d \notin torn
  BY <1>2 DEF FoundInv, Behind, Newest, Days
<1>4. entry[f].at = "here" /\ entry[f].day \notin torn /\ entry[f].parent = None
  BY <1>2, <1>3 DEF FoundInv, HasFull, ChainInv
<1>5. entry[f].base = f /\ Chained(f)
  BY <1>4 DEF ChainInv, EntryOK
<1>6. PICK m \in Nat : \E c \in [0..m -> Ids] : Links(f, m, c)
  BY <1>5 DEF Chained
<1>7. PICK c \in [0..m -> Ids] : Links(f, m, c)
  BY <1>6
<1>8. c[m] \in Children(f) \cup {f} /\ Continues(f, c[m]) = {}
  <2>1. Continues(f, c[m]) = {}
    BY <1>7, ChainEnds
  <2>2. m = 0 \/ m \in 1..m
    OBVIOUS
  <2>3. QED
    BY <1>7, <2>1, <2>2 DEF Links
<1>9. Tip(f) \in Children(f) \cup {f} /\ Continues(f, Tip(f)) = {}
  BY <1>8 DEF Tip
<1>10. Tip(f) \in Ids /\ Tip(f) # None
  BY <1>9, AbsentFields DEF Children
<1>11. entry[Tip(f)].key = entry[f].key
  BY <1>7, <1>9 DEF Links
<1>12. entry[Tip(f)].key = key
  BY <1>1 DEF CanContinue
<1>13. PICK e : e = Pending(i, entry[f].day, f, Tip(f))
  OBVIOUS
<1>14. /\ e.at = "tmp" /\ e.base = f /\ e.parent = Tip(f) /\ e.day = entry[f].day
       /\ e.key = key /\ e.meta
  BY <1>13 DEF Pending, Directory
<1>15. entry[i].at = "none" /\ i # f
  BY <1>1, <1>4, AbsentFields DEF Fresh
<1>16. entry'[i] = e /\ \A j \in Ids \ {i} : entry'[j] = entry[j] /\ step'[j] = step[j]
  BY <1>1, <1>13 DEF RootInv
<1>17. PICK p \in Ids : p = Tip(f) /\ p # None /\ p \in Children(f) \cup {f} /\ Continues(f, p) = {}
  BY <1>9, <1>10
<1>18. /\ entry'[i].at = "tmp" /\ entry'[i].base = f /\ entry'[i].parent = p
       /\ entry'[i].day = entry[f].day /\ entry'[i].key = key /\ entry'[i].meta
       /\ entry'[f] = entry[f] /\ entry[i].at = "none"
  BY <1>14, <1>15, <1>16, <1>17
<1>19. \A j \in Ids \ {i} : entry'[j] = entry[j]
  BY <1>16
<1>20. Children(f)' = Children(f) /\ Continues(f, p)' = {}
  <2>1. entry[i].at \in {"none", "tmp"} /\ entry'[i].at \in {"none", "tmp"}
    BY <1>18
  <2>2. \A g \in Ids : Children(g)' = Children(g)
    BY <1>19, <2>1, ChainedAside
  <2>3. \A g, q : g \in Ids /\ q \in Ids => Continues(g, q)' = Continues(g, q)
    BY <1>19, <2>1, ChainedAside
  <2>4. QED
    BY <1>17, <2>2, <2>3
<1>21. StepOK(i)'
  <2>1. entry'[f].at = "here" /\ entry'[i].day \notin torn' /\ entry'[i].key = entry'[f].key
        /\ entry'[i].parent # None /\ step'[i] = "incremental"
    <3>1. step'[i] = "incremental" /\ torn' = torn
      BY <1>1
    <3>2. entry[f].key = key
      BY <1>11, <1>12
    <3>3. QED
      BY <1>4, <1>17, <1>18, <3>1, <3>2
  <2>2. p \in Children(f)' \cup {f} /\ Continues(f, p)' = {} /\ entry'[i].meta
    BY <1>17, <1>18, <1>20
  <2>3. QED
    BY <1>18, <2>1, <2>2 DEF StepOK
<1>22. e.base \in Ids /\ entry'[e.base].parent = None /\ entry'[e.base].day = e.day
       /\ (e.parent = None <=> e.base = i)
  BY <1>4, <1>14, <1>15, <1>17, <1>18
<1>23. entry' = [entry EXCEPT ![i] = e]
  BY <1>1, <1>13
<1>24. QED
  BY <1>1, <1>14, <1>16, <1>21, <1>22, <1>23, ChainStarts

LEMMA ChainedFull ==
    ASSUME NEW f \in Ids, Children(f)' = {}
    PROVE  Chained(f)'
<1>1. PICK c \in [0..0 -> Ids] : c[0] = f
  <2>1. [n \in 0..0 |-> f] \in [0..0 -> Ids] /\ [n \in 0..0 |-> f][0] = f
    OBVIOUS
  <2>2. QED
    BY <2>1
<1>2. Links(f, 0, c)'
  BY <1>1 DEF Links
<1>3. QED
  BY <1>2 DEF Chained

\* A chain with one more.
LEMMA ChainedLonger ==
    ASSUME NEW f \in Ids, Chained(f), NEW i \in Ids \ {f}, i \notin Children(f),
           NEW p \in Children(f) \cup {f}, Continues(f, p) = {},
           Children(f)' = Children(f) \cup {i},
           \A j \in Children(f) \cup {f} : entry'[j] = entry[j],
           entry'[i].parent = p, entry'[i].from = entry[p].to,
           entry'[i].key = entry[f].key, entry'[i].meta, entry'[i].at = "here"
    PROVE  Chained(f)'
<1>1. PICK m \in Nat : \E c \in [0..m -> Ids] : Links(f, m, c)
  BY DEF Chained
<1>2. PICK c \in [0..m -> Ids] : Links(f, m, c)
  BY <1>1
<1>3. p = c[m]
  BY <1>2, ChainEnds
<1>4. PICK x : x = [n \in 0..(m + 1) |-> IF n = m + 1 THEN i ELSE c[n]]
  OBVIOUS
<1>5. /\ x \in [0..(m + 1) -> Ids] /\ x[m + 1] = i
      /\ \A n \in 0..m : x[n] = c[n] /\ n # m + 1 /\ n \in 0..(m + 1)
  BY <1>4
<1>6. \A n \in 0..m : c[n] \in Children(f) \cup {f} /\ c[n] # i
  BY <1>2 DEF Links
<1>7. x[0] = f
  BY <1>2, <1>5 DEF Links
<1>8. \A a, b \in 0..(m + 1) : x[a] = x[b] => a = b
  <2>1. \A a \in 0..(m + 1) : a = m + 1 \/ a \in 0..m
    OBVIOUS
  <2>2. \A a, b \in 0..m : c[a] = c[b] => a = b
    BY <1>2 DEF Links
  <2>3. QED
    BY <1>5, <1>6, <2>1, <2>2
<1>9. Children(f)' = {x[n] : n \in 1..(m + 1)}
  <2>1. Children(f) = {c[n] : n \in 1..m}
    BY <1>2 DEF Links
  <2>2. {x[n] : n \in 1..(m + 1)} = {x[n] : n \in 1..m} \cup {x[m + 1]}
    OBVIOUS
  <2>3. \A n \in 1..m : x[n] = c[n]
    BY <1>5
  <2>4. {x[n] : n \in 1..m} = {c[n] : n \in 1..m}
    BY <2>3
  <2>5. QED
    BY <1>5, <2>1, <2>2, <2>4
<1>10. ASSUME NEW n \in 1..(m + 1)
       PROVE  /\ entry'[x[n]].parent = x[n - 1] /\ entry'[x[n]].from = entry'[x[n - 1]].to
              /\ entry'[x[n]].key = entry'[f].key /\ entry'[x[n]].meta
              /\ entry'[x[n]].at = "here"
  <2>1. CASE n = m + 1
    <3>1. x[n] = i /\ x[n - 1] = p /\ entry'[p] = entry[p] /\ entry'[f] = entry[f]
      BY <1>3, <1>5, <2>1
    <3>2. QED
      BY <3>1
  <2>2. CASE n \in 1..m
    <3>1. n \in 0..m /\ n - 1 \in 0..m
      BY <2>2
    <3>2. /\ x[n] = c[n] /\ x[n - 1] = c[n - 1]
          /\ entry'[c[n]] = entry[c[n]] /\ entry'[c[n - 1]] = entry[c[n - 1]]
          /\ entry'[f] = entry[f]
      BY <1>5, <1>6, <3>1
    <3>3. /\ entry[c[n]].parent = c[n - 1] /\ entry[c[n]].from = entry[c[n - 1]].to
          /\ entry[c[n]].key = entry[f].key /\ entry[c[n]].meta
          /\ entry[c[n]].at = "here"
      BY <1>2, <2>2 DEF Links
    <3>4. QED
      BY <3>2, <3>3
  <2>3. n = m + 1 \/ n \in 1..m
    OBVIOUS
  <2>4. QED
    BY <2>1, <2>2, <2>3
<1>11. Links(f, m + 1, x)'
  BY <1>7, <1>8, <1>9, <1>10 DEF Links
<1>12. m + 1 \in Nat
  OBVIOUS
<1>13. QED
  BY <1>5, <1>11, <1>12 DEF Chained

LEMMA PublishChains ==
    ASSUME RootInv, FoundInv, ChainInv, NEW i \in Ids,
           NEW from \in 0..MaxLsn, NEW to \in 0..MaxLsn, Publish(i, from, to)
    PROVE  ChainInv'
<1>1. /\ step[i] \in Dumping /\ entry[i].at = "tmp" /\ torn' = torn /\ latest' = latest
      /\ step[i] # "full" => from = entry[entry[i].parent].to
  BY DEF Publish, FoundInv
<1>2. /\ entry'[i].at = "here" /\ entry'[i].day = entry[i].day /\ entry'[i].base = entry[i].base
      /\ entry'[i].parent = entry[i].parent /\ entry'[i].key = entry[i].key
      /\ entry'[i].meta = entry[i].meta /\ entry'[i].from = from
  BY DEF Publish, RootInv, Shaped
<1>3. \A j \in Ids \ {i} : entry'[j] = entry[j] /\ step'[j] = step[j] /\ step[j] = "idle"
  BY <1>1, ChainConstants DEF Publish, RootInv, Dumping
<1>4. step'[i] = "published"
  BY DEF Publish, RootInv
<1>5. \A j \in Ids : StepOK(j)'
  BY <1>3, <1>4 DEF StepOK
<1>6. PICK f \in Ids : f = entry[i].base
  BY <1>1 DEF ChainInv, EntryOK
<1>7. /\ entry[f].parent = None /\ (entry[f].at # "none" => entry[f].day = entry[i].day)
      /\ (entry[i].parent = None <=> f = i) /\ StepOK(i) /\ EntryOK(i)
  BY <1>1, <1>6 DEF ChainInv, EntryOK
<1>8. ASSUME NEW g \in Ids \ {f, i}, Chained(g) PROVE Chained(g)'
  <2>1. Children(g)' = Children(g)
    BY <1>2, <1>3, <1>6, <1>8 DEF Children
  <2>2. \A j \in Children(g) \cup {g} : AsBefore(j)
    BY <1>3, <1>6, <1>8 DEF Children, AsBefore
  <2>3. QED
    BY <1>8, <2>1, <2>2, ChainedStays
<1>9. (entry'[i].day \notin torn' => entry'[f].at = "here") /\ Chained(f)'
  <2>1. CASE step[i] = "full"
    <3>1. entry[i].parent = None /\ f = i
      BY <1>7, <2>1 DEF StepOK
    <3>2. Children(i)' = {}
      BY <1>2, <1>3, <1>7, <2>1 DEF StepOK, Children
    <3>3. Chained(i)'
      BY <3>2, ChainedFull
    <3>4. QED
      BY <1>2, <3>1, <3>3
  <2>2. CASE step[i] = "incremental"
    <3>1. /\ entry[i].parent # None /\ entry[f].at = "here" /\ entry[i].day \notin torn
          /\ entry[i].key = entry[f].key
          /\ entry[i].parent \in Children(f) \cup {f} /\ Continues(f, entry[i].parent) = {}
      BY <1>6, <1>7, <2>2 DEF StepOK
    <3>2. entry[i].meta
      BY <1>7, <2>2 DEF StepOK
    <3>3. f # i
      BY <1>7, <3>1
    <3>4. entry[f].base = f /\ Chained(f)
      BY <1>7, <3>1 DEF ChainInv, EntryOK
    <3>5. PICK p \in Children(f) \cup {f} : p = entry[i].parent
      BY <3>1
    <3>6. i \notin Children(f) /\ Children(f)' = Children(f) \cup {i}
      BY <1>1, <1>2, <1>3, <1>6, <3>3 DEF Children
    <3>7. \A j \in Children(f) \cup {f} : entry'[j] = entry[j]
      BY <1>3, <3>3, <3>6 DEF Children
    <3>8. /\ entry'[i].parent = p /\ entry'[i].from = entry[p].to
          /\ entry'[i].key = entry[f].key /\ entry'[i].at = "here"
      BY <1>1, <1>2, <2>2, <3>1, <3>5
    <3>9. entry'[i].meta
      BY <1>2, <3>2
    <3>10. Continues(f, p) = {}
      BY <3>1, <3>5
    <3>11. Chained(f)'
      BY <3>3, <3>4, <3>6, <3>7, <3>8, <3>9, <3>10, ChainedLonger
    <3>12. QED
      BY <1>3, <3>1, <3>3, <3>11
  <2>3. QED
    BY <1>1, <2>1, <2>2 DEF Dumping
<1>10. entry'[f].parent = None /\ (entry'[f].at # "none" => entry'[f].day = entry'[i].day)
  BY <1>2, <1>3, <1>7
<1>11. EntryOK(i)'
  BY <1>2, <1>6, <1>7, <1>9, <1>10 DEF EntryOK
<1>12. ASSUME NEW j \in Ids \ {i} PROVE EntryOK(j)'
  <2>1. EntryOK(j) /\ entry'[j] = entry[j]
    BY <1>3 DEF ChainInv
  <2>2. CASE entry[j].at = "none"
    BY <2>1, <2>2 DEF EntryOK
  <2>3. CASE entry[j].at # "none"
    <3>1. PICK g \in Ids : g = entry[j].base /\ entry[g].parent = None
      BY <2>1, <2>3 DEF EntryOK
    <3>2. entry'[g].parent = None /\ entry'[g].day = entry[g].day
          /\ (entry[g].at = "here" => entry'[g].at = "here")
          /\ (entry'[g].at # "none" => entry[g].at # "none")
      BY <1>1, <1>2, <1>3, <3>1
    <3>3. g = i => g = f
      BY <1>7, <3>1
    <3>4. Chained(g) => Chained(g)'
      BY <1>8, <1>9, <3>3
    <3>5. QED
      BY <1>1, <2>1, <2>3, <3>1, <3>2, <3>4 DEF EntryOK
  <2>4. QED
    BY <2>2, <2>3
<1>13. \A d \in Days : latest'[d] \in Ids => entry'[latest'[d]].parent = None
  BY <1>1, <1>2, <1>3 DEF ChainInv
<1>14. QED
  BY <1>5, <1>11, <1>12, <1>13 DEF ChainInv

\* A dated directory goes, or part of it does: no other chain loses anything.
LEMMA RemovalChains ==
    ASSUME ChainInv, NEW d,
           \A j \in Ids : entry[j].day # d => entry'[j] = entry[j],
           \A j \in Ids : entry'[j] = Absent \/ entry'[j] = entry[j] \/ HalfRemoved(j, d),
           torn' \ {d} = torn \ {d},
           d \in torn' \/ \A j \in Ids : entry[j].day = d => entry'[j] = Absent,
           \A j \in Ids : step'[j] \notin Dumping,
           \A e \in Days : latest'[e] = latest[e] \/ latest'[e] \notin Ids
    PROVE  ChainInv'
<1>1. \A j \in Ids : EntryOK(j)
  BY DEF ChainInv
<1>2. \A j \in Ids : entry[j].at = "none" => entry'[j] = entry[j] /\ entry[j] = Absent
  BY <1>1 DEF EntryOK, HalfRemoved
<1>3. ASSUME NEW g \in Ids, entry[g].at # "none", entry[g].day # d, Chained(g)
      PROVE  Chained(g)'
  <2>1. \A j \in Ids : entry[j].base = g => entry'[j] = entry[j]
    <3> SUFFICES ASSUME NEW j \in Ids, entry[j].base = g PROVE entry'[j] = entry[j]
      OBVIOUS
    <3>1. CASE entry[j].at = "none"
      BY <1>2, <3>1
    <3>2. CASE entry[j].at # "none"
      BY <1>1, <1>3, <3>2 DEF EntryOK
    <3>3. QED
      BY <3>1, <3>2
  <2>2. \A j \in Ids : entry'[j].base = g => entry'[j] = entry[j]
    <3> SUFFICES ASSUME NEW j \in Ids, entry'[j].base = g PROVE entry'[j] = entry[j]
      OBVIOUS
    <3>1. entry'[j] # Absent
      BY AbsentFields
    <3>2. QED
      BY <2>1, <3>1 DEF HalfRemoved
  <2>3. Children(g)' = Children(g)
    BY <2>1, <2>2 DEF Children
  <2>4. \A j \in Children(g) \cup {g} : AsBefore(j)
    BY <1>3, <2>1 DEF Children, AsBefore
  <2>5. QED
    BY <1>3, <2>3, <2>4, ChainedStays
<1>4. ASSUME NEW j \in Ids PROVE EntryOK(j)'
  <2>1. CASE entry'[j] = Absent
    BY <2>1, AbsentFields DEF EntryOK
  <2>2. CASE entry'[j] # Absent
    <3>1. /\ entry[j].at # "none" /\ entry'[j].day = entry[j].day /\ entry'[j].base = entry[j].base
          /\ entry'[j].parent = entry[j].parent
          /\ entry'[j].at = entry[j].at \/ (entry'[j].at \in {"partial", "broken"} /\ entry[j].day = d)
      BY <1>2, <2>2 DEF HalfRemoved
    <3>2. entry'[j].at \in {"tmp", "here", "partial", "broken"}
      BY <1>1, <3>1 DEF EntryOK
    <3>3. entry[j].day = d => d \in torn'
      BY <2>2
    <3>4. entry'[j].at \in {"partial", "broken"} => entry'[j].day \in torn'
      BY <1>1, <3>1, <3>3 DEF EntryOK
    <3>5. PICK g \in Ids : g = entry[j].base
      BY <1>1, <3>1 DEF EntryOK
    <3>6. /\ entry[g].parent = None /\ (entry[g].at # "none" => entry[g].day = entry[j].day)
          /\ (entry[j].parent = None <=> g = j)
      BY <1>1, <3>1, <3>5 DEF EntryOK
    <3>7. entry'[g].parent = None /\ (entry'[g].at # "none" => entry'[g].day = entry[j].day)
      BY <1>2, <3>6, AbsentFields DEF HalfRemoved
    <3>8. ASSUME entry'[j].at = "here", entry'[j].day \notin torn'
          PROVE  entry'[g].at = "here" /\ Chained(g)'
      <4>1. entry[j].at = "here" /\ entry[j].day # d /\ entry[j].day \notin torn
        BY <3>1, <3>3, <3>8
      <4>2. entry[g].at = "here" /\ Chained(g)
        BY <1>1, <3>5, <4>1 DEF EntryOK
      <4>3. entry[g].day # d
        BY <3>6, <4>1, <4>2
      <4>4. QED
        BY <1>3, <4>2, <4>3
    <3>9. QED
      BY <3>1, <3>2, <3>4, <3>5, <3>6, <3>7, <3>8 DEF EntryOK
  <2>3. QED
    BY <2>1, <2>2
<1>5. \A j \in Ids : StepOK(j)'
  BY DEF StepOK, Dumping
<1>6. \A e \in Days : latest'[e] \in Ids => entry'[latest'[e]].parent = None
  <2> SUFFICES ASSUME NEW e \in Days, latest'[e] \in Ids PROVE entry'[latest'[e]].parent = None
    OBVIOUS
  <2>1. PICK j \in Ids : j = latest'[e] /\ entry[j].parent = None
    BY DEF ChainInv
  <2>2. QED
    BY <2>1, AbsentFields DEF HalfRemoved
<1>7. QED
  BY <1>4, <1>5, <1>6 DEF ChainInv

LEMMA PruneDayChains ==
    ASSUME RootInv, FoundInv, ChainInv, NEW i \in Ids, NEW d \in Days, PruneDay(i, d)
    PROVE  ChainInv'
<1>1. \A j \in Ids : step'[j] \notin Dumping
  BY ChainConstants DEF PruneDay, RootInv, Dumping
<1>2. \A j \in Ids : entry[j].at = "none" => entry[j] = Absent
  BY DEF ChainInv, EntryOK
<1>3. \A j \in Ids : entry'[j] = IF j \in In(d) THEN Absent ELSE entry[j]
  BY DEF PruneDay
<1>4. \A j \in Ids : entry[j].day = d => entry'[j] = Absent
  BY <1>2, <1>3 DEF In
<1>5. \A e \in Days : latest'[e] = latest[e] \/ latest'[e] \notin Ids
  BY AbsentFields DEF PruneDay, FoundInv
<1>6. torn' = torn \ {d}
  BY DEF PruneDay
<1>7. \A j \in Ids : entry[j].day # d => entry'[j] = entry[j]
  BY <1>3 DEF In
<1>8. QED
  BY <1>1, <1>3, <1>4, <1>5, <1>6, <1>7, RemovalChains

LEMMA StopChains ==
    ASSUME RootInv, FoundInv, ChainInv, NEW i \in Ids, Stop(i)
    PROVE  ChainInv'
<1>1. \A j \in Ids : step'[j] = "idle"
  BY ChainConstants DEF Stop, RootInv, Running, Dumping
<1>2. CASE UNCHANGED <<entry, latest, marked, torn>>
  <2>1. \A d \in Days : latest'[d] \in Ids => entry[latest'[d]].parent = None
    BY <1>2 DEF ChainInv
  <2>2. QED
    BY <1>1, <1>2, <2>1, ChainUnmoved DEF Dumping
<1>3. CASE step[i] \in Dumping /\ entry' = [entry EXCEPT ![i] = Absent] /\ UNCHANGED <<latest, marked, torn>>
  <2>1. entry[i].at = "tmp" /\ entry'[i] = Absent /\ \A j \in Ids \ {i} : entry'[j] = entry[j]
    BY <1>3 DEF FoundInv, RootInv
  <2>2. \A f \in Ids : Chained(f) /\ f # i => Chained(f)'
    BY <2>1, ChainedAside, AbsentFields
  <2>3. ASSUME NEW j \in Ids \ {i} PROVE EntryOK(j)'
    <3>1. EntryOK(j) /\ entry'[j] = entry[j]
      BY <2>1 DEF ChainInv
    <3>2. CASE entry[j].at = "none"
      BY <3>1, <3>2 DEF EntryOK
    <3>3. CASE entry[j].at # "none"
      <4>1. PICK g \in Ids : g = entry[j].base /\ entry[g].parent = None
        BY <3>1, <3>3 DEF EntryOK
      <4>2. entry'[g].parent = None /\ (entry'[g].at # "none" => entry'[g] = entry[g])
            /\ (entry[g].at = "here" => g # i /\ entry'[g] = entry[g])
        BY <2>1, <4>1, AbsentFields
      <4>3. QED
        BY <1>3, <2>2, <3>1, <3>3, <4>1, <4>2 DEF EntryOK
    <3>4. QED
      BY <3>2, <3>3
  <2>4. EntryOK(i)'
    BY <2>1, AbsentFields DEF EntryOK
  <2>5. \A j \in Ids : StepOK(j)'
    BY <1>1 DEF StepOK
  <2>6. \A d \in Days : latest'[d] \in Ids => entry'[latest'[d]].parent = None
    BY <1>3, <2>1, AbsentFields DEF ChainInv
  <2>7. QED
    BY <2>3, <2>4, <2>5, <2>6 DEF ChainInv
<1>4. CASE step[i] = "pruning" /\ Tear
  <2>1. PICK d \in doomed :
              /\ torn' = torn \cup {d}
              /\ latest' \in {latest, [latest EXCEPT ![d] = None]}
              /\ \A j \in Ids :
                    /\ entry[j].day # d => entry'[j] = entry[j]
                    /\ entry'[j] = Absent \/ entry'[j] = entry[j] \/ HalfRemoved(j, d)
    BY <1>4, TearTakes
  <2>2. \A e \in Days : latest'[e] = latest[e] \/ latest'[e] \notin Ids
    BY <2>1, AbsentFields DEF FoundInv
  <2>3. torn' \ {d} = torn \ {d} /\ d \in torn'
    BY <2>1
  <2>4. \A j \in Ids : step'[j] \notin Dumping
    BY <1>1 DEF Dumping
  <2>5. QED
    BY <2>1, <2>2, <2>3, <2>4, RemovalChains
<1>5. QED
  BY <1>2, <1>3, <1>4 DEF Stop

LEMMA EngineChains ==
    ASSUME RootInv, FoundInv, ChainInv, NEW i \in Ids, Engine(i)
    PROVE  ChainInv'
<1>1. CASE FullStart(i)
  BY <1>1, FullStartChains
<1>2. CASE \E f \in Ids : IncrementalStart(i, f)
  BY <1>2, IncrementalStartChains
<1>3. CASE \E from, to \in 0..MaxLsn : Publish(i, from, to)
  BY <1>3, PublishChains
<1>4. CASE Link(i)
  <2>1. /\ entry' = entry /\ torn' = torn /\ entry[i].parent = None
        /\ latest' = [latest EXCEPT ![entry[i].day] = i]
        /\ \A j \in Ids : step'[j] = step[j] \/ step'[j] = "linked"
    BY <1>4 DEF Link, At, RootInv, IsFull
  <2>2. \A d \in Days : latest'[d] \in Ids => entry[latest'[d]].parent = None
    BY <2>1 DEF ChainInv, FoundInv
  <2>3. QED
    BY <2>1, <2>2, ChainUnmoved DEF Dumping
<1>5. CASE Mark(i) \/ PruneStart(i) \/ Release(i)
  <2>1. /\ entry' = entry /\ torn' = torn /\ latest' = latest
        /\ \A j \in Ids : step'[j] = step[j] \/ step'[j] \in {"marked", "pruning", "idle"}
    BY <1>5 DEF Mark, PruneStart, Release, At, RootInv
  <2>2. \A d \in Days : latest'[d] \in Ids => entry[latest'[d]].parent = None
    BY <2>1 DEF ChainInv
  <2>3. QED
    BY <2>1, <2>2, ChainUnmoved DEF Dumping
<1>6. CASE Stop(i)
  BY <1>6, StopChains
<1>7. CASE \E d \in Days : PruneDay(i, d)
  BY <1>7, PruneDayChains
<1>8. QED
  BY <1>1, <1>2, <1>3, <1>4, <1>5, <1>6, <1>7 DEF Engine

LEMMA ChainInvHolds == Spec => []ChainInv
<1>1. Init => ChainInv
  <2> SUFFICES ASSUME Init PROVE ChainInv
    OBVIOUS
  <2>1. PICK e : e = Directory("here", 1, Legacy, None, 1, 0, FALSE)
    OBVIOUS
  <2>2. e.at = "here" /\ e.base = Legacy /\ e.parent = None /\ e.day = 1
    BY <2>1 DEF Directory
  <2>3. \A i \in Ids : entry[i] = IF i = Legacy THEN e ELSE Absent
    BY <2>1 DEF Init
  <2>4. \A i \in Ids : step[i] = "idle"
    BY DEF Init
  <2>5. \A i \in Ids : StepOK(i)
    BY <2>4 DEF StepOK
  <2>6. ASSUME Legacy \in Ids PROVE Chained(Legacy)
    <3>1. Children(Legacy) = {}
      BY <2>3, AbsentFields DEF Children
    <3>2. PICK c \in [0..0 -> Ids] : c[0] = Legacy
      <4>1. [n \in 0..0 |-> Legacy] \in [0..0 -> Ids] /\ [n \in 0..0 |-> Legacy][0] = Legacy
        BY <2>6
      <4>2. QED
        BY <4>1
    <3>3. Links(Legacy, 0, c)
      BY <3>1, <3>2 DEF Links
    <3>4. QED
      BY <3>3 DEF Chained
  <2>7. \A i \in Ids : EntryOK(i)
    BY <2>2, <2>3, <2>6, AbsentFields DEF EntryOK
  <2>8. \A d \in Days : latest[d] \in Ids => entry[latest[d]].parent = None
    BY <2>2, <2>3, AbsentFields
  <2>9. QED
    BY <2>5, <2>7, <2>8 DEF ChainInv
<1>2. RootInv /\ FoundInv /\ ChainInv /\ [Next]_vars => ChainInv'
  <2> SUFFICES ASSUME RootInv, FoundInv, ChainInv, [Next]_vars PROVE ChainInv'
    OBVIOUS
  <2>1. CASE \E i \in Ids : Engine(i)
    BY <2>1, EngineChains
  <2>2. ASSUME torn' = torn, latest' = latest, step' = step,
               \A j \in Ids : entry'[j] = entry[j] \/ (entry[j].at = "here" /\ AsBefore(j))
        PROVE  ChainInv'
    BY <2>2, ChainUnmoved DEF ChainInv
  <2>3. CASE (\E s \in Ids : PrepareStart(s)) \/ PrepareEnd \/ Midnight \/ UNCHANGED vars
    BY <2>2, <2>3 DEF PrepareStart, PrepareEnd, Midnight, vars
  <2>4. CASE Tamper
    <3>1. torn' = torn /\ latest' = latest /\ step' = step
      BY <2>4 DEF Tamper
    <3>2. CASE entry' = entry
      BY <2>2, <3>1, <3>2
    <3>3. ASSUME NEW i \in Ids, entry[i].at = "here", entry' = [entry EXCEPT ![i].raw = FALSE]
          PROVE  ChainInv'
      <4>1. AsBefore(i)
        BY <3>3 DEF AsBefore, RootInv, Shaped
      <4>2. \A j \in Ids \ {i} : entry'[j] = entry[j]
        BY <3>3 DEF RootInv
      <4>3. QED
        BY <2>2, <3>1, <3>3, <4>1, <4>2
    <3>4. QED
      BY <2>4, <3>2, <3>3 DEF Tamper
  <2>5. QED
    BY <2>1, <2>3, <2>4 DEF Next
<1>3. QED
  BY <1>1, <1>2, RootInvHolds, FoundInvHolds, PTL DEF Spec

----------------------------------------------------------------------------
(* What can be restored.                                                      *)

\* No chain is longer than there are names.
LEMMA ChainFits ==
    ASSUME NEW f, NEW m \in Nat, NEW c \in [0..m -> Ids], Links(f, m, c)
    PROVE  m + 1 <= Cardinality(Ids)
<1>1. SUFFICES ASSUME ~(m + 1 <= Cardinality(Ids)) PROVE FALSE
  OBVIOUS
<1>2. IsFiniteSet(0..m) /\ Cardinality(0..m) = m + 1
  BY FS_Interval
<1>3. Cardinality(Ids) < Cardinality(0..m)
  BY <1>1, <1>2, NamesAreFinite
<1>4. \E a, b \in 0..m : a # b /\ c[a] = c[b]
  BY <1>2, <1>3, ChainConstants, FS_PigeonHole
<1>5. QED
  BY <1>4 DEF Links

\* The walk from a chained full is its chain, and then nothing.
LEMMA WalkFollows ==
    ASSUME NEW f \in Ids, NEW m \in Nat, NEW c \in [0..m -> Ids], Links(f, m, c)
    PROVE  \A n \in 0..Cardinality(Ids) : Walk(f)[n] = IF n <= m THEN c[n] ELSE None
<1>0. PICK k \in Nat : k = Cardinality(Ids)
  BY NamesAreFinite
<1>1. PICK w : w = Walk(f)
  OBVIOUS
<1>2. w[0] = f /\ \A n \in 1..k : w[n] = After(f, w[n - 1])
  BY <1>0, <1>1, WalkKnown
<1> DEFINE T == {n \in 0..k : w[n] # IF n <= m THEN c[n] ELSE None}
<1>3. SUFFICES ASSUME T # {} PROVE FALSE
  BY <1>0, <1>1
<1>4. PICK t \in T : \A n \in T : t <= n
  <2> HIDE DEF T
  <2>1. T \in SUBSET Nat
    BY DEF T
  <2>2. QED
    BY <1>3, <2>1, LeastOf
<1>5. t \in 1..k
  <2>1. w[0] = c[0]
    BY <1>2 DEF Links
  <2>2. QED
    BY <1>4, <2>1
<1>6. w[t - 1] = IF t - 1 <= m THEN c[t - 1] ELSE None
  <2>1. t - 1 \in 0..k /\ ~(t <= t - 1)
    BY <1>5
  <2>2. QED
    BY <1>4, <2>1
<1>7. /\ \A n \in 1..m : Continues(f, c[n - 1]) = {c[n]}
      /\ Continues(f, c[m]) = {} /\ Continues(f, None) = {}
      /\ \A p \in Children(f) \cup {f} : Continues(f, p) = {} => p = c[m]
  BY ONLY ChainEnds, f \in Ids, m \in Nat, c \in [0..m -> Ids], Links(f, m, c)
<1>8. w[t] = After(f, w[t - 1])
  BY <1>2, <1>5
<1>9. CASE t <= m
  <2>0. t \in 1..m /\ t - 1 <= m
    BY <1>5, <1>9
  <2>1. w[t - 1] = c[t - 1] /\ Continues(f, c[t - 1]) = {c[t]}
    BY <1>6, <1>7, <2>0
  <2>2. After(f, c[t - 1]) = c[t]
    BY <2>1 DEF After
  <2>3. QED
    BY <1>4, <1>8, <1>9, <2>1, <2>2
<1>10. CASE t = m + 1
  <2>1. w[t - 1] = c[m]
    BY <1>6, <1>10
  <2>2. After(f, c[m]) = None
    BY <1>7 DEF After
  <2>3. QED
    BY <1>4, <1>8, <1>10, <2>1, <2>2
<1>11. CASE t > m + 1
  <2>1. w[t - 1] = None
    BY <1>5, <1>6, <1>11
  <2>2. After(f, None) = None
    BY <1>7 DEF After
  <2>3. QED
    BY <1>4, <1>8, <1>11, <2>1, <2>2
<1>12. QED
  BY <1>5, <1>9, <1>10, <1>11

LEMMA PlaceInChain ==
    ASSUME NEW f \in Ids, NEW m \in Nat, NEW c \in [0..m -> Ids], Links(f, m, c), NEW n \in 0..m
    PROVE  /\ n \in 0..Cardinality(Ids) /\ Walk(f)[n] = c[n] /\ Place(f, c[n]) = n
           /\ n > 0 => n \in 1..Cardinality(Ids)
<1>0. PICK k \in Nat : k = Cardinality(Ids)
  BY NamesAreFinite
<1>1. m + 1 <= k
  BY <1>0, ChainFits
<1>2. \A a \in 0..k : Walk(f)[a] = IF a <= m THEN c[a] ELSE None
  BY <1>0, WalkFollows
<1>3. n \in 0..k /\ Walk(f)[n] = c[n] /\ (n > 0 => n \in 1..k)
  BY <1>1, <1>2
<1>4. ASSUME NEW a \in 0..k, Walk(f)[a] = c[n] PROVE a = n
  <2>1. c[n] # None
    BY AbsentFields
  <2>2. a <= m /\ c[a] = c[n]
    BY <1>2, <1>4, <2>1
  <2>3. a \in 0..m
    BY <2>2
  <2>4. QED
    BY <2>2, <2>3 DEF Links
<1>5. Place(f, c[n]) = CHOOSE a \in 0..k : Walk(f)[a] = c[n]
  BY <1>0 DEF Place
<1>6. QED
  BY <1>0, <1>3, <1>4, <1>5

\* A chained full that is there, with nothing prepared in place, is committed.
LEMMA ChainIsCommitted ==
    ASSUME NEW f \in Ids, NEW m \in Nat, NEW c \in [0..m -> Ids], Links(f, m, c),
           entry[f].at = "here", \A j \in Children(f) : entry[j].raw
    PROVE  Committed(f)
<1> SUFFICES ASSUME NEW i \in Children(f)
             PROVE  /\ Described(i) /\ entry[i].raw
                    /\ Continues(f, entry[i].parent) = {i}
                    /\ \E n \in 1..Cardinality(Ids) : Walk(f)[n] = i
                    /\ Readable(entry[i].parent)
                    /\ entry[i].from = entry[entry[i].parent].to
  BY DEF Committed
<1>1. PICK n \in 1..m : i = c[n]
  BY DEF Links
<1>2. /\ entry[i].parent = c[n - 1] /\ entry[i].from = entry[c[n - 1]].to
      /\ entry[i].meta /\ entry[i].at = "here"
  BY <1>1 DEF Links
<1>3. Described(i) /\ entry[i].raw
  BY <1>2 DEF Described, Readable
<1>4. Continues(f, c[n - 1]) = {c[n]}
  <2>1. /\ \A a \in 1..m : Continues(f, c[a - 1]) = {c[a]}
        /\ Continues(f, c[m]) = {} /\ Continues(f, None) = {}
        /\ \A p \in Children(f) \cup {f} : Continues(f, p) = {} => p = c[m]
    BY ONLY ChainEnds, f \in Ids, m \in Nat, c \in [0..m -> Ids], Links(f, m, c)
  <2>2. QED
    BY <2>1
<1>5. n \in 1..Cardinality(Ids) /\ Walk(f)[n] = c[n]
  <2>1. n \in 0..m /\ n > 0
    OBVIOUS
  <2>2. QED
    BY <2>1, PlaceInChain
<1>6. entry[c[n - 1]].at = "here"
  <2>1. CASE n = 1
    <3>1. c[n - 1] = f
      BY <2>1 DEF Links
    <3>2. QED
      BY <3>1
  <2>2. CASE n # 1
    <3>1. n - 1 \in 1..m
      BY <2>2
    <3>2. QED
      BY <3>1 DEF Links
  <2>3. QED
    BY <2>1, <2>2
<1>7. Readable(c[n - 1])
  BY <1>6 DEF Readable
<1>8. QED
  BY <1>1, <1>2, <1>3, <1>4, <1>5, <1>7

\* Restorable, for one backup.
LEMMA ChainedRestores ==
    ASSUME ChainInv, NEW i \in Ids, entry[i].at = "here", Untouched(entry[i].day)
    PROVE  /\ CanPrepare(i)
           /\ \A n \in DOMAIN Sources(i) :
                 LET s == Sources(i)[n] IN
                 /\ entry[s].at = "here" /\ entry[s].key = entry[i].key
                 /\ IF n = 1 THEN IsFull(s) ELSE entry[s].from = entry[Sources(i)[n - 1]].to
<1>1. EntryOK(i)
  BY DEF ChainInv
<1>2. entry[i].day \notin torn /\ entry[i].raw
  BY DEF Untouched, In
<1>3. CASE entry[i].parent = None
  <2>1. CanPrepare(i)
    BY <1>2, <1>3 DEF CanPrepare, Readable
  <2>2. Sources(i) = <<i>>
    BY <1>3 DEF Sources
  <2>3. DOMAIN <<i>> = {1} /\ <<i>>[1] = i /\ IsFull(i)
    BY <1>3 DEF IsFull
  <2>4. QED
    BY <2>1, <2>2, <2>3
<1>4. CASE entry[i].parent # None
  <2>1. PICK f \in Ids : f = entry[i].base
    BY <1>1 DEF EntryOK
  <2>2. /\ entry[f].parent = None /\ entry[f].at = "here" /\ Chained(f)
        /\ entry[f].day = entry[i].day /\ i # f
    BY <1>1, <1>2, <1>4, <2>1 DEF EntryOK
  <2>3. PICK m \in Nat : \E c \in [0..m -> Ids] : Links(f, m, c)
    BY <2>2 DEF Chained
  <2>4. PICK c \in [0..m -> Ids] : Links(f, m, c)
    BY <2>3
  <2>5. \A j \in Children(f) : entry[j].raw
    <3> SUFFICES ASSUME NEW j \in Children(f) PROVE entry[j].raw
      OBVIOUS
    <3>1. j \in Ids /\ entry[j].base = f /\ entry[j].at # "none"
      BY DEF Children
    <3>2. EntryOK(j)
      BY <3>1 DEF ChainInv
    <3>3. entry[j].day = entry[i].day
      BY <2>2, <3>1, <3>2 DEF EntryOK
    <3>4. j \in In(entry[i].day)
      BY <3>1, <3>3 DEF In
    <3>5. QED
      BY <3>4 DEF Untouched
  <2>6. Committed(f)
    BY <2>2, <2>4, <2>5, ChainIsCommitted
  <2>7. i \in Children(f)
    BY <2>1, <2>2 DEF Children
  <2>8. PICK k \in 1..m : i = c[k]
    BY <2>4, <2>7 DEF Links
  <2>9. Place(f, i) = k
    <3>1. k \in 0..m
      OBVIOUS
    <3>2. QED
      BY <2>4, <2>8, <3>1, PlaceInChain
  <2>10. \A n \in 0..m : Walk(f)[n] = c[n]
    BY <2>4, PlaceInChain
  <2>11. Sources(i) = [n \in 1..(k + 1) |-> Walk(f)[n - 1]]
    BY <1>4, <2>1, <2>9 DEF Sources
  <2>12. DOMAIN Sources(i) = 1..(k + 1)
    BY <2>11
  <2>13. \A n \in 1..(k + 1) : Sources(i)[n] = c[n - 1]
    <3> SUFFICES ASSUME NEW n \in 1..(k + 1) PROVE Sources(i)[n] = c[n - 1]
      OBVIOUS
    <3>1. n - 1 \in 0..m
      OBVIOUS
    <3>2. QED
      BY <2>10, <2>11, <3>1
  <2>14. CanPrepare(i)
    <3>1. entry[i].meta
      BY <2>4, <2>8 DEF Links
    <3>2. QED
      BY <1>2, <2>1, <2>6, <3>1 DEF CanPrepare, Readable, Described
  <2>15. \A n \in 0..m : entry[c[n]].at = "here" /\ entry[c[n]].key = entry[f].key
    <3> SUFFICES ASSUME NEW n \in 0..m
                 PROVE  entry[c[n]].at = "here" /\ entry[c[n]].key = entry[f].key
      OBVIOUS
    <3>1. CASE n = 0
      BY <2>2, <2>4, <3>1 DEF Links
    <3>2. CASE n # 0
      <4>1. n \in 1..m
        BY <3>2
      <4>2. QED
        BY <2>4, <4>1 DEF Links
    <3>3. QED
      BY <3>1, <3>2
  <2>16. ASSUME NEW n \in 1..(k + 1)
         PROVE  LET s == Sources(i)[n] IN
                /\ entry[s].at = "here" /\ entry[s].key = entry[i].key
                /\ IF n = 1 THEN IsFull(s) ELSE entry[s].from = entry[Sources(i)[n - 1]].to
    <3>1. Sources(i)[n] = c[n - 1] /\ n - 1 \in 0..m /\ k \in 0..m
      BY <2>13
    <3>2. /\ entry[c[n - 1]].at = "here" /\ entry[c[n - 1]].key = entry[f].key
          /\ entry[i].key = entry[f].key
      BY <2>8, <2>15, <3>1
    <3>3. CASE n = 1
      <4>1. c[n - 1] = f /\ IsFull(f)
        BY <2>2, <2>4, <3>3 DEF Links, IsFull
      <4>2. QED
        BY <3>1, <3>2, <3>3, <4>1
    <3>4. CASE n # 1
      <4>1. n - 1 \in 1..m /\ n - 1 \in 1..(k + 1)
        BY <3>4
      <4>2. entry[c[n - 1]].from = entry[c[(n - 1) - 1]].to
        BY <2>4, <4>1 DEF Links
      <4>3. Sources(i)[n - 1] = c[(n - 1) - 1]
        BY <2>13, <4>1
      <4>4. QED
        BY <3>1, <3>2, <3>4, <4>2, <4>3
    <3>5. QED
      BY <3>3, <3>4
  <2>17. QED
    BY <2>12, <2>14, <2>16
<1>5. QED
  BY <1>3, <1>4

\* EveryBackupIsRestorable: wherever fulls, incrementals and prunes are killed,
\* and whatever is done between them, a committed backup of a day that nobody
\* prepared in place or began to remove can be prepared from its whole chain.
THEOREM EveryBackupIsRestorable == Spec => []Restorable
<1>1. ChainInv => Restorable
  BY ChainedRestores DEF Restorable
<1>2. QED
  BY <1>1, ChainInvHolds, PTL

----------------------------------------------------------------------------
(* What a restore reads.                                                      *)

\* Nothing among the incrementals of a full continues nothing.
LEMMA NoneIsNotContinued ==
    ASSUME ChainInv, NEW f \in Ids
    PROVE  Continues(f, None) = {}
<1>1. ASSUME NEW j \in Continues(f, None) PROVE FALSE
  <2>1. /\ j \in Ids /\ entry[j].base = f /\ j # f /\ entry[j].at # "none"
        /\ entry[j].parent = None
    BY DEF Continues, Children
  <2>2. EntryOK(j)
    BY <2>1 DEF ChainInv
  <2>3. QED
    BY <2>1, <2>2 DEF EntryOK
<1>2. QED
  BY <1>1

\* Until it ends, every step of a walk continues the one before.
LEMMA WalkGoesOn ==
    ASSUME ChainInv, NEW f \in Ids, NEW k \in 0..Cardinality(Ids), Walk(f)[k] # None
    PROVE  \A n \in 1..k : Walk(f)[n] \in Continues(f, Walk(f)[n - 1])
<1>0. PICK z \in Nat : z = Cardinality(Ids)
  BY NamesAreFinite
<1>1. PICK w : w = Walk(f)
  OBVIOUS
<1>2. w[0] = f /\ \A n \in 1..z : w[n] = After(f, w[n - 1])
  BY <1>0, <1>1, WalkKnown
<1>3. ASSUME NEW n \in 1..z, w[n] # None
      PROVE  w[n - 1] # None /\ w[n] \in Continues(f, w[n - 1])
  <2>1. After(f, w[n - 1]) # None
    BY <1>2, <1>3
  <2>2. Continues(f, w[n - 1]) # {}
    BY <2>1 DEF After
  <2>3. After(f, w[n - 1]) \in Continues(f, w[n - 1])
    BY <2>2 DEF After
  <2>4. QED
    BY <1>2, <2>2, <2>3, NoneIsNotContinued
<1> DEFINE T == {n \in 0..k : w[k - n] = None}
<1>4. T = {}
  <2>1. SUFFICES ASSUME T # {} PROVE FALSE
    OBVIOUS
  <2>2. k \in Nat /\ k <= z
    BY <1>0
  <2>3. PICK t \in T : \A n \in T : t <= n
    <3> HIDE DEF T
    <3>1. T \in SUBSET Nat
      BY <2>2 DEF T
    <3>2. QED
      BY <2>1, <3>1, LeastOf
  <2>4. t \in 0..k /\ w[k - t] = None
    BY <2>3
  <2>5. t # 0
    <3>1. k - 0 = k
      BY <2>2
    <3>2. QED
      BY <1>1, <2>4, <3>1
  <2>6. t - 1 \in 0..k /\ ~(t <= t - 1)
    BY <2>2, <2>4, <2>5
  <2>7. w[k - (t - 1)] # None
    BY <2>3, <2>6
  <2>8. k - (t - 1) \in 1..z /\ (k - (t - 1)) - 1 = k - t
    BY <2>2, <2>4, <2>5
  <2>9. QED
    BY <1>3, <2>4, <2>7, <2>8
<1>5. \A n \in 1..k : w[n] # None
  <2> SUFFICES ASSUME NEW n \in 1..k, w[n] = None PROVE FALSE
    OBVIOUS
  <2>1. k - n \in 0..k /\ k - (k - n) = n
    BY <1>0
  <2>2. k - n \in T
    BY <2>1
  <2>3. QED
    BY <1>4, <2>2
<1>6. \A n \in 1..k : n \in 1..z
  BY <1>0
<1>7. QED
  BY <1>1, <1>3, <1>5, <1>6

\* Names of which the first is a full and each other continues the one before.
IsAChain(q) ==
    \E k \in Nat :
        /\ DOMAIN q = 1..k
        /\ \A n \in 1..k :
              /\ q[n] \in Ids /\ Readable(q[n])
              /\ IF n = 1 THEN IsFull(q[n])
                 ELSE entry[q[n]].parent = q[n - 1] /\ entry[q[n]].from = entry[q[n - 1]].to

\* What prepare agrees to copy is a chain.
LEMMA SourcesAreAChain ==
    ASSUME ChainInv, NEW s \in Ids, CanPrepare(s)
    PROVE  IsAChain(Sources(s))
<1>1. CASE entry[s].parent = None
  <2>1. Sources(s) = <<s>>
    BY <1>1 DEF Sources
  <2>2. DOMAIN <<s>> = 1..1 /\ <<s>>[1] = s
    OBVIOUS
  <2>3. Readable(s) /\ IsFull(s)
    BY <1>1 DEF CanPrepare, IsFull
  <2>4. QED
    BY <2>1, <2>2, <2>3 DEF IsAChain
<1>2. CASE entry[s].parent # None
  <2>1. EntryOK(s) /\ entry[s].at \notin {"none", "tmp"}
    BY DEF ChainInv, CanPrepare, Readable
  <2>2. PICK f \in Ids : f = entry[s].base
    BY <2>1 DEF EntryOK
  <2>3. entry[f].parent = None /\ s # f /\ s \in Children(f)
    BY <1>2, <2>1, <2>2 DEF EntryOK, Children
  <2>4. Committed(f)
    BY <1>2, <2>2 DEF CanPrepare
  <2>5. \A j \in Children(f) : /\ Readable(j) /\ Readable(entry[j].parent)
                               /\ entry[j].from = entry[entry[j].parent].to
    BY <2>4 DEF Committed, Described
  <2>6. PICK z \in Nat : z = Cardinality(Ids)
    BY NamesAreFinite
  <2>7. \E n \in 0..z : Walk(f)[n] = s
    <3>1. \E n \in 1..z : Walk(f)[n] = s
      BY <2>3, <2>4, <2>6 DEF Committed
    <3>2. QED
      BY <3>1
  <2>8. PICK k \in 0..z : k = Place(f, s) /\ Walk(f)[k] = s
    BY <2>6, <2>7 DEF Place
  <2>9. PICK w : w = Walk(f)
    OBVIOUS
  <2>10. \A n \in 1..k : w[n] \in Continues(f, w[n - 1])
    <3>1. Walk(f)[k] # None
      BY <2>8, AbsentFields
    <3>2. k \in 0..Cardinality(Ids)
      BY <2>6, <2>8
    <3>3. QED
      BY <2>9, <3>1, <3>2, WalkGoesOn
  <2>11. w[0] = f /\ w[k] = s /\ k # 0
    BY <2>3, <2>8, <2>9, WalkKnown
  <2>12. Sources(s) = [n \in 1..(k + 1) |-> w[n - 1]]
    BY <1>2, <2>2, <2>8, <2>9 DEF Sources
  <2>13. ASSUME NEW n \in 1..(k + 1)
         PROVE  /\ w[n - 1] \in Ids /\ Readable(w[n - 1])
                /\ IF n = 1 THEN IsFull(w[n - 1])
                   ELSE /\ entry[w[n - 1]].parent = w[(n - 1) - 1]
                        /\ entry[w[n - 1]].from = entry[w[(n - 1) - 1]].to
    <3>1. CASE n = 1
      <4>1. w[1] \in Children(f) /\ entry[w[1]].parent = w[0]
        <5>1. 1 \in 1..k /\ 1 - 1 = 0
          BY <2>11
        <5>2. w[1] \in Continues(f, w[0])
          BY <2>10, <5>1
        <5>3. QED
          BY <5>2 DEF Continues
      <4>2. Readable(f)
        BY <2>5, <2>11, <4>1
      <4>3. w[n - 1] = f /\ IsFull(f)
        BY <2>3, <2>11, <3>1 DEF IsFull
      <4>4. QED
        BY <3>1, <4>2, <4>3
    <3>2. CASE n # 1
      <4>1. n - 1 \in 1..k
        BY <3>2
      <4>2. w[n - 1] \in Continues(f, w[(n - 1) - 1])
        BY <2>10, <4>1
      <4>3. w[n - 1] \in Children(f) /\ entry[w[n - 1]].parent = w[(n - 1) - 1]
        BY <4>2 DEF Continues
      <4>4. w[n - 1] \in Ids
        BY <4>3 DEF Children
      <4>5. QED
        BY <2>5, <3>2, <4>3, <4>4
    <3>3. QED
      BY <3>1, <3>2
  <2> DEFINE q == [n \in 1..(k + 1) |-> w[n - 1]]
  <2>14. DOMAIN q = 1..(k + 1) /\ k + 1 \in Nat
    OBVIOUS
  <2>15. \A n \in 1..(k + 1) : q[n] = w[n - 1]
    OBVIOUS
  <2>16. \A n \in 1..(k + 1) : n # 1 => q[n - 1] = w[(n - 1) - 1]
    OBVIOUS
  <2>17. IsAChain(q)
    <3> HIDE DEF q
    <3>1. ASSUME NEW n \in 1..(k + 1)
          PROVE  /\ q[n] \in Ids /\ Readable(q[n])
                 /\ IF n = 1 THEN IsFull(q[n])
                    ELSE entry[q[n]].parent = q[n - 1] /\ entry[q[n]].from = entry[q[n - 1]].to
      <4>1. q[n] = w[n - 1] /\ (n # 1 => q[n - 1] = w[(n - 1) - 1])
        BY <2>15, <2>16
      <4>2. QED
        BY <2>13, <4>1
    <3>2. QED
      BY <2>14, <3>1 DEF IsAChain
  <2>18. QED
    BY <2>12, <2>17
<1>3. QED
  BY <1>1, <1>2

\* A chain stays one while no directory moves.
LEMMA ChainIsKept ==
    ASSUME IsAChain(reading), reading' = reading,
           \A i \in Ids : /\ entry'[i].at = entry[i].at
                          /\ entry'[i].parent = entry[i].parent
                          /\ entry'[i].from = entry[i].from
                          /\ entry'[i].to = entry[i].to
    PROVE  IsAChain(reading)'
<1>1. PICK k \in Nat :
        /\ DOMAIN reading = 1..k
        /\ \A n \in 1..k :
              /\ reading[n] \in Ids /\ Readable(reading[n])
              /\ IF n = 1 THEN IsFull(reading[n])
                 ELSE /\ entry[reading[n]].parent = reading[n - 1]
                      /\ entry[reading[n]].from = entry[reading[n - 1]].to
  BY DEF IsAChain
<1>2. ASSUME NEW n \in 1..k
      PROVE  /\ reading[n] \in Ids /\ Readable(reading[n])'
             /\ IF n = 1 THEN IsFull(reading[n])'
                ELSE /\ entry'[reading[n]].parent = reading[n - 1]
                     /\ entry'[reading[n]].from = entry'[reading[n - 1]].to
  <2>1. reading[n] \in Ids /\ Readable(reading[n])
    BY <1>1
  <2>2. Readable(reading[n])'
    BY <2>1 DEF Readable
  <2>3. CASE n = 1
    BY <1>1, <2>1, <2>2, <2>3 DEF IsFull
  <2>4. CASE n # 1
    <3>1. n - 1 \in 1..k
      BY <2>4
    <3>2. reading[n - 1] \in Ids
      BY <1>1, <3>1
    <3>3. /\ entry[reading[n]].parent = reading[n - 1]
          /\ entry[reading[n]].from = entry[reading[n - 1]].to
      BY <1>1, <2>4
    <3>4. QED
      BY <2>1, <2>2, <2>4, <3>2, <3>3
  <2>5. QED
    BY <2>3, <2>4
<1>3. QED
  BY <1>1, <1>2 DEF IsAChain

LEMMA NothingIsAChain ==
    ASSUME reading' = <<>> PROVE IsAChain(reading)'
<1>1. DOMAIN reading' = 1..0 /\ 0 \in Nat
  OBVIOUS
<1>2. \A n \in 1..0 : FALSE
  OBVIOUS
<1>3. QED
  BY <1>1, <1>2 DEF IsAChain

\* RestoresReadAChain: a restore only ever reads a full and what continues it in
\* order, and while it copies all of that stays as it is, whatever runs, is
\* killed, pruned or prepared in place meanwhile.
THEOREM RestoresReadAChain == Spec => []ReadsAChain
<1>1. Init => IsAChain(reading)
  <2>1. Init => DOMAIN reading = 1..0 /\ 0 \in Nat
    BY DEF Init
  <2>2. \A n \in 1..0 : FALSE
    OBVIOUS
  <2>3. QED
    BY <2>1, <2>2 DEF IsAChain
<1>2. RootInv /\ ChainInv /\ IsAChain(reading) /\ [Next]_vars => IsAChain(reading)'
  <2> SUFFICES ASSUME RootInv, ChainInv, IsAChain(reading), [Next]_vars
               PROVE  IsAChain(reading)'
    OBVIOUS
  <2>1. CASE reading' = <<>>
    BY <2>1, NothingIsAChain
  <2>2. CASE reading # <<>> /\ reading' = reading
    <3>1. CASE \E i \in Ids : Engine(i)
      BY <2>2, <3>1, EngineStep DEF RootInv
    <3>2. CASE UNCHANGED vars
      BY <2>2, <3>2, ChainIsKept DEF vars
    <3>3. CASE (\E s \in Ids : PrepareStart(s)) \/ PrepareEnd \/ Midnight \/ Tamper
      BY <2>2, <3>3, OtherStep, ChainIsKept
    <3>4. QED
      BY <3>1, <3>2, <3>3 DEF Next
  <2>3. ASSUME NEW s \in Ids, PrepareStart(s) PROVE IsAChain(reading)'
    <3>1. reading' = Sources(s) /\ entry' = entry /\ IsAChain(Sources(s))
      BY <2>3, SourcesAreAChain DEF PrepareStart
    <3>2. \A i : Readable(i)' = Readable(i) /\ IsFull(i)' = IsFull(i)
      BY <3>1 DEF Readable, IsFull
    <3>3. QED
      BY <3>1, <3>2 DEF IsAChain
  <2>4. reading' = reading \/ reading' = <<>> \/ \E s \in Ids : PrepareStart(s)
    BY EngineStep DEF Next, PrepareEnd, Midnight, Tamper, vars
  <2>5. QED
    BY <2>1, <2>2, <2>3, <2>4
<1>3. IsAChain(reading) => ReadsAChain
  BY DEF IsAChain, ReadsAChain
<1>4. QED
  BY <1>1, <1>2, <1>3, RootInvHolds, ChainInvHolds, PTL DEF Spec
=============================================================================
