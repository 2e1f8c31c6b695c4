----------------------------- MODULE FileProofs -----------------------------
(* Why a published archive holds no torn file: what a file holds only moves   *)
(* on, so a file that moved while it was read has moved past the version seen *)
(* before it was added, and the look afterwards finds that out.  How deep the *)
(* walk goes, and why an archive has what is selected, come after that.       *)
EXTENDS FileBackup, FiniteSetTheorems, FunctionTheorems, SequenceTheorems, TLAPS

Whole == \A m \in members : m.content # Torn
AtHand == pc \in {"add", "open", "read", "check", "descend"}

\* Only the paths of the template are taken without a look at the entries.
TodoOK ==
    \E S : todo \in Seq(S) /\ \A x \in S : x.above = {} => x.node \in Nodes

\* The file being added, by what was seen of it before.
AddInv ==
    /\ pc \in {"open", "read", "check"} =>
          /\ before \in Nat /\ before <= Version(now)
          /\ before < Version(now) => IsFile(now)
    /\ pc = "read" => reading \in Nat /\ before <= reading /\ reading <= Version(now)
    /\ pc = "check" => Whole \/ before < Version(now)
    /\ pc \notin {"check", "end"} => Whole
    /\ result = "done" => pc = "end" /\ Whole

FileInv ==
    /\ version \in [Nodes -> Nat] /\ present \subseteq Entries
    /\ TodoOK
    /\ AtHand => now.node \in Nodes
    /\ AddInv

LEMMA SeenNode == ASSUME NEW n \in Nodes PROVE Seen(n) \in Nodes
BY FileBackupAssumption DEF Seen, Resolved

LEMMA HeadIsNode ==
  ASSUME FileInv, todo # <<>>, There(Head(todo))
  PROVE  Head(todo).node \in Nodes
<1>1. PICK S : todo \in Seq(S) /\ \A x \in S : x.above = {} => x.node \in Nodes
  BY DEF FileInv, TodoOK
<1>2. Head(todo) \in S
  BY <1>1
<1>3. \A e \in present : e.node \in Nodes
  BY FileBackupAssumption DEF FileInv
<1>4. QED
  BY <1>1, <1>2, <1>3 DEF There

LEMMA TailIsTodo == ASSUME TodoOK, todo # <<>>, todo' = Tail(todo) PROVE TodoOK'
<1>1. PICK S : todo \in Seq(S) /\ \A x \in S : x.above = {} => x.node \in Nodes
  BY DEF TodoOK
<1>2. todo' \in Seq(S)
  BY <1>1
<1>3. QED
  BY <1>1, <1>2 DEF TodoOK

\* What lies in a directory, as items one step further down.
Found(i) == Sorted({e \in present : e.dir = Seen(now.node)})[i]
ChildAt(i) == Child(now, Found(i))

LEMMA ChildrenAdded ==
  ASSUME present \subseteq Entries, NEW S, todo \in Seq(S)
  PROVE  \E n \in Nat : Children(now) \o todo \in Seq(S \cup {ChildAt(i) : i \in 1..n})
<1> DEFINE inside == {e \in present : e.dir = Seen(now.node)}
<1> DEFINE n == Cardinality(inside)
<1> DEFINE T == S \cup {ChildAt(i) : i \in 1..n}
<1>1. n \in Nat
  <2>1. inside \subseteq Entries
    OBVIOUS
  <2>2. IsFiniteSet(inside)
    BY <2>1, FileBackupAssumption, FS_Subset
  <2>3. QED
    BY <2>2, FS_CardinalityType
<1>2. Children(now) = [i \in 1..n |-> ChildAt(i)]
  BY DEF Children, ChildAt, Found
<1>3. S \subseteq T /\ \A i \in 1..n : ChildAt(i) \in T
  OBVIOUS
<1> HIDE DEF n
<1>4. Children(now) \o todo \in Seq(T)
  <2> HIDE DEF T
  <2>1. Children(now) \in Seq(T) /\ todo \in Seq(T)
    BY <1>1, <1>2, <1>3
  <2>2. QED
    BY <2>1
<1>5. QED
  BY <1>1, <1>4

LEMMA ChildrenAreTodo ==
  ASSUME TodoOK, present \subseteq Entries, todo' = Children(now) \o todo
  PROVE  TodoOK'
<1>1. PICK S : todo \in Seq(S) /\ \A x \in S : x.above = {} => x.node \in Nodes
  BY DEF TodoOK
<1>2. PICK n \in Nat : todo' \in Seq(S \cup {ChildAt(i) : i \in 1..n})
  BY <1>1, ChildrenAdded
<1>3. \A i \in 1..n : ChildAt(i).above # {}
  BY DEF ChildAt, Child, Item
<1> DEFINE T == S \cup {ChildAt(i) : i \in 1..n}
<1>4. \A x \in T : x.above = {} => x.node \in Nodes
  BY <1>1, <1>3
<1>5. todo' \in Seq(T)
  BY <1>2
<1> HIDE DEF T
<1>6. QED
  BY <1>4, <1>5 DEF TodoOK

LEMMA InitFile == ASSUME Init PROVE FileInv
<1>1. version \in [Nodes -> Nat] /\ present \subseteq Entries
  BY DEF Init
<1>2. TodoOK
  <2> DEFINE S == {Item(Tops[i].path, Tops[i].node, {}) : i \in DOMAIN Tops}
  <2>1. PICK n \in Nat : DOMAIN Tops = 1..n
    BY FileBackupAssumption
  <2>2. todo = [i \in DOMAIN Tops |-> Item(Tops[i].path, Tops[i].node, {})]
    BY DEF Init
  <2>3. \A i \in DOMAIN Tops : Item(Tops[i].path, Tops[i].node, {}) \in S
    OBVIOUS
  <2>4. \A x \in S : x.node \in Nodes
    <3> DEFINE Top == [path : Seq(Nat), node : Nodes]
    <3>1. \A i \in DOMAIN Tops : Tops[i].node \in Nodes
      <4>1. Tops \in Seq(Top) /\ \A x \in Top : x.node \in Nodes
        BY FileBackupAssumption
      <4> HIDE DEF Top
      <4>2. QED
        BY <4>1
    <3>2. QED
      BY <3>1 DEF Item
  <2> HIDE DEF S
  <2>5. todo \in Seq(S)
    BY <2>1, <2>2, <2>3
  <2>6. QED
    BY <2>4, <2>5 DEF TodoOK
<1>3. AddInv
  BY DEF Init, AddInv, Whole
<1>4. QED
  BY <1>1, <1>2, <1>3 DEF FileInv, AtHand, Init

\* Whatever becomes of the files, what they hold moves on only.
LEMMA OutsideFile == ASSUME FileInv, Outside PROVE FileInv'
<1>1. UNCHANGED <<settings, pc, todo, now, staged, result>> /\ UNCHANGED members
  BY DEF Outside, staged
<1>2. TodoOK'
  BY <1>1 DEF FileInv, TodoOK
<1>3. CASE UNCHANGED version
  <2>1. present' \subseteq Entries
    BY <1>3 DEF Outside, FileInv
  <2>2. AddInv'
    BY <1>1, <1>3 DEF FileInv, AddInv, Whole, Version, IsFile, Seen, Resolved, settings, staged
  <2>3. QED
    BY <1>1, <1>2, <1>3, <2>1, <2>2 DEF FileInv, AtHand
<1>4. ASSUME NEW n \in Nodes, KindOf[n] = "file", UNCHANGED present,
             version' = [version EXCEPT ![n] = @ + 1]
      PROVE  FileInv'
  <2>1. version \in [Nodes -> Nat] /\ version' \in [Nodes -> Nat]
    BY <1>4 DEF FileInv
  <2>2. Seen(now.node)' = Seen(now.node) /\ IsFile(now)' = IsFile(now)
    BY <1>1 DEF Seen, Resolved, IsFile, settings
  <2>3. AtHand => Seen(now.node) \in Nodes
    BY SeenNode DEF FileInv
  <2>4. AtHand => /\ Version(now) \in Nat /\ Version(now)' \in Nat
                  /\ Version(now) <= Version(now)'
                  /\ Version(now) # Version(now)' => IsFile(now)
    BY <1>4, <2>1, <2>2, <2>3 DEF Version, IsFile
  <2>5. pc \in {"open", "read", "check"} => AtHand
    BY DEF AtHand
  <2> DEFINE old == Version(now)
  <2> DEFINE new == Version(now)'
  <2>6. AddInv'
    <3>1. /\ before' = before /\ reading' = reading /\ pc' = pc /\ result' = result
          /\ Whole' = Whole /\ IsFile(now)' = IsFile(now) /\ Version(now)' = new
      BY <1>1, <2>2 DEF staged, Whole
    <3>2. AddInv
      BY DEF FileInv
    <3> HIDE DEF old, new
    <3>3. QED
      BY <2>4, <2>5, <3>1, <3>2 DEF AddInv, old, new
  <2>7. QED
    BY <1>1, <1>2, <1>4, <2>1, <2>6 DEF FileInv, AtHand
<1>5. QED
  BY <1>3, <1>4 DEF Outside

\* Steps that leave the files alone.
LEMMA BackupFile == ASSUME FileInv, Backup PROVE FileInv'
<1>1. UNCHANGED <<version, present>> /\ UNCHANGED <<settings, outside>>
  BY DEF Backup, Skip, Reject, Visit, Descend, Vanished, Before, AddBegin, AddEnd, After,
     Close, Fail, outside
<1>2. version \in [Nodes -> Nat] /\ present \subseteq Entries /\ TodoOK /\ AddInv
      /\ (AtHand => now.node \in Nodes)
  BY DEF FileInv
<1>3. Whole /\ UNCHANGED members => Whole'
  BY DEF Whole
<1>4. ASSUME UNCHANGED todo PROVE TodoOK'
  BY <1>2, <1>4 DEF TodoOK
<1>5. ASSUME UNCHANGED now
      PROVE  Version(now)' = Version(now) /\ IsFile(now)' = IsFile(now)
  BY <1>1, <1>5 DEF Version, IsFile, Seen, Resolved, settings
<1>6. AtHand => Version(now) \in Nat
  BY <1>2, SeenNode DEF Version
<1>7. CASE Skip
  <2>1. pc = "visit" /\ TodoOK' /\ UNCHANGED <<pc, now, members, result>>
    BY <1>2, <1>7, TailIsTodo DEF Skip, staged
  <2>2. QED
    BY <1>1, <1>2, <1>3, <2>1 DEF FileInv, AddInv, AtHand
<1>8. CASE Reject \/ Vanished
  <2>1. pc' = "end" /\ result' = "failed" /\ UNCHANGED todo
    BY <1>8 DEF Reject, Vanished, Fail
  <2>2. QED
    BY <1>1, <1>2, <1>4, <2>1 DEF FileInv, AddInv, AtHand
<1>9. CASE Visit
  <2>1. /\ pc = "visit" /\ TodoOK' /\ pc' \in {"add", "descend"} /\ now' = Head(todo)
        /\ UNCHANGED <<members, result>>
    BY <1>2, <1>9, TailIsTodo DEF Visit
  <2>2. now'.node \in Nodes
    BY <1>9, <2>1, HeadIsNode DEF Visit
  <2>3. QED
    BY <1>1, <1>2, <1>3, <2>1, <2>2 DEF FileInv, AddInv, AtHand
<1>10. CASE Descend
  <2>1. pc = "descend" /\ pc' \in {"visit", "end"} /\ UNCHANGED members
        /\ (UNCHANGED result \/ result' = "failed")
    BY <1>10 DEF Descend, staged
  <2>2. TodoOK'
    BY <1>2, <1>4, <1>10, ChildrenAreTodo DEF Descend
  <2>3. QED
    BY <1>1, <1>2, <1>3, <2>1, <2>2 DEF FileInv, AddInv, AtHand
<1>11. CASE Before
  <2>1. /\ pc = "add" /\ before' = Version(now) /\ UNCHANGED <<todo, now, result>>
        /\ \/ /\ pc' = "descend"
              /\ members' = members \cup {[name |-> Arcname(now.path), content |-> Version(now)]}
           \/ pc' = "open" /\ UNCHANGED members
    BY <1>11 DEF Before
  <2>2. Version(now) \in Nat /\ Version(now)' = Version(now) /\ Whole
    BY <1>2, <1>5, <1>6, <2>1 DEF AtHand, AddInv
  <2>3. Whole'
    BY <2>1, <2>2 DEF Whole, Torn
  <2>4. QED
    BY <1>1, <1>2, <1>4, <2>1, <2>2, <2>3 DEF FileInv, AddInv, AtHand
<1>12. CASE AddBegin
  <2>1. /\ pc = "open" /\ pc' = "read" /\ reading' = Version(now)
        /\ UNCHANGED <<todo, now, before, members, result>>
    BY <1>12 DEF AddBegin
  <2>2. Version(now) \in Nat /\ Version(now)' = Version(now) /\ IsFile(now)' = IsFile(now)
    BY <1>5, <1>6, <2>1 DEF AtHand
  <2>3. QED
    BY <1>1, <1>2, <1>3, <1>4, <2>1, <2>2 DEF FileInv, AddInv, AtHand
<1>13. CASE AddEnd
  <2>1. /\ pc = "read" /\ pc' = "check" /\ UNCHANGED <<todo, now, before, reading, result>>
        /\ members' = members \cup {[name |-> Arcname(now.path),
              content |-> IF Version(now) = reading THEN reading ELSE Torn]}
    BY <1>13 DEF AddEnd
  <2>2. Version(now) \in Nat /\ Version(now)' = Version(now) /\ IsFile(now)' = IsFile(now)
        /\ Whole /\ reading \in Nat /\ before \in Nat /\ before <= reading
        /\ reading <= Version(now)
    BY <1>2, <1>5, <1>6, <2>1 DEF AtHand, AddInv
  <2>3. Whole' \/ before < Version(now)
    BY <2>1, <2>2 DEF Whole, Torn
  <2>4. QED
    BY <1>1, <1>2, <1>4, <2>1, <2>2, <2>3 DEF FileInv, AddInv, AtHand
<1>14. CASE After
  <2>1. pc = "check" /\ UNCHANGED <<todo, now, members>>
        /\ \/ Unchanged /\ pc' = "descend" /\ UNCHANGED result
           \/ pc' = "end" /\ result' = "failed"
    BY <1>14 DEF After, staged
  <2>2. before \in Nat /\ Version(now) \in Nat
    BY <1>2, <1>6, <2>1 DEF AddInv, AtHand
  <2>3. Unchanged => Whole
    BY <1>2, <2>1, <2>2 DEF AddInv, Unchanged
  <2>4. QED
    BY <1>1, <1>2, <1>3, <1>4, <2>1, <2>3 DEF FileInv, AddInv, AtHand
<1>15. CASE Close
  <2>1. pc = "visit" /\ pc' = "end" /\ UNCHANGED <<todo, members>>
    BY <1>15 DEF Close, staged
  <2>2. QED
    BY <1>1, <1>2, <1>3, <1>4, <2>1 DEF FileInv, AddInv, AtHand
<1>16. QED
  BY <1>7, <1>8, <1>9, <1>10, <1>11, <1>12, <1>13, <1>14, <1>15 DEF Backup

LEMMA FileInvHolds == Spec => []FileInv
<1>1. FileInv /\ [Next]_vars => FileInv'
  <2> SUFFICES ASSUME FileInv, [Next]_vars PROVE FileInv'
    OBVIOUS
  <2>1. CASE UNCHANGED vars
    BY <2>1 DEF vars, settings, outside, staged, FileInv, TodoOK, AtHand, AddInv, Whole, Version,
       IsFile, Seen, Resolved
  <2>2. QED
    BY <2>1, BackupFile, OutsideFile DEF Next
<1>2. QED
  BY <1>1, InitFile, PTL DEF Spec

\* ArchivedWhole, for any tree, any template and any number of changes: no file
\* of a published archive is torn (FileBackup.backup).
THEOREM FilesAreWhole == Spec => []ArchivedWhole
<1>1. FileInv => ArchivedWhole
  BY DEF FileInv, AddInv, Whole, ArchivedWhole
<1>2. QED
  BY <1>1, FileInvHolds, PTL

----------------------------------------------------------------------------
(* How deep the walk goes.                                                    *)

Dirs == {n \in Nodes : IsDir(n)}

Starts(top, path) ==
    Len(top) <= Len(path) /\ \A i \in 1..Len(top) : path[i] = top[i]

\* A path is as long as the directories above it are many, each of them once.
Counted(x) ==
    /\ \E S : x.path \in Seq(S)
    /\ x.above \subseteq Dirs
    /\ \E t \in DOMAIN Tops :
          /\ Starts(Tops[t].path, x.path)
          /\ Len(x.path) = Len(Tops[t].path) + Cardinality(x.above)

DepthInv ==
    /\ \E S : todo \in Seq(S) /\ \A x \in S : Counted(x)
    /\ AtHand => Counted(now)

LEMMA TopPaths == \A t \in DOMAIN Tops : Tops[t].path \in Seq(Nat)
<1> DEFINE Top == [path : Seq(Nat), node : Nodes]
<1>1. Tops \in Seq(Top) /\ \A x \in Top : x.path \in Seq(Nat)
  BY FileBackupAssumption
<1> HIDE DEF Top
<1>2. QED
  BY <1>1

\* A child lies in one directory more, which was not above it before.
LEMMA ChildCounted ==
  ASSUME NEW x, Counted(x), NEW d \in Dirs, d \notin x.above, NEW name, NEW node
  PROVE  Counted(Item(Append(x.path, name), node, x.above \cup {d}))
<1>1. PICK S : x.path \in Seq(S)
  BY DEF Counted
<1>2. PICK t \in DOMAIN Tops :
        /\ Starts(Tops[t].path, x.path)
        /\ Len(x.path) = Len(Tops[t].path) + Cardinality(x.above)
  BY DEF Counted
<1> DEFINE T == S \cup {name}
<1> DEFINE path == Append(x.path, name)
<1>3. x.path \in Seq(T) /\ name \in T
  BY <1>1
<1>4. /\ path \in Seq(T) /\ Len(path) = Len(x.path) + 1
      /\ \A i \in 1..Len(x.path) : path[i] = x.path[i]
  <2> HIDE DEF T
  <2>1. QED
    BY <1>3, AppendProperties
<1>5. Len(Tops[t].path) \in Nat /\ Len(x.path) \in Nat
  BY <1>1, TopPaths
<1>6. Starts(Tops[t].path, path)
  <2> HIDE DEF path
  <2>1. QED
    BY <1>2, <1>4, <1>5 DEF Starts
<1>7. IsFiniteSet(x.above)
  <2>1. x.above \subseteq Nodes
    BY DEF Counted, Dirs
  <2>2. QED
    BY <2>1, FileBackupAssumption, FS_Subset
<1>8. Cardinality(x.above \cup {d}) = Cardinality(x.above) + 1 /\ Cardinality(x.above) \in Nat
  BY <1>7, FS_AddElement, FS_CardinalityType
<1>9. Len(path) = Len(Tops[t].path) + Cardinality(x.above \cup {d})
  <2> HIDE DEF path
  <2>1. QED
    BY <1>2, <1>4, <1>5, <1>8
<1>10. x.above \cup {d} \subseteq Dirs
  BY DEF Counted
<1> HIDE DEF path, T
<1>11. QED
  BY <1>4, <1>6, <1>9, <1>10 DEF Counted, Item, path

LEMMA InitDepth == ASSUME Init PROVE DepthInv
<1> DEFINE first(i) == Item(Tops[i].path, Tops[i].node, {})
<1> DEFINE S == {first(i) : i \in DOMAIN Tops}
<1>1. ASSUME NEW i \in DOMAIN Tops PROVE Counted(first(i))
  <2>1. Tops[i].path \in Seq(Nat) /\ Len(Tops[i].path) \in Nat
    BY TopPaths
  <2>2. Starts(Tops[i].path, Tops[i].path) /\ Len(Tops[i].path) = Len(Tops[i].path) + Cardinality({})
    BY <2>1, FS_EmptySet DEF Starts
  <2>3. QED
    BY <2>1, <2>2 DEF Counted, Item
<1>2. PICK n \in Nat : DOMAIN Tops = 1..n
  BY FileBackupAssumption
<1>3. todo \in Seq(S)
  <2>1. todo = [i \in 1..n |-> first(i)] /\ \A i \in 1..n : first(i) \in S
    BY <1>2 DEF Init
  <2> HIDE DEF S, first
  <2>2. QED
    BY <2>1
<1>4. \A x \in S : Counted(x)
  BY <1>1
<1>5. ~AtHand
  BY DEF Init, AtHand
<1> HIDE DEF S
<1>6. QED
  BY <1>3, <1>4, <1>5 DEF DepthInv

LEMMA StepDepth ==
  ASSUME FileInv, DepthInv, [Next]_vars PROVE DepthInv'
<1>1. PICK S : todo \in Seq(S) /\ \A x \in S : Counted(x)
  BY DEF DepthInv
<1>2. CASE UNCHANGED todo /\ (AtHand' => AtHand /\ UNCHANGED now)
  BY <1>1, <1>2 DEF DepthInv
<1>3. CASE Skip
  BY <1>1, <1>3 DEF DepthInv, Skip, AtHand
<1>4. CASE Visit
  <2>1. todo' \in Seq(S) /\ now' \in S
    BY <1>1, <1>4 DEF Visit
  <2>2. QED
    BY <1>1, <2>1 DEF DepthInv
<1>5. CASE Descend
  <2>1. CASE UNCHANGED todo
    BY <1>1, <1>5, <2>1 DEF Descend, DepthInv, AtHand
  <2>2. CASE ~UNCHANGED todo
    <3>1. /\ pc = "descend" /\ pc' = "visit" /\ todo' = Children(now) \o todo
          /\ IsDir(Seen(now.node)) /\ ~Cycle(now)
      BY <1>5, <2>2 DEF Descend
    <3>2. Counted(now) /\ Seen(now.node) \in Dirs /\ Seen(now.node) \notin now.above
      BY <3>1, SeenNode DEF DepthInv, FileInv, AtHand, Dirs, Cycle
    <3>3. PICK n \in Nat : todo' \in Seq(S \cup {ChildAt(i) : i \in 1..n})
      BY <1>1, <3>1, ChildrenAdded DEF FileInv
    <3>4. \A i \in 1..n : Counted(ChildAt(i))
      BY <3>2, ChildCounted DEF ChildAt, Child
    <3> DEFINE T == S \cup {ChildAt(i) : i \in 1..n}
    <3>5. \A x \in T : Counted(x)
      BY <1>1, <3>4
    <3>6. todo' \in Seq(T)
      BY <3>3
    <3> HIDE DEF T
    <3>7. QED
      BY <3>1, <3>5, <3>6 DEF DepthInv, AtHand
  <2>3. QED
    BY <2>1, <2>2
<1>6. CASE Reject \/ Vanished \/ Before \/ AddBegin \/ AddEnd \/ After \/ Close
           \/ Outside \/ UNCHANGED vars
  <2>1. UNCHANGED todo /\ (AtHand' => AtHand /\ UNCHANGED now)
    BY <1>6 DEF Reject, Vanished, Fail, Before, AddBegin, AddEnd, After, Close, Outside,
       vars, AtHand
  <2>2. QED
    BY <1>2, <2>1
<1>7. QED
  BY <1>3, <1>4, <1>5, <1>6 DEF Next, Backup

LEMMA DepthIsNat == Depth \in Nat
BY FileBackupAssumption, FS_Subset, FS_CardinalityType DEF Depth

LEMMA CountedShallow ==
  ASSUME NEW x, Counted(x)
  PROVE  Cardinality(x.above) \in 0..Depth /\ IsFiniteSet(x.above)
<1>1. IsFiniteSet(Dirs)
  BY FileBackupAssumption, FS_Subset DEF Dirs
<1>2. x.above \in SUBSET Dirs
  BY DEF Counted
<1>3. QED
  BY <1>1, <1>2, FS_Subset, FS_CardinalityType DEF Depth, Dirs

LEMMA StartsIsPrefix ==
  ASSUME NEW s \in Seq(Nat), NEW p, \E S : p \in Seq(S), Starts(s, p)
  PROVE  IsPrefix(s, p)
<1>1. Len(s) \in Nat /\ Len(s) <= Len(p) /\ \A j \in 1..Len(s) : p[j] = s[j]
  BY DEF Starts
<1>2. SubSeq(s, 1, Len(s)) = SubSeq(p, 1, Len(s))
  BY <1>1
<1>3. QED
  BY <1>1, <1>2 DEF IsPrefix

\* WalkStaysShallow, for any tree and any template: however links lead, no path
\* the walk is going to visit has gone through more directories than there are
\* (FileBackup._walk).
THEOREM WalkIsShallow == Spec => []WalkStaysShallow
<1>1. FileInv /\ DepthInv => WalkStaysShallow
  <2> SUFFICES ASSUME DepthInv, NEW i \in DOMAIN todo
               PROVE  \E top \in DOMAIN Tops :
                         /\ IsPrefix(Tops[top].path, todo[i].path)
                         /\ Len(todo[i].path) - Len(Tops[top].path) <= Depth
    BY DEF WalkStaysShallow
  <2>1. Counted(todo[i])
    BY DEF DepthInv
  <2>2. PICK t \in DOMAIN Tops :
          /\ Starts(Tops[t].path, todo[i].path)
          /\ Len(todo[i].path) = Len(Tops[t].path) + Cardinality(todo[i].above)
    BY <2>1 DEF Counted
  <2>3. Cardinality(todo[i].above) \in 0..Depth
    BY <2>1, CountedShallow
  <2>4. IsPrefix(Tops[t].path, todo[i].path)
    BY <2>1, <2>2, TopPaths, StartsIsPrefix DEF Counted
  <2>5. Len(Tops[t].path) \in Nat
    BY TopPaths
  <2>6. QED
    BY <2>2, <2>3, <2>4, <2>5, DepthIsNat
<1>2. QED
  BY <1>1, InitDepth, StepDepth, FileInvHolds, PTL DEF Spec

----------------------------------------------------------------------------
(* An archive has what is selected: the places one comes to, level by level,  *)
(* against those the walk comes to.                                           *)

\* Any set of natural numbers has a least one.
LEMMA LeastOf ==
    ASSUME NEW T \in SUBSET Nat, T # {}
    PROVE  \E m \in T : \A n \in T : m <= n
<1>1. PICK top \in T : TRUE
  OBVIOUS
<1> DEFINE R == StrictSubsetOrdering(0..top)
<1> DEFINE small == {0..(n - 1) : n \in {n \in T : n <= top}}
<1>2. IsFiniteSet(0..top)
  BY FS_Interval
<1>3. IsWellFoundedOn(R, SUBSET (0..top))
  BY <1>2, FS_StrictSubsetOrderingWellFounded, FS_FiniteSubsetsOfFinite
<1>4. small \subseteq SUBSET (0..top) /\ 0..(top - 1) \in small
  BY <1>1
<1>5. PICK s \in small : \A t \in small : <<t, s>> \notin R
  <2> HIDE DEF small, R
  <2>1. QED
    BY <1>3, <1>4, WFMin
<1>6. PICK m \in T : m <= top /\ s = 0..(m - 1)
  OBVIOUS
<1>7. ASSUME NEW n \in T, n < m PROVE FALSE
  <2>1. 0..(n - 1) \in small
    BY <1>6, <1>7
  <2>2. 0..(n - 1) \subseteq s /\ 0..(n - 1) # s /\ s \subseteq 0..top
    <3>1. n \in s /\ n \notin 0..(n - 1)
      BY <1>6, <1>7
    <3>2. QED
      BY <1>6, <1>7, <3>1
  <2>3. QED
    BY <1>5, <2>1, <2>2 DEF StrictSubsetOrdering
<1>8. QED
  BY <1>6, <1>7

----------------------------------------------------------------------------
(* The walk along a chain.                                                    *)
\* What lies in one directory can be put in order by name.
LEMMA OrderExists ==
  ASSUME NEW A \in SUBSET Entries, \A d, e \in A : d.name = e.name => d = e
  PROVE  \E s \in [1..Cardinality(A) -> A] :
            \A i, j \in 1..Cardinality(A) : i < j => s[i].name < s[j].name
<1> DEFINE Distinct(B) == \A d, e \in B : d.name = e.name => d = e
<1> DEFINE Ordered(B) == \E s \in [1..Cardinality(B) -> B] :
              \A i, j \in 1..Cardinality(B) : i < j => s[i].name < s[j].name
<1> DEFINE bad == {Cardinality(B) : B \in {B \in SUBSET Entries : Distinct(B) /\ ~Ordered(B)}}
<1>1. \A B \in SUBSET Entries : IsFiniteSet(B) /\ Cardinality(B) \in Nat
  BY FileBackupAssumption, FS_Subset, FS_CardinalityType
<1>2. SUFFICES ASSUME ~Ordered(A) PROVE FALSE
  OBVIOUS
<1>3. bad \subseteq Nat /\ bad # {}
  <2> HIDE DEF Ordered, Distinct
  <2>1. Cardinality(A) \in bad
    BY <1>2 DEF Distinct
  <2>2. QED
    BY <1>1, <2>1
<1>4. PICK m \in bad : \A n \in bad : m <= n
  <2> HIDE DEF bad
  <2>1. QED
    BY <1>3, LeastOf
<1>5. PICK B \in SUBSET Entries : m = Cardinality(B) /\ Distinct(B) /\ ~Ordered(B)
  OBVIOUS
<1>6. m \in Nat /\ IsFiniteSet(B)
  BY <1>1, <1>5
<1>7. CASE B = {}
  <2>1. m = 0
    BY <1>5, <1>7, FS_EmptySet
  <2>2. [i \in 1..0 |-> 0] \in [1..0 -> B] /\ \A i \in 1..0 : FALSE
    OBVIOUS
  <2>3. Ordered(B)
    BY <1>5, <2>1, <2>2
  <2>4. QED
    BY <1>5, <2>3
<1>8. CASE B # {}
  <2> DEFINE names == {e.name : e \in B}
  <2>1. names \subseteq Nat /\ names # {}
    <3>1. \A e \in Entries : e.name \in Nat
      BY FileBackupAssumption
    <3>2. QED
      BY <1>8, <3>1
  <2>2. PICK least \in names : \A n \in names : least <= n
    <3> HIDE DEF names
    <3>1. QED
      BY <2>1, LeastOf
  <2>3. PICK e \in B : e.name = least
    OBVIOUS
  <2> DEFINE C == B \ {e}
  <2>4. \A d \in C : d.name \in Nat /\ e.name \in Nat /\ e.name < d.name
    <3> SUFFICES ASSUME NEW d \in C
                 PROVE  d.name \in Nat /\ e.name \in Nat /\ e.name < d.name
      OBVIOUS
    <3>1. d.name \in names /\ e.name \in names /\ e.name # d.name
      BY <1>5
    <3>2. d.name \in Nat /\ e.name \in Nat
      BY <2>1, <3>1
    <3>3. e.name <= d.name
      BY <2>2, <2>3, <3>1
    <3>4. QED
      BY <3>1, <3>2, <3>3
  <2>5. C \in SUBSET Entries /\ Distinct(C) /\ Cardinality(C) = m - 1 /\ m - 1 \in Nat
    <3>1. Cardinality(C) = m - 1
      BY <1>5, <1>6, FS_RemoveElement
    <3>2. QED
      BY <1>1, <1>5, <3>1
  <2>6. Ordered(C)
    <3>1. Cardinality(C) \notin bad
      <4> HIDE DEF bad, C
      <4>1. QED
        BY <1>4, <1>6, <2>5
    <3> HIDE DEF Ordered, Distinct, C
    <3>2. QED
      BY <2>5, <3>1
  <2>7. PICK s \in [1..(m - 1) -> C] : \A i, j \in 1..(m - 1) : i < j => s[i].name < s[j].name
    BY <2>5, <2>6
  <2> DEFINE t == [i \in 1..m |-> IF i = 1 THEN e ELSE s[i - 1]]
  <2>8. t \in [1..m -> B]
    BY <1>6, <2>7
  <2>9. ASSUME NEW i \in 1..m, NEW j \in 1..m, i < j PROVE t[i].name < t[j].name
    <3>1. j - 1 \in 1..(m - 1) /\ t[j] = s[j - 1] /\ s[j - 1] \in C
      BY <1>6, <2>7, <2>9
    <3>2. CASE i = 1
      BY <2>4, <3>1, <3>2
    <3>3. CASE i # 1
      <4>1. i - 1 \in 1..(m - 1) /\ t[i] = s[i - 1] /\ i - 1 < j - 1
        BY <1>6, <2>9, <3>3
      <4>2. QED
        BY <2>7, <3>1, <4>1
    <3>4. QED
      BY <3>2, <3>3
  <2>10. QED
    BY <1>5, <2>8, <2>9
<1>9. QED
  BY <1>7, <1>8

\* The order by name leaves out nothing.
LEMMA SortedCovers ==
  ASSUME NEW A \in SUBSET Entries, \A d, e \in A : d.name = e.name => d = e
  PROVE  /\ Cardinality(A) \in Nat
         /\ \A i \in 1..Cardinality(A) : Sorted(A)[i] \in A
         /\ \A e \in A : \E i \in 1..Cardinality(A) : Sorted(A)[i] = e
<1> DEFINE n == Cardinality(A)
<1> DEFINE s == Sorted(A)
<1>1. IsFiniteSet(A) /\ n \in Nat
  BY FileBackupAssumption, FS_Subset, FS_CardinalityType
<1>2. s \in [1..n -> A] /\ \A i, j \in 1..n : i < j => s[i].name < s[j].name
  BY OrderExists DEF Sorted
<1>3. \A i \in 1..n : s[i].name \in Nat
  BY <1>2, FileBackupAssumption
<1> HIDE DEF n, s
<1>4. \A i, j \in 1..n : s[i] = s[j] => i = j
  <2> SUFFICES ASSUME NEW i \in 1..n, NEW j \in 1..n, s[i] = s[j], i # j PROVE FALSE
    OBVIOUS
  <2>1. i < j \/ j < i
    BY <1>1
  <2>2. QED
    BY <1>2, <1>3, <2>1
<1>5. s \in Injection(1..n, A)
  BY <1>2, <1>4, Fun_IsInj
<1>6. Cardinality(1..n) = n
  BY <1>1, FS_Interval
<1>7. s \in Surjection(1..n, A)
  BY <1>1, <1>5, <1>6, FS_Injection DEF n
<1>8. \A e \in A : \E i \in 1..n : s[i] = e
  BY <1>7 DEF Surjection
<1>9. QED
  BY <1>1, <1>2, <1>8 DEF n, s

PlaceOf(x) == [path |-> x.path, node |-> x.node]
Inner(x, e) == [path |-> Append(x.path, e.name), node |-> e.node]
TopPlaces == {PlaceOf(Tops[i]) : i \in DOMAIN Tops}
Inside(E, L) ==
    UNION {{Inner(x, e) : e \in {e \in E : e.dir = Seen(x.node)}} :
           x \in {x \in L : ~HardExcluded(x.path, x.node)}}

\* The levels are there, and each holds what lies in the one before.
LEMMA LevelsKnown ==
  ASSUME NEW E
  PROVE  /\ Levels(E)[0] = TopPlaces
         /\ \A n \in 1..Depth : Levels(E)[n] = Inside(E, Levels(E)[n - 1])
<1> DEFINE Next1(f, n) == IF n = 0 THEN TopPlaces ELSE Inside(E, f[n - 1])
<1> DEFINE Good(k) == \E f : f = [n \in 0..k |-> Next1(f, n)]
<1> DEFINE bad == {k \in Nat : ~Good(k)}
<1>1. Levels(E) = CHOOSE f : f = [n \in 0..Depth |-> Next1(f, n)]
  BY DEF Levels, Inside, TopPlaces, PlaceOf, Inner
<1>2. Good(0)
  <2>1. [n \in 0..0 |-> TopPlaces] = [n \in 0..0 |-> Next1([n1 \in 0..0 |-> TopPlaces], n)]
    OBVIOUS
  <2>2. QED
    BY <2>1
<1>3. ASSUME NEW k \in Nat \ {0}, Good(k - 1) PROVE Good(k)
  <2>1. PICK f : f = [n \in 0..(k - 1) |-> Next1(f, n)]
    BY <1>3
  <2> DEFINE g == [n \in 0..k |-> Next1(f, n)]
  <2>2. \A n \in 0..(k - 1) : f[n] = g[n]
    <3> HIDE DEF Next1
    <3>1. QED
      BY <2>1
  <2>3. \A n \in 0..k : Next1(f, n) = Next1(g, n)
    <3> HIDE DEF g
    <3> SUFFICES ASSUME NEW n \in 0..k, n # 0 PROVE f[n - 1] = g[n - 1]
      OBVIOUS
    <3>1. n - 1 \in 0..(k - 1)
      OBVIOUS
    <3>2. QED
      BY <2>2, <3>1
  <2>4. g = [n \in 0..k |-> Next1(g, n)]
    <3> HIDE DEF Next1
    <3>1. QED
      BY <2>3
  <2>5. QED
    BY <2>4
<1>4. bad = {}
  <2> HIDE DEF Good
  <2> SUFFICES ASSUME bad # {} PROVE FALSE
    OBVIOUS
  <2>1. PICK k \in bad : \A n \in bad : k <= n
    BY LeastOf
  <2>2. k # 0 /\ k \in Nat \ {0} /\ k - 1 \in Nat /\ k - 1 \notin bad
    BY <1>2, <2>1
  <2>3. QED
    BY <1>3, <2>1, <2>2
<1>5. Good(Depth)
  BY <1>4, DepthIsNat
<1>6. Levels(E) = [n \in 0..Depth |-> Next1(Levels(E), n)]
  <2> HIDE DEF Next1
  <2>1. QED
    BY <1>1, <1>5
<1>7. \A n \in 0..Depth : Levels(E)[n] = Next1(Levels(E), n)
  <2> HIDE DEF Next1
  <2>1. QED
    BY <1>6
<1>8. QED
  BY <1>7, DepthIsNat

\* Everything there starts with a path of the template.
LEMMA LevelPaths ==
  ASSUME NEW E \in SUBSET Entries
  PROVE  \A n \in 0..Depth : \A x \in Levels(E)[n] :
            /\ x.path \in Seq(Nat)
            /\ \E t \in DOMAIN Tops : Starts(Tops[t].path, x.path)
<1> DEFINE Known(x) ==
      /\ x.path \in Seq(Nat)
      /\ \E t \in DOMAIN Tops : Starts(Tops[t].path, x.path)
<1> DEFINE bad == {n \in 0..Depth : \E x \in Levels(E)[n] : ~Known(x)}
<1>1. SUFFICES ASSUME bad # {} PROVE FALSE
  OBVIOUS
<1>2. PICK n \in bad : \A m \in bad : n <= m
  <2>1. bad \subseteq Nat
    OBVIOUS
  <2> HIDE DEF bad
  <2>2. QED
    BY <1>1, <2>1, LeastOf
<1>3. PICK x \in Levels(E)[n] : ~Known(x)
  OBVIOUS
<1>4. CASE n = 0
  <2>1. PICK t \in DOMAIN Tops : x = PlaceOf(Tops[t])
    BY <1>3, <1>4, LevelsKnown DEF TopPlaces
  <2>2. x.path = Tops[t].path /\ x.path \in Seq(Nat) /\ Len(x.path) \in Nat
    BY <2>1, TopPaths DEF PlaceOf
  <2>3. Starts(Tops[t].path, x.path)
    BY <2>2 DEF Starts
  <2>4. QED
    BY <1>3, <2>2, <2>3
<1>5. CASE n # 0
  <2>1. n \in 1..Depth /\ n - 1 \in 0..Depth /\ n - 1 \notin bad
    BY <1>2, <1>5, DepthIsNat
  <2>2. x \in Inside(E, Levels(E)[n - 1])
    BY <1>3, <2>1, LevelsKnown
  <2>3. PICK y \in Levels(E)[n - 1] : \E e \in E : x = Inner(y, e)
    BY <2>2 DEF Inside
  <2>4. PICK e \in E : x = Inner(y, e)
    BY <2>3
  <2>5. Known(y)
    BY <2>1, <2>3
  <2>6. PICK t \in DOMAIN Tops : Starts(Tops[t].path, y.path)
    BY <2>5
  <2>7. e.name \in Nat /\ y.path \in Seq(Nat) /\ x.path = Append(y.path, e.name)
    BY <2>4, <2>5, FileBackupAssumption DEF Inner
  <2>8. /\ x.path \in Seq(Nat) /\ Len(x.path) = Len(y.path) + 1 /\ Len(y.path) \in Nat
        /\ \A i \in 1..Len(y.path) : x.path[i] = y.path[i]
    BY <2>7, AppendProperties
  <2>9. Len(Tops[t].path) \in Nat
    BY TopPaths
  <2>10. Starts(Tops[t].path, x.path)
    <3> DEFINE l == Len(Tops[t].path)
    <3>1. l \in Nat /\ l <= Len(y.path) /\ \A i \in 1..l : y.path[i] = Tops[t].path[i]
      BY <2>6, <2>9 DEF Starts
    <3> HIDE DEF l
    <3>2. l <= Len(x.path) /\ \A i \in 1..l : x.path[i] = Tops[t].path[i]
      BY <2>8, <3>1
    <3>3. QED
      BY <3>2 DEF Starts, l
  <2>11. QED
    BY <1>3, <2>8, <2>10
<1>6. QED
  BY <1>4, <1>5

LEMMA PrefixStarts ==
  ASSUME NEW s \in Seq(Nat), NEW p \in Seq(Nat), IsPrefix(s, p)
  PROVE  Starts(s, p)
<1>1. Len(s) \in Nat /\ Len(s) <= Len(p) /\ SubSeq(s, 1, Len(s)) = SubSeq(p, 1, Len(s))
  BY DEF IsPrefix
<1>2. ASSUME NEW i \in 1..Len(s) PROVE p[i] = s[i]
  <2>1. SubSeq(s, 1, Len(s))[i] = s[i] /\ SubSeq(p, 1, Len(s))[i] = p[i]
    BY <1>1
  <2>2. QED
    BY <1>1, <2>1
<1>3. QED
  BY <1>1, <1>2 DEF Starts

\* What the walk comes to lies under a root.
LEMMA UnderARoot ==
  ASSUME TopsInside, NEW p \in Seq(Nat), NEW t \in DOMAIN Tops, Starts(Tops[t].path, p)
  PROVE  Within(p) # {}
<1>1. Tops[t].path \in Seq(Nat) /\ Chdir \in Seq(Nat)
  BY TopPaths, FileBackupAssumption
<1>2. CASE Chdir = <<>>
  <2>1. Tops[t].path \in Roots /\ IsPrefix(Tops[t].path, p)
    BY <1>1, <1>2, StartsIsPrefix DEF Roots
  <2>2. QED
    BY <2>1 DEF Within
<1>3. CASE Chdir # <<>>
  <2>1. Starts(Chdir, Tops[t].path)
    BY <1>1, PrefixStarts DEF TopsInside
  <2>2. Starts(Chdir, p)
    <3>1. Len(Chdir) \in Nat /\ Len(Tops[t].path) \in Nat /\ Len(p) \in Nat
      BY <1>1
    <3>2. QED
      BY <2>1, <3>1 DEF Starts
  <2>3. Chdir \in Roots /\ IsPrefix(Chdir, p)
    BY <1>1, <1>3, <2>2, StartsIsPrefix DEF Roots
  <2>4. QED
    BY <2>3 DEF Within
<1>4. QED
  BY <1>2, <1>3

\* What is above a directory is above what lies in it, and so is the directory.
LEMMA AboveGrows ==
  ASSUME NEW p \in Seq(Nat), NEW k \in Nat
  PROVE  /\ Ancestors(p) \subseteq Ancestors(Append(p, k))
         /\ Within(p) # {} => p \in Ancestors(Append(p, k))
<1> DEFINE q == Append(p, k)
<1>1. q \in Seq(Nat) /\ Len(q) = Len(p) + 1 /\ Len(p) \in Nat
      /\ \A i \in 1..Len(p) : q[i] = p[i]
  BY AppendProperties
<1> HIDE DEF q
<1>2. \A n \in 0..Len(p) : SubSeq(q, 1, n) = SubSeq(p, 1, n)
  BY <1>1
<1>3. SubSeq(p, 1, Len(p)) = p
  BY <1>1
<1>4. ASSUME NEW a \in Ancestors(p) PROVE a \in Ancestors(q)
  <2>1. PICK n \in 0..(Len(p) - 1) : a = SubSeq(p, 1, n) /\ Within(SubSeq(p, 1, n)) # {}
    BY DEF Ancestors
  <2>2. n \in 0..Len(p) /\ n \in 0..(Len(q) - 1)
    BY <1>1
  <2>3. a = SubSeq(q, 1, n) /\ Within(SubSeq(q, 1, n)) # {}
    BY <1>2, <2>1, <2>2
  <2>4. QED
    BY <2>2, <2>3 DEF Ancestors
<1>5. ASSUME Within(p) # {} PROVE p \in Ancestors(q)
  <2>1. Len(p) \in 0..(Len(q) - 1) /\ SubSeq(q, 1, Len(p)) = p
    BY <1>1, <1>2, <1>3
  <2>2. QED
    BY <1>5, <2>1 DEF Ancestors
<1>6. QED
  BY <1>4, <1>5 DEF q

\* Nothing brings back what lies in a directory that a rule excludes.
Doomed(p) ==
    /\ ~HasNegations
    /\ \E i \in DOMAIN rules : \E a \in Ancestors(p) : RuleMatches(rules[i], a, TRUE)

Hits(p, d) ==
    {i \in DOMAIN rules : \/ RuleMatches(rules[i], p, d)
                          \/ \E a \in Ancestors(p) : RuleMatches(rules[i], a, TRUE)}

LEMMA DoomedIsExcluded ==
  ASSUME rules \in RuleLists, NEW p, NEW d, Doomed(p)
  PROVE  RulesExclude(p, d)
<1> DEFINE hits == Hits(p, d)
<1>1. hits # {} /\ hits \subseteq DOMAIN rules
  BY DEF Doomed, Hits
<1>2. PICK n \in Nat : DOMAIN rules = 1..n
  BY FileBackupAssumption
<1>3. \E i \in hits : \A j \in hits : j <= i
  <2> DEFINE T == {n - i : i \in hits}
  <2> HIDE DEF hits
  <2>1. T \in SUBSET Nat /\ T # {}
    BY <1>1, <1>2
  <2>2. PICK m \in T : \A k \in T : m <= k
    <3> HIDE DEF T
    <3>1. QED
      BY <2>1, LeastOf
  <2>3. PICK i \in hits : m = n - i
    OBVIOUS
  <2>4. \A j \in hits : j \in 1..n /\ m <= n - j
    BY <1>1, <1>2, <2>2
  <2>5. \A j \in hits : j <= i
    BY <2>3, <2>4
  <2>6. QED
    BY <2>5
<1>4. (CHOOSE i \in hits : \A j \in hits : j <= i) \in DOMAIN rules
  <2> HIDE DEF hits
  <2>1. QED
    BY <1>1, <1>3
<1>5. QED
  BY <1>1, <1>4 DEF RulesExclude, Doomed, HasNegations, Hits

\* What lies in a directory that is cut short is excluded, and what lies in that.
LEMMA DoomGoesDown ==
  ASSUME NEW p \in Seq(Nat), NEW k \in Nat, Within(p) # {},
         Doomed(p) \/ (RulesExclude(p, TRUE) /\ ~HasNegations)
  PROVE  Doomed(Append(p, k))
<1>1. Ancestors(p) \subseteq Ancestors(Append(p, k)) /\ p \in Ancestors(Append(p, k))
  BY AboveGrows
<1>2. CASE Doomed(p)
  BY <1>1, <1>2 DEF Doomed
<1>3. CASE RulesExclude(p, TRUE) /\ ~HasNegations
  <2>1. PICK i \in DOMAIN rules : \/ RuleMatches(rules[i], p, TRUE)
                                  \/ \E a \in Ancestors(p) : RuleMatches(rules[i], a, TRUE)
    BY <1>3 DEF RulesExclude
  <2>2. QED
    BY <1>1, <1>3, <2>1 DEF Doomed
<1>4. QED
  BY <1>2, <1>3

Wanted(x) == ~RulesExclude(x.path, IsDir(Seen(x.node)))
Adding == pc \in {"add", "open", "read"}

\* One comes to an item through as many levels as directories above it.
Known(E, x) == PlaceOf(x) \in Levels(E)[Cardinality(x.above)]

SoundFor(E) ==
    /\ \E S : todo \in Seq(S) /\ \A x \in S : Known(E, x)
    /\ AtHand => Known(E, now)
    /\ \A m \in members : m.name \in {Arcname(p) : p \in Selected(E)}

\* Nothing is archived that was never selected.
SoundInv ==
    /\ AtHand => ~HardExcluded(now.path, now.node)
    /\ Adding => Wanted(now)
    /\ \A E : present \cup touched \subseteq E => SoundFor(E)

LEMMA SelectedStays ==
  ASSUME UNCHANGED settings, NEW E
  PROVE  /\ Levels(E)' = Levels(E) /\ Selected(E)' = Selected(E)
         /\ \A p, d : RulesExclude(p, d)' = RulesExclude(p, d)
         /\ \A n : Seen(n)' = Seen(n)
<1>1. UNCHANGED <<follow, rules>>
  BY DEF settings
<1>2. \A p, d : RulesExclude(p, d)' = RulesExclude(p, d)
  BY <1>1 DEF RulesExclude
<1>3. \A n : Seen(n)' = Seen(n)
  BY <1>1 DEF Seen, Resolved
<1>4. Levels(E)' = Levels(E)
  BY <1>1 DEF Levels, Seen, Resolved
<1>5. QED
  BY <1>2, <1>3, <1>4 DEF Selected

LEMMA InitSound == ASSUME Init PROVE SoundInv
<1>1. ~AtHand /\ ~Adding /\ members = {}
  BY DEF Init, AtHand, Adding
<1> DEFINE first(i) == Item(Tops[i].path, Tops[i].node, {})
<1> DEFINE S == {first(i) : i \in DOMAIN Tops}
<1>2. todo \in Seq(S)
  <2>1. PICK n \in Nat : DOMAIN Tops = 1..n
    BY FileBackupAssumption
  <2>2. todo = [i \in 1..n |-> first(i)] /\ \A i \in 1..n : first(i) \in S
    BY <2>1 DEF Init
  <2> HIDE DEF S, first
  <2>3. QED
    BY <2>2
<1>3. ASSUME NEW E PROVE \A x \in S : Known(E, x)
  <2> SUFFICES ASSUME NEW i \in DOMAIN Tops PROVE Known(E, first(i))
    OBVIOUS
  <2>1. PlaceOf(first(i)) \in TopPlaces /\ first(i).above = {}
    BY DEF TopPlaces, PlaceOf, Item
  <2>2. Cardinality({}) = 0
    BY FS_EmptySet
  <2>3. QED
    BY <2>1, <2>2, LevelsKnown DEF Known
<1> HIDE DEF S
<1>4. QED
  BY <1>1, <1>2, <1>3 DEF SoundInv, SoundFor

\* A child of an item that one comes to lies one level further.
LEMMA ChildKnown ==
  ASSUME NEW E, NEW x, Known(E, x), Counted(x), ~HardExcluded(x.path, x.node),
         Seen(x.node) \in Dirs, Seen(x.node) \notin x.above,
         NEW e \in E, e.dir = Seen(x.node)
  PROVE  Known(E, Child(x, e))
<1> DEFINE d == Seen(x.node)
<1> DEFINE c == Cardinality(x.above)
<1>1. c \in 0..Depth /\ IsFiniteSet(x.above)
  BY CountedShallow
<1>2. Cardinality(x.above \cup {d}) = c + 1
  BY <1>1, FS_AddElement
<1>3. Counted(Child(x, e))
  BY ChildCounted DEF Child
<1>4. Child(x, e).above = x.above \cup {d} /\ PlaceOf(Child(x, e)) = Inner(x, e)
  BY DEF Child, Item, PlaceOf, Inner
<1>5. c + 1 \in 1..Depth /\ (c + 1) - 1 = c
  <2>1. Cardinality(Child(x, e).above) \in 0..Depth
    BY <1>3, CountedShallow
  <2>2. c + 1 \in 0..Depth
    BY <1>2, <1>4, <2>1
  <2> HIDE DEF c
  <2>3. QED
    BY <1>1, <2>2, DepthIsNat
<1>6. PlaceOf(x) \in Levels(E)[c]
  BY DEF Known
<1>7. Inner(x, e) = Inner(PlaceOf(x), e) /\ PlaceOf(x).path = x.path /\ PlaceOf(x).node = x.node
  BY DEF Inner, PlaceOf
<1>8. Inner(x, e) \in Inside(E, Levels(E)[c])
  <2>1. PlaceOf(x) \in {y \in Levels(E)[c] : ~HardExcluded(y.path, y.node)}
    BY <1>6, <1>7
  <2>2. e \in {f \in E : f.dir = Seen(PlaceOf(x).node)}
    BY <1>7
  <2>3. QED
    BY <1>7, <2>1, <2>2 DEF Inside
<1>9. Levels(E)[c + 1] = Inside(E, Levels(E)[c])
  BY <1>5, LevelsKnown
<1>10. QED
  BY <1>2, <1>4, <1>8, <1>9 DEF Known

\* What is at hand and wanted is selected.
LEMMA NowSelected ==
  ASSUME NEW E, Known(E, now), Counted(now), ~HardExcluded(now.path, now.node), Wanted(now)
  PROVE  Arcname(now.path) \in {Arcname(p) : p \in Selected(E)}
<1>1. Cardinality(now.above) \in 0..Depth
  BY CountedShallow
<1>2. PlaceOf(now) \in UNION {Levels(E)[n] : n \in 0..Depth}
  BY <1>1 DEF Known
<1>3. PlaceOf(now).path = now.path /\ PlaceOf(now).node = now.node
  BY DEF PlaceOf
<1>4. now.path \in Selected(E)
  BY <1>2, <1>3 DEF Selected, Wanted
<1>5. QED
  BY <1>4

\* What the directory at hand holds, as the walk will come to it.
LEMMA FoundInside ==
  ASSUME present \subseteq Entries
  PROVE  LET inside == {e \in present : e.dir = Seen(now.node)}
             n == Cardinality(inside)
         IN  /\ n \in Nat
             /\ Children(now) = [i \in 1..n |-> ChildAt(i)]
             /\ \A i \in 1..n : Found(i) \in inside
             /\ \A e \in inside : \E i \in 1..n : Found(i) = e
<1> DEFINE inside == {e \in present : e.dir = Seen(now.node)}
<1>1. inside \in SUBSET Entries /\ \A d, e \in inside : d.name = e.name => d = e
  BY FileBackupAssumption
<1>2. /\ Cardinality(inside) \in Nat
      /\ \A i \in 1..Cardinality(inside) : Sorted(inside)[i] \in inside
      /\ \A e \in inside : \E i \in 1..Cardinality(inside) : Sorted(inside)[i] = e
  <2> HIDE DEF inside
  <2>1. QED
    BY <1>1, SortedCovers
<1>3. QED
  BY <1>2 DEF Children, ChildAt, Found

\* A step that comes to nothing new.
LEMMA QuietSound ==
  ASSUME SoundInv, UNCHANGED <<settings, todo>>,
         present \cup touched \subseteq present' \cup touched',
         AtHand' => AtHand /\ UNCHANGED now, Adding' => Adding /\ AtHand,
         \A E : present \cup touched \subseteq E =>
            \A m \in members' : m.name \in {Arcname(p) : p \in Selected(E)}
  PROVE  SoundInv'
<1>1. UNCHANGED settings /\ UNCHANGED todo
  OBVIOUS
<1>2. ASSUME AtHand' PROVE AtHand /\ now' = now
  BY <1>2
<1>3. (AtHand => ~HardExcluded(now.path, now.node))'
  BY <1>2 DEF SoundInv
<1>4. (Adding => Wanted(now))'
  <2> SUFFICES ASSUME Adding' PROVE Wanted(now)'
    OBVIOUS
  <2>1. Adding /\ AtHand
    OBVIOUS
  <2>2. AtHand'
    BY DEF AtHand, Adding
  <2>3. now' = now /\ Wanted(now)
    BY <1>2, <2>1, <2>2 DEF SoundInv
  <2>4. QED
    BY <1>1, <2>3, SelectedStays DEF Wanted
<1>5. ASSUME NEW E, present' \cup touched' \subseteq E PROVE SoundFor(E)'
  <2>1. SoundFor(E) /\ \A m \in members' : m.name \in {Arcname(p) : p \in Selected(E)}
    BY <1>5 DEF SoundInv
  <2>2. Levels(E)' = Levels(E) /\ Selected(E)' = Selected(E)
    BY <1>1, SelectedStays
  <2>3. \A x : Known(E, x)' <=> Known(E, x)
    BY <2>2 DEF Known
  <2>4. (\E S : todo \in Seq(S) /\ \A x \in S : Known(E, x))'
    BY <1>1, <2>1, <2>2 DEF SoundFor, Known
  <2>5. (AtHand => Known(E, now))'
    BY <1>2, <2>1, <2>2 DEF SoundFor, Known
  <2>6. QED
    BY <2>1, <2>2, <2>4, <2>5 DEF SoundFor
<1>6. QED
  BY <1>3, <1>4, <1>5 DEF SoundInv

\* A step of the walk.
LEMMA WalkSound ==
  ASSUME FileInv, DepthInv, SoundInv, Skip \/ Visit \/ Descend PROVE SoundInv'
<1>1. UNCHANGED <<settings, outside, members>>
  BY DEF Skip, Visit, Descend, staged
<1>2. /\ UNCHANGED settings /\ UNCHANGED members
      /\ present' \cup touched' = present \cup touched
  BY <1>1 DEF outside
<1>3. ASSUME NEW E, present \cup touched \subseteq E
      PROVE  /\ SoundFor(E)
             /\ Levels(E)' = Levels(E)
             /\ \A m \in members' : m.name \in {Arcname(p) : p \in Selected(E)'}
  BY <1>2, <1>3, SelectedStays DEF SoundInv, SoundFor
<1>4. CASE Skip
  <2>1. ~AtHand' /\ ~Adding' /\ todo # <<>> /\ todo' = Tail(todo)
    BY <1>4 DEF Skip, AtHand, Adding
  <2>2. ASSUME NEW E, present \cup touched \subseteq E PROVE SoundFor(E)'
    <3>1. PICK S : todo \in Seq(S) /\ \A x \in S : Known(E, x)
      BY <1>3, <2>2 DEF SoundFor
    <3>2. todo' \in Seq(S)
      BY <2>1, <3>1
    <3>3. QED
      BY <1>3, <2>1, <2>2, <3>1, <3>2 DEF SoundFor, Known
  <2>3. QED
    BY <1>2, <2>1, <2>2 DEF SoundInv
<1>5. CASE Visit
  <2>1. /\ todo # <<>> /\ todo' = Tail(todo) /\ now' = Head(todo)
        /\ ~HardExcluded(now'.path, now'.node)
        /\ Adding' => ~RulesExclude(now'.path, IsDir(Seen(now'.node)))
    BY <1>5 DEF Visit, Adding
  <2>2. ASSUME NEW E, present \cup touched \subseteq E PROVE SoundFor(E)'
    <3>1. PICK S : todo \in Seq(S) /\ \A x \in S : Known(E, x)
      BY <1>3, <2>2 DEF SoundFor
    <3>2. todo' \in Seq(S) /\ now' \in S
      BY <2>1, <3>1
    <3>3. QED
      BY <1>3, <2>2, <3>1, <3>2 DEF SoundFor, Known
  <2>3. Adding' => Wanted(now)'
    BY <1>2, <2>1, SelectedStays DEF Wanted
  <2>4. QED
    BY <1>2, <2>1, <2>2, <2>3 DEF SoundInv
<1>6. CASE Descend
  <2>1. ~AtHand' /\ ~Adding' /\ pc = "descend"
    BY <1>6 DEF Descend, AtHand, Adding
  <2>2. CASE UNCHANGED todo
    <3>1. \A E : present \cup touched \subseteq E =>
            \A m \in members' : m.name \in {Arcname(p) : p \in Selected(E)}
      BY <1>2 DEF SoundInv, SoundFor
    <3>2. QED
      BY <1>2, <2>1, <2>2, <3>1, QuietSound
  <2>3. CASE ~UNCHANGED todo
    <3>1. /\ todo' = Children(now) \o todo
          /\ IsDir(Seen(now.node)) /\ ~Cycle(now)
      BY <1>6, <2>3 DEF Descend
    <3>2. /\ Counted(now) /\ Seen(now.node) \in Dirs /\ Seen(now.node) \notin now.above
          /\ ~HardExcluded(now.path, now.node) /\ present \subseteq Entries
      BY <2>1, <3>1, SeenNode DEF DepthInv, FileInv, SoundInv, AtHand, Dirs, Cycle
    <3> DEFINE inside == {e \in present : e.dir = Seen(now.node)}
    <3> DEFINE n == Cardinality(inside)
    <3>3. /\ n \in Nat /\ Children(now) = [i \in 1..n |-> ChildAt(i)]
          /\ \A i \in 1..n : Found(i) \in inside
      BY <3>2, FoundInside
    <3> HIDE DEF n
    <3>4. ASSUME NEW E, present \cup touched \subseteq E PROVE SoundFor(E)'
      <4>1. Known(E, now)
        BY <1>3, <2>1, <3>4 DEF SoundFor, AtHand
      <4>2. \A i \in 1..n : Known(E, ChildAt(i))
        BY <3>2, <3>3, <3>4, <4>1, ChildKnown DEF ChildAt
      <4>3. PICK S : todo \in Seq(S) /\ \A x \in S : Known(E, x)
        BY <1>3, <3>4 DEF SoundFor
      <4> DEFINE T == S \cup {ChildAt(i) : i \in 1..n}
      <4>4. \A x \in T : Known(E, x)
        BY <4>2, <4>3
      <4>5. S \subseteq T /\ \A i \in 1..n : ChildAt(i) \in T
        OBVIOUS
      <4> HIDE DEF T
      <4>6. todo' \in Seq(T)
        <5>1. Children(now) \in Seq(T) /\ todo \in Seq(T)
          BY <3>3, <4>3, <4>5
        <5>2. QED
          BY <3>1, <5>1
      <4>7. QED
        BY <1>3, <2>1, <3>4, <4>4, <4>6 DEF SoundFor, Known
    <3>5. QED
      BY <1>2, <2>1, <3>4 DEF SoundInv
  <2>4. QED
    BY <2>2, <2>3
<1>7. QED
  BY <1>4, <1>5, <1>6

LEMMA StepSound ==
  ASSUME FileInv, DepthInv, SoundInv, [Next]_vars PROVE SoundInv'
<1>1. CASE Skip \/ Visit \/ Descend
  BY <1>1, WalkSound
<1>2. CASE UNCHANGED members /\ ~(Skip \/ Visit \/ Descend)
  <2>1. UNCHANGED settings /\ UNCHANGED todo
        /\ present \cup touched \subseteq present' \cup touched'
    BY <1>2 DEF Next, Backup, Reject, Vanished, Fail, Before, AddBegin, AddEnd, After, Close,
       Outside, vars, outside
  <2>2. (AtHand' => AtHand /\ UNCHANGED now) /\ (Adding' => Adding /\ AtHand)
    BY <1>2 DEF Next, Backup, Reject, Vanished, Fail, Before, AddBegin, AddEnd, After, Close,
       Outside, vars, AtHand, Adding
  <2>3. \A E : present \cup touched \subseteq E =>
            \A m \in members' : m.name \in {Arcname(p) : p \in Selected(E)}
    BY <1>2 DEF SoundInv, SoundFor
  <2>4. QED
    BY <2>1, <2>2, <2>3, QuietSound
<1>3. CASE ~UNCHANGED members
  <2>1. /\ Before \/ AddEnd
        /\ \E c : members' = members \cup {[name |-> Arcname(now.path), content |-> c]}
    BY <1>3 DEF Next, Backup, Skip, Visit, Descend, Reject, Vanished, Fail, Before, AddBegin,
       AddEnd, After, Close, Outside, vars, staged
  <2>2. /\ UNCHANGED settings /\ UNCHANGED todo /\ UNCHANGED now
        /\ present \cup touched = present' \cup touched'
        /\ AtHand /\ Adding
    BY <2>1 DEF Before, AddEnd, outside, AtHand, Adding
  <2>3. ~HardExcluded(now.path, now.node) /\ Wanted(now) /\ Counted(now)
    BY <2>2 DEF SoundInv, DepthInv
  <2>4. ASSUME NEW E, present \cup touched \subseteq E, NEW m \in members'
        PROVE  m.name \in {Arcname(p) : p \in Selected(E)}
    <3>1. SoundFor(E)
      BY <2>4 DEF SoundInv
    <3>2. Arcname(now.path) \in {Arcname(p) : p \in Selected(E)}
      BY <2>2, <2>3, <3>1, NowSelected DEF SoundFor
    <3>3. m \in members \/ m.name = Arcname(now.path)
      BY <2>1, <2>4
    <3>4. QED
      BY <3>1, <3>2, <3>3 DEF SoundFor
  <2>5. QED
    BY <2>2, <2>4, QuietSound
<1>4. QED
  BY <1>1, <1>2, <1>3

Pending == {PlaceOf(todo[i]) : i \in DOMAIN todo} \cup {PlaceOf(x) : x \in {x \in {now} : AtHand}}

\* The walk is through with a place: it was left out, or what is wanted of it
\* is archived and what it holds is among the places to come to.
Settled(x, V) ==
    \/ HardExcluded(x.path, x.node)
    \/ /\ Wanted(x) => Arcname(x.path) \in emitted
       /\ \/ RulesExclude(x.path, TRUE) /\ ~HasNegations
          \/ \A e \in present \ touched : e.dir = Seen(x.node) => Inner(x, e) \in V

Covered(V) ==
    /\ Pending \subseteq V /\ TopPlaces \subseteq V
    /\ \A x \in V \ Pending : Settled(x, V)

ArchivedSoFar ==
    \A a \in emitted : (\E m \in members : m.name = a) \/ (Adding /\ a = Arcname(now.path))

NowEmitted == AtHand /\ Wanted(now) => Arcname(now.path) \in emitted

\* Nothing selected is left out.
FullInv ==
    /\ rules \in RuleLists
    /\ result # "" => pc = "end"
    /\ result = "done" => todo = <<>>
    /\ result # "failed" => ArchivedSoFar /\ NowEmitted /\ \E V : Covered(V)

LEMMA SettledStays ==
  ASSUME UNCHANGED settings, emitted \subseteq emitted', present' \ touched' \subseteq present \ touched,
         NEW x, NEW V, NEW W, V \subseteq W, Settled(x, V)
  PROVE  Settled(x, W)'
<1>1. /\ \A p, d : RulesExclude(p, d)' = RulesExclude(p, d)
      /\ \A n : Seen(n)' = Seen(n)
  BY SelectedStays
<1>2. HasNegations' = HasNegations
  BY DEF HasNegations, settings
<1>3. Wanted(x)' = Wanted(x)
  BY <1>1 DEF Wanted
<1>4. CASE HardExcluded(x.path, x.node)
  BY <1>4 DEF Settled
<1>5. CASE ~HardExcluded(x.path, x.node)
  <2>1. Wanted(x)' => Arcname(x.path) \in emitted'
    BY <1>3, <1>5 DEF Settled
  <2>2. CASE RulesExclude(x.path, TRUE) /\ ~HasNegations
    BY <1>1, <1>2, <2>1, <2>2 DEF Settled
  <2>3. CASE \A e \in present \ touched : e.dir = Seen(x.node) => Inner(x, e) \in V
    <3>1. \A e \in present' \ touched' : e.dir = Seen(x.node)' => Inner(x, e) \in W
      BY <1>1, <2>3
    <3>2. QED
      BY <2>1, <3>1 DEF Settled
  <2>4. QED
    BY <1>5, <2>2, <2>3 DEF Settled
<1>6. QED
  BY <1>4, <1>5

\* A step that leaves the walk where it is.
LEMMA CoverStays ==
  ASSUME UNCHANGED <<settings, todo, now>>, AtHand' = AtHand, emitted \subseteq emitted',
         present' \ touched' \subseteq present \ touched, NEW V, Covered(V)
  PROVE  Covered(V)'
<1>1. Pending' = Pending
  BY DEF Pending
<1>2. \A x \in V \ Pending : Settled(x, V)'
  BY SettledStays DEF Covered
<1>3. QED
  BY <1>1, <1>2 DEF Covered

LEMMA InitFull == ASSUME Init PROVE FullInv
<1>1. /\ rules \in RuleLists /\ result = "" /\ emitted = {} /\ ~AtHand
      /\ todo = [i \in DOMAIN Tops |-> Item(Tops[i].path, Tops[i].node, {})]
  BY DEF Init, AtHand
<1>2. Pending = TopPlaces
  <2>1. DOMAIN todo = DOMAIN Tops /\ \A i \in DOMAIN Tops : PlaceOf(todo[i]) = PlaceOf(Tops[i])
    BY <1>1 DEF Item, PlaceOf
  <2>2. QED
    BY <1>1, <2>1 DEF Pending, TopPlaces
<1>3. Covered(TopPlaces)
  BY <1>2 DEF Covered
<1>4. QED
  BY <1>1, <1>3 DEF FullInv, ArchivedSoFar, NowEmitted

\* What is next, and the rest.
LEMMA TodoSplits ==
  ASSUME NEW S, todo \in Seq(S), todo # <<>>
  PROVE  {PlaceOf(todo[i]) : i \in DOMAIN todo} =
            {PlaceOf(Head(todo))} \cup {PlaceOf(Tail(todo)[i]) : i \in DOMAIN Tail(todo)}
<1> DEFINE n == Len(todo)
<1>1. /\ n \in Nat \ {0} /\ DOMAIN todo = 1..n /\ DOMAIN Tail(todo) = 1..(n - 1)
      /\ Head(todo) = todo[1] /\ \A i \in 1..(n - 1) : Tail(todo)[i] = todo[i + 1]
  OBVIOUS
<1> HIDE DEF n
<1>2. ASSUME NEW i \in 1..n
      PROVE  PlaceOf(todo[i]) \in
                {PlaceOf(Head(todo))} \cup {PlaceOf(Tail(todo)[k]) : k \in 1..(n - 1)}
  <2>1. CASE i = 1
    BY <1>1, <2>1
  <2>2. CASE i # 1
    <3>1. i - 1 \in 1..(n - 1) /\ (i - 1) + 1 = i
      BY <1>1, <2>2
    <3>2. Tail(todo)[i - 1] = todo[i]
      BY <1>1, <3>1
    <3>3. QED
      BY <3>1, <3>2
  <2>3. QED
    BY <2>1, <2>2
<1>3. ASSUME NEW i \in 1..(n - 1)
      PROVE  PlaceOf(Tail(todo)[i]) \in {PlaceOf(todo[k]) : k \in 1..n}
  <2>1. i + 1 \in 1..n
    BY <1>1
  <2>2. QED
    BY <1>1, <2>1
<1>4. PlaceOf(Head(todo)) \in {PlaceOf(todo[k]) : k \in 1..n}
  BY <1>1
<1>5. QED
  BY <1>1, <1>2, <1>3, <1>4

\* A step of the walk leaves nothing out.
LEMMA SkipFull ==
  ASSUME DepthInv, FullInv, result # "failed", Skip PROVE FullInv'
<1>1. /\ pc = "visit" /\ pc' = "visit" /\ todo # <<>> /\ todo' = Tail(todo)
      /\ HardExcluded(Head(todo).path, Head(todo).node)
      /\ UNCHANGED settings /\ UNCHANGED <<outside, now, emitted, members, result>>
      /\ ~AtHand /\ ~AtHand' /\ ~Adding /\ ~Adding'
  BY DEF Skip, staged, AtHand, Adding
<1>2. PICK V : Covered(V)
  BY DEF FullInv
<1>3. PICK S : todo \in Seq(S)
  BY DEF DepthInv
<1>4. PICK head : head = PlaceOf(Head(todo))
  OBVIOUS
<1>5. Pending = {head} \cup Pending'
  <2>1. {x \in {now} : AtHand} = {} /\ {x \in {now'} : AtHand'} = {}
    BY <1>1
  <2>2. QED
    BY <1>1, <1>3, <1>4, <2>1, TodoSplits DEF Pending
<1>6. \A x \in V : Settled(x, V) => Settled(x, V)'
  BY <1>1, SettledStays DEF outside
<1>7. Settled(head, V)'
  BY <1>1, <1>4 DEF Settled, PlaceOf
<1>8. Covered(V)'
  BY <1>2, <1>5, <1>6, <1>7 DEF Covered
<1>9. ArchivedSoFar' /\ NowEmitted'
  BY <1>1 DEF FullInv, ArchivedSoFar, NowEmitted
<1>10. QED
  BY <1>1, <1>8, <1>9 DEF FullInv, settings

LEMMA VisitFull ==
  ASSUME DepthInv, FullInv, result # "failed", Visit PROVE FullInv'
<1>1. /\ pc = "visit" /\ todo # <<>> /\ todo' = Tail(todo) /\ now' = Head(todo)
      /\ UNCHANGED settings /\ UNCHANGED <<outside, members, result>>
      /\ ~AtHand /\ AtHand' /\ ~Adding /\ emitted \subseteq emitted'
      /\ pc' \in {"add", "descend"}
      /\ \/ Adding' /\ emitted' = emitted \cup {Arcname(now'.path)}
         \/ emitted' = emitted
            /\ ~(~RulesExclude(now'.path, IsDir(Seen(now'.node))) /\ Arcname(now'.path) \notin emitted)
  BY DEF Visit, AtHand, Adding
<1>2. PICK V : Covered(V)
  BY DEF FullInv
<1>3. PICK S : todo \in Seq(S)
  BY DEF DepthInv
<1>4. Pending = Pending'
  <2>1. {x \in {now} : AtHand} = {} /\ {x \in {now'} : AtHand'} = {Head(todo)}
    BY <1>1
  <2>2. QED
    BY <1>1, <1>3, <2>1, TodoSplits DEF Pending
<1>5. \A x \in V : Settled(x, V) => Settled(x, V)'
  BY <1>1, SettledStays DEF outside
<1>6. Covered(V)'
  BY <1>2, <1>4, <1>5 DEF Covered
<1>7. ArchivedSoFar'
  BY <1>1 DEF FullInv, ArchivedSoFar
<1>8. NowEmitted'
  <2>1. Wanted(now)' <=> ~RulesExclude(now'.path, IsDir(Seen(now'.node)))
    BY <1>1, SelectedStays DEF Wanted
  <2>2. QED
    BY <1>1, <2>1 DEF NowEmitted
<1>9. QED
  BY <1>1, <1>6, <1>7, <1>8 DEF FullInv, settings

LEMMA DescendFull ==
  ASSUME FileInv, DepthInv, SoundInv, FullInv, result # "failed", Descend PROVE FullInv'
<1>1. /\ pc = "descend" /\ AtHand /\ ~AtHand' /\ ~Adding /\ ~Adding'
      /\ UNCHANGED settings /\ UNCHANGED <<outside, now, emitted, members>>
      /\ result' = "failed" \/ result' = result
      /\ present' \ touched' = present \ touched
  BY DEF Descend, staged, outside, AtHand, Adding
<1>2. CASE result' = "failed"
  BY <1>1, <1>2 DEF FullInv, Descend, settings
<1>3. CASE result' # "failed"
  <2>1. PICK V : Covered(V)
    BY DEF FullInv
  <2>2. PICK S : todo \in Seq(S)
    BY DEF DepthInv
  <2>3. PICK place : place = PlaceOf(now)
    OBVIOUS
  <2> DEFINE next == {PlaceOf(todo[i]) : i \in DOMAIN todo}
  <2>4. Pending = next \cup {place}
    <3>1. {x \in {now} : AtHand} = {now}
      BY <1>1
    <3>2. QED
      BY <2>3, <3>1 DEF Pending
  <2>5. Pending' = {PlaceOf(todo'[i]) : i \in DOMAIN todo'}
    <3>1. {x \in {now'} : AtHand'} = {}
      BY <1>1
    <3>2. QED
      BY <3>1 DEF Pending
  <2>6. result' = result /\ pc' = "visit"
        /\ \/ todo' = todo /\ (~IsDir(Seen(now.node)) \/ Pruned(now))
           \/ todo' = Children(now) \o todo
    BY <1>1, <1>3 DEF Descend
  <2>7. present \subseteq Entries /\ \A e \in present : IsDir(e.dir)
    BY FileBackupAssumption DEF FileInv
  <2> DEFINE inside == {e \in present : e.dir = Seen(now.node)}
  <2> DEFINE held == {Inner(now, e) : e \in inside}
  <2>8. next \subseteq Pending' /\ Pending' \subseteq next \cup held
        /\ \/ Pruned(now) \/ inside = {} \/ held \subseteq Pending'
    <3>1. CASE todo' = todo /\ (~IsDir(Seen(now.node)) \/ Pruned(now))
      <4>1. Pruned(now) \/ inside = {}
        BY <2>7, <3>1
      <4>2. QED
        BY <2>5, <3>1, <4>1
    <3>2. CASE todo' = Children(now) \o todo
      <4> DEFINE n == Cardinality(inside)
      <4>1. /\ n \in Nat /\ Children(now) = [i \in 1..n |-> ChildAt(i)]
            /\ \A i \in 1..n : Found(i) \in inside
            /\ \A e \in inside : \E i \in 1..n : Found(i) = e
        BY <2>7, FoundInside
      <4>2. \A i \in 1..n : PlaceOf(Children(now)[i]) = Inner(now, Found(i))
        <5> HIDE DEF n, inside
        <5> SUFFICES ASSUME NEW i \in 1..n
                     PROVE  PlaceOf(Children(now)[i]) = Inner(now, Found(i))
          OBVIOUS
        <5>1. Children(now)[i] = ChildAt(i)
          BY <4>1
        <5>2. QED
          BY <5>1 DEF ChildAt, Child, Item, PlaceOf, Inner
      <4> HIDE DEF n, inside
      <4> DEFINE m == Len(todo)
      <4>3. /\ m \in Nat /\ DOMAIN todo = 1..m /\ DOMAIN todo' = 1..(n + m)
            /\ \A i \in 1..n : todo'[i] = Children(now)[i]
            /\ \A i \in 1..m : todo'[n + i] = todo[i]
        <5> DEFINE C == {ChildAt(i) : i \in 1..n}
        <5>1. Children(now) \in Seq(C) /\ Len(Children(now)) = n
          BY <4>1
        <5> HIDE DEF C
        <5>2. todo \in Seq(S) /\ m \in Nat /\ DOMAIN todo = 1..m
          BY <2>2
        <5>3. Children(now) \in Seq(C \cup S) /\ todo \in Seq(C \cup S)
          BY <5>1, <5>2
        <5>4. QED
          BY <3>2, <4>1, <5>1, <5>2, <5>3, ConcatProperties
      <4> HIDE DEF m
      <4>4. held \subseteq Pending'
        <5> SUFFICES ASSUME NEW e \in inside PROVE Inner(now, e) \in Pending'
          OBVIOUS
        <5>1. PICK i \in 1..n : Found(i) = e
          BY <4>1
        <5>2. i \in 1..(n + m) /\ PlaceOf(todo'[i]) = Inner(now, e)
          BY <4>1, <4>2, <4>3, <5>1
        <5>3. QED
          BY <2>5, <4>3, <5>2
      <4>5. next \subseteq Pending'
        <5> SUFFICES ASSUME NEW i \in 1..m PROVE PlaceOf(todo[i]) \in Pending'
          BY <4>3
        <5>1. n + i \in 1..(n + m) /\ todo'[n + i] = todo[i]
          BY <4>1, <4>3
        <5>2. QED
          BY <2>5, <4>3, <5>1
      <4>6. Pending' \subseteq next \cup held
        <5> SUFFICES ASSUME NEW i \in 1..(n + m) PROVE PlaceOf(todo'[i]) \in next \cup held
          BY <2>5, <4>3
        <5>1. CASE i \in 1..n
          BY <4>1, <4>2, <4>3, <5>1
        <5>2. CASE i \notin 1..n
          <6>1. i - n \in 1..m /\ n + (i - n) = i
            BY <4>1, <4>3, <5>2
          <6>2. todo'[i] = todo[i - n]
            BY <4>3, <6>1
          <6>3. QED
            BY <4>3, <6>1, <6>2
        <5>3. QED
          BY <5>1, <5>2
      <4>7. QED
        BY <4>4, <4>5, <4>6
    <3>3. QED
      BY <2>6, <3>1, <3>2
  <2> HIDE DEF next, held
  <2>9. PICK W : W = V \cup Pending'
    OBVIOUS
  <2>10. \A x \in V : Settled(x, V) => Settled(x, W)'
    BY <1>1, <2>9, SettledStays
  <2>11. Settled(place, W)
    <3>1. Wanted(place) => Arcname(place.path) \in emitted
      BY <1>1, <2>3 DEF FullInv, NowEmitted, Wanted, PlaceOf
    <3>2. \A e \in present \ touched : e.dir = Seen(place.node) => Inner(place, e) \in held
      BY <2>3 DEF held, PlaceOf, Inner
    <3>3. CASE Pruned(now)
      BY <2>3, <3>1, <3>3 DEF Settled, Pruned, PlaceOf
    <3>4. CASE inside = {}
      <4>1. \A e \in present \ touched : e.dir # Seen(place.node)
        BY <2>3, <3>4 DEF PlaceOf
      <4>2. QED
        BY <3>1, <4>1 DEF Settled
    <3>5. CASE held \subseteq Pending'
      BY <2>9, <3>1, <3>2, <3>5 DEF Settled
    <3>6. QED
      BY <2>8, <3>3, <3>4, <3>5
  <2>12. Settled(place, W)'
    BY <1>1, <2>11, SettledStays
  <2>13. Covered(W)'
    <3>1. Pending' \subseteq W /\ TopPlaces \subseteq W
      BY <2>1, <2>9 DEF Covered
    <3>2. \A x \in W \ Pending' : x \in V /\ (x \notin Pending \/ x = place)
      BY <2>4, <2>8, <2>9
    <3>3. \A x \in W \ Pending' : Settled(x, W)'
      BY <2>1, <2>10, <2>12, <3>2 DEF Covered
    <3>4. QED
      BY <3>1, <3>3 DEF Covered
  <2>14. ArchivedSoFar' /\ NowEmitted'
    BY <1>1 DEF FullInv, ArchivedSoFar, NowEmitted
  <2>15. rules' \in RuleLists /\ result' = ""
    BY <1>1, <2>6 DEF FullInv, settings
  <2>16. QED
    BY <2>13, <2>14, <2>15 DEF FullInv
<1>4. QED
  BY <1>2, <1>3

\* A step that is not the walk's, and does not fail.
LEMMA OtherFull ==
  ASSUME FullInv, result = "", UNCHANGED settings, UNCHANGED <<todo, now, emitted>>,
         AtHand' = AtHand, present' \ touched' \subseteq present \ touched,
         \/ Adding' = Adding /\ members \subseteq members'
         \/ \E c : members' = members \cup {[name |-> Arcname(now.path), content |-> c]},
         \/ result' = ""
         \/ result' = "done" /\ pc' = "end" /\ todo = <<>>
  PROVE  FullInv'
<1>1. PICK V : Covered(V)
  BY DEF FullInv
<1>2. Covered(V)'
  BY <1>1, CoverStays
<1>3. ArchivedSoFar'
  <2>1. ArchivedSoFar
    BY DEF FullInv
  <2>2. CASE Adding' = Adding /\ members \subseteq members'
    BY <2>1, <2>2 DEF ArchivedSoFar
  <2>3. CASE \E c : members' = members \cup {[name |-> Arcname(now.path), content |-> c]}
    <3>1. PICK c : members' = members \cup {[name |-> Arcname(now.path), content |-> c]}
      BY <2>3
    <3>2. \E m \in members' : m.name = Arcname(now.path)
      <4> DEFINE new == [name |-> Arcname(now.path), content |-> c]
      <4>1. new \in members' /\ new.name = Arcname(now.path)
        BY <3>1
      <4>2. QED
        BY <4>1
    <3>3. \A a \in emitted : \E m \in members' : m.name = a
      BY <2>1, <3>1, <3>2 DEF ArchivedSoFar
    <3>4. QED
      BY <3>3 DEF ArchivedSoFar
  <2>4. QED
    BY <2>2, <2>3
<1>4. NowEmitted'
  <2>1. RulesExclude(now.path, IsDir(Seen(now.node)))'
          <=> RulesExclude(now.path, IsDir(Seen(now.node)))
    BY SelectedStays
  <2>2. QED
    BY <2>1 DEF FullInv, NowEmitted, Wanted
<1>5. QED
  BY <1>2, <1>3, <1>4 DEF FullInv, settings

LEMMA StepFull ==
  ASSUME FileInv, DepthInv, SoundInv, FullInv, [Next]_vars PROVE FullInv'
<1>1. UNCHANGED settings
  BY DEF Next, Backup, Skip, Visit, Descend, Reject, Vanished, Fail, Before, AddBegin,
     AddEnd, After, Close, Outside, vars
<1>2. CASE UNCHANGED vars
  <2>1. UNCHANGED <<settings, present, touched, pc, todo, now, emitted, members, result>>
    BY <1>2 DEF vars, outside, staged
  <2>2. CASE result = "failed"
    BY <2>1, <2>2 DEF FullInv, settings
  <2>3. CASE result # "failed"
    <3>1. PICK V : Covered(V)
      BY <2>3 DEF FullInv
    <3>2. Covered(V)' /\ (Wanted(now)' = Wanted(now)) /\ Adding' = Adding /\ AtHand' = AtHand
      <4>1. AtHand' = AtHand /\ Adding' = Adding
        BY <2>1 DEF AtHand, Adding
      <4>2. QED
        BY <1>1, <2>1, <3>1, <4>1, CoverStays, SelectedStays DEF Wanted
    <3>3. ArchivedSoFar' /\ NowEmitted'
      BY <2>1, <2>3, <3>2 DEF FullInv, ArchivedSoFar, NowEmitted
    <3>4. QED
      BY <2>1, <3>2, <3>3 DEF FullInv, settings
  <2>4. QED
    BY <2>2, <2>3
<1>3. CASE Next
  <2>1. result = ""
    <3>1. pc # "end"
      BY <1>3 DEF Next, Backup, Skip, Visit, Descend, Reject, Vanished, Before, AddBegin,
         AddEnd, After, Close, Outside
    <3>2. QED
      BY <3>1 DEF FullInv
  <2>2. CASE Skip \/ Visit \/ Descend
    BY <2>1, <2>2, SkipFull, VisitFull, DescendFull
  <2>3. CASE result' = "failed" /\ (Reject \/ Vanished \/ After)
    <3>1. pc' = "end"
      BY <2>1, <2>3 DEF Reject, Vanished, Fail, After
    <3>2. QED
      BY <1>1, <2>3, <3>1 DEF FullInv, settings
  <2>4. CASE After /\ result' # "failed"
    <3>1. UNCHANGED <<todo, now, emitted, members, result>> /\ present' \ touched' = present \ touched
      BY <2>4 DEF After, outside, staged
    <3>2. AtHand' = AtHand /\ Adding' = Adding
      BY <2>4 DEF After, AtHand, Adding
    <3>3. QED
      BY <1>1, <2>1, <3>1, <3>2, OtherFull
  <2>5. CASE Before \/ AddEnd
    <3>1. /\ UNCHANGED <<todo, now, emitted, result>> /\ present' \ touched' = present \ touched
          /\ AtHand' = AtHand
          /\ \/ Adding' = Adding /\ members \subseteq members'
             \/ \E c : members' = members \cup {[name |-> Arcname(now.path), content |-> c]}
      <4>1. CASE Before
        <5>1. /\ UNCHANGED <<todo, now, emitted, result>> /\ present' \ touched' = present \ touched
              /\ AtHand' = AtHand
          BY <4>1 DEF Before, outside, AtHand
        <5>2. CASE dry
          BY <4>1, <5>1, <5>2 DEF Before
        <5>3. CASE ~dry
          <6>1. pc = "add" /\ pc' = "open" /\ members' = members
            BY <4>1, <5>3 DEF Before
          <6>2. Adding' = Adding /\ members \subseteq members'
            BY <6>1 DEF Adding
          <6>3. QED
            BY <5>1, <6>2
        <5>4. QED
          BY <5>2, <5>3
      <4>2. CASE AddEnd
        <5> DEFINE held == IF Version(now) = reading THEN reading ELSE Torn
        <5>1. /\ UNCHANGED <<todo, now, emitted, result>> /\ present' \ touched' = present \ touched
              /\ pc = "read" /\ pc' = "check"
              /\ members' = members \cup {[name |-> Arcname(now.path), content |-> held]}
          BY <4>2 DEF AddEnd, outside
        <5> HIDE DEF held
        <5>2. AtHand' = AtHand
          BY <5>1 DEF AtHand
        <5>3. QED
          BY <5>1, <5>2
      <4>3. QED
        BY <2>5, <4>1, <4>2
    <3>2. QED
      BY <1>1, <2>1, <3>1, OtherFull
  <2>6. CASE AddBegin \/ Outside
    <3>1. /\ UNCHANGED <<todo, now, emitted, members, result>>
          /\ present' \ touched' \subseteq present \ touched
      BY <2>6 DEF AddBegin, Outside, outside, staged
    <3>2. AtHand' = AtHand /\ Adding' = Adding
      BY <2>6 DEF AddBegin, Outside, AtHand, Adding
    <3>3. QED
      BY <1>1, <2>1, <3>1, <3>2, OtherFull
  <2>7. CASE Close
    <3>1. /\ UNCHANGED <<todo, now, emitted, members>> /\ present' \ touched' = present \ touched
          /\ pc = "visit" /\ todo = <<>> /\ pc' = "end" /\ result' \in {"done", "failed"}
      BY <2>7 DEF Close, outside, staged
    <3>2. AtHand' = AtHand /\ Adding' = Adding
      BY <3>1 DEF AtHand, Adding
    <3>3. CASE result' = "done"
      BY <1>1, <2>1, <3>1, <3>2, <3>3, OtherFull
    <3>4. CASE result' = "failed"
      BY <1>1, <3>1, <3>4 DEF FullInv, settings
    <3>5. QED
      BY <3>1, <3>3, <3>4
  <2>8. QED
    <3>1. Reject \/ Vanished => result' = "failed"
      BY DEF Reject, Vanished, Fail
    <3>2. QED
      BY <1>3, <2>2, <2>3, <2>4, <2>5, <2>6, <2>7, <3>1 DEF Next, Backup
<1>4. QED
  BY <1>2, <1>3

\* At the end the walk has been wherever something may be selected.
LEMMA WalkWasThere ==
  ASSUME TopsInside, present \subseteq Entries, NEW V, Covered(V), Pending = {},
         NEW n \in 0..Depth, NEW x \in Levels(present \ touched)[n]
  PROVE  x \in V \/ Doomed(x.path)
<1> DEFINE E == present \ touched
<1> DEFINE Reached(y) == y \in V \/ Doomed(y.path)
<1> DEFINE bad == {k \in 0..Depth : \E y \in Levels(E)[k] : ~Reached(y)}
<1>1. SUFFICES ASSUME bad # {} PROVE FALSE
  OBVIOUS
<1>2. PICK k \in bad : \A m \in bad : k <= m
  <2>1. bad \subseteq Nat
    OBVIOUS
  <2> HIDE DEF bad
  <2>2. QED
    BY <1>1, <2>1, LeastOf
<1>3. PICK y \in Levels(E)[k] : ~Reached(y)
  OBVIOUS
<1>4. CASE k = 0
  BY <1>3, <1>4, LevelsKnown DEF Covered
<1>5. CASE k # 0
  <2>1. k \in 1..Depth /\ k - 1 \in 0..Depth /\ k - 1 \notin bad
    <3>1. k \in 1..Depth /\ k - 1 \in 0..Depth /\ k - 1 < k
      BY <1>5, DepthIsNat
    <3> HIDE DEF bad
    <3>2. QED
      BY <1>2, <3>1
  <2>2. y \in Inside(E, Levels(E)[k - 1])
    BY <1>3, <2>1, LevelsKnown
  <2>3. PICK z \in Levels(E)[k - 1] :
          /\ ~HardExcluded(z.path, z.node)
          /\ \E e \in E : e.dir = Seen(z.node) /\ y = Inner(z, e)
    BY <2>2 DEF Inside
  <2>4. PICK e \in E : e.dir = Seen(z.node) /\ y = Inner(z, e)
    BY <2>3
  <2>5. z.path \in Seq(Nat) /\ \E t \in DOMAIN Tops : Starts(Tops[t].path, z.path)
    <3>1. E \in SUBSET Entries
      OBVIOUS
    <3> HIDE DEF E
    <3>2. QED
      BY <2>1, <2>3, <3>1, LevelPaths
  <2>6. Within(z.path) # {} /\ e.name \in Nat /\ y.path = Append(z.path, e.name)
    BY <2>4, <2>5, UnderARoot, FileBackupAssumption DEF Inner
  <2>7. Reached(z)
    BY <2>1, <2>3
  <2>8. CASE Doomed(z.path) \/ (RulesExclude(z.path, TRUE) /\ ~HasNegations)
    <3>1. Doomed(y.path)
      BY <2>5, <2>6, <2>8, DoomGoesDown
    <3>2. QED
      BY <1>3, <3>1
  <2>9. CASE ~Doomed(z.path) /\ ~(RulesExclude(z.path, TRUE) /\ ~HasNegations)
    <3>1. z \in V /\ Settled(z, V)
      BY <2>7, <2>9 DEF Covered
    <3>2. Inner(z, e) \in V
      BY <2>3, <2>4, <2>9, <3>1 DEF Settled
    <3>3. QED
      BY <1>3, <2>4, <3>2
  <2>10. QED
    BY <2>8, <2>9
<1>6. QED
  BY <1>4, <1>5

\* SelectedIsArchived, for any tree, any exclusions and any number of changes, where the
\* template's paths lie in the configured chdir: an archive has every selected path that
\* was there all the time, and none that is not selected (FileBackup._walk).
THEOREM ArchiveIsSelection ==
  ASSUME TopsInside PROVE Spec => []SelectedIsArchived
<1>1. ASSUME FileInv, SoundInv, FullInv, result = "done" PROVE SelectedIsArchived
  <2>1. /\ pc = "end" /\ todo = <<>> /\ ArchivedSoFar /\ present \subseteq Entries
        /\ rules \in RuleLists /\ ~AtHand /\ ~Adding
    BY <1>1 DEF FullInv, FileInv, AtHand, Adding
  <2>2. PICK V : Covered(V)
    BY <1>1 DEF FullInv
  <2>3. Pending = {}
    BY <2>1 DEF Pending
  <2> DEFINE names == {m.name : m \in members}
  <2>4. ASSUME NEW p \in Selected(present \ touched) PROVE Arcname(p) \in names
    <3>1. PICK n \in 0..Depth : \E x \in Levels(present \ touched)[n] :
            /\ p = x.path /\ ~HardExcluded(x.path, x.node)
            /\ ~RulesExclude(x.path, IsDir(Seen(x.node)))
      BY <2>4 DEF Selected
    <3>2. PICK x \in Levels(present \ touched)[n] :
            /\ p = x.path /\ ~HardExcluded(x.path, x.node)
            /\ ~RulesExclude(x.path, IsDir(Seen(x.node)))
      BY <3>1
    <3>3. x \in V
      BY <2>1, <2>2, <2>3, <3>2, WalkWasThere, DoomedIsExcluded
    <3>4. Arcname(p) \in emitted
      BY <2>2, <2>3, <3>2, <3>3 DEF Covered, Settled, Wanted
    <3>5. QED
      BY <2>1, <3>4 DEF ArchivedSoFar
  <2>5. names \subseteq {Arcname(p) : p \in Selected(present \cup touched)}
    <3>1. PICK E : E = present \cup touched
      OBVIOUS
    <3>2. SoundFor(E)
      BY <1>1, <3>1 DEF SoundInv
    <3>3. QED
      BY <3>1, <3>2 DEF SoundFor
  <2>6. QED
    BY <2>4, <2>5 DEF SelectedIsArchived
<1>2. FileInv /\ SoundInv /\ FullInv => SelectedIsArchived
  BY <1>1 DEF SelectedIsArchived
<1>3. Spec => [](FileInv /\ DepthInv /\ SoundInv /\ FullInv)
  <2>1. Init => DepthInv /\ SoundInv /\ FullInv
    BY InitDepth, InitSound, InitFull
  <2>2. FileInv /\ DepthInv /\ SoundInv /\ FullInv /\ [Next]_vars
          => DepthInv' /\ SoundInv' /\ FullInv'
    BY StepDepth, StepSound, StepFull
  <2>3. QED
    BY <2>1, <2>2, FileInvHolds, PTL DEF Spec
<1>4. QED
  BY <1>2, <1>3, PTL
=============================================================================
