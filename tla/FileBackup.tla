----------------------------- MODULE FileBackup -----------------------------
(* One run of the file engine: what a template with exclusions selects from a *)
(* tree of directories, files and links, and how it becomes an archive while  *)
(* the files go on changing.  A name is a number, a path the names from the   *)
(* root of the file system down; an entry names a node in a directory.        *)
EXTENDS Integers, FiniteSets, SequencesExt

CONSTANTS
    Nodes, KindOf,  \* "dir", "file", "link" or "special"
    Target,         \* the directory a link leads to, in the end
    Above,          \* the directories a node really lies in, itself included
    Entries,        \* [dir, name, node]: every entry there may be
    Tops,           \* the paths of the template, in order: [path, node]
    Chdir,          \* the configured chdir, <<>> for none
    Hidden,         \* nodes excluded by path, the run's own files among them
    HiddenNames,    \* the names the plain exclusion patterns match
    RuleLists,      \* bound: exclusion templates looked at
    MaxChanges      \* bound: changes to the files while the run works

IsDir(n) == KindOf[n] = "dir"
Names == {e.name : e \in Entries}
Dot == -1       \* what a root is called from itself

\* A rule matches paths that end like its pattern, a name of each set in turn;
\* an anchored one counts from a root, and a star in it may span directories.
Rules == [negated : BOOLEAN, dirOnly : BOOLEAN, anchored : BOOLEAN,
          star : BOOLEAN, pattern : Seq(SUBSET (Names \cup {Dot})) \ {<<>>}]

ASSUME FileBackupAssumption ==
    /\ KindOf \in [Nodes -> {"dir", "file", "link", "special"}]
    /\ \A n \in Nodes : KindOf[n] = "link" => Target[n] \in Nodes /\ IsDir(Target[n])
    /\ IsFiniteSet(Nodes) /\ IsFiniteSet(Entries)
    /\ \A e \in Entries : IsDir(e.dir) /\ e.name \in Nat /\ e.node \in Nodes
    /\ \A d, e \in Entries : d.dir = e.dir /\ d.name = e.name => d = e
    /\ Tops \in Seq([path : Seq(Nat), node : Nodes])
    /\ Chdir \in Seq(Nat) /\ RuleLists \subseteq Seq(Rules)
    /\ MaxChanges \in Nat

VARIABLES
    follow, dry, rules, \* the job's settings, and whether it is a dry run
    present,   \* the entries that are there
    version,   \* what each file holds, and its size and times tell apart
    touched, changes, \* entries that came or went, changes so far
    pc, todo, now,    \* the walk: what is next, and what it is at
    emitted,   \* archive names it has yielded
    before, reading,  \* the version seen before adding, and while reading
    members,   \* the staged archive, or what a dry run logs
    result     \* "", "done" or "failed"

settings == <<follow, dry, rules>>
outside == <<present, version, touched, changes>>
staged == <<emitted, before, reading, members>>
vars == <<settings, outside, pc, todo, now, staged, result>>

Torn == -1

----------------------------------------------------------------------------
(* Which paths are excluded.                                                  *)

Roots == IF Chdir # <<>> THEN {Chdir} ELSE {Tops[i].path : i \in DOMAIN Tops}

Within(path) == {root \in Roots : IsPrefix(root, path)}
Ancestors(path) ==
    {SubSeq(path, 1, n) : n \in {n \in 0..(Len(path) - 1) : Within(SubSeq(path, 1, n)) # {}}}

Fits(pattern, names) ==
    Len(pattern) = Len(names) /\ \A i \in DOMAIN names : names[i] \in pattern[i]

Below(root, path) == SubSeq(path, Len(root) + 1, Len(path))
Relative(root, path) == IF path = root THEN <<Dot>> ELSE Below(root, path)
LastOf(n, path) == SubSeq(path, Len(path) - n + 1, Len(path))

RuleMatches(rule, path, isDir) ==
    LET n == Len(rule.pattern)
    IN  /\ rule.dirOnly => isDir
        /\ IF ~rule.anchored THEN n <= Len(path) /\ Fits(rule.pattern, LastOf(n, path))
           ELSE \E root \in Within(path) :
                   \/ Fits(rule.pattern, Relative(root, path))
                   \/ /\ rule.star /\ n = 1 /\ root # path
                      /\ Last(path) \in rule.pattern[1]

\* The last rule that matches the path or a directory above it decides.
RulesExclude(path, isDir) ==
    LET hits == {i \in DOMAIN rules :
                    \/ RuleMatches(rules[i], path, isDir)
                    \/ \E above \in Ancestors(path) : RuleMatches(rules[i], above, TRUE)}
    IN  hits # {} /\ ~rules[CHOOSE i \in hits : \A j \in hits : j <= i].negated

HasNegations == \E i \in DOMAIN rules : rules[i].negated

\* The real node of a path, with links followed.
Resolved(n) == IF KindOf[n] = "link" THEN Target[n] ELSE n

HardExcluded(path, node) ==
    \/ Above[Resolved(node)] \cap Hidden # {} \/ node \in Hidden
    \/ \E p \in Ancestors(path) \cup {path} : p # <<>> /\ Last(p) \in HiddenNames

----------------------------------------------------------------------------
(* The walk: visit a path, yield it if it is selected, then go into it.       *)

Item(path, node, above) == [path |-> path, node |-> node, above |-> above]
Seen(n) == IF follow THEN Resolved(n) ELSE n

Arcname(path) == IF Chdir # <<>> /\ IsPrefix(Chdir, path) THEN Below(Chdir, path) ELSE path

Init ==
    /\ follow \in BOOLEAN /\ dry \in BOOLEAN
    /\ rules \in RuleLists
    /\ present \in {Entries \ gone : gone \in SUBSET {e \in Entries : KindOf[e.node] \in {"link", "special"}}}
    /\ version = [n \in Nodes |-> 0]
    /\ touched = {} /\ changes = 0
    /\ pc = "visit"
    /\ todo = [i \in DOMAIN Tops |-> Item(Tops[i].path, Tops[i].node, {})]
    /\ now = Item(<<>>, 0, {})
    /\ emitted = {} /\ before = 0 /\ reading = 0 /\ members = {}
    /\ result = ""

\* Roots are not among the entries, and stay.
There(item) ==
    \/ item.above = {}
    \/ \E e \in present : e.name = Last(item.path) /\ e.node = item.node

Fail ==
    /\ pc' = "end" /\ result' = "failed"
    /\ UNCHANGED <<settings, outside, todo, now, staged>>

Skip ==
    /\ pc = "visit" /\ todo # <<>> /\ HardExcluded(Head(todo).path, Head(todo).node)
    /\ todo' = Tail(todo)
    /\ UNCHANGED <<settings, outside, pc, now, staged, result>>

\* It is gone, or neither a file, a directory nor a link.
Reject ==
    /\ pc = "visit" /\ todo # <<>> /\ ~HardExcluded(Head(todo).path, Head(todo).node)
    /\ ~There(Head(todo)) \/ KindOf[Seen(Head(todo).node)] = "special"
    /\ Fail

Visit ==
    /\ pc = "visit" /\ todo # <<>>
    /\ LET item == Head(todo)
           isDir == IsDir(Seen(item.node))
       IN  /\ ~HardExcluded(item.path, item.node)
           /\ There(item) /\ KindOf[Seen(item.node)] # "special"
           /\ now' = item
           /\ IF ~RulesExclude(item.path, isDir) /\ Arcname(item.path) \notin emitted
              THEN pc' = "add" /\ emitted' = emitted \cup {Arcname(item.path)}
              ELSE pc' = "descend" /\ UNCHANGED emitted
    /\ todo' = Tail(todo)
    /\ UNCHANGED <<settings, outside, before, reading, members, result>>

\* Mutants of Pruned and Cycle: what may come back is not looked for; links
\* are followed wherever they lead.
PrunedAlways(item) == RulesExclude(item.path, TRUE)
CycleIgnored(item) == FALSE

\* A directory that is excluded is entered only if a rule may bring something
\* in it back; one that is already above itself is an error.
Pruned(item) == RulesExclude(item.path, TRUE) /\ ~HasNegations

\* By name.
Sorted(entries) ==
    CHOOSE s \in [1..Cardinality(entries) -> entries] :
        \A i, j \in 1..Cardinality(entries) : i < j => s[i].name < s[j].name

Child(item, e) ==
    Item(Append(item.path, e.name), e.node, item.above \cup {Seen(item.node)})

Children(item) ==
    LET inside == {e \in present : e.dir = Seen(item.node)}
    IN  [i \in 1..Cardinality(inside) |-> Child(item, Sorted(inside)[i])]

Cycle(item) == Seen(item.node) \in item.above

Descend ==
    /\ pc = "descend"
    /\ IF ~IsDir(Seen(now.node)) \/ Pruned(now)
       THEN pc' = "visit" /\ UNCHANGED <<todo, result>>
       ELSE IF Cycle(now) THEN pc' = "end" /\ result' = "failed" /\ UNCHANGED todo
       ELSE pc' = "visit" /\ todo' = Children(now) \o todo /\ UNCHANGED result
    /\ UNCHANGED <<settings, outside, now, staged>>

----------------------------------------------------------------------------
(* What the walk yields is added to the staged archive.                       *)

IsFile(item) == KindOf[Seen(item.node)] = "file"
Version(item) == version[Seen(item.node)]

Vanished == pc \in {"add", "open", "check"} /\ ~There(now) /\ Fail

\* A dry run only looks.
Before ==
    /\ pc = "add" /\ There(now) /\ before' = Version(now)
    /\ IF dry
       THEN /\ pc' = "descend"
            /\ members' = members \cup {[name |-> Arcname(now.path), content |-> Version(now)]}
       ELSE pc' = "open" /\ UNCHANGED members
    /\ UNCHANGED <<settings, outside, todo, now, emitted, reading, result>>

AddBegin ==
    /\ pc = "open" /\ There(now) /\ pc' = "read" /\ reading' = Version(now)
    /\ UNCHANGED <<settings, outside, todo, now, emitted, before, members, result>>

\* A file that changes while it is read is archived with parts of both.
AddEnd ==
    /\ pc = "read" /\ pc' = "check"
    /\ members' = members \cup {[name |-> Arcname(now.path),
          content |-> IF Version(now) = reading THEN reading ELSE Torn]}
    /\ UNCHANGED <<settings, outside, todo, now, emitted, before, reading, result>>

\* Mutant of Unchanged: the file is not looked at again.
UnchangedSurely == TRUE

Unchanged == IsFile(now) => Version(now) = before

After ==
    /\ pc = "check" /\ There(now)
    /\ IF Unchanged THEN pc' = "descend" /\ UNCHANGED result
       ELSE pc' = "end" /\ result' = "failed"
    /\ UNCHANGED <<settings, outside, todo, now, staged>>

\* Nothing selected is an error; an archive is verified and published
\* (HistoryLog has its lock and its name).
Close ==
    /\ pc = "visit" /\ todo = <<>> /\ pc' = "end"
    /\ result' = IF members = {} THEN "failed" ELSE "done"
    /\ UNCHANGED <<settings, outside, todo, now, staged>>

Backup ==
    \/ Skip \/ Reject \/ Visit \/ Descend \/ Vanished \/ Before
    \/ AddBegin \/ AddEnd \/ After \/ Close

\* Users write files, and make and remove them.
Outside ==
    /\ pc # "end" /\ changes < MaxChanges /\ changes' = changes + 1
    /\ \/ \E n \in Nodes : /\ KindOf[n] = "file"
                           /\ version' = [version EXCEPT ![n] = @ + 1]
                           /\ UNCHANGED <<present, touched>>
       \/ \E e \in Entries : /\ KindOf[e.node] = "file"
                             /\ present' = (present \ {e}) \cup ({e} \ present)
                             /\ touched' = touched \cup {e}
                             /\ UNCHANGED version
    /\ UNCHANGED <<settings, pc, todo, now, staged, result>>

Next == Backup \/ Outside

Spec == Init /\ [][Next]_vars

----------------------------------------------------------------------------
(* Properties.                                                                *)

Depth == Cardinality({n \in Nodes : IsDir(n)})

\* Where one comes through some entries from the template's paths, level by level,
\* without going into what is excluded by path.
Levels(entries) ==
    LET level[n \in 0..Depth] ==
          IF n = 0 THEN {[path |-> Tops[i].path, node |-> Tops[i].node] : i \in DOMAIN Tops}
          ELSE UNION {{[path |-> Append(x.path, e.name), node |-> e.node] :
                         e \in {e \in entries : e.dir = Seen(x.node)}} :
                      x \in {x \in level[n - 1] : ~HardExcluded(x.path, x.node)}}
    IN  level

\* As the documentation has it: everything not excluded is there, and nothing else.
Selected(entries) ==
    {x.path : x \in {x \in UNION {Levels(entries)[n] : n \in 0..Depth} :
        ~HardExcluded(x.path, x.node) /\ ~RulesExclude(x.path, IsDir(Seen(x.node)))}}

\* The template's paths lie in the configured chdir, if there is one.
TopsInside == \A i \in DOMAIN Tops : IsPrefix(Chdir, Tops[i].path)

\* SelectedIsArchived: an archive has every selected path that was there all
\* the time, and none that is not selected, wherever the walk cut directories
\* short, and a dry run says the same (FileBackup._walk, GitignoreMatcher).
SelectedIsArchived ==
    result = "done" =>
        LET names == {m.name : m \in members}
        IN  /\ {Arcname(p) : p \in Selected(present \ touched)} \subseteq names
            /\ names \subseteq {Arcname(p) : p \in Selected(present \cup touched)}

\* ArchivedWhole: an archive that is published has no file in a state the
\* file was not in, however files changed meanwhile (FileBackup.backup).
ArchivedWhole == result = "done" => \A m \in members : m.content # Torn

\* WalkStaysShallow: however links lead, no path the walk is going to visit
\* has gone through more directories than there are (FileBackup._walk).
WalkStaysShallow ==
    \A i \in DOMAIN todo : \E top \in DOMAIN Tops :
        /\ IsPrefix(Tops[top].path, todo[i].path)
        /\ Len(todo[i].path) - Len(Tops[top].path) <= Depth
=============================================================================
