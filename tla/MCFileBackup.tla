---------------------------- MODULE MCFileBackup ----------------------------
(* A home directory for the file engine: two directories, one of them         *)
(* excluded by path, files of one name in both, links up and across, a pipe.  *)
EXTENDS FileBackup

CONSTANTS home, sub, cache, f, g, h, log, up, side, pipe

Kind ==
    (home :> "dir") @@ (sub :> "dir") @@ (cache :> "dir")
    @@ (f :> "file") @@ (g :> "file") @@ (h :> "file")
    @@ (log :> "file") @@ (up :> "link") @@ (side :> "link") @@ (pipe :> "special")
LeadsTo == (up :> home) @@ (side :> sub)

Entry(dir, name, node) == [dir |-> dir, name |-> name, node |-> node]
Tree ==
    {Entry(home, 1, sub), Entry(home, 2, f), Entry(home, 3, side), Entry(home, 4, cache),
     Entry(sub, 2, g), Entry(sub, 3, up), Entry(sub, 5, pipe), Entry(sub, 6, log),
     Entry(cache, 2, h)}
LiesIn ==
    (home :> {home}) @@ (sub :> {home, sub}) @@ (cache :> {home, cache})
    @@ (f :> {home}) @@ (side :> {home}) @@ (g :> {home, sub}) @@ (up :> {home, sub})
    @@ (pipe :> {home, sub}) @@ (log :> {home, sub}) @@ (h :> {home, cache})

\* The second path of the template lies in the first.
HomeAndSub == <<[path |-> <<9>>, node |-> home], [path |-> <<9, 1>>, node |-> sub]>>

Rule(negated, dirOnly, anchored, pattern) ==
    [negated |-> negated, dirOnly |-> dirOnly, anchored |-> anchored,
     star |-> FALSE, pattern |-> pattern]
NoSub == Rule(FALSE, TRUE, FALSE, <<{1}>>)
NoTwo == Rule(FALSE, FALSE, FALSE, <<{2}>>)
ButTwo == Rule(TRUE, FALSE, FALSE, <<{2}>>)
ButSubTwo == Rule(TRUE, FALSE, FALSE, <<{1}, {2, 3}>>)
NoTopTwo == Rule(FALSE, FALSE, TRUE, <<{2}>>)
NoTwoBelow == [NoTopTwo EXCEPT !.star = TRUE]
NoTopDotted == Rule(FALSE, FALSE, TRUE, <<{Dot, 5}>>)
NoLinksOrPipes == Rule(FALSE, FALSE, FALSE, <<{1, 3}, {3, 5}>>)

None == <<>>

SomeRules ==
    {<<>>, <<NoSub>>, <<NoSub, ButTwo>>, <<NoTwo, ButSubTwo>>, <<ButTwo, NoSub>>,
     <<NoTopTwo>>, <<NoTopDotted, ButTwo>>, <<NoTwoBelow, ButSubTwo>>, <<NoLinksOrPipes, NoTopTwo>>}

ASSUME MCFileBackupAssumption == TopsInside
=============================================================================
