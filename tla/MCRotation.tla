----------------------------- MODULE MCRotation -----------------------------
(* Instances of Rotation for TLC.                                             *)
EXTENDS RotationInv, TLC

CONSTANTS b1, b2, b3, b4, db, tar, top, mid, mirror, low

OneSeries == {db}
TwoUnits == {1, 2}
ThreeUnits == {1, 2, 3}
AllDb == [u \in {1, 2, 3} |-> db]
DbUnits == [u \in {1, 2} |-> db]

\* Two recorded directories, a later stage with two paths.
TwoBackups == {b1, b2}
TwoByDb == [b \in {b1, b2} |-> db]
BothRecorded == (b1 :> 1) @@ (b2 :> 2)
TwoPathStage == {top, mid, mirror}
TwoPathStageOf == (top :> 0) @@ (mid :> 1) @@ (mirror :> 1)

\* Two recorded directories, two more attempts of the same job.
FourBackups == {b1, b2, b3, b4}
FourByDb == [b \in FourBackups |-> db]
HalfRecorded == (b1 :> 1) @@ (b2 :> 2) @@ (b3 :> 0) @@ (b4 :> 0)
\* The attempts that begin alike.
Late == Permutations({b3, b4})
TwoStages == {top, mid}
TwoStagesOf == (top :> 0) @@ (mid :> 1)

\* Archives of one job and directories of another, three stages.
BothSeries == {db, tar}
ThreeBackups == {b1, b2, b3}
MixedUnits == (1 :> db) @@ (2 :> tar) @@ (3 :> db)
MixedBy == (b1 :> db) @@ (b2 :> tar) @@ (b3 :> db)
DbRecorded == (b1 :> 1) @@ (b2 :> 0) @@ (b3 :> 3)
ThreeStages == {top, mid, low}
ThreeStagesOf == (top :> 0) @@ (mid :> 1) @@ (low :> 2)
=============================================================================
