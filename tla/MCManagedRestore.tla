-------------------------- MODULE MCManagedRestore --------------------------
(* A restore while another backup is written and runs move units to a stage of *)
(* two paths: of the first of two backups, or of an incremental that continues *)
(* what the first began while a third may begin a new directory.               *)
EXTENDS ManagedRestore, TLC

CONSTANTS b1, b2, b3, db, top, mid, mirror

OneSeries == {db}
TwoUnits == {1, 2}
AllDb == [u \in TwoUnits |-> db]
TwoPathStage == {top, mid, mirror}
TwoPathStageOf == (top :> 0) @@ (mid :> 1) @@ (mirror :> 1)

TwoBackups == {b1, b2}
TwoByDb == [b \in TwoBackups |-> db]
FirstRecorded == (b1 :> 1) @@ (b2 :> 0)

\* Nothing recorded yet: the full may be killed, or be first seen while the
\* first stage is away.
ThreeBackups == {b1, b2, b3}
ThreeByDb == [b \in ThreeBackups |-> db]
NoneRecorded == [b \in ThreeBackups |-> 0]
=============================================================================
