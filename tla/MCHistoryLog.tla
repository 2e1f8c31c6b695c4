---------------------------- MODULE MCHistoryLog ----------------------------
(* A file job with one name, or with stamped names.                           *)
EXTENDS HistoryLog, TLC

CONSTANTS a1, a2, a3, n1, n2, c1, c2, r1

ThreeAttempts == {a1, a2, a3}
\* Attempts and clerks that begin alike.
Alike == Permutations({a2, a3} \ Old) \cup Permutations(Clerks)
=============================================================================
