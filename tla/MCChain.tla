------------------------------ MODULE MCChain ------------------------------
(* A root of a few attempts, with and without a full from an old release.     *)
EXTENDS Chain, TLC

CONSTANTS b1, b2, b3, b4

FourIds == {b1, b2, b3, b4}
Alike == Permutations(FourIds \ {Legacy})
NoOrSomeKey == {0, 1}
NoKey == {0}
=============================================================================
