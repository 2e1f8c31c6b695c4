------------------------------- MODULE MCAges -------------------------------
(* Ages around the lengths of months and years, over a leap day.              *)
EXTENDS Ages, TLC

Around(counts, unit) == {[count |-> n, unit |-> unit] : n \in counts}

SomeAges ==
    Around({1, 28, 29, 30, 31, 32, 365, 366, 367}, "d")
    \cup Around({1, 4, 5, 52, 53}, "w")
    \cup Around({1, 2, 3, 11, 12, 13, 24}, "m") \cup Around({1, 2}, "y")

Start == Date(2027, 12, 25)
End == Date(2029, 4, 5)
=============================================================================
