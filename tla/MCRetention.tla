---------------------------- MODULE MCRetention ----------------------------
(* Instances of Retention and of the ages of Calendar for TLC.                *)
EXTENDS Retention, TLC

Age(count, unit) == [count |-> count, unit |-> unit]
StageOf(period, keep) == [period |-> period, keep |-> keep]

FourStages == <<StageOf("daily", Age(2, "d")), StageOf("weekly", Age(2, "w")),
                StageOf("monthly", Age(2, "m")), StageOf("yearly", Age(1, "y"))>>

\* Weeks that span a month (28 September to 4 October) and a year (28
\* December to 3 January), two series.
BackupDays ==
    <<Date(2026, 9, 26), Date(2026, 9, 29), Date(2026, 10, 3),
      Date(2026, 10, 4), Date(2026, 10, 12), Date(2026, 12, 29),
      Date(2027, 1, 2)>>
SevenUnits == 1..7
DaysOfSeven == [u \in SevenUnits |-> BackupDays[u]]
TwoJobs == [u \in SevenUnits |-> IF u = 4 THEN "tar" ELSE "db"]

RunDays == {BackupDays[u] : u \in 1..7}
    \cup {Date(2026, 11, 1), Date(2026, 10, 5), Date(2026, 10, 20),
          Date(2026, 11, 2), Date(2026, 11, 10), Date(2026, 12, 1),
          Date(2027, 1, 4), Date(2027, 1, 11), Date(2027, 3, 20),
          Date(2027, 10, 5), Date(2028, 1, 3), Date(2028, 1, 11)}
=============================================================================
