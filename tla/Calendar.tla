------------------------------ MODULE Calendar ------------------------------
(* The Gregorian days bdbackup counts with: a day is its ordinal              *)
(* (date.toordinal), a month its index from January of year 0, a week the ordinal of its *)
(* Monday, and the ages of stages.Keep.                                       *)
EXTENDS Integers

Leap(y) == y % 4 = 0 /\ (y % 100 # 0 \/ y % 400 = 0)

NewYear(y) ==
    365 * (y - 1) + ((y - 1) \div 4) - ((y - 1) \div 100) + ((y - 1) \div 400) + 1

\* The first day of a month; 0 is January.
MonthStart(k) ==
    LET y == k \div 12
        m == (k % 12) + 1
        short == IF m <= 2 THEN 0 ELSE IF Leap(y) THEN 1 ELSE 2
    IN  NewYear(y) + ((367 * m - 362) \div 12) - short

MonthLength(k) == MonthStart(k + 1) - MonthStart(k)

Date(y, m, d) == MonthStart(12 * y + m - 1) + d - 1

\* date.min to date.max.
LastDate == 3652059
Days == 1..LastDate

\* A month of 1461 / 48 days is never four months off in that time.
MonthOf(n) ==
    LET guess == 12 + (((n - 1) * 48) \div 1461)
    IN  CHOOSE k \in (guess - 1)..(guess + 4) :
            MonthStart(k) <= n /\ n < MonthStart(k + 1)

YearOf(n) == MonthOf(n) \div 12

DayOfMonth(n) == n - MonthStart(MonthOf(n)) + 1

\* 0 is Monday.
Weekday(n) == (n + 6) % 7

WeekOf(n) == n - Weekday(n)

----------------------------------------------------------------------------
(* Keep.                                                                      *)

Keeps == [count : Nat \ {0}, unit : {"d", "w", "m", "y"}]

Earlier(a, b) == IF a < b THEN a ELSE b

\* Mutant of Floor: the day of the month is not clamped.
FloorUnclamped(keep, today) ==
    IF keep.unit = "d" THEN today - keep.count
    ELSE IF keep.unit = "w" THEN today - 7 * keep.count
    ELSE LET k == MonthOf(today)
                    - keep.count * (IF keep.unit = "y" THEN 12 ELSE 1)
         IN  MonthStart(k) + DayOfMonth(today) - 1

\* A unit is within an age while its day is after this one: months and years
\* go back to the same day of an earlier month, or to that month's last.
Floor(keep, today) ==
    IF keep.unit = "d" THEN today - keep.count
    ELSE IF keep.unit = "w" THEN today - 7 * keep.count
    ELSE LET k == MonthOf(today)
                    - keep.count * (IF keep.unit = "y" THEN 12 ELSE 1)
         IN  MonthStart(k) + Earlier(DayOfMonth(today), MonthLength(k)) - 1

Within(day, keep, today) == day > Floor(keep, today)

\* The shortest and the longest of each unit.
UnitDays == [d |-> <<1, 1>>, w |-> <<7, 7>>, m |-> <<28, 31>>, y |-> <<365, 366>>]

MinDays(keep) == keep.count * UnitDays[keep.unit][1]
MaxDays(keep) == keep.count * UnitDays[keep.unit][2]

\* Mutant of Longer: the shortest lengths are compared.
LongerNominally(next, keep) == MinDays(next) > MinDays(keep)

\* stages._stage: the next stage's age is longer on every calendar.
Longer(next, keep) == MinDays(next) > MaxDays(keep)
=============================================================================
