------------------------------ MODULE GFSPolicy ------------------------------
(* gfs/policy.py: which unit stays, moves, is held or is deleted, from the    *)
(* days of the units the run placed and nothing else.                         *)
EXTENDS Calendar, Sequences

CONSTANTS
    Units,     \* numbers, in the order of (day, id)
    SeriesOf,  \* the job that wrote each unit
    DayOf,     \* the day of each unit
    Stages     \* the configured stages: period and keep

Periods == <<"daily", "weekly", "monthly", "yearly">>

Rank(period) == CHOOSE i \in 1..4 : Periods[i] = period

ASSUME UnitsInDayOrder ==
    /\ Units \subseteq Nat
    /\ DayOf \in [Units -> Days]
    /\ \A u, v \in Units : u < v => DayOf[u] <= DayOf[v]

\* stages._stage: what the loader accepts.
ASSUME StagesAreOrdered ==
    /\ Stages \in Seq([period : {Periods[i] : i \in 1..4}, keep : Keeps])
    /\ Len(Stages) > 0 /\ Stages[1].period = "daily"
    /\ \A i \in 2..Len(Stages) :
          /\ Rank(Stages[i].period) >= Rank(Stages[i - 1].period)
          /\ Longer(Stages[i].keep, Stages[i - 1].keep)

WeekDone(day, today) == WeekOf(day) + 6 < today

\* A month, or a year, also waits for the week that holds its last day.
MonthDone(k, today) == WeekDone(MonthStart(k + 1) - 1, today)

YearDone(y, today) == WeekDone(NewYear(y + 1) - 1, today)

Week == [u \in Units |-> WeekOf(DayOf[u])]
Month == [u \in Units |-> MonthOf(DayOf[u])]
Year == [u \in Units |-> YearOf(DayOf[u])]

\* Mutant of NewestBy: jobs compete for one slot.
NewestByAnyJob(units, bucket) ==
    {u \in units : \A v \in units : u < v => bucket[v] # bucket[u]}

\* The newest of every group of units that share a series and a bucket.
NewestBy(units, bucket) ==
    {u \in units : \A v \in units :
        u < v => SeriesOf[v] # SeriesOf[u] \/ bucket[v] # bucket[u]}

\* policy._eligibility: the newest of each week, of those the newest of each
\* month, of those the newest of each year, where the bucket is complete.
Weekly(units, today) ==
    {u \in NewestBy(units, Week) : WeekDone(DayOf[u], today)}
Monthly(units, today) ==
    {u \in NewestBy(Weekly(units, today), Month) : MonthDone(Month[u], today)}
Yearly(units, today) ==
    {u \in NewestBy(Monthly(units, today), Year) : YearDone(Year[u], today)}

Eligible(units, today) ==
    [daily |-> units, weekly |-> Weekly(units, today),
     monthly |-> Monthly(units, today), yearly |-> Yearly(units, today)]

\* Mutant of Complete: months and years are not waited for.
CompleteWeek(day, period, today) == Rank(period) >= 2 => WeekDone(day, today)

Complete(day, period, today) ==
    /\ Rank(period) >= 2 => WeekDone(day, today)
    /\ Rank(period) >= 3 => MonthDone(MonthOf(day), today)
    /\ Rank(period) = 4 => YearDone(YearOf(day), today)

\* The first stage whose age a day is still within; one past the last stage
\* if there is none.
Target(day, today) ==
    CHOOSE i \in 1..(Len(Stages) + 1) :
        /\ i <= Len(Stages) => Within(day, Stages[i].keep, today)
        /\ \A j \in 1..(i - 1) : ~Within(day, Stages[j].keep, today)

Targets(units, today) == [u \in units |-> Target(DayOf[u], today)]

\* "newest of series": it stays, whatever its age.
Older(units) ==
    {u \in units : \E v \in units : SeriesOf[v] = SeriesOf[u] /\ u < v}

\* Units past every age; units with a complete bucket that chose another.
Expired(units, today) ==
    {u \in Older(units) : Target(DayOf[u], today) > Len(Stages)}

Passed(units, today) ==
    LET chosen == Eligible(units, today)
        target == Targets(units, today)
    IN  {u \in Older(units) \ Expired(units, today) :
            /\ Complete(DayOf[u], Stages[target[u]].period, today)
            /\ u \notin chosen[Stages[target[u]].period]}

\* Mutant of Deleted: what a bucket passed over stays.
DeletedExpired(units, today) == Expired(units, today)

Deleted(units, today) == Expired(units, today) \cup Passed(units, today)

\* Mutant of Moved: a unit in place is moved too.
MovedInPlace(units, stage, today) ==
    {u \in Older(units) \ Deleted(units, today) :
        /\ Target(DayOf[u], today) >= stage[u]
        /\ Complete(DayOf[u], Stages[Target(DayOf[u], today)].period, today)}

\* Mutant of Moved: a bucket is not waited for.
MovedEarly(units, stage, today) ==
    {u \in Older(units) \ Deleted(units, today) :
        Target(DayOf[u], today) > stage[u]}

\* Units to move.  In a later stage than its target, or with its bucket not
\* complete, a unit stays.
Moved(units, stage, today) ==
    {u \in Older(units) \ Deleted(units, today) :
        /\ Target(DayOf[u], today) > stage[u]
        /\ Complete(DayOf[u], Stages[Target(DayOf[u], today)].period, today)}
=============================================================================
