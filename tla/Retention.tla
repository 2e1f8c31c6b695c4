------------------------------ MODULE Retention ------------------------------
(* Years of a gfs job: backups are taken on some days, the job runs on some   *)
(* days, and every run decides from the units that earlier runs left.  A run  *)
(* is one step here (GFSRun has its steps); the units it did not place, and   *)
(* those it placed but refused, deferred or failed on, are left to it.        *)
EXTENDS GFSPolicy

CONSTANTS
    Clock,    \* bound: the days on which something may happen
    MaxTries  \* bound: runs that leave a unit out

ASSUME ClockCoversUnits ==
    /\ Clock \subseteq Days /\ \A u \in Units : DayOf[u] \in Clock
    /\ MaxTries \in Nat

VARIABLES
    today,
    made,    \* units whose backup was recorded
    stage,   \* the stage of each unit: 0 before its backup and once deleted
    picked,  \* units that entered a stage that chooses, as its choice
    ran,     \* the last step was a run that left nothing out
    tries    \* runs so far that left a unit out

rvars == <<today, made, stage, picked, ran, tries>>

Live == {u \in Units : stage[u] # 0}

Init ==
    /\ today \in Clock /\ \A d \in Clock : today <= d
    /\ made = {} /\ stage = [u \in Units |-> 0] /\ picked = {}
    /\ ran = FALSE /\ tries = 0

NextDay ==
    /\ today' \in Clock /\ today < today'
    /\ \A d \in Clock : today < d => today' <= d
    /\ ran' = FALSE
    /\ UNCHANGED <<made, stage, picked, tries>>

\* A unit is dated by the completion of its first member (store._unit).
BackUp(u) ==
    /\ DayOf[u] = today /\ u \notin made /\ \A v \in made : v < u
    /\ made' = made \cup {u}
    /\ stage' = [stage EXCEPT ![u] = 1]
    /\ ran' = FALSE
    /\ UNCHANGED <<today, picked, tries>>

\* policy.decide over the placed units, and what the run then did.
RunPass(placed, undone) ==
    \E deleted \in {Deleted(placed, today) \ undone},
       moved \in {Moved(placed, stage, today) \ undone} :
        /\ stage' = [u \in Units |->
                       IF u \in deleted THEN 0
                       ELSE IF u \in moved THEN Target(DayOf[u], today)
                       ELSE stage[u]]
        /\ picked' = picked \cup
              {u \in moved : Stages[Target(DayOf[u], today)].period # "daily"}
        /\ UNCHANGED <<today, made>>

CleanRun ==
    /\ RunPass(Live, {})
    /\ ran' = TRUE
    /\ UNCHANGED tries

PartialRun ==
    /\ tries < MaxTries /\ tries' = tries + 1
    /\ \E left \in Live : RunPass(Live \ {left}, {}) \/ RunPass(Live, {left})
    /\ ran' = FALSE

Next == NextDay \/ CleanRun \/ PartialRun \/ \E u \in Units : BackUp(u)

Spec == Init /\ [][Next]_rvars

----------------------------------------------------------------------------
(* Properties.                                                                *)

\* Due: what the documentation promises to keep, from everything ever backed
\* up: within a daily age all; within the age of a stage with a period, the
\* newest unit of its complete bucket.
Due ==
    LET chosen == Eligible(made, today)
    IN  {u \in made : /\ Target(DayOf[u], today) <= Len(Stages)
                      /\ u \in chosen[Stages[Target(DayOf[u], today)].period]}

\* ChosenSurvive: while runs leave nothing out, what is due by the whole
\* history is there, though every run saw only what earlier runs left
\* (policy._eligibility).
ChosenSurvive == tries = 0 => Due \subseteq Live

\* OnlyChosenKept: after a run that left nothing out, a unit whose bucket is
\* complete is there only if it is due or the newest of its series.
OnlyChosenKept ==
    ran /\ tries = 0 => \A u \in Live \ Due :
        \/ u \notin Older(made)
        \/ /\ Target(DayOf[u], today) <= Len(Stages)
           /\ ~Complete(DayOf[u], Stages[Target(DayOf[u], today)].period, today)

\* SecondRunIdle: a run on the same day finds nothing to do, whatever earlier
\* runs left out (policy.decide from survivors alone).
SecondRunIdle ==
    ran => Deleted(Live, today) = {} /\ Moved(Live, stage, today) = {}

\* WeekKeepsOne: whatever was left out before, a run that takes a unit because
\* a weekly stage chose another leaves that other, or a newer one of the week.
WeekKeepsOne ==
    [][stage' # stage =>
         \A u \in Live :
            /\ stage'[u] = 0 /\ Target(DayOf[u], today) <= Len(Stages)
            /\ Stages[Target(DayOf[u], today)].period = "weekly"
            => \E v \in Live : /\ SeriesOf[v] = SeriesOf[u] /\ u < v
                               /\ WeekOf(DayOf[v]) = WeekOf(DayOf[u])
                               /\ stage'[v] # 0]_rvars

\* ChoiceNeverChanges: while runs leave nothing out, a unit picked for a stage
\* is not taken out of it for another one within the stage's age (README_GFS.md:
\* "a choice never changes later"; policy._eligibility decides ended buckets).
ChoiceNeverChanges ==
    [][tries' = 0 => \A u \in picked :
         stage[u] = Target(DayOf[u], today) => stage'[u] # 0]_rvars
=============================================================================
