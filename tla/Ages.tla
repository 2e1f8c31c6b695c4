-------------------------------- MODULE Ages --------------------------------
(* The ages a configuration may state, day after day: what stages._stage      *)
(* checks once when it reads the configuration has to hold on every day.      *)
EXTENDS Calendar

CONSTANTS
    Configured,       \* the ages looked at
    FirstDay, LastDay \* bound: the days looked at

ASSUME AgesAreKeeps ==
    /\ Configured \subseteq Keeps
    /\ FirstDay \in Days /\ LastDay \in Days

VARIABLE day

First == day = FirstDay

Pass == day < LastDay /\ day' = day + 1

AgesSpec == First /\ [][Pass]_day

\* LongerIsFurther: an age the loader accepts after another reaches further
\* back on every day, so the first stage a unit fits only moves forward
\* (stages._stage, policy.decide).
LongerIsFurther ==
    \A keep, next \in Configured :
        Longer(next, keep) => Floor(next, day) < Floor(keep, day)

\* NoReturn: a unit that grew out of an age never fits it again, though months
\* and years are clamped to the length of their month (Keep.floor).
NoReturn ==
    [][\A keep \in Configured : Floor(keep, day) <= Floor(keep, day')]_day
=============================================================================
