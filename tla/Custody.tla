------------------------------- MODULE Custody -------------------------------
(* What the rotation promises, whatever it takes: a backup GFS manages stays   *)
(* restorable until its own unit is deleted, the outside damages it or the     *)
(* operator edits it away; a unit enters the first stage, moves to later      *)
(* stages only, and goes only behind a newer one.  None of the copies, locks  *)
(* and transactions that achieve it are visible here.                         *)
EXTENDS Integers

CONSTANTS Units, SeriesOf, Backups, Stages

VARIABLES
    home,       \* the unit each backup lies in, 0 for none yet
    managed,    \* backups GFS has taken charge of
    safe,       \* those of them that can be restored
    stage,      \* where each unit is
    condemned,  \* the unit being deleted, if any
    damages, edits  \* what the outside and the operator have done

custodyVars == <<home, managed, safe, stage, condemned, damages, edits>>

Outside == -1   \* not taken up yet
Nowhere == -2   \* the operator dropped its last location
Deleted == -3

Of(u) == {b \in managed : home[b] = u}

Init ==
    /\ home \in [Backups -> Units \cup {0}]
    /\ managed = {} /\ safe = {}
    /\ stage = [u \in Units |-> Outside]
    /\ condemned = {} /\ damages = 0 /\ edits = 0

\* A newer backup of the job is in custody.
Superseded(u) ==
    \E v \in Units : /\ SeriesOf[v] = SeriesOf[u] /\ u < v
                     /\ Of(v) # {} /\ stage[v] # Deleted

\* Engines place backups GFS knows nothing of yet.
Engine ==
    /\ home' \in [Backups -> Units \cup {0}]
    /\ \A b \in managed : home'[b] = home[b]
    /\ UNCHANGED <<managed, safe, stage, condemned, damages, edits>>

\* A run takes charge of backups, for good.
Adopt ==
    /\ managed \subseteq managed' /\ managed' \subseteq Backups
    /\ safe \subseteq safe' /\ safe' \subseteq safe \cup (managed' \ managed)
    /\ UNCHANGED <<home, stage, condemned, damages, edits>>

Enter(u) ==
    /\ stage[u] = Outside /\ Of(u) # {}
    /\ stage' = [stage EXCEPT ![u] = 0]
    /\ UNCHANGED <<home, managed, safe, condemned, damages, edits>>

Advance(u, i) ==
    /\ stage[u] \in Stages /\ stage[u] < i /\ Superseded(u)
    /\ stage' = [stage EXCEPT ![u] = i]
    /\ UNCHANGED <<home, managed, safe, condemned, damages, edits>>

Condemn(u) ==
    /\ condemned = {} /\ condemned' = {u} /\ Superseded(u)
    /\ stage[u] \in Stages \cup {Outside} /\ Of(u) \subseteq safe
    /\ stage' = [stage EXCEPT ![u] = IF @ = Outside THEN 0 ELSE @]
    /\ UNCHANGED <<home, managed, safe, damages, edits>>

\* Its copies go, as far as the run gets.
Discard(u) ==
    /\ condemned = {u} /\ condemned' \subseteq {u}
    /\ safe' \subseteq safe /\ safe \ safe' \subseteq Of(u)
    /\ UNCHANGED <<home, managed, stage, damages, edits>>

Delete(u) ==
    /\ condemned = {u} /\ condemned' = {}
    /\ safe \cap Of(u) = {}
    /\ stage' = [stage EXCEPT ![u] = Deleted]
    /\ UNCHANGED <<home, managed, safe, damages, edits>>

Damage ==
    /\ damages' = damages + 1 /\ safe' \subseteq safe
    /\ UNCHANGED <<home, managed, stage, condemned, edits>>

\* The operator changes one unit's locations; a copy listed again counts again.
Edit(u) ==
    /\ edits' = edits + 1 /\ condemned = {}
    /\ \E i \in Stages \cup {Outside, Nowhere, Deleted} :
          /\ i # stage[u] => stage[u] \in Stages \cup {Nowhere}
          /\ i = Deleted => safe \cap Of(u) = {}
          /\ stage' = [stage EXCEPT ![u] = i]
    /\ safe' \subseteq managed /\ safe' \ Of(u) = safe \ Of(u)
    /\ UNCHANGED <<home, managed, condemned, damages>>

Next ==
    \/ Engine \/ Adopt \/ Damage
    \/ \E u \in Units :
          \/ Enter(u) \/ Condemn(u) \/ Discard(u) \/ Delete(u) \/ Edit(u)
          \/ \E i \in Stages : Advance(u, i)

Spec == Init /\ [][Next]_custodyVars
=============================================================================
