--------------------------- MODULE MCDestinations ---------------------------
(* Instances of Destinations for TLC.                                         *)
EXTENDS Destinations, TLC

CONSTANTS gfs, engine, reader, b1

BeforeFive ==
    {Left(s, {}, Unjudged) : s \in {Absent, 0, 2, 3, Last + 1}}
    \cup {Left(Recorded, Records, Unjudged)}

\* Bound: the ledger is opened by several processes until the run's first row
\* is in it; the paths and the rest of the run are looked at while no other
\* process has it open, on a ledger that records no units yet.
Alone ==
    /\ \A w \in Writers \ {Gfs} : phase[w] = "closed"
    /\ \A r \in Readers : asking[r] = "closed"
    /\ file.units = {}
Opening == Len(rows) <= 1 /\ pc \in {"idle", "opening", "acting"} /\ changes = 0
OneAfterTheOther ==
    /\ Alone \/ (UNCHANGED <<pathVars, changes>> /\ (pc = "acting" => pc' = pc))
    /\ Alone' \/ Opening
=============================================================================
