--------------------------- MODULE MCFabSimulation ---------------------------
(***************************************************************************)
(* FabSimulation for TLC: runs of the same job are interchangeable.        *)
(***************************************************************************)
EXTENDS FabSimulation, TLC

RunsAlike == Permutations(Jobs) \cup Permutations(Projectors)

\* A run of the projection or of the snapshot writer has been there.
TablesUsed ==
  \/ \E p \in Projectors : projector[p].pc # "idle"
  \/ \E i \in Ends : shots[i] # NoShot
  \/ \E d \in Days : marker[d] >= 0

\* Bound: beside the jobs that write the asked tables two runs of the simulator,
\* one after the other, for the first two days and with the shortest incidents;
\* all runs, however they overlap, without them.
TwoBesideTables ==
  TablesUsed =>
    /\ runs # "overlapped"
    /\ Cardinality({j \in Jobs : job[j].pc # "waiting"}) <= 2
    /\ \A j \in Jobs : job[j].at <= 2 * DayLength
    /\ \A r \in raw : r.at <= 2 * DayLength
    /\ \A p \in Projectors : projector[p].day <= 1
    /\ \A id \in IncidentIds : incidents[id].ends <= id[2] + 1

=============================================================================
