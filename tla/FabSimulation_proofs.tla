------------------------ MODULE FabSimulation_proofs ------------------------
(***************************************************************************)
(* Proofs about FabSimulation for any number of runs, intervals, incident  *)
(* types and any length of a day: one open incident, its lifecycle, the    *)
(* two tables the projection and the snapshot writer share, and the ledger *)
(* of runs in order.                                                       *)
(***************************************************************************)
EXTENDS FabSimulation, FiniteSetTheorems, TLAPS

-----------------------------------------------------------------------------
(* The days. *)

\* What it means for interval i to belong to day DayOf(i).
LEMMA DayBounds ==
  ASSUME NEW i \in Ends
  PROVE  /\ DayOf(i) \in Nat
         /\ DayOf(i) * DayLength < i
         /\ i <= (DayOf(i) + 1) * DayLength
<1> DEFINE q == (i - 1) \div DayLength
<1>1. i \in Nat /\ i >= 1 /\ DayLength \in Nat /\ DayLength >= 1
  BY TimeAssumption DEF Ends
<1>2. q \in Nat /\ q * DayLength <= i - 1 /\ i - 1 < (q + 1) * DayLength
  BY <1>1
<1> QED
  BY <1>1, <1>2 DEF DayOf

LEMMA DaysApart ==
  ASSUME NEW d \in Nat, NEW e \in Nat, d < e
  PROVE  (d + 1) * DayLength <= e * DayLength
BY TimeAssumption

-----------------------------------------------------------------------------
(* The inductive invariant.  A run writes from what it read: the properties*)
(* need to know what a run that is under way may rely on, and how the rows *)
(* that a projection's DELETEs have met are related to those of the tables *)
(* while other jobs commit.                                                *)

ReadsOK ==
  \A j \in Jobs :
    /\ UnderWay(j) => job[j].at \in Ends
    /\ job[j].pc = "read" =>
         \/ job[j].prior = NoChange
         \/ job[j].prior.id \in IncidentIds /\ job[j].prior.row \in Incident

RowsOfOneDay == \A p \in Projectors : \A r \in projector[p].rows : DayOf(r.at) = projector[p].day

FiniteTables == IsFiniteSet(raw) /\ \A p \in Projectors : IsFiniteSet(projector[p].rows)

HasCleared(p) == projector[p].pc = "cleared"

\* What a projection is to delete is still there, and of the range it clears.
OwnRange ==
  \A p \in Projectors : Deleting(p) =>
    /\ \A i \in projector[p].shots : Cleared(projector[p].day, i) /\ shots[i] # NoShot
    /\ HasCleared(p) =>
         /\ projector[p].events \subseteq projected
         /\ \A r \in projector[p].events : Cleared(projector[p].day, r.at)

\* Projections that are deleting at the same time have met, and each of them
\* that is past its first DELETE has snapshots of its own.
MetApart ==
  \A p, q \in Projectors : p # q =>
    /\ Deleting(p) /\ Deleting(q) => {projector[p].day, projector[q].day} \in met
    /\ HasCleared(p) /\ HasCleared(q) => projector[p].shots \cap projector[q].shots = {}

\* Deleted with a snapshot: all its rows; with a row: those of its interval.
RowsWithShots ==
  \A p \in Projectors : HasCleared(p) =>
    /\ \A r \in projected : r.at \in projector[p].shots => r \in projector[p].events
    /\ \A i \in detailed : i \in projector[p].shots => i \in projector[p].details
    /\ \A r, s \in projected : r.at = s.at /\ r \in projector[p].events => s \in projector[p].events

\* Nothing the run clears came up behind it, but where it met another one.
NothingNew ==
  \A p \in Projectors :
    /\ \A i \in Ends :
         Deleting(p) /\ Cleared(projector[p].day, i) /\ shots[i] \in Projections /\ ~Crossed(i) =>
           i \in projector[p].shots
    /\ HasCleared(p) /\ {projector[p].day} \notin met =>
         \A r \in projected : DayOf(r.at) = projector[p].day => r \in projector[p].events

DeletesOK == OwnRange /\ MetApart /\ RowsWithShots /\ NothingNew

\* A run that no other has overlapped has read what still is.
AloneReads ==
  runs # "overlapped" =>
    \A j \in Jobs : UnderWay(j) =>
      /\ \A k \in Jobs : UnderWay(k) => k = j
      /\ job[j].state = state
      /\ job[j].pc = "read" => job[j].prior \in Priors

\* In order, every incident started before the last interval, and one that is
\* recovering was expected to be over before it.
OrderKept ==
  runs = "in_order" =>
    /\ \A j \in Jobs : UnderWay(j) => job[j].at > state.last
    /\ \A id \in IncidentIds :
         /\ incidents[id].status # "absent" => StartOf(id) <= state.last
         /\ incidents[id].status = "recovering" => incidents[id].ends <= state.last - 1

IInv ==
  /\ TypeOK /\ FiniteTables /\ ReadsOK /\ RowsOfOneDay /\ AloneReads /\ StateNamesOpen /\ OrderKept
  /\ DeletesOK /\ EventsExplained /\ ProjectionKept

-----------------------------------------------------------------------------
(* Operators. *)

LEMMA NoneIsNoIncident == NoIncident \notin IncidentIds
BY TypesAssumption DEF NoIncident, IncidentIds

LEMMA OverRecord ==
  /\ Over = [pc |-> "over", at |-> 0, state |-> DefaultState, prior |-> NoChange]
  /\ Over.pc = "over"
BY DEF Over, Idle

LEMMA NothingHeld ==
  NotProjecting.pc = "idle" /\ NotProjecting.rows = {} /\ IsFiniteSet(NotProjecting.rows)
BY FS_EmptySet DEF NotProjecting

\* The record of a projection.
LEMMA ProjectionFields ==
  ASSUME NEW run \in Projection
  PROVE  /\ run.pc \in {"idle", "loaded", "clearing", "cleared"} /\ run.day \in Days /\ run.rows \subseteq RawRow
         /\ run.shots \subseteq Ends /\ run.events \subseteq RawRow /\ run.details \subseteq LiveEnds
BY DEF Projection

LEMMA ProjectionTurned ==
  ASSUME NEW run \in Projection, NEW pc \in {"idle", "loaded", "clearing", "cleared"},
         NEW new_shots \in SUBSET Ends, NEW events \in SUBSET RawRow, NEW details \in SUBSET LiveEnds
  PROVE  /\ [run EXCEPT !.pc = pc, !.shots = new_shots] \in Projection
         /\ [run EXCEPT !.pc = pc, !.events = events, !.details = details] \in Projection
         /\ [run EXCEPT !.shots = new_shots, !.events = events, !.details = details] \in Projection
BY DEF Projection

\* What a run may have read as the open incident.
LEMMA PriorsType ==
  ASSUME TypeOK, NEW inc \in Priors
  PROVE  \/ inc = NoChange /\ OpenIn(incidents) = {}
         \/ /\ inc.id \in OpenIn(incidents) /\ inc.id \in IncidentIds /\ inc.row \in Incident
            /\ inc = [id |-> inc.id, row |-> incidents[inc.id]]
<1>1. CASE OpenIn(incidents) = {}
  BY <1>1 DEF Priors
<1>2. CASE OpenIn(incidents) # {}
  <2>1. PICK id \in OpenIn(incidents) : inc = [id |-> id, row |-> incidents[id]]
    BY <1>2 DEF Priors
  <2>2. id \in IncidentIds /\ incidents[id] \in Incident
    BY DEF OpenIn, TypeOK, Absent
  <2> QED
    BY <2>1, <2>2
<1> QED
  BY <1>1, <1>2

\* What the run of an interval may do to an incident.
LEMMA ResolvedType ==
  ASSUME NEW i \in Ends, NEW prior \in [id : IncidentIds \cup {NoIncident}, row : Incident \cup {Absent}],
         prior = NoChange \/ (prior.id \in IncidentIds /\ prior.row \in Incident),
         NEW inc \in Resolved(i, prior)
  PROVE  /\ inc.id \in IncidentIds \cup {NoIncident}
         /\ inc.id # NoIncident => inc.id \in IncidentIds /\ inc.row \in Incident
         /\ Driving(inc) \in IncidentIds \cup {NoIncident}
<1>1. CASE prior = NoChange
  <2>1. CASE inc = NoChange
    BY <2>1 DEF NoChange, Driving
  <2>2. CASE inc # NoChange
    <3>1. PICK type \in Types, d \in Durations :
             inc = [id |-> <<type, i>>, row |-> [status |-> "active", ends |-> i + d]]
      BY <1>1, <2>2 DEF Resolved, Started
    <3>2. i + d \in Nat /\ <<type, i>> \in IncidentIds
      BY TimeAssumption DEF IncidentIds, Ends
    <3> QED
      BY <3>1, <3>2 DEF Incident, Driving
  <2> QED
    BY <2>1, <2>2
<1>2. CASE prior # NoChange
  <2>1. inc = [prior EXCEPT !.row = Continued(prior.row, i - 1)]
    BY <1>2 DEF Resolved
  <2>2. Continued(prior.row, i - 1) \in Incident
    BY <1>2 DEF Continued, Incident
  <2> QED
    BY <1>2, <2>1, <2>2 DEF Driving
<1> QED
  BY <1>1, <1>2

LEMMA RowsOfType ==
  ASSUME NEW i \in Ends, NEW seed \in IncidentIds \cup {NoIncident},
         NEW driving \in IncidentIds \cup {NoIncident}
  PROVE  RowsOf(i, seed, driving) \subseteq RawRow
<1>1. driving # NoIncident => <<driving[1], 0>> \in Types \X {0}
  BY DEF IncidentIds
<1> QED
  BY <1>1 DEF RowsOf, RawRow

LEMMA RowsOfFinite ==
  ASSUME NEW i, NEW seed, NEW driving
  PROVE  IsFiniteSet(RowsOf(i, seed, driving))
<1>1. \A x : IsFiniteSet({x})
  BY FS_Singleton
<1>2. ASSUME NEW x, NEW y PROVE IsFiniteSet({x, y})
  <2>1. {x, y} = {x} \cup {y}
    OBVIOUS
  <2>2. IsFiniteSet({x} \cup {y})
    BY <1>1, FS_Union
  <2> QED
    BY <2>1, <2>2
<1> QED
  BY <1>1, <1>2, FS_EmptySet, FS_Union DEF RowsOf

LEMMA UpsertedFinite ==
  ASSUME NEW table, NEW rows, IsFiniteSet(table), IsFiniteSet(rows)
  PROVE  IsFiniteSet(Upserted(table, rows))
<1>1. IsFiniteSet({r \in table : \A s \in rows : ~SameEvent(r, s)})
  BY FS_Subset
<1> QED
  BY <1>1, FS_Union DEF Upserted

-----------------------------------------------------------------------------
(* The initial states. *)

LEMMA FirstDay == 0 \in Days
<1>1. Horizon \in Nat /\ Horizon >= 1
  BY TimeAssumption
<1>2. 1 \in Ends /\ Horizon \in Ends
  BY <1>1 DEF Ends
<1> QED
  BY <1>2, DayBounds DEF Days, DayOf

LEMMA InitIInv == Init => IInv
<1> SUFFICES ASSUME Init PROVE IInv
  OBVIOUS
<1> USE DEF Init
<1>1. TypeOK
  <2>1. NotProjecting \in Projection
    BY FirstDay DEF NotProjecting, Projection
  <2>2. DefaultState \in StateRow /\ 0 \in 0..Horizon
    BY TimeAssumption DEF DefaultState, StateRow
  <2>3. Absent \in Incident \cup {Absent}
    OBVIOUS
  <2>4. Idle \in [pc : {"waiting", "loaded", "read", "over"}, at : 0..Horizon, state : StateRow,
                  prior : [id : IncidentIds \cup {NoIncident}, row : Incident \cup {Absent}]]
    BY <2>2 DEF Idle, NoChange
  <2> QED
    BY <2>1, <2>2, <2>4 DEF TypeOK
<1>2. FiniteTables
  BY FS_EmptySet DEF FiniteTables, NotProjecting
<1>3. ReadsOK /\ RowsOfOneDay /\ AloneReads
  BY DEF ReadsOK, RowsOfOneDay, AloneReads, UnderWay, Idle, NotProjecting
<1>4. StateNamesOpen /\ OrderKept
  BY DEF StateNamesOpen, OrderKept, OpenIn, Absent, DefaultState, UnderWay, Idle
<1>5. EventsExplained /\ ProjectionKept
  BY DEF EventsExplained, ProjectionKept, Projections, NoShot
<1>6. DeletesOK
  <2>1. \A p \in Projectors : ~Deleting(p) /\ ~HasCleared(p)
    BY NothingHeld DEF Deleting, HasCleared
  <2> QED
    BY <2>1 DEF DeletesOK, OwnRange, MetApart, RowsWithShots, NothingNew
<1> QED
  BY <1>1, <1>2, <1>3, <1>4, <1>5, <1>6 DEF IInv

-----------------------------------------------------------------------------
(* The steps: one lemma per conjunct. *)

LEMMA TypeStep == TypeOK /\ FiniteTables /\ ReadsOK /\ [Next]_vars => TypeOK'
<1> SUFFICES ASSUME TypeOK, FiniteTables, ReadsOK, [Next]_vars PROVE TypeOK'
  OBVIOUS
<1>1. ASSUME NEW j \in Jobs, NEW i \in Ends, LoadState(j, i) PROVE TypeOK'
  <2>1. i \in 0..Horizon /\ NoIncident \in IncidentIds \cup {NoIncident}
    BY <1>1, TimeAssumption DEF Ends
  <2> QED
    BY <1>1, <2>1 DEF LoadState, TypeOK, Idle, NoChange, simulated, derived, asked
<1>2. ASSUME NEW j \in Jobs, ActiveIncident(j) PROVE TypeOK'
  <2>1. PICK inc \in Priors : job' = [job EXCEPT ![j] = [pc |-> "read", at |-> @.at, state |-> @.state, prior |-> inc]]
    BY <1>2 DEF ActiveIncident
  <2>2. inc \in [id : IncidentIds \cup {NoIncident}, row : Incident \cup {Absent}]
    BY PriorsType DEF NoChange
  <2>3. job' \in [Jobs -> [pc : {"waiting", "loaded", "read", "over"}, at : 0..Horizon, state : StateRow,
                          prior : [id : IncidentIds \cup {NoIncident}, row : Incident \cup {Absent}]]]
    <3>1. job[j] \in [pc : {"waiting", "loaded", "read", "over"}, at : 0..Horizon, state : StateRow,
                      prior : [id : IncidentIds \cup {NoIncident}, row : Incident \cup {Absent}]]
      BY DEF TypeOK
    <3> QED
      BY <2>1, <2>2, <3>1 DEF TypeOK
  <2> QED
    BY <1>2, <2>3 DEF ActiveIncident, TypeOK, simulated, derived, asked
<1>3. ASSUME NEW j \in Jobs, Simulate(j) PROVE TypeOK'
  <2>1. PICK inc \in Resolved(job[j].at, job[j].prior) :
          /\ raw' = Upserted(raw, RowsOf(job[j].at, job[j].state.active, Driving(inc)))
          /\ incidents' = IF inc.id = NoIncident THEN incidents
                          ELSE [incidents EXCEPT ![inc.id] = inc.row]
          /\ state' = [active |-> Driving(inc), wip |-> job[j].state.wip + 1, last |-> job[j].at]
    BY <1>3 DEF Simulate
  <2>2. /\ job[j].at \in Ends /\ job[j].at \in 0..Horizon
        /\ job[j].prior = NoChange \/ (job[j].prior.id \in IncidentIds /\ job[j].prior.row \in Incident)
        /\ job[j].prior \in [id : IncidentIds \cup {NoIncident}, row : Incident \cup {Absent}]
        /\ job[j].state \in StateRow
    BY <1>3 DEF Simulate, ReadsOK, TypeOK, UnderWay
  <2>3. /\ inc.id \in IncidentIds \cup {NoIncident}
        /\ inc.id # NoIncident => inc.id \in IncidentIds /\ inc.row \in Incident
        /\ Driving(inc) \in IncidentIds \cup {NoIncident}
    BY <2>2, ResolvedType
  <2>4. raw' \subseteq RawRow
    BY <2>1, <2>2, <2>3, RowsOfType DEF TypeOK, Upserted, StateRow
  <2>5. incidents' \in [IncidentIds -> Incident \cup {Absent}]
    BY <2>1, <2>3 DEF TypeOK
  <2>6. state' \in StateRow
    BY <2>1, <2>2, <2>3 DEF StateRow
  <2>7. Over \in [pc : {"waiting", "loaded", "read", "over"}, at : 0..Horizon, state : StateRow,
                  prior : [id : IncidentIds \cup {NoIncident}, row : Incident \cup {Absent}]]
    BY TimeAssumption DEF Over, Idle, NoChange, DefaultState, StateRow
  <2> QED
    BY <1>3, <2>4, <2>5, <2>6, <2>7 DEF Simulate, TypeOK, derived, asked
<1>4. ASSUME NEW j \in Jobs, SimulationFails(j) PROVE TypeOK'
  <2>1. Over \in [pc : {"waiting", "loaded", "read", "over"}, at : 0..Horizon, state : StateRow,
                  prior : [id : IncidentIds \cup {NoIncident}, row : Incident \cup {Absent}]]
    BY TimeAssumption DEF Over, Idle, NoChange, DefaultState, StateRow
  <2> QED
    BY <1>4, <2>1 DEF SimulationFails, TypeOK, simulated, derived, asked
<1>5. ASSUME NEW p \in Projectors, NEW d \in Days, LoadRawRows(p, d) PROVE TypeOK'
  <2>1. [NotProjecting EXCEPT !.pc = "loaded", !.day = d, !.rows = RowsOfDay(raw, d)]
          \in Projection
    BY DEF NotProjecting, RowsOfDay, TypeOK, Projection
  <2> QED
    BY <1>5, <2>1 DEF LoadRawRows, TypeOK, simulated, asked
<1>6. ASSUME NEW p \in Projectors, ClearSnapshots(p) PROVE TypeOK'
  <2>1. met' \subseteq SUBSET Days
    BY <1>6 DEF ClearSnapshots, TypeOK, Projection
  <2>2. projector' \in [Projectors -> Projection]
    <3> DEFINE there == {i \in Ends : Cleared(projector[p].day, i) /\ shots[i] # NoShot}
    <3>1. [projector[p] EXCEPT !.pc = "clearing", !.shots = there] \in Projection
      <4>1. projector[p] \in Projection /\ there \in SUBSET Ends
        BY DEF TypeOK
      <4> HIDE DEF there
      <4> QED
        BY <4>1, ProjectionTurned
    <3>2. projector' = [projector EXCEPT ![p] = [projector[p] EXCEPT !.pc = "clearing", !.shots = there]]
      BY <1>6 DEF ClearSnapshots, TypeOK
    <3> QED
      BY <3>1, <3>2 DEF TypeOK
  <2> QED
    BY <1>6, <2>1, <2>2 DEF ClearSnapshots, TypeOK, simulated, asked
<1>7. ASSUME NEW p \in Projectors, ClearEvents(p) PROVE TypeOK'
  <2>1. projector' \in [Projectors -> Projection]
    <3> DEFINE events == {r \in projected : Cleared(projector[p].day, r.at)}
               details == {i \in detailed : Cleared(projector[p].day, i)}
    <3>1. [projector[p] EXCEPT !.pc = "cleared", !.events = events, !.details = details] \in Projection
      <4>1. projector[p] \in Projection /\ events \in SUBSET RawRow /\ details \in SUBSET LiveEnds
        BY DEF TypeOK
      <4> HIDE DEF events, details
      <4> QED
        BY <4>1, ProjectionTurned
    <3>2. projector' = [projector EXCEPT ![p] = [projector[p] EXCEPT !.pc = "cleared", !.events = events,
                                                                     !.details = details]]
      BY <1>7 DEF ClearEvents, TypeOK
    <3> QED
      BY <3>1, <3>2 DEF TypeOK
  <2> QED
    BY <1>7, <2>1 DEF ClearEvents, TypeOK, simulated, asked
<1>8. ASSUME NEW p \in Projectors, ReplaceProjection(p) PROVE TypeOK'
  <2> DEFINE run == projector[p]
  <2>1. run.rows \subseteq RawRow /\ run.day \in Days
    BY DEF TypeOK, Projection
  <2>2. shots' \in [Ends -> Projections \cup {Live, NoShot}]
    <3>1. \A i \in Ends : Snapshot(run.rows, i) \in Projections /\ shots[i] \in Projections \cup {Live, NoShot}
      BY DEF Snapshot, Projections, TypeOK
    <3> QED
      BY <1>8, <3>1 DEF ReplaceProjection, ReplacedShots
  <2>3. marker' \in [Days -> Int]
    <3>1. Cardinality(run.rows) \in Int
      BY FS_CardinalityType DEF FiniteTables
    <3> QED
      BY <1>8, <3>1 DEF ReplaceProjection, TypeOK
  <2>4. renewed' \in [Days -> BOOLEAN]
    <3>1. \A e \in Days : (IF e = run.day THEN FALSE ELSE renewed[e] \/ e = run.day - 1) \in BOOLEAN
      OBVIOUS
    <3> QED
      BY <1>8, <3>1 DEF ReplaceProjection
  <2>5. projector' \in [Projectors -> Projection]
    <3>1. NotProjecting \in Projection
      BY FirstDay DEF NotProjecting, Projection
    <3>2. ASSUME NEW q \in Projectors
          PROVE  [projector[q] EXCEPT !.shots = @ \ run.shots, !.events = @ \ run.events,
                                      !.details = @ \ run.details] \in Projection
      <4>1. projector[q] \in Projection
        BY DEF TypeOK
      <4>2. /\ projector[q].shots \ run.shots \in SUBSET Ends
            /\ projector[q].events \ run.events \in SUBSET RawRow
            /\ projector[q].details \ run.details \in SUBSET LiveEnds
        BY <4>1, ProjectionFields
      <4> QED
        BY <4>1, <4>2, ProjectionTurned
    <3> QED
      BY <1>8, <3>1, <3>2 DEF ReplaceProjection, Ended
  <2>6. projected' \subseteq RawRow /\ detailed' \subseteq LiveEnds
    BY <1>8, <2>1 DEF ReplaceProjection, TypeOK
  <2> QED
    BY <1>8, <2>2, <2>3, <2>4, <2>5, <2>6 DEF ReplaceProjection, TypeOK, simulated
<1>9. ASSUME NEW p \in Projectors, ProjectionFails(p) PROVE TypeOK'
  <2>1. NotProjecting \in Projection
    BY FirstDay DEF NotProjecting, Projection
  <2> QED
    BY <1>9, <2>1 DEF ProjectionFails, TypeOK, simulated, asked
<1>10. ASSUME NEW i \in LiveEnds, InsertLiveSnapshot(i) PROVE TypeOK'
  BY <1>10 DEF InsertLiveSnapshot, TypeOK, simulated
<1>11. CASE UNCHANGED vars
  BY <1>11 DEF vars, TypeOK
<1> QED
  BY <1>1, <1>2, <1>3, <1>4, <1>5, <1>6, <1>7, <1>8, <1>9, <1>10, <1>11 DEF Next

\* The rows a projection holds are those of its load until it ends.
LEMMA RowsHeld ==
  ASSUME TypeOK, [Next]_vars, NEW q \in Projectors
  PROVE  \/ projector'[q].rows = projector[q].rows /\ projector'[q].day = projector[q].day
         \/ projector'[q].rows = {}
         \/ \E d \in Days : projector'[q].rows = RowsOfDay(raw, d) /\ projector'[q].day = d
<1>0. projector \in [Projectors -> Projection]
  BY DEF TypeOK
<1>1. ASSUME NEW p \in Projectors, NEW d \in Days, LoadRawRows(p, d)
      PROVE  \/ projector'[q] = projector[q]
             \/ projector'[q].rows = RowsOfDay(raw, d) /\ projector'[q].day = d
  BY <1>0, <1>1 DEF LoadRawRows, NotProjecting, Projection
<1>2. ASSUME NEW p \in Projectors, ClearSnapshots(p) \/ ClearEvents(p) \/ ReplaceProjection(p) \/ ProjectionFails(p)
      PROVE  \/ projector'[q].rows = projector[q].rows /\ projector'[q].day = projector[q].day
             \/ projector'[q].rows = {}
  <2>1. CASE ClearSnapshots(p)
    BY <1>0, <2>1 DEF ClearSnapshots, Projection
  <2>2. CASE ClearEvents(p)
    BY <1>0, <2>2 DEF ClearEvents, Projection
  <2>3. CASE ReplaceProjection(p)
    BY <1>0, <2>3, NothingHeld DEF ReplaceProjection, Ended, Projection
  <2>4. CASE ProjectionFails(p)
    BY <1>0, <2>4, NothingHeld DEF ProjectionFails, Projection
  <2> QED
    BY <1>2, <2>1, <2>2, <2>3, <2>4
<1>3. ASSUME NEW j \in Jobs, NEW i \in Ends, LoadState(j, i) PROVE UNCHANGED projector
  BY <1>3 DEF LoadState, derived
<1>4. ASSUME NEW j \in Jobs, ActiveIncident(j) \/ Simulate(j) \/ SimulationFails(j) PROVE UNCHANGED projector
  BY <1>4 DEF ActiveIncident, Simulate, SimulationFails, derived
<1>5. ASSUME NEW i \in LiveEnds, InsertLiveSnapshot(i) PROVE UNCHANGED projector
  BY <1>5 DEF InsertLiveSnapshot
<1>6. CASE UNCHANGED vars
  BY <1>6 DEF vars
<1> QED
  BY <1>1, <1>2, <1>3, <1>4, <1>5, <1>6 DEF Next

\* The steps of the simulator, and what the others leave alone.
SimulatorStep(j) ==
  (\E i \in Ends : LoadState(j, i)) \/ ActiveIncident(j) \/ Simulate(j) \/ SimulationFails(j)

LEMMA OtherSteps ==
  ASSUME [Next]_vars
  PROVE  (\E j \in Jobs : SimulatorStep(j)) \/ UNCHANGED <<simulated, job, runs>>
<1>1. ASSUME NEW p \in Projectors, NEW d \in Days, LoadRawRows(p, d) PROVE UNCHANGED <<simulated, job, runs>>
  BY <1>1 DEF LoadRawRows
<1>2. ASSUME NEW p \in Projectors, ClearSnapshots(p) \/ ClearEvents(p) \/ ReplaceProjection(p) \/ ProjectionFails(p)
      PROVE  UNCHANGED <<simulated, job, runs>>
  BY <1>2 DEF ClearSnapshots, ClearEvents, ReplaceProjection, ProjectionFails
<1>3. ASSUME NEW i \in LiveEnds, InsertLiveSnapshot(i) PROVE UNCHANGED <<simulated, job, runs>>
  BY <1>3 DEF InsertLiveSnapshot
<1>4. CASE UNCHANGED vars
  BY <1>4 DEF vars, simulated
<1>5. ASSUME NEW j \in Jobs, NEW i \in Ends, LoadState(j, i) PROVE SimulatorStep(j)
  BY <1>5 DEF SimulatorStep
<1>6. ASSUME NEW j \in Jobs, ActiveIncident(j) \/ Simulate(j) \/ SimulationFails(j) PROVE SimulatorStep(j)
  BY <1>6 DEF SimulatorStep
<1> QED
  BY <1>1, <1>2, <1>3, <1>4, <1>5, <1>6 DEF Next

LEMMA FiniteStep == TypeOK /\ FiniteTables /\ [Next]_vars => FiniteTables'
<1> SUFFICES ASSUME TypeOK, FiniteTables, [Next]_vars PROVE FiniteTables'
  OBVIOUS
<1>1. IsFiniteSet(raw')
  <2>1. ASSUME NEW j \in Jobs, Simulate(j) PROVE IsFiniteSet(raw')
    BY <2>1, RowsOfFinite, UpsertedFinite DEF Simulate, FiniteTables
  <2>2. ASSUME NEW j \in Jobs, SimulatorStep(j), ~Simulate(j) PROVE raw' = raw
    <3>1. ASSUME NEW i \in Ends, LoadState(j, i) PROVE raw' = raw
      BY <3>1 DEF LoadState, simulated
    <3> QED
      BY <2>2, <3>1 DEF SimulatorStep, ActiveIncident, SimulationFails, simulated
  <2> QED
    BY <2>1, <2>2, OtherSteps DEF simulated, FiniteTables
<1>2. ASSUME NEW q \in Projectors PROVE IsFiniteSet(projector'[q].rows)
  <2>1. \A d \in Days : IsFiniteSet(RowsOfDay(raw, d))
    BY FS_Subset DEF RowsOfDay, FiniteTables
  <2> QED
    BY <2>1, RowsHeld, FS_EmptySet DEF FiniteTables
<1> QED
  BY <1>1, <1>2 DEF FiniteTables

LEMMA ReadsStep == TypeOK /\ ReadsOK /\ [Next]_vars => ReadsOK'
<1> SUFFICES ASSUME TypeOK, ReadsOK, [Next]_vars PROVE ReadsOK'
  OBVIOUS
<1>0. job \in [Jobs -> [pc : {"waiting", "loaded", "read", "over"}, at : 0..Horizon, state : StateRow,
                        prior : [id : IncidentIds \cup {NoIncident}, row : Incident \cup {Absent}]]]
  BY DEF TypeOK
<1>1. ASSUME NEW j \in Jobs, NEW i \in Ends, LoadState(j, i) PROVE ReadsOK'
  BY <1>0, <1>1 DEF LoadState, ReadsOK, UnderWay, Idle
<1>2. ASSUME NEW j \in Jobs, ActiveIncident(j) PROVE ReadsOK'
  <2>1. PICK inc \in Priors : job' = [job EXCEPT ![j] = [pc |-> "read", at |-> @.at, state |-> @.state, prior |-> inc]]
    BY <1>2 DEF ActiveIncident
  <2>2. inc = NoChange \/ (inc.id \in IncidentIds /\ inc.row \in Incident)
    BY PriorsType
  <2>3. job[j].pc = "loaded" /\ UnderWay(j)
    BY <1>2 DEF ActiveIncident, UnderWay
  <2>4. ASSUME NEW k \in Jobs PROVE
          /\ UnderWay(k)' => job'[k].at \in Ends
          /\ job'[k].pc = "read" =>
               \/ job'[k].prior = NoChange
               \/ job'[k].prior.id \in IncidentIds /\ job'[k].prior.row \in Incident
    BY <1>0, <2>1, <2>2, <2>3 DEF ReadsOK, UnderWay
  <2> QED
    BY <2>4 DEF ReadsOK
<1>3. ASSUME NEW j \in Jobs, Simulate(j) \/ SimulationFails(j) PROVE ReadsOK'
  <2>1. job' = [job EXCEPT ![j] = Over]
    BY <1>3 DEF Simulate, SimulationFails
  <2> QED
    BY <1>0, <2>1, OverRecord DEF ReadsOK, UnderWay
<1>4. CASE UNCHANGED job
  BY <1>4 DEF ReadsOK, UnderWay
<1> QED
  BY <1>1, <1>2, <1>3, <1>4, OtherSteps DEF SimulatorStep

LEMMA RowsOfDayStep == TypeOK /\ RowsOfOneDay /\ [Next]_vars => RowsOfOneDay'
<1> SUFFICES ASSUME TypeOK, RowsOfOneDay, [Next]_vars, NEW q \in Projectors, NEW r \in projector'[q].rows
             PROVE  DayOf(r.at) = projector'[q].day
  BY DEF RowsOfOneDay, DayOf
<1> QED
  BY RowsHeld DEF RowsOfOneDay, RowsOfDay

LEMMA AloneStep == TypeOK /\ AloneReads /\ [Next]_vars => AloneReads'
<1> SUFFICES ASSUME TypeOK, AloneReads, [Next]_vars, runs' # "overlapped" PROVE AloneReads'
  BY DEF AloneReads
<1>0. job \in [Jobs -> [pc : {"waiting", "loaded", "read", "over"}, at : 0..Horizon, state : StateRow,
                        prior : [id : IncidentIds \cup {NoIncident}, row : Incident \cup {Absent}]]]
  BY DEF TypeOK
<1>1. ASSUME NEW j \in Jobs, NEW i \in Ends, LoadState(j, i) PROVE AloneReads'
  <2>1. \A k \in Jobs : ~UnderWay(k)
    BY <1>1 DEF LoadState
  <2> QED
    BY <1>0, <1>1, <2>1 DEF LoadState, AloneReads, UnderWay, Idle, simulated
<1>2. ASSUME NEW j \in Jobs, ActiveIncident(j) PROVE AloneReads'
  <2>1. PICK inc \in Priors : job' = [job EXCEPT ![j] = [pc |-> "read", at |-> @.at, state |-> @.state, prior |-> inc]]
    BY <1>2 DEF ActiveIncident
  <2>2. UnderWay(j) /\ runs' = runs /\ state' = state /\ Priors' = Priors
    BY <1>2 DEF ActiveIncident, UnderWay, simulated, Priors, OpenIn
  <2>3. \A k \in Jobs : UnderWay(k) => k = j
    BY <2>2 DEF AloneReads
  <2> QED
    BY <1>0, <2>1, <2>2, <2>3 DEF AloneReads, UnderWay
<1>3. ASSUME NEW j \in Jobs, Simulate(j) \/ SimulationFails(j) PROVE AloneReads'
  <2>1. runs' = runs /\ UnderWay(j)
    BY <1>3 DEF Simulate, SimulationFails, UnderWay
  <2>2. \A k \in Jobs : UnderWay(k) => k = j
    BY <2>1 DEF AloneReads
  <2>3. \A k \in Jobs : ~UnderWay(k)'
    <3>1. job' = [job EXCEPT ![j] = Over]
      BY <1>3 DEF Simulate, SimulationFails
    <3>2. ASSUME NEW k \in Jobs PROVE ~UnderWay(k)'
      BY <1>0, <2>2, <3>1, OverRecord DEF UnderWay
    <3> QED
      BY <3>2
  <2> QED
    BY <2>3 DEF AloneReads
<1>4. CASE UNCHANGED <<simulated, job, runs>>
  BY <1>4 DEF AloneReads, UnderWay, simulated, Priors, OpenIn
<1> QED
  BY <1>1, <1>2, <1>3, <1>4, OtherSteps DEF SimulatorStep

\* What a step of a run that no other overlaps finds: the open incident is the
\* one it has read.
LEMMA AlonePrior ==
  ASSUME TypeOK, AloneReads, StateNamesOpen, runs # "overlapped",
         NEW j \in Jobs, job[j].pc = "read"
  PROVE  \/ job[j].prior = NoChange /\ OpenIn(incidents) = {}
         \/ /\ job[j].prior.id \in IncidentIds /\ job[j].prior # NoChange
            /\ OpenIn(incidents) = {job[j].prior.id}
            /\ job[j].prior = [id |-> job[j].prior.id, row |-> incidents[job[j].prior.id]]
<1>1. job[j].prior \in Priors
  BY DEF AloneReads, UnderWay
<1>2. OpenIn(incidents) = {state.active} \ {NoIncident}
  BY DEF StateNamesOpen
<1>3. NoChange.id = NoIncident
  BY DEF NoChange
<1> QED
  BY <1>1, <1>2, <1>3, PriorsType, NoneIsNoIncident

LEMMA NamesOpenStep ==
  TypeOK /\ ReadsOK /\ AloneReads /\ StateNamesOpen /\ [Next]_vars => StateNamesOpen'
<1> SUFFICES ASSUME TypeOK, ReadsOK, AloneReads, StateNamesOpen, [Next]_vars, runs' # "overlapped"
             PROVE  OpenIn(incidents') = {state'.active} \ {NoIncident}
  BY DEF StateNamesOpen, OpenIn
<1>1. ASSUME NEW j \in Jobs, Simulate(j)
      PROVE  OpenIn(incidents') = {state'.active} \ {NoIncident}
  <2>1. PICK inc \in Resolved(job[j].at, job[j].prior) :
          /\ incidents' = IF inc.id = NoIncident THEN incidents
                          ELSE [incidents EXCEPT ![inc.id] = inc.row]
          /\ state' = [active |-> Driving(inc), wip |-> job[j].state.wip + 1, last |-> job[j].at]
    BY <1>1 DEF Simulate
  <2>2. job[j].pc = "read" /\ runs # "overlapped"
    BY <1>1 DEF Simulate
  <2>3. incidents \in [IncidentIds -> Incident \cup {Absent}]
    BY DEF TypeOK
  <2>4. state'.active = Driving(inc)
    BY <2>1
  <2>5. CASE job[j].prior = NoChange /\ OpenIn(incidents) = {}
    <3>1. CASE inc = NoChange
      BY <2>1, <2>4, <2>5, <3>1 DEF NoChange, Driving
    <3>2. CASE inc # NoChange
      <4>1. PICK type \in Types, d \in Durations :
              inc = [id |-> <<type, job[j].at>>, row |-> [status |-> "active", ends |-> job[j].at + d]]
        BY <2>5, <3>2 DEF Resolved, Started
      <4>2. job[j].at \in Ends
        BY <2>2 DEF ReadsOK, UnderWay
      <4>3. inc.id \in IncidentIds /\ inc.row.status = "active" /\ inc.id # NoIncident
        BY <4>1, <4>2, NoneIsNoIncident DEF IncidentIds
      <4>4. incidents' = [incidents EXCEPT ![inc.id] = inc.row] /\ Driving(inc) = inc.id
        BY <2>1, <4>3 DEF Driving
      <4> QED
        BY <2>3, <2>4, <2>5, <4>3, <4>4 DEF OpenIn
    <3> QED
      BY <3>1, <3>2
  <2>6. CASE /\ job[j].prior.id \in IncidentIds /\ job[j].prior # NoChange
             /\ OpenIn(incidents) = {job[j].prior.id}
             /\ job[j].prior = [id |-> job[j].prior.id, row |-> incidents[job[j].prior.id]]
    <3> DEFINE row == Continued(incidents[job[j].prior.id], job[j].at - 1)
    <3>1. inc = [job[j].prior EXCEPT !.row = Continued(job[j].prior.row, job[j].at - 1)]
      BY <2>6 DEF Resolved
    <3>2. inc = [id |-> job[j].prior.id, row |-> row]
      BY <2>6, <3>1
    <3>3. incidents[job[j].prior.id] \in Incident
      BY <2>3, <2>6 DEF OpenIn, Absent
    <3>4. row.status \in {"active", "recovering", "recovered"}
      BY <3>3 DEF Continued, Incident
    <3> HIDE DEF row
    <3>5. inc.id = job[j].prior.id /\ inc.row = row /\ inc.id \in IncidentIds /\ inc.id # NoIncident
      BY <2>6, <3>2, NoneIsNoIncident
    <3>6. incidents' = [incidents EXCEPT ![inc.id] = row]
      BY <2>1, <3>5
    <3>7. OpenIn(incidents') = IF row.status = "recovered" THEN {} ELSE {inc.id}
      BY <2>3, <2>6, <3>4, <3>5, <3>6 DEF OpenIn
    <3> QED
      BY <2>4, <3>5, <3>7 DEF Driving
  <2> QED
    BY <2>2, <2>5, <2>6, AlonePrior
<1>2. CASE UNCHANGED <<incidents, state>> /\ runs # "overlapped"
  BY <1>2 DEF StateNamesOpen, OpenIn
<1>3. ASSUME NEW j \in Jobs, NEW i \in Ends, LoadState(j, i)
      PROVE  UNCHANGED <<incidents, state>> /\ runs # "overlapped"
  BY <1>3 DEF LoadState, simulated
<1>4. ASSUME NEW j \in Jobs, ActiveIncident(j) \/ SimulationFails(j)
      PROVE  UNCHANGED <<incidents, state>> /\ runs # "overlapped"
  BY <1>4 DEF ActiveIncident, SimulationFails, simulated
<1>5. CASE UNCHANGED <<simulated, job, runs>>
  BY <1>2, <1>5 DEF simulated
<1> QED
  BY <1>1, <1>2, <1>3, <1>4, <1>5, OtherSteps DEF SimulatorStep

LEMMA OrderStep ==
  TypeOK /\ ReadsOK /\ AloneReads /\ StateNamesOpen /\ OrderKept /\ [Next]_vars => OrderKept'
<1> SUFFICES ASSUME TypeOK, ReadsOK, AloneReads, StateNamesOpen, OrderKept, [Next]_vars, runs' = "in_order"
             PROVE  /\ \A j \in Jobs : UnderWay(j)' => job'[j].at > state'.last
                    /\ \A id \in IncidentIds :
                         /\ incidents'[id].status # "absent" => StartOf(id) <= state'.last
                         /\ incidents'[id].status = "recovering" => incidents'[id].ends <= state'.last - 1
  BY DEF OrderKept
<1> DEFINE Goal == /\ \A j \in Jobs : UnderWay(j)' => job'[j].at > state'.last
                   /\ \A id \in IncidentIds :
                        /\ incidents'[id].status # "absent" => StartOf(id) <= state'.last
                        /\ incidents'[id].status = "recovering" => incidents'[id].ends <= state'.last - 1
<1>0. /\ job \in [Jobs -> [pc : {"waiting", "loaded", "read", "over"}, at : 0..Horizon, state : StateRow,
                         prior : [id : IncidentIds \cup {NoIncident}, row : Incident \cup {Absent}]]]
      /\ incidents \in [IncidentIds -> Incident \cup {Absent}] /\ state.last \in Int
  BY DEF TypeOK, StateRow
<1>1. ASSUME NEW j \in Jobs, NEW i \in Ends, LoadState(j, i) PROVE Goal
  <2>1. i > state.last /\ runs = "in_order" /\ (\A k \in Jobs : ~UnderWay(k))
    BY <1>0, <1>1 DEF LoadState, Ends
  <2>2. UNCHANGED <<incidents, state>> /\ job' = [job EXCEPT ![j] = [Idle EXCEPT !.pc = "loaded", !.at = i, !.state = state]]
    BY <1>1 DEF LoadState, simulated
  <2>3. \A k \in Jobs : UnderWay(k)' => k = j /\ job'[k].at = i
    BY <1>0, <2>1, <2>2 DEF UnderWay, Idle
  <2> QED
    BY <2>1, <2>2, <2>3 DEF OrderKept
<1>2. ASSUME NEW j \in Jobs, ActiveIncident(j) PROVE Goal
  <2>1. runs = "in_order" /\ UNCHANGED <<incidents, state>> /\ UnderWay(j)
    BY <1>2 DEF ActiveIncident, simulated, UnderWay
  <2>2. PICK inc \in Priors :
          job' = [job EXCEPT ![j] = [pc |-> "read", at |-> @.at, state |-> @.state, prior |-> inc]]
    BY <1>2 DEF ActiveIncident
  <2>3. \A k \in Jobs : UnderWay(k)' => UnderWay(k) /\ job'[k].at = job[k].at
    BY <1>0, <2>1, <2>2 DEF UnderWay
  <2> QED
    BY <2>1, <2>3 DEF OrderKept
<1>3. ASSUME NEW j \in Jobs, SimulationFails(j) PROVE Goal
  <2>1. runs = "in_order" /\ UNCHANGED <<incidents, state>>
    BY <1>3 DEF SimulationFails, simulated
  <2>2. \A k \in Jobs : UnderWay(k)' => UnderWay(k) /\ job'[k].at = job[k].at
    BY <1>0, <1>3, OverRecord DEF SimulationFails, UnderWay
  <2> QED
    BY <2>1, <2>2 DEF OrderKept
<1>4. ASSUME NEW j \in Jobs, Simulate(j) PROVE Goal
  <2>1. PICK inc \in Resolved(job[j].at, job[j].prior) :
          /\ incidents' = IF inc.id = NoIncident THEN incidents
                          ELSE [incidents EXCEPT ![inc.id] = inc.row]
          /\ state' = [active |-> Driving(inc), wip |-> job[j].state.wip + 1, last |-> job[j].at]
    BY <1>4 DEF Simulate
  <2>2. runs = "in_order" /\ job[j].pc = "read" /\ UnderWay(j) /\ job' = [job EXCEPT ![j] = Over]
    BY <1>4 DEF Simulate, UnderWay
  <2>3. job[j].at > state.last /\ job[j].at \in Ends /\ state'.last = job[j].at
    BY <2>1, <2>2 DEF OrderKept, ReadsOK
  <2>4. \A k \in Jobs : ~UnderWay(k)'
    <3>1. ASSUME NEW k \in Jobs PROVE ~UnderWay(k)'
      BY <1>0, <2>2, OverRecord DEF AloneReads, UnderWay
    <3> QED
      BY <3>1
  <2>5. inc.id = NoIncident \/
        (inc.id \in IncidentIds /\ StartOf(inc.id) <= job[j].at
           /\ (inc.row.status = "recovering" => inc.row.ends <= job[j].at - 1))
    <3>1. CASE job[j].prior = NoChange /\ inc = NoChange
      BY <3>1 DEF NoChange
    <3>2. CASE job[j].prior = NoChange /\ inc # NoChange
      <4>1. PICK type \in Types, d \in Durations :
              inc = [id |-> <<type, job[j].at>>, row |-> [status |-> "active", ends |-> job[j].at + d]]
        BY <3>2 DEF Resolved, Started
      <4> QED
        BY <2>3, <4>1 DEF IncidentIds, StartOf, Ends
    <3>3. CASE job[j].prior # NoChange
      <4> DEFINE id == job[j].prior.id
      <4>1. id \in IncidentIds /\ id \in OpenIn(incidents) /\ job[j].prior = [id |-> id, row |-> incidents[id]]
        BY <2>2, <3>3, AlonePrior
      <4>2. inc = [job[j].prior EXCEPT !.row = Continued(job[j].prior.row, job[j].at - 1)]
        BY <3>3 DEF Resolved
      <4>3. inc = [id |-> id, row |-> Continued(incidents[id], job[j].at - 1)]
        BY <4>1, <4>2
      <4>4. incidents[id] \in Incident /\ incidents[id].status # "absent"
        BY <1>0, <4>1 DEF OpenIn, Absent
      <4>5. StartOf(id) <= state.last /\ StartOf(id) \in Int
        BY <2>2, <4>1, <4>4 DEF OrderKept, StartOf, IncidentIds, Ends
      <4>6. inc.row.status = "recovering" => inc.row.ends <= job[j].at - 1
        BY <2>3, <4>3, <4>4 DEF Continued, Incident, Ends
      <4> QED
        BY <1>0, <2>3, <4>1, <4>3, <4>5, <4>6 DEF Ends
    <3> QED
      BY <3>1, <3>2, <3>3
  <2>6. ASSUME NEW id \in IncidentIds
        PROVE  /\ incidents'[id].status # "absent" => StartOf(id) <= job[j].at
               /\ incidents'[id].status = "recovering" => incidents'[id].ends <= job[j].at - 1
    <3>1. CASE inc.id = id
      BY <1>0, <2>1, <2>5, <3>1, NoneIsNoIncident
    <3>2. CASE inc.id # id
      <4>1. incidents'[id] = incidents[id]
        BY <1>0, <2>1, <3>2
      <4>2. incidents[id].status # "absent" => StartOf(id) <= state.last
        BY <2>2 DEF OrderKept
      <4>3. incidents[id].status = "recovering" => incidents[id].ends <= state.last - 1
        BY <2>2 DEF OrderKept
      <4>4. StartOf(id) \in Int /\ (incidents[id].status = "recovering" => incidents[id].ends \in Int)
        BY <1>0 DEF StartOf, IncidentIds, Ends, Incident, Absent
      <4> QED
        BY <1>0, <2>3, <4>1, <4>2, <4>3, <4>4 DEF Ends
    <3> QED
      BY <3>1, <3>2
  <2> QED
    BY <2>3, <2>4, <2>6
<1>5. CASE UNCHANGED <<simulated, job, runs>>
  BY <1>5 DEF OrderKept, UnderWay, simulated
<1> QED
  BY <1>1, <1>2, <1>3, <1>4, <1>5, OtherSteps DEF SimulatorStep

\* Which interval a projection of a day clears.
LEMMA DayCleared ==
  ASSUME NEW d \in Days, NEW i \in Ends
  PROVE  /\ DayOf(i) = d => Cleared(d, i)
         /\ DayOf(i) # d /\ DayOf(i) # d - 1 => ~Cleared(d, i)
<1> DEFINE e == DayOf(i)
<1>1. e \in Nat /\ e * DayLength < i /\ i <= (e + 1) * DayLength
  BY DayBounds
<1>2. d \in Nat /\ DayLength \in Nat /\ DayLength >= 1 /\ i \in Nat
  BY TimeAssumption DEF Days, Ends
<1> HIDE DEF e
<1>3. e = d => Cleared(d, i)
  BY <1>1, <1>2 DEF Cleared
<1>4. ASSUME e > d PROVE ~Cleared(d, i)
  <2>1. (d + 1) * DayLength <= e * DayLength
    BY <1>1, <1>2, <1>4, DaysApart
  <2>2. (d + 1) * DayLength \in Int /\ e * DayLength \in Int
    BY <1>1, <1>2
  <2> HIDE DEF Cleared
  <2>3. i > (d + 1) * DayLength
    BY <1>1, <1>2, <2>1, <2>2
  <2> QED
    BY <1>2, <2>2, <2>3 DEF Cleared
<1>5. ASSUME e + 1 < d PROVE ~Cleared(d, i)
  <2>1. (e + 2) * DayLength <= d * DayLength
    BY <1>1, <1>2, <1>5, DaysApart
  <2>2. (e + 2) * DayLength = (e + 1) * DayLength + DayLength
    BY <1>1, <1>2
  <2>3. (e + 1) * DayLength \in Int /\ d * DayLength \in Int /\ (e + 2) * DayLength \in Int
    BY <1>1, <1>2
  <2>4. i < d * DayLength
    BY <1>1, <1>2, <2>1, <2>2, <2>3
  <2> QED
    BY <1>2, <2>3, <2>4 DEF Cleared
<1>6. e # d /\ e # d - 1 => e > d \/ e + 1 < d
  BY <1>1, <1>2
<1>7. (e = d => Cleared(d, i)) /\ (e # d /\ e # d - 1 => ~Cleared(d, i))
  BY <1>3, <1>4, <1>5, <1>6
<1> QED
  BY <1>7 DEF e

\* The tables that are asked are written by the projection and the snapshot
\* writer only, and the simulator meets no projection.
LEMMA SimulatorLeaves ==
  ASSUME NEW j \in Jobs, SimulatorStep(j)
  PROVE  UNCHANGED <<asked, met, projector>>
<1>1. ASSUME NEW i \in Ends, LoadState(j, i) PROVE UNCHANGED <<asked, met, projector>>
  BY <1>1 DEF LoadState, derived
<1> QED
  BY <1>1 DEF SimulatorStep, ActiveIncident, Simulate, SimulationFails, derived

\* What the commit of a projection leaves of the others.
LEMMA Committed ==
  ASSUME TypeOK, NEW p \in Projectors, ReplaceProjection(p)
  PROVE  /\ HasCleared(p) /\ Deleting(p) /\ projector'[p] = NotProjecting
         /\ \A q \in Projectors \ {p} :
              /\ projector'[q].pc = projector[q].pc /\ projector'[q].day = projector[q].day
              /\ projector'[q].shots = projector[q].shots \ projector[p].shots
              /\ projector'[q].events = projector[q].events \ projector[p].events
              /\ projector'[q].details = projector[q].details \ projector[p].details
         /\ projected' = (projected \ projector[p].events) \cup projector[p].rows
         /\ detailed' = detailed \ projector[p].details
         /\ met' = met
         /\ \A i \in Ends :
              /\ (\E r \in projector[p].rows : r.at = i) => shots'[i] \in Projections
              /\ ~(\E r \in projector[p].rows : r.at = i) =>
                   shots'[i] = IF i \in projector[p].shots THEN NoShot ELSE shots[i]
         /\ \A r \in projector[p].rows : shots[r.at] = NoShot \/ r.at \in projector[p].shots
<1>1. projector \in [Projectors -> Projection]
  BY DEF TypeOK
<1>2. ASSUME NEW q \in Projectors \ {p}
      PROVE  /\ projector'[q].pc = projector[q].pc /\ projector'[q].day = projector[q].day
             /\ projector'[q].shots = projector[q].shots \ projector[p].shots
             /\ projector'[q].events = projector[q].events \ projector[p].events
             /\ projector'[q].details = projector[q].details \ projector[p].details
  BY <1>1, <1>2 DEF ReplaceProjection, Ended, Projection
<1>3. shots' = ReplacedShots(projector[p]) /\ Insertable(projector[p])
  BY DEF ReplaceProjection
<1>4. \A i : Snapshot(projector[p].rows, i) \in Projections
  BY DEF Snapshot, Projections
<1>5. HasCleared(p) /\ Deleting(p) /\ projector'[p] = NotProjecting
  BY DEF ReplaceProjection, HasCleared, Deleting, Ended
<1> QED
  BY <1>2, <1>3, <1>4, <1>5 DEF ReplaceProjection, ReplacedShots, Insertable

\* The rows of a projection are of intervals it clears.
LEMMA RowsCleared ==
  ASSUME TypeOK, RowsOfOneDay, NEW p \in Projectors, NEW r \in projector[p].rows
  PROVE  r.at \in Ends /\ Cleared(projector[p].day, r.at)
<1>1. r \in RawRow /\ projector[p].day \in Days
  BY ProjectionFields DEF TypeOK
<1>2. r.at \in Ends
  BY <1>1 DEF RawRow
<1> QED
  BY <1>1, <1>2, DayCleared DEF RowsOfOneDay

\* Steps that touch neither the asked tables nor a projection that is deleting.
LEMMA QuietDeletes ==
  ASSUME DeletesOK, UNCHANGED <<asked, met>>,
         \A q \in Projectors : projector'[q] = projector[q] \/ projector'[q].pc \in {"idle", "loaded"}
  PROVE  DeletesOK'
<1>1. \A q \in Projectors : Deleting(q)' => projector'[q] = projector[q] /\ Deleting(q)
  BY DEF Deleting
<1>2. \A q \in Projectors : HasCleared(q)' => projector'[q] = projector[q] /\ HasCleared(q)
  BY DEF HasCleared
<1>3. shots' = shots /\ projected' = projected /\ detailed' = detailed /\ met' = met
  BY DEF asked
<1>4. OwnRange'
  BY <1>1, <1>2, <1>3 DEF DeletesOK, OwnRange, Cleared
<1>5. MetApart'
  BY <1>1, <1>2, <1>3 DEF DeletesOK, MetApart
<1>6. RowsWithShots'
  BY <1>2, <1>3 DEF DeletesOK, RowsWithShots
<1>7. NothingNew'
  BY <1>1, <1>2, <1>3 DEF DeletesOK, NothingNew, Cleared, Crossed, DayOf
<1> QED
  BY <1>4, <1>5, <1>6, <1>7 DEF DeletesOK

\* The first DELETE meets what is committed, and the projections under way.
LEMMA ClearSnapshotsDeletes ==
  ASSUME TypeOK, DeletesOK, NEW p \in Projectors, ClearSnapshots(p)
  PROVE  DeletesOK'
<1>1. projector \in [Projectors -> Projection]
  BY DEF TypeOK
<1>2. /\ shots' = shots /\ projected' = projected /\ detailed' = detailed
      /\ \A days \in met : days \in met'
      /\ \A q \in Projectors \ {p} : Deleting(q) => {projector[p].day, projector[q].day} \in met'
  BY DEF ClearSnapshots, asked
<1>3. /\ projector'[p].day = projector[p].day
      /\ projector'[p].shots = {i \in Ends : Cleared(projector[p].day, i) /\ shots[i] # NoShot}
      /\ projector'[p].pc = "clearing"
      /\ \A q \in Projectors \ {p} : projector'[q] = projector[q]
  BY <1>1 DEF ClearSnapshots
<1>4. ~HasCleared(p)' /\ \A q \in Projectors \ {p} : (HasCleared(q)' <=> HasCleared(q)) /\ (Deleting(q)' <=> Deleting(q))
  BY <1>3 DEF HasCleared, Deleting
<1>5. OwnRange'
  <2>1. ASSUME NEW q \in Projectors, Deleting(q)'
        PROVE  /\ \A i \in projector'[q].shots : Cleared(projector'[q].day, i) /\ shots'[i] # NoShot
               /\ HasCleared(q)' =>
                    /\ projector'[q].events \subseteq projected'
                    /\ \A r \in projector'[q].events : Cleared(projector'[q].day, r.at)
    <3>1. CASE q = p
      BY <1>2, <1>3, <1>4, <3>1
    <3>2. CASE q # p
      BY <1>2, <1>3, <1>4, <2>1, <3>2 DEF DeletesOK, OwnRange
    <3> QED
      BY <3>1, <3>2
  <2> QED
    BY <2>1 DEF OwnRange, Cleared
<1>6. MetApart'
  <2>1. ASSUME NEW q \in Projectors, NEW k \in Projectors, q # k
        PROVE  /\ Deleting(q)' /\ Deleting(k)' => {projector'[q].day, projector'[k].day} \in met'
               /\ HasCleared(q)' /\ HasCleared(k)' => projector'[q].shots \cap projector'[k].shots = {}
    <3>1. {projector[p].day, projector[q].day} = {projector[q].day, projector[p].day}
      OBVIOUS
    <3>2. CASE q = p
      BY <1>2, <1>3, <1>4, <2>1, <3>2
    <3>3. CASE k = p
      BY <1>2, <1>3, <1>4, <2>1, <3>1, <3>3
    <3>4. CASE q # p /\ k # p
      BY <1>2, <1>3, <1>4, <2>1, <3>4 DEF DeletesOK, MetApart
    <3> QED
      BY <3>2, <3>3, <3>4
  <2> QED
    BY <2>1 DEF MetApart
<1>7. RowsWithShots'
  BY <1>2, <1>3, <1>4 DEF DeletesOK, RowsWithShots
<1>8. NothingNew'
  <2>1. ASSUME NEW q \in Projectors, NEW i \in Ends,
               Deleting(q)', Cleared(projector'[q].day, i), shots'[i] \in Projections, ~Crossed(i)'
        PROVE  i \in projector'[q].shots
    <3>1. ~Crossed(i)
      BY <1>2, <2>1 DEF Crossed, Cleared
    <3>2. CASE q = p
      BY <1>2, <1>3, <2>1, <3>2 DEF Projections, NoShot
    <3>3. CASE q # p
      BY <1>2, <1>3, <1>4, <2>1, <3>1, <3>3 DEF DeletesOK, NothingNew
    <3> QED
      BY <3>2, <3>3
  <2>2. ASSUME NEW q \in Projectors, HasCleared(q)', {projector'[q].day} \notin met',
               NEW r \in projected', DayOf(r.at) = projector'[q].day
        PROVE  r \in projector'[q].events
    BY <1>2, <1>3, <1>4, <2>2 DEF DeletesOK, NothingNew
  <2> QED
    BY <2>1, <2>2 DEF NothingNew, Cleared, DayOf
<1> QED
  BY <1>5, <1>6, <1>7, <1>8 DEF DeletesOK

\* The second DELETE meets all rows of the range that are committed by then.
LEMMA ClearEventsDeletes ==
  ASSUME TypeOK, DeletesOK, NEW p \in Projectors, ClearEvents(p)
  PROVE  DeletesOK'
<1>1. projector \in [Projectors -> Projection]
  BY DEF TypeOK
<1>2. shots' = shots /\ projected' = projected /\ detailed' = detailed /\ met' = met
  BY DEF ClearEvents, asked
<1>3. /\ projector'[p].day = projector[p].day /\ projector'[p].shots = projector[p].shots
      /\ projector'[p].events = {r \in projected : Cleared(projector[p].day, r.at)}
      /\ projector'[p].details = {i \in detailed : Cleared(projector[p].day, i)}
      /\ \A q \in Projectors \ {p} : projector'[q] = projector[q]
  BY <1>1 DEF ClearEvents, Projection
<1>4. /\ Deleting(p) /\ Deleting(p)'
      /\ \A q \in Projectors \ {p} : (HasCleared(q)' <=> HasCleared(q)) /\ (Deleting(q)' <=> Deleting(q))
      /\ \A q \in Projectors \ {p} : HasCleared(q) => projector[q].shots \cap projector[p].shots = {}
  BY <1>1 DEF HasCleared, Deleting, ClearEvents, Projection
<1>5. \A i \in projector[p].shots : Cleared(projector[p].day, i)
  BY <1>4 DEF DeletesOK, OwnRange
<1>6. OwnRange'
  <2>1. ASSUME NEW q \in Projectors, Deleting(q)'
        PROVE  /\ \A i \in projector'[q].shots : Cleared(projector'[q].day, i) /\ shots'[i] # NoShot
               /\ HasCleared(q)' =>
                    /\ projector'[q].events \subseteq projected'
                    /\ \A r \in projector'[q].events : Cleared(projector'[q].day, r.at)
    <3>1. CASE q = p
      BY <1>2, <1>3, <1>4, <3>1 DEF DeletesOK, OwnRange
    <3>2. CASE q # p
      BY <1>2, <1>3, <1>4, <2>1, <3>2 DEF DeletesOK, OwnRange
    <3> QED
      BY <3>1, <3>2
  <2> QED
    BY <2>1 DEF OwnRange, Cleared
<1>7. MetApart'
  <2>1. ASSUME NEW q \in Projectors, NEW k \in Projectors, q # k
        PROVE  /\ Deleting(q)' /\ Deleting(k)' => {projector'[q].day, projector'[k].day} \in met'
               /\ HasCleared(q)' /\ HasCleared(k)' => projector'[q].shots \cap projector'[k].shots = {}
    <3>1. Deleting(q)' /\ Deleting(k)' => {projector'[q].day, projector'[k].day} \in met'
      BY <1>2, <1>3, <1>4, <2>1 DEF DeletesOK, MetApart
    <3>2. HasCleared(q)' /\ HasCleared(k)' => projector'[q].shots \cap projector'[k].shots = {}
      BY <1>2, <1>3, <1>4, <2>1 DEF DeletesOK, MetApart
    <3> QED
      BY <3>1, <3>2
  <2> QED
    BY <2>1 DEF MetApart
<1>8. RowsWithShots'
  <2>1. ASSUME NEW q \in Projectors, HasCleared(q)'
        PROVE  /\ \A r \in projected' : r.at \in projector'[q].shots => r \in projector'[q].events
               /\ \A i \in detailed' : i \in projector'[q].shots => i \in projector'[q].details
               /\ \A r, s \in projected' :
                    r.at = s.at /\ r \in projector'[q].events => s \in projector'[q].events
    <3>1. CASE q = p
      BY <1>2, <1>3, <1>5, <3>1
    <3>2. CASE q # p
      BY <1>2, <1>3, <1>4, <2>1, <3>2 DEF DeletesOK, RowsWithShots
    <3> QED
      BY <3>1, <3>2
  <2> QED
    BY <2>1 DEF RowsWithShots
<1>9. NothingNew'
  <2>1. ASSUME NEW q \in Projectors, NEW i \in Ends,
               Deleting(q)', Cleared(projector'[q].day, i), shots'[i] \in Projections, ~Crossed(i)'
        PROVE  i \in projector'[q].shots
    <3>1. ~Crossed(i)
      BY <1>2, <2>1 DEF Crossed, Cleared
    <3> QED
      BY <1>2, <1>3, <1>4, <2>1, <3>1 DEF DeletesOK, NothingNew
  <2>2. ASSUME NEW q \in Projectors, HasCleared(q)', {projector'[q].day} \notin met',
               NEW r \in projected', DayOf(r.at) = projector'[q].day
        PROVE  r \in projector'[q].events
    <3>1. CASE q = p
      <4>1. r \in RawRow /\ r.at \in Ends /\ projector[p].day \in Days
        BY <1>1, <1>2, <2>2, ProjectionFields DEF TypeOK, RawRow
      <4> QED
        BY <1>2, <1>3, <2>2, <3>1, <4>1, DayCleared
    <3>2. CASE q # p
      BY <1>2, <1>3, <1>4, <2>2, <3>2 DEF DeletesOK, NothingNew
    <3> QED
      BY <3>1, <3>2
  <2> QED
    BY <2>1, <2>2 DEF NothingNew, Cleared, DayOf
<1> QED
  BY <1>6, <1>7, <1>8, <1>9 DEF DeletesOK

\* A commit takes from the others what it has deleted, and adds rows only where
\* they delete none, but for intervals in which they have met.
LEMMA ReplaceDeletes ==
  ASSUME TypeOK, RowsOfOneDay, EventsExplained, DeletesOK, NEW p \in Projectors, ReplaceProjection(p)
  PROVE  DeletesOK'
<1> DEFINE run == projector[p]
<1>1. /\ projector \in [Projectors -> Projection]
      /\ projected \subseteq RawRow /\ \A r \in RawRow : r.at \in Ends
  BY DEF TypeOK, RawRow
<1>2. /\ HasCleared(p) /\ Deleting(p)
      /\ \A q \in Projectors \ {p} :
           /\ projector'[q].pc = projector[q].pc /\ projector'[q].day = projector[q].day
           /\ projector'[q].shots = projector[q].shots \ run.shots
           /\ projector'[q].events = projector[q].events \ run.events
           /\ projector'[q].details = projector[q].details \ run.details
      /\ projected' = (projected \ run.events) \cup run.rows
      /\ detailed' = detailed \ run.details
      /\ met' = met
      /\ \A i \in Ends :
           /\ (\E r \in run.rows : r.at = i) => shots'[i] \in Projections
           /\ ~(\E r \in run.rows : r.at = i) => shots'[i] = IF i \in run.shots THEN NoShot ELSE shots[i]
      /\ \A r \in run.rows : shots[r.at] = NoShot \/ r.at \in run.shots
  BY Committed
<1>3. ~Deleting(p)' /\ ~HasCleared(p)'
  BY Committed, NothingHeld DEF Deleting, HasCleared
<1>4. \A q \in Projectors \ {p} : (Deleting(q)' <=> Deleting(q)) /\ (HasCleared(q)' <=> HasCleared(q))
  BY <1>2 DEF Deleting, HasCleared
<1>5. \A q \in Projectors \ {p} : /\ Deleting(q) => {run.day, projector[q].day} \in met
                                  /\ HasCleared(q) => projector[q].shots \cap run.shots = {}
  BY <1>2 DEF DeletesOK, MetApart
<1>6. \A r \in run.rows : r.at \in Ends /\ Cleared(run.day, r.at)
  BY RowsCleared
<1>7. OwnRange'
  <2>1. ASSUME NEW q \in Projectors \ {p}, Deleting(q)
        PROVE  /\ \A i \in projector'[q].shots : Cleared(projector'[q].day, i) /\ shots'[i] # NoShot
               /\ HasCleared(q)' =>
                    /\ projector'[q].events \subseteq projected'
                    /\ \A r \in projector'[q].events : Cleared(projector'[q].day, r.at)
    <3>1. ASSUME NEW i \in projector'[q].shots PROVE Cleared(projector'[q].day, i) /\ shots'[i] # NoShot
      <4>1. i \in projector[q].shots /\ i \notin run.shots /\ i \in Ends
        BY <1>1, <1>2, <3>1, ProjectionFields
      <4>2. Cleared(projector[q].day, i) /\ shots[i] # NoShot
        BY <2>1, <4>1 DEF DeletesOK, OwnRange
      <4>3. shots'[i] # NoShot
        BY <1>2, <4>1, <4>2 DEF Projections, NoShot
      <4> QED
        BY <1>2, <4>2, <4>3
    <3>2. HasCleared(q)' => /\ projector'[q].events \subseteq projected'
                            /\ \A r \in projector'[q].events : Cleared(projector'[q].day, r.at)
      BY <1>2, <1>4, <2>1 DEF DeletesOK, OwnRange
    <3> QED
      BY <3>1, <3>2
  <2> QED
    BY <1>3, <1>4, <2>1 DEF OwnRange, Cleared
<1>8. MetApart'
  <2>1. ASSUME NEW q \in Projectors \ {p}, NEW k \in Projectors \ {p}, q # k
        PROVE  /\ Deleting(q) /\ Deleting(k) => {projector'[q].day, projector'[k].day} \in met'
               /\ HasCleared(q) /\ HasCleared(k) => projector'[q].shots \cap projector'[k].shots = {}
    BY <1>2, <2>1 DEF DeletesOK, MetApart
  <2> QED
    BY <1>3, <1>4, <2>1 DEF MetApart
<1>9. RowsWithShots'
  <2>1. ASSUME NEW q \in Projectors \ {p}, HasCleared(q)
        PROVE  /\ \A r \in projected' : r.at \in projector'[q].shots => r \in projector'[q].events
               /\ \A i \in detailed' : i \in projector'[q].shots => i \in projector'[q].details
               /\ \A r, s \in projected' :
                    r.at = s.at /\ r \in projector'[q].events => s \in projector'[q].events
    <3>1. Deleting(q) /\ \A i \in projector[q].shots : shots[i] # NoShot
      BY <2>1 DEF Deleting, HasCleared, DeletesOK, OwnRange
    <3>2. ASSUME NEW r \in projected', r.at \in projector'[q].shots PROVE r \in projector'[q].events
      <4>1. r.at \in projector[q].shots /\ r.at \notin run.shots
        BY <1>2, <3>2
      <4>2. r \notin run.rows
        BY <1>2, <3>1, <4>1
      <4> QED
        BY <1>2, <2>1, <3>2, <4>1, <4>2 DEF DeletesOK, RowsWithShots
    <3>3. \A i \in detailed' : i \in projector'[q].shots => i \in projector'[q].details
      BY <1>2, <2>1 DEF DeletesOK, RowsWithShots
    <3>4. ASSUME NEW r \in projected', NEW s \in projected', r.at = s.at, r \in projector'[q].events
          PROVE  s \in projector'[q].events
      <4>1. r \in projected /\ r \in projector[q].events /\ r \notin run.events
        BY <1>2, <2>1, <3>1, <3>4 DEF DeletesOK, OwnRange
      <4>2. s \notin run.rows
        <5>1. shots[r.at] # NoShot
          BY <4>1 DEF EventsExplained
        <5>2. r.at \notin run.shots
          BY <1>2, <4>1 DEF DeletesOK, RowsWithShots
        <5> QED
          BY <1>2, <3>4, <5>1, <5>2
      <4> QED
        BY <1>2, <2>1, <3>4, <4>1, <4>2 DEF DeletesOK, RowsWithShots
    <3> QED
      BY <3>2, <3>3, <3>4
  <2> QED
    BY <1>3, <1>4, <2>1 DEF RowsWithShots
<1>10. NothingNew'
  <2>1. ASSUME NEW q \in Projectors \ {p}, NEW i \in Ends,
               Deleting(q), Cleared(projector[q].day, i), shots'[i] \in Projections, ~Crossed(i)
        PROVE  i \in projector'[q].shots
    <3>1. ~Cleared(run.day, i)
      BY <1>5, <2>1 DEF Crossed
    <3>2. ~(\E r \in run.rows : r.at = i) /\ i \notin run.shots
      BY <1>2, <1>6, <3>1 DEF DeletesOK, OwnRange
    <3>3. shots'[i] = shots[i]
      BY <1>2, <3>2
    <3>4. i \in projector[q].shots
      BY <2>1, <3>3 DEF DeletesOK, NothingNew
    <3> QED
      BY <1>2, <3>2, <3>4
  <2>2. ASSUME NEW q \in Projectors \ {p}, HasCleared(q), {projector[q].day} \notin met,
               NEW r \in projected', DayOf(r.at) = projector[q].day
        PROVE  r \in projector'[q].events
    <3>1. run.day # projector[q].day
      <4>1. Deleting(q)
        BY <2>2 DEF Deleting, HasCleared
      <4> QED
        BY <1>5, <2>2, <4>1
    <3>2. r \notin run.rows
      BY <2>2, <3>1 DEF RowsOfOneDay
    <3> QED
      BY <1>2, <2>2, <3>2 DEF DeletesOK, NothingNew
  <2>3. \A i \in Ends : Crossed(i)' <=> Crossed(i)
    BY <1>2 DEF Crossed, Cleared
  <2> QED
    BY <1>2, <1>3, <1>4, <2>1, <2>2, <2>3 DEF NothingNew, Cleared, DayOf
<1> QED
  BY <1>7, <1>8, <1>9, <1>10 DEF DeletesOK

\* The snapshot writer waits where a projection has deleted.
LEMMA InsertDeletes ==
  ASSUME TypeOK, DeletesOK, NEW i \in LiveEnds, InsertLiveSnapshot(i)
  PROVE  DeletesOK'
<1>1. /\ projector' = projector /\ projected' = projected /\ met' = met
      /\ detailed' = detailed \cup {i} /\ i \in Ends
      /\ \A q \in Projectors : HasCleared(q) => i \notin projector[q].shots
      /\ \A k \in Ends : shots'[k] = IF k = i THEN Live ELSE shots[k]
  BY TimeAssumption DEF InsertLiveSnapshot, HasCleared, TypeOK
<1>2. \A q \in Projectors : (Deleting(q)' <=> Deleting(q)) /\ (HasCleared(q)' <=> HasCleared(q))
  BY <1>1 DEF Deleting, HasCleared
<1>3. OwnRange'
  <2>1. \A q \in Projectors : projector[q].shots \subseteq Ends
    BY ProjectionFields DEF TypeOK
  <2> QED
    BY <1>1, <1>2, <2>1 DEF DeletesOK, OwnRange, Live, NoShot, Cleared
<1>4. MetApart'
  BY <1>1, <1>2 DEF DeletesOK, MetApart
<1>5. RowsWithShots'
  BY <1>1, <1>2 DEF DeletesOK, RowsWithShots
<1>6. NothingNew'
  <2>1. \A k \in Ends : /\ shots'[k] \in Projections => shots[k] \in Projections
                        /\ Crossed(k)' <=> Crossed(k)
    BY <1>1 DEF Projections, Live, Crossed, Cleared
  <2> QED
    BY <1>1, <1>2, <2>1 DEF DeletesOK, NothingNew, Cleared, DayOf
<1> QED
  BY <1>3, <1>4, <1>5, <1>6 DEF DeletesOK

LEMMA DeletesStep ==
  TypeOK /\ RowsOfOneDay /\ EventsExplained /\ DeletesOK /\ [Next]_vars => DeletesOK'
<1> SUFFICES ASSUME TypeOK, RowsOfOneDay, EventsExplained, DeletesOK, [Next]_vars PROVE DeletesOK'
  OBVIOUS
<1>0. projector \in [Projectors -> Projection]
  BY DEF TypeOK
<1>1. CASE UNCHANGED <<asked, met, projector>>
  BY <1>1, QuietDeletes
<1>2. ASSUME NEW p \in Projectors, NEW d \in Days, LoadRawRows(p, d) PROVE DeletesOK'
  <2>1. UNCHANGED <<asked, met>>
    BY <1>2 DEF LoadRawRows
  <2>2. \A q \in Projectors : projector'[q] = projector[q] \/ projector'[q].pc \in {"idle", "loaded"}
    BY <1>0, <1>2 DEF LoadRawRows, NotProjecting
  <2> QED
    BY <2>1, <2>2, QuietDeletes
<1>3. ASSUME NEW p \in Projectors, ProjectionFails(p) PROVE DeletesOK'
  <2>1. UNCHANGED <<asked, met>>
    BY <1>3 DEF ProjectionFails
  <2>2. \A q \in Projectors : projector'[q] = projector[q] \/ projector'[q].pc \in {"idle", "loaded"}
    BY <1>0, <1>3, NothingHeld DEF ProjectionFails
  <2> QED
    BY <2>1, <2>2, QuietDeletes
<1>4. CASE UNCHANGED vars
  BY <1>1, <1>4 DEF vars, asked
<1>5. ASSUME NEW j \in Jobs, SimulatorStep(j) PROVE UNCHANGED <<asked, met, projector>>
  BY <1>5, SimulatorLeaves
<1> QED
  BY <1>1, <1>2, <1>3, <1>4, <1>5, ClearSnapshotsDeletes, ClearEventsDeletes, ReplaceDeletes, InsertDeletes
     DEF Next, SimulatorStep

\* What a projection that commits leaves of an interval.
LEMMA ReplaceEvents ==
  ASSUME TypeOK, RowsOfOneDay, EventsExplained, DeletesOK, NEW p \in Projectors, ReplaceProjection(p)
  PROVE  EventsExplained'
<1> DEFINE run == projector[p]
           rows == projector[p].rows
<1>1. /\ projected \subseteq RawRow /\ detailed \subseteq Ends /\ rows \subseteq RawRow
      /\ \A r \in RawRow : r.at \in Ends
  BY TimeAssumption, ProjectionFields DEF TypeOK, RawRow
<1>2. /\ HasCleared(p) /\ Deleting(p)
      /\ projected' = (projected \ run.events) \cup rows
      /\ detailed' = detailed \ run.details /\ met' = met
      /\ \A i \in Ends :
           /\ (\E r \in rows : r.at = i) => shots'[i] \in Projections
           /\ ~(\E r \in rows : r.at = i) => shots'[i] = IF i \in run.shots THEN NoShot ELSE shots[i]
      /\ \A r \in rows : shots[r.at] = NoShot \/ r.at \in run.shots
  BY Committed
<1>3. /\ \A r \in projected : r.at \in run.shots => r \in run.events
      /\ \A i \in detailed : i \in run.shots => i \in run.details
      /\ \A r, s \in projected : r.at = s.at /\ r \in run.events => s \in run.events
  BY <1>2 DEF DeletesOK, RowsWithShots
<1>4. \A i : i \in Projections => i # NoShot
  BY DEF Projections, NoShot
<1>5. \A r \in projected' : shots'[r.at] # NoShot
  BY <1>1, <1>2, <1>3, <1>4 DEF EventsExplained
<1>6. \A i \in detailed' : shots'[i] # NoShot
  BY <1>1, <1>2, <1>3, <1>4 DEF EventsExplained
<1>7. ASSUME NEW i \in Ends, shots'[i] \in Projections
      PROVE  IF RowsAt(projected', i) = {} THEN Crossed(i) ELSE shots'[i] = Snapshot(projected', i)
  <2>1. CASE \E r \in rows : r.at = i
    <3>1. shots'[i] = Snapshot(rows, i)
      BY <2>1 DEF ReplaceProjection, ReplacedShots
    <3>2. \A r \in projected : r.at = i => r \in run.events
      BY <1>2, <1>3, <2>1 DEF EventsExplained
    <3>3. \A r : r.at = i => (r \in projected' <=> r \in rows)
      BY <1>2, <3>2
    <3> QED
      BY <2>1, <3>1, <3>3 DEF RowsAt, Snapshot
  <2>2. CASE ~(\E r \in rows : r.at = i)
    <3>1. shots'[i] = shots[i] /\ i \notin run.shots
      BY <1>2, <1>4, <1>7, <2>2
    <3>2. CASE \E r \in projected : r.at = i /\ r \in run.events
      <4>1. Crossed(i)
        <5>1. Cleared(run.day, i)
          BY <1>2, <3>2 DEF DeletesOK, OwnRange
        <5> QED
          BY <1>2, <1>7, <3>1, <5>1 DEF DeletesOK, NothingNew
      <4>2. RowsAt(projected', i) = {}
        BY <1>2, <1>3, <2>2, <3>2 DEF RowsAt
      <4> QED
        BY <4>1, <4>2
    <3>3. CASE ~(\E r \in projected : r.at = i /\ r \in run.events)
      <4>1. \A r : r.at = i => (r \in projected' <=> r \in projected)
        BY <1>2, <2>2, <3>3
      <4>2. RowsAt(projected', i) = RowsAt(projected, i) /\ Snapshot(projected', i) = Snapshot(projected, i)
        BY <4>1 DEF RowsAt, Snapshot
      <4> QED
        BY <1>7, <3>1, <4>2 DEF EventsExplained
    <3> QED
      BY <3>2, <3>3
  <2> QED
    BY <2>1, <2>2
<1>8. \A i \in Ends : Crossed(i)' <=> Crossed(i)
  BY <1>2 DEF Crossed, Cleared
<1> QED
  BY <1>5, <1>6, <1>7, <1>8 DEF EventsExplained, RowsAt, Snapshot

LEMMA EventsStep ==
  TypeOK /\ RowsOfOneDay /\ DeletesOK /\ EventsExplained /\ [Next]_vars => EventsExplained'
<1> SUFFICES ASSUME TypeOK, RowsOfOneDay, DeletesOK, EventsExplained, [Next]_vars PROVE EventsExplained'
  OBVIOUS
<1>1. CASE UNCHANGED <<shots, projected, detailed>> /\ \A days \in met : days \in met'
  <2>1. \A i \in Ends : Crossed(i) => Crossed(i)'
    BY <1>1 DEF Crossed, Cleared
  <2>2. \A i \in Ends : RowsAt(projected', i) = RowsAt(projected, i) /\ Snapshot(projected', i) = Snapshot(projected, i)
    BY <1>1
  <2>3. /\ \A r \in projected' : shots'[r.at] # NoShot
        /\ \A i \in detailed' : shots'[i] # NoShot
    BY <1>1 DEF EventsExplained
  <2>4. ASSUME NEW i \in Ends, shots'[i] \in Projections
        PROVE  IF RowsAt(projected', i) = {} THEN Crossed(i)' ELSE shots'[i] = Snapshot(projected', i)
    BY <1>1, <2>1, <2>2, <2>4 DEF EventsExplained
  <2> QED
    BY <2>3, <2>4 DEF EventsExplained, RowsAt, Snapshot
<1>2. ASSUME NEW i \in LiveEnds, InsertLiveSnapshot(i) PROVE EventsExplained'
  <2>1. /\ shots' = [shots EXCEPT ![i] = Live] /\ met' = met
        /\ projected' = projected /\ detailed' = detailed \cup {i}
    BY <1>2 DEF InsertLiveSnapshot
  <2>2. Live \notin Projections /\ Live # NoShot
    BY DEF Live, Projections, NoShot
  <2>3. /\ shots \in [Ends -> Projections \cup {Live, NoShot}] /\ i \in Ends
        /\ detailed \subseteq Ends /\ \A r \in projected : r.at \in Ends
    BY TimeAssumption DEF TypeOK, RawRow
  <2>4. /\ \A r \in projected' : shots'[r.at] # NoShot
        /\ \A k \in detailed' : shots'[k] # NoShot
    BY <2>1, <2>2, <2>3 DEF EventsExplained
  <2>5. ASSUME NEW k \in Ends, shots'[k] \in Projections
        PROVE  IF RowsAt(projected', k) = {} THEN Crossed(k)' ELSE shots'[k] = Snapshot(projected', k)
    <3>1. shots'[k] = shots[k] /\ shots[k] \in Projections
      BY <2>1, <2>2, <2>3, <2>5
    <3>2. Crossed(k)' <=> Crossed(k)
      BY <2>1 DEF Crossed, Cleared
    <3> QED
      BY <2>1, <3>1, <3>2 DEF EventsExplained
  <2> QED
    BY <2>4, <2>5 DEF EventsExplained, RowsAt, Snapshot
<1>3. ASSUME NEW p \in Projectors, NEW d \in Days, LoadRawRows(p, d)
      PROVE  UNCHANGED <<shots, projected, detailed>> /\ \A days \in met : days \in met'
  BY <1>3 DEF LoadRawRows, asked
<1>4. ASSUME NEW p \in Projectors, ClearSnapshots(p) \/ ClearEvents(p) \/ ProjectionFails(p)
      PROVE  UNCHANGED <<shots, projected, detailed>> /\ \A days \in met : days \in met'
  BY <1>4 DEF ClearSnapshots, ClearEvents, ProjectionFails, asked
<1>5. CASE UNCHANGED vars
  BY <1>1, <1>5 DEF vars
<1>6. ASSUME NEW j \in Jobs, SimulatorStep(j)
      PROVE  UNCHANGED <<shots, projected, detailed>> /\ \A days \in met : days \in met'
  BY <1>6, SimulatorLeaves DEF asked
<1> QED
  BY <1>1, <1>2, <1>3, <1>4, <1>5, <1>6, ReplaceEvents DEF Next, SimulatorStep

LEMMA KeptStep ==
  TypeOK /\ RowsOfOneDay /\ DeletesOK /\ ProjectionKept /\ [Next]_vars => ProjectionKept'
<1> SUFFICES ASSUME TypeOK, RowsOfOneDay, DeletesOK, ProjectionKept, [Next]_vars PROVE ProjectionKept'
  OBVIOUS
<1>1. ASSUME NEW p \in Projectors, ReplaceProjection(p) PROVE ProjectionKept'
  <2> DEFINE run == projector[p]
             d == projector[p].day
             rows == projector[p].rows
  <2>0. /\ projected \subseteq RawRow /\ d \in Days /\ rows \subseteq RawRow
        /\ marker \in [Days -> Int] /\ renewed \in [Days -> BOOLEAN] /\ \A r \in RawRow : r.at \in Ends
    BY ProjectionFields DEF TypeOK, RawRow
  <2>1. /\ projected' = (projected \ run.events) \cup rows /\ met' = met
        /\ marker' = [marker EXCEPT ![d] = Cardinality(rows)]
        /\ renewed' = [e \in Days |-> IF e = d THEN FALSE ELSE renewed[e] \/ e = d - 1]
        /\ HasCleared(p) /\ Deleting(p)
    BY <1>1 DEF ReplaceProjection, HasCleared, Deleting
  <2>2. \A r \in rows : DayOf(r.at) = d
    BY DEF RowsOfOneDay
  <2>3. run.events \subseteq projected /\ \A r \in run.events : Cleared(d, r.at)
    BY <2>1 DEF DeletesOK, OwnRange
  <2>4. ASSUME NEW e \in Days, marker'[e] >= 0, ~renewed'[e], {e} \notin met'
        PROVE  Cardinality(RowsOfDay(projected', e)) = marker'[e]
    <3>1. CASE e = d
      <4>1. \A r \in projected : DayOf(r.at) = d => r \in run.events
        BY <2>1, <2>4, <3>1 DEF DeletesOK, NothingNew
      <4>2. RowsOfDay(projected', e) = rows
        BY <2>1, <2>2, <3>1, <4>1 DEF RowsOfDay
      <4> QED
        BY <2>0, <2>1, <3>1, <4>2
    <3>2. CASE e # d
      <4>1. e # d - 1 /\ ~renewed[e] /\ marker'[e] = marker[e]
        BY <2>0, <2>1, <2>4, <3>2
      <4>2. \A r \in run.events : DayOf(r.at) # e
        BY <2>0, <2>3, <3>2, <4>1, DayCleared
      <4>3. RowsOfDay(projected', e) = RowsOfDay(projected, e)
        BY <2>1, <2>2, <3>2, <4>2 DEF RowsOfDay
      <4> QED
        BY <2>1, <2>4, <4>1, <4>3 DEF ProjectionKept
    <3> QED
      BY <3>1, <3>2
  <2> QED
    BY <2>4 DEF ProjectionKept, RowsOfDay, DayOf
<1>2. CASE UNCHANGED <<projected, marker, renewed>> /\ \A days \in met : days \in met'
  BY <1>2 DEF ProjectionKept, RowsOfDay, DayOf
<1>3. ASSUME NEW p \in Projectors, NEW d \in Days, LoadRawRows(p, d)
      PROVE  UNCHANGED <<projected, marker, renewed>> /\ \A days \in met : days \in met'
  BY <1>3 DEF LoadRawRows, asked
<1>4. ASSUME NEW p \in Projectors, ClearSnapshots(p) \/ ClearEvents(p) \/ ProjectionFails(p)
      PROVE  UNCHANGED <<projected, marker, renewed>> /\ \A days \in met : days \in met'
  BY <1>4 DEF ClearSnapshots, ClearEvents, ProjectionFails, asked
<1>5. CASE UNCHANGED vars
  BY <1>2, <1>5 DEF vars
<1>6. ASSUME NEW j \in Jobs, SimulatorStep(j)
      PROVE  UNCHANGED <<projected, marker, renewed>> /\ \A days \in met : days \in met'
  BY <1>6, SimulatorLeaves DEF asked
<1>7. ASSUME NEW i \in LiveEnds, InsertLiveSnapshot(i)
      PROVE  UNCHANGED <<projected, marker, renewed>> /\ \A days \in met : days \in met'
  BY <1>7 DEF InsertLiveSnapshot
<1> QED
  BY <1>1, <1>2, <1>3, <1>4, <1>5, <1>6, <1>7 DEF Next, SimulatorStep
\* One step of LifecycleForward.
ForwardStep ==
  runs' = "in_order" =>
    \A id \in IncidentIds :
      incidents'[id].status # incidents[id].status =>
        <<incidents[id].status, incidents'[id].status>> \in Forward

LEMMA LifecycleStep ==
  TypeOK /\ ReadsOK /\ AloneReads /\ StateNamesOpen /\ OrderKept /\ [Next]_vars => ForwardStep
<1> SUFFICES ASSUME TypeOK, ReadsOK, AloneReads, StateNamesOpen, OrderKept, [Next]_vars, runs' = "in_order",
                    NEW id \in IncidentIds, incidents'[id].status # incidents[id].status
             PROVE  <<incidents[id].status, incidents'[id].status>> \in Forward
  BY DEF ForwardStep
<1>0. incidents \in [IncidentIds -> Incident \cup {Absent}] /\ state.last \in Int
  BY DEF TypeOK, StateRow
<1>1. ASSUME NEW j \in Jobs, Simulate(j)
      PROVE  <<incidents[id].status, incidents'[id].status>> \in Forward
  <2>1. PICK inc \in Resolved(job[j].at, job[j].prior) :
          incidents' = IF inc.id = NoIncident THEN incidents ELSE [incidents EXCEPT ![inc.id] = inc.row]
    BY <1>1 DEF Simulate
  <2>2. runs = "in_order" /\ job[j].pc = "read" /\ UnderWay(j)
    BY <1>1 DEF Simulate, UnderWay
  <2>3. job[j].at > state.last /\ job[j].at \in Ends
    BY <2>2 DEF OrderKept, ReadsOK
  <2>4. inc.id = id /\ incidents'[id] = inc.row
    BY <1>0, <2>1
  <2>5. CASE job[j].prior = NoChange
    <3>1. inc # NoChange
      BY <2>4, NoneIsNoIncident DEF NoChange
    <3>2. PICK type \in Types, d \in Durations :
            inc = [id |-> <<type, job[j].at>>, row |-> [status |-> "active", ends |-> job[j].at + d]]
      BY <2>5, <3>1 DEF Resolved, Started
    <3>3. StartOf(id) = job[j].at /\ incidents'[id].status = "active"
      BY <2>4, <3>2 DEF StartOf
    <3>4. incidents[id].status = "absent"
      BY <1>0, <2>2, <2>3, <3>3 DEF OrderKept, Ends
    <3> QED
      BY <3>3, <3>4 DEF Forward
  <2>6. CASE job[j].prior # NoChange
    <3>1. job[j].prior.id \in OpenIn(incidents)
          /\ job[j].prior = [id |-> job[j].prior.id, row |-> incidents[job[j].prior.id]]
      BY <2>2, <2>6, AlonePrior
    <3>2. inc = [job[j].prior EXCEPT !.row = Continued(job[j].prior.row, job[j].at - 1)]
      BY <2>6 DEF Resolved
    <3>3. inc = [id |-> job[j].prior.id, row |-> Continued(incidents[job[j].prior.id], job[j].at - 1)]
      BY <3>1, <3>2
    <3>4. incidents'[id] = Continued(incidents[id], job[j].at - 1)
      BY <2>4, <3>3
    <3>5. incidents[id] \in Incident /\ incidents[id].status \in {"active", "recovering"}
      BY <1>0, <2>4, <3>1, <3>3 DEF OpenIn, Absent
    <3>6. incidents[id].status = "recovering" => incidents[id].ends <= state.last - 1
      BY <2>2 DEF OrderKept
    <3>7. incidents[id].status = "recovering" => incidents'[id].status # "active"
      BY <1>0, <2>3, <3>4, <3>5, <3>6, TimeAssumption DEF Continued, Incident, Ends
    <3>8. incidents'[id].status \in {"active", "recovering", "recovered"}
      BY <3>4, <3>5 DEF Continued, Incident
    <3> QED
      BY <3>5, <3>7, <3>8 DEF Forward
  <2> QED
    BY <2>5, <2>6
<1>2. ASSUME NEW j \in Jobs, NEW i \in Ends, LoadState(j, i) PROVE UNCHANGED incidents
  BY <1>2 DEF LoadState, simulated
<1>3. ASSUME NEW j \in Jobs, ActiveIncident(j) \/ SimulationFails(j) PROVE UNCHANGED incidents
  BY <1>3 DEF ActiveIncident, SimulationFails, simulated
<1> QED
  BY <1>1, <1>2, <1>3, OtherSteps DEF SimulatorStep, simulated

-----------------------------------------------------------------------------
(* The theorems. *)

LEMMA IInvStep == IInv /\ [Next]_vars => IInv'
BY TypeStep, FiniteStep, ReadsStep, RowsOfDayStep, AloneStep, NamesOpenStep, OrderStep, DeletesStep, EventsStep,
   KeptStep
   DEF IInv

LEMMA Invariance == Spec => []IInv
BY InitIInv, IInvStep, PTL DEF Spec

\* The state is of its type (load_state, resolve_incident, insert_raw_events,
\* replace_projection and insert_rows write no other values).
THEOREM TypeCorrect == Spec => []TypeOK
<1>1. IInv => TypeOK
  BY DEF IInv
<1> QED
  BY Invariance, <1>1, PTL

\* Runs of the simulator that do not overlap leave at most one open incident,
\* and fab_simulation_state names it (active_incident, resolve_incident,
\* update_state).
THEOREM OneOpenIncident == Spec => []StateNamesOpen
<1>1. IInv => StateNamesOpen
  BY DEF IInv
<1> QED
  BY Invariance, <1>1, PTL

\* The tables that are asked stay joined while any number of projections, the
\* simulator and the snapshot writer come between the statements of a projection
\* (the two DELETEs of replace_projection, its INSERTs and commit); only where
\* two projections were deleting at the same time can a snapshot lose its rows.
THEOREM DetailHasSnapshot == Spec => []EventsExplained
<1>1. IInv => EventsExplained
  BY DEF IInv
<1> QED
  BY Invariance, <1>1, PTL

\* A projected day is complete until the day after it is projected, whatever
\* commits between the statements of its projection, unless another projection
\* of the same day was deleting with it (replace_projection).
THEOREM DayStays == Spec => []ProjectionKept
<1>1. IInv => ProjectionKept
  BY DEF IInv
<1> QED
  BY Invariance, <1>1, PTL

\* Runs in order never take an incident back (resolve_incident).
THEOREM IncidentsGoForward == Spec => LifecycleForward
<1>1. IInv /\ [Next]_vars => ForwardStep
  BY LifecycleStep DEF IInv
<1>2. IInv /\ [Next]_vars =>
        [runs' = "in_order" =>
           \A id \in IncidentIds :
             incidents'[id].status # incidents[id].status =>
               <<incidents[id].status, incidents'[id].status>> \in Forward]_vars
  BY <1>1 DEF ForwardStep
<1> QED
  BY Invariance, <1>2, PTL DEF Spec, LifecycleForward

-----------------------------------------------------------------------------
(* The ledger of runs in order. *)

\* In order, the ledger holds no interval after the last one.
LedgerPast == runs = "in_order" => \A r \in raw : r.at <= state.last

\* The intervals of the ledger.
Told == {r.at : r \in raw}

\* resolve_incident: past its end and the time of recovery an incident has recovered.
LEMMA LateRecovers ==
  ASSUME NEW row \in Incident, NEW k \in Int, row.ends \in Nat, Continued(row, k).status # "recovered"
  PROVE  k < row.ends + RecoveryTime
<1>1. ASSUME k >= row.ends + RecoveryTime PROVE FALSE
  <2>1. Continued(row, k) = [row EXCEPT !.status = "recovered"]
    BY <1>1, TimeAssumption DEF Continued
  <2>2. QED
    BY <2>1 DEF Incident
<1>2. QED
  BY <1>1, TimeAssumption

\* What a run in order adds to the ledger: the rows of one interval that were
\* not there, about one incident that is open or about none.
LEMMA OrderedRows ==
  ASSUME TypeOK, ReadsOK, AloneReads, StateNamesOpen, OrderKept, LedgerPast, runs = "in_order",
         NEW j \in Jobs, Simulate(j)
  PROVE  LET i == job[j].at IN
         \E inc \in Resolved(i, job[j].prior) : \E seed :
           /\ i \in Ends /\ i > state.last /\ state'.last = i /\ state'.wip = state.wip + 1
           /\ raw' = raw \cup RowsOf(i, seed, Driving(inc))
           /\ incidents' = IF inc.id = NoIncident THEN incidents
                           ELSE [incidents EXCEPT ![inc.id] = inc.row]
           /\ Driving(inc) # NoIncident =>
                /\ Driving(inc) \in IncidentIds /\ StartOf(Driving(inc)) <= i
                /\ i - 1 < inc.row.ends + RecoveryTime
           /\ inc.id # NoIncident =>
                \/ StartOf(inc.id) = i
                \/ inc.id \in IncidentIds /\ inc.row.ends = incidents[inc.id].ends
<1> DEFINE i == job[j].at
<1>1. PICK inc \in Resolved(i, job[j].prior) :
        /\ raw' = Upserted(raw, RowsOf(i, job[j].state.active, Driving(inc)))
        /\ incidents' = IF inc.id = NoIncident THEN incidents
                        ELSE [incidents EXCEPT ![inc.id] = inc.row]
        /\ state' = [active |-> Driving(inc), wip |-> job[j].state.wip + 1, last |-> i]
  BY DEF Simulate
<1>2. job[j].pc = "read" /\ UnderWay(j)
  BY DEF Simulate, UnderWay
<1>3. i > state.last /\ i \in Ends /\ job[j].state = state
  BY <1>2 DEF OrderKept, ReadsOK, AloneReads
<1>4. \A r \in RowsOf(i, job[j].state.active, Driving(inc)) : r.at = i
  BY DEF RowsOf
<1>5. raw' = raw \cup RowsOf(i, job[j].state.active, Driving(inc))
  <2>1. \A r \in raw : r.at # i
    BY <1>3 DEF LedgerPast, TypeOK, RawRow, StateRow, Ends
  <2>2. QED
    BY <1>1, <1>4, <2>1 DEF Upserted, SameEvent
<1>6. CASE job[j].prior = NoChange /\ inc = NoChange
  <2>1. inc.id = NoIncident /\ Driving(inc) = NoIncident
    BY <1>6 DEF NoChange, Driving
  <2>2. QED
    BY <1>1, <1>3, <1>5, <2>1
<1>7. CASE job[j].prior = NoChange /\ inc # NoChange
  <2>1. PICK type \in Types, d \in Durations :
          inc = [id |-> <<type, i>>, row |-> [status |-> "active", ends |-> i + d]]
    BY <1>7 DEF Resolved, Started
  <2>2. inc.id \in IncidentIds /\ StartOf(inc.id) = i /\ Driving(inc) = inc.id
    BY <1>3, <2>1, NoneIsNoIncident DEF IncidentIds, StartOf, Driving
  <2>3. i - 1 < inc.row.ends + RecoveryTime
    <3>1. i \in Nat /\ d \in Nat /\ RecoveryTime \in Nat
      BY <1>3, TimeAssumption DEF Ends
    <3>2. QED
      BY <2>1, <3>1
  <2>4. StartOf(inc.id) <= i
    BY <1>3, <2>2 DEF Ends
  <2>5. QED
    BY <1>1, <1>3, <1>5, <2>2, <2>3, <2>4
<1>8. CASE job[j].prior # NoChange
  <2> DEFINE id == job[j].prior.id
  <2>1. id \in IncidentIds /\ id \in OpenIn(incidents) /\ job[j].prior = [id |-> id, row |-> incidents[id]]
    BY <1>2, <1>8, AlonePrior
  <2>2. inc = [id |-> id, row |-> Continued(incidents[id], i - 1)]
    <3>1. inc = [job[j].prior EXCEPT !.row = Continued(job[j].prior.row, i - 1)]
      BY <1>8 DEF Resolved
    <3>2. QED
      BY <2>1, <3>1
  <2>3. incidents[id] \in Incident /\ incidents[id].status # "absent"
    BY <2>1 DEF OpenIn, Absent, TypeOK
  <2>4. StartOf(id) <= i
    BY <1>3, <2>1, <2>3 DEF OrderKept, StartOf, IncidentIds, Ends, TypeOK, StateRow
  <2>5. inc.row.ends = incidents[id].ends
    BY <2>2, <2>3 DEF Continued, Incident
  <2>6. Driving(inc) # NoIncident => Driving(inc) = id /\ i - 1 < inc.row.ends + RecoveryTime
    <3>1. i \in Nat /\ RecoveryTime \in Nat /\ incidents[id].ends \in Nat
      BY <1>3, <2>3, TimeAssumption DEF Ends, Incident
    <3>2. inc.row.status # "recovered" => i - 1 < incidents[id].ends + RecoveryTime
      <4>1. inc.row = Continued(incidents[id], i - 1)
        BY <2>2
      <4>2. QED
        BY <2>3, <3>1, <4>1, LateRecovers
    <3>3. inc.id = id
      BY <2>2
    <3>4. QED
      BY <2>5, <3>2, <3>3 DEF Driving
  <2>7. QED
    BY <1>1, <1>3, <1>5, <2>1, <2>2, <2>4, <2>5, <2>6
<1>9. QED
  BY <1>6, <1>7, <1>8

\* A run that commits an interval: the story goes on where it stopped, and the
\* state has counted the new row.
LEMMA LedgerSimulated ==
  ASSUME TypeOK, FiniteTables, ReadsOK, AloneReads, StateNamesOpen, OrderKept, LedgerPast, LedgerInOrder,
         runs = "in_order", NEW j \in Jobs, Simulate(j)
  PROVE  LedgerPast' /\ LedgerInOrder'
<1> DEFINE i == job[j].at
<1>1. PICK inc, seed :
        /\ inc \in Resolved(i, job[j].prior)
        /\ i \in Ends /\ i > state.last /\ state'.last = i /\ state'.wip = state.wip + 1
        /\ raw' = raw \cup RowsOf(i, seed, Driving(inc))
        /\ incidents' = IF inc.id = NoIncident THEN incidents
                        ELSE [incidents EXCEPT ![inc.id] = inc.row]
        /\ Driving(inc) # NoIncident =>
             /\ Driving(inc) \in IncidentIds /\ StartOf(Driving(inc)) <= i
             /\ i - 1 < inc.row.ends + RecoveryTime
        /\ inc.id # NoIncident =>
             \/ StartOf(inc.id) = i
             \/ inc.id \in IncidentIds /\ inc.row.ends = incidents[inc.id].ends
  BY OrderedRows
<1> DEFINE new == RowsOf(i, seed, Driving(inc))
<1>2. \A r \in new : r.at = i /\ r.incident = Driving(inc)
  BY DEF RowsOf
<1>3. /\ \A r \in raw : r.at \in Ends /\ r.at <= state.last /\ r.incident \in IncidentIds \cup {NoIncident}
      /\ state.last \in Int /\ i \in Int
  BY <1>1 DEF LedgerPast, TypeOK, RawRow, StateRow, Ends
<1>4. LedgerPast'
  BY <1>1, <1>2, <1>3 DEF LedgerPast, Ends
<1>5. \A r, s \in raw' : r.at = s.at => r.incident = s.incident
  <2>1. \A r, s \in raw : r.at = s.at => r.incident = s.incident
    BY DEF LedgerInOrder
  <2>2. \A r \in raw : r.at # i
    BY <1>1, <1>3 DEF Ends
  <2>3. QED
    BY <1>1, <1>2, <2>1, <2>2
<1>6. ASSUME NEW r \in raw', r.incident # NoIncident
      PROVE  StartOf(r.incident) <= r.at /\ r.at - 1 < incidents'[r.incident].ends + RecoveryTime
  <2>1. CASE r \in raw
    <3>1. StartOf(r.incident) <= r.at /\ r.at - 1 < incidents[r.incident].ends + RecoveryTime
      BY <1>6, <2>1 DEF LedgerInOrder
    <3>2. r.incident \in IncidentIds /\ StartOf(r.incident) # i
      BY <1>1, <1>3, <1>6, <2>1, <3>1 DEF StartOf, IncidentIds, Ends
    <3>3. incidents'[r.incident].ends = incidents[r.incident].ends
      BY <1>1, <3>2 DEF TypeOK
    <3>4. QED
      BY <3>1, <3>3
  <2>2. CASE r \in new
    <3>1. r.at = i /\ r.incident = Driving(inc) /\ Driving(inc) # NoIncident
      BY <1>2, <1>6, <2>2
    <3>2. inc.id = Driving(inc) /\ inc.id # NoIncident
      BY <3>1 DEF Driving
    <3>3. incidents'[inc.id] = inc.row
      BY <1>1, <3>1, <3>2 DEF TypeOK
    <3>4. QED
      BY <1>1, <3>1, <3>2, <3>3
  <2>3. QED
    BY <1>1, <2>1, <2>2
<1>7. state'.wip = Cardinality({r.at : r \in raw'})
  <2>1. {r.at : r \in raw'} = Told \cup {i} /\ i \notin Told
    <3>1. \E r \in new : r.at = i
      <4>1. [at |-> i, kind |-> "routine", key |-> NoIncident, incident |-> Driving(inc)] \in new
        BY DEF RowsOf
      <4>2. QED
        BY <4>1
    <3>2. {r.at : r \in raw'} = Told \cup {i}
      <4>1. raw' = raw \cup new
        BY <1>1
      <4>2. QED
        BY <1>2, <3>1, <4>1 DEF Told
    <3>3. i \notin Told
      BY <1>1, <1>3 DEF Told, Ends
    <3>4. QED
      BY <3>2, <3>3
  <2>2. IsFiniteSet(Told)
    <3>1. IsFiniteSet(Ends) /\ Told \subseteq Ends
      BY <1>3, TimeAssumption, FS_Interval DEF Ends, Told
    <3>2. QED
      BY <3>1, FS_Subset
  <2>3. Cardinality(Told \cup {i}) = Cardinality(Told) + 1
    BY <2>1, <2>2, FS_AddElement
  <2>4. state.wip = Cardinality(Told)
    BY DEF LedgerInOrder, Told
  <2>5. QED
    BY <1>1, <2>1, <2>3, <2>4
<1>8. QED
  BY <1>4, <1>5, <1>6, <1>7 DEF LedgerInOrder

\* Every step, a failed run and a run out of order included.
LEMMA LedgerStep ==
  /\ TypeOK /\ FiniteTables /\ ReadsOK /\ AloneReads /\ StateNamesOpen /\ OrderKept
  /\ LedgerPast /\ LedgerInOrder /\ [Next]_vars
  => LedgerPast' /\ LedgerInOrder'
<1> SUFFICES ASSUME TypeOK, FiniteTables, ReadsOK, AloneReads, StateNamesOpen, OrderKept,
                    LedgerPast, LedgerInOrder, [Next]_vars
             PROVE  LedgerPast' /\ LedgerInOrder'
  OBVIOUS
<1>1. CASE UNCHANGED simulated /\ (runs' = "in_order" => runs = "in_order")
  BY <1>1 DEF simulated, LedgerPast, LedgerInOrder
<1>2. ASSUME NEW j \in Jobs, NEW i \in Ends, LoadState(j, i)
      PROVE  UNCHANGED simulated /\ (runs' = "in_order" => runs = "in_order")
  BY <1>2 DEF LoadState
<1>3. ASSUME NEW j \in Jobs, ActiveIncident(j) \/ SimulationFails(j)
      PROVE  UNCHANGED simulated /\ (runs' = "in_order" => runs = "in_order")
  BY <1>3 DEF ActiveIncident, SimulationFails
<1>4. ASSUME NEW j \in Jobs, Simulate(j) PROVE LedgerPast' /\ LedgerInOrder'
  <2>1. runs' = runs
    BY <1>4 DEF Simulate
  <2>2. CASE runs = "in_order"
    BY <1>4, <2>2, LedgerSimulated
  <2>3. CASE runs # "in_order"
    BY <2>1, <2>3 DEF LedgerPast, LedgerInOrder
  <2>4. QED
    BY <2>2, <2>3
<1>5. QED
  BY <1>1, <1>2, <1>3, <1>4, OtherSteps DEF SimulatorStep

\* Nothing is told before the first run.
LEMMA LedgerInit == Init => LedgerPast /\ LedgerInOrder
<1>1. Cardinality({}) = 0
  BY FS_EmptySet
<1>2. {r.at : r \in {}} = {}
  OBVIOUS
<1>3. QED
  BY <1>1, <1>2 DEF Init, LedgerPast, LedgerInOrder, DefaultState

\* As long as the simulator is run for later and later intervals, one run at a
\* time, the ledger tells one story and the state's WIP has counted it, however
\* many runs failed in between (insert_raw_events, resolve_incident,
\* update_state).
THEOREM OneStory == Spec => []LedgerInOrder
<1>1. IInv => TypeOK /\ FiniteTables /\ ReadsOK /\ AloneReads /\ StateNamesOpen /\ OrderKept
  BY DEF IInv
<1>2. QED
  BY Invariance, LedgerInit, LedgerStep, <1>1, PTL DEF Spec

=============================================================================
