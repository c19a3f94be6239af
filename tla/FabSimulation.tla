---------------------------- MODULE FabSimulation ----------------------------
(***************************************************************************)
(* The synthetic process data of one FAB and the three jobs that write it: *)
(* the simulator of raw events (scripts/simulate_fab_raw_events.py), the   *)
(* daily projection of raw events into the tables that are asked           *)
(* (scripts/project_fab_raw_events_daily.py) and the older writer of       *)
(* two-hour snapshots (scripts/insert_fab_live_process_snapshot.py).       *)
(*                                                                         *)
(* Time is counted in intervals of the schedule: interval i covers the     *)
(* time from i - 1 to i, its rows carry an event_time inside it and        *)
(* created_at = i.  Every job is one PostgreSQL transaction at READ        *)
(* COMMITTED; nothing keeps two jobs apart, so each statement that reads,  *)
(* a DELETE included, is an action of its own.  The INSERTs and upserts of *)
(* a job read nothing and keep their rows from the others until the end:   *)
(* they are one action with the commit.                                    *)
(***************************************************************************)
EXTENDS Integers, FiniteSets

CONSTANTS
  Jobs,          \* bound: runs of the simulator, each started at any time
  Projectors,    \* bound: runs of the projection at the same time
  Horizon,       \* bound: last interval
  DayLength,     \* intervals of a KST day
  LiveEnds,      \* interval ends the snapshot writer may be run for (full hours)
  Types,         \* types of incidents
  Durations,     \* intervals until an incident is expected to end
  RecoveryTime   \* intervals a recovery takes (40 minutes)

Ends == 1..Horizon
Days == 0..((Horizon - 1) \div DayLength)

ASSUME TimeAssumption ==
  /\ Horizon \in Nat \ {0} /\ DayLength \in Nat \ {0} /\ RecoveryTime \in Nat
  /\ Durations \subseteq Nat \ {0} /\ LiveEnds \subseteq Ends
ASSUME TypesAssumption == "none" \notin Types

\* The id of an incident is made of its type and the minute it started in.
IncidentIds == Types \X Ends
NoIncident == <<"none", 0>>
StartOf(id) == id[2]

VARIABLES
  raw,        \* fab_process_raw_events: the ledger
  incidents,  \* fab_incidents
  state,      \* the row of fab_simulation_state
  shots,      \* live_process_snapshots, by interval end
  projected,  \* rows of live_process_events the projection wrote
  detailed,   \* interval ends live_process_events has rows of the snapshot writer for
  marker,     \* fab_projection_runs: event_rows by day
  renewed,    \* history: the day after was projected later
  met,        \* history: pairs of days whose projections were deleting at the same time
  job,        \* runs of the simulator
  projector,  \* runs of the projection
  runs        \* history of the simulator's runs: "in_order" while each was started
              \* after the one before it had ended and for a later interval,
              \* "serial" while none overlapped, else "overlapped"

vars == <<raw, incidents, state, shots, projected, detailed, marker, renewed, met, job, projector, runs>>

\* Rows of an interval: the routine ones have the same ids in every run of it;
\* the row of the incident is named by the incident's type; the types, hence
\* the ids, of the random ones follow the seed, which holds the incident the
\* state named.  incident is what the severities of the rows come from.
RawRow ==
  [at : Ends, kind : {"routine", "random", "incident"},
   key : IncidentIds \cup {NoIncident} \cup (Types \X {0}), incident : IncidentIds \cup {NoIncident}]

\* ends: the first interval start at which the incident is expected to be over.
Incident == [status : {"active", "recovering", "recovered"}, ends : Nat]
Absent == [status |-> "absent", ends |-> 0]
OpenIn(rows) == {id \in IncidentIds : rows[id].status \in {"active", "recovering"}}

\* wip: wip_level, as the number of intervals whose rows it has taken in.
StateRow == [active : IncidentIds \cup {NoIncident}, wip : Nat, last : 0..Horizon]
DefaultState == [active |-> NoIncident, wip |-> 0, last |-> 0]

\* A snapshot: of the projection (a row with a severity makes it an incident)
\* or of the snapshot writer, which draws its event.
Projections == {"normal", "incident"}
Live == "live"
NoShot == "absent"

NoChange == [id |-> NoIncident, row |-> Absent]
Idle == [pc |-> "waiting", at |-> 0, state |-> DefaultState, prior |-> NoChange]
Over == [Idle EXCEPT !.pc = "over"]
\* What a projection has read, and the committed rows its DELETEs have met.
Projection ==
  [pc : {"idle", "loaded", "clearing", "cleared"}, day : Days, rows : SUBSET RawRow,
   shots : SUBSET Ends, events : SUBSET RawRow, details : SUBSET LiveEnds]
NotProjecting == [pc |-> "idle", day |-> 0, rows |-> {}, shots |-> {}, events |-> {}, details |-> {}]

Init ==
  /\ raw = {} /\ incidents = [id \in IncidentIds |-> Absent] /\ state = DefaultState
  /\ shots = [i \in Ends |-> NoShot] /\ projected = {} /\ detailed = {}
  /\ marker = [d \in Days |-> -1] /\ renewed = [d \in Days |-> FALSE] /\ met = {}
  /\ job = [j \in Jobs |-> Idle] /\ runs = "in_order"
  /\ projector = [p \in Projectors |-> NotProjecting]

-----------------------------------------------------------------------------
(* The simulator. *)

simulated == <<raw, incidents, state>>
asked == <<shots, projected, detailed, marker, renewed>>
derived == <<asked, met, projector>>

UnderWay(j) == job[j].pc \in {"loaded", "read"}

\* run_simulation for the interval that ends at i, the last one or, with
\* --run-at, any other; create_tables and load_state.
LoadState(j, i) ==
  /\ job[j].pc = "waiting"
  /\ job' = [job EXCEPT ![j] = [Idle EXCEPT !.pc = "loaded", !.at = i, !.state = state]]
  /\ runs' = IF \E k \in Jobs : UnderWay(k) THEN "overlapped"
             ELSE IF i <= state.last /\ runs = "in_order" THEN "serial"
             ELSE runs
  /\ UNCHANGED <<simulated, derived>>

\* A fault: an incident that is recovering is not continued.
PriorsActive ==
  LET open == {id \in IncidentIds : incidents[id].status = "active"}
  IN  IF open = {} THEN {NoChange} ELSE {[id |-> id, row |-> incidents[id]] : id \in open}

\* active_incident: the open incident that started last.
Priors ==
  LET open == OpenIn(incidents)
  IN  IF open = {} THEN {NoChange}
      ELSE {[id |-> id, row |-> incidents[id]] :
              id \in {id \in open : \A other \in open : StartOf(other) <= StartOf(id)}}

ActiveIncident(j) ==
  /\ job[j].pc = "loaded"
  /\ \E inc \in Priors : job' = [job EXCEPT ![j] = [pc |-> "read", at |-> @.at, state |-> @.state, prior |-> inc]]
  /\ UNCHANGED <<simulated, derived, runs>>

\* A fault: the end of the recovery itself belongs to no case.
ContinuedStrict(row, start) ==
  CASE start > row.ends + RecoveryTime -> [row EXCEPT !.status = "recovered"]
    [] start >= row.ends /\ start < row.ends + RecoveryTime -> [row EXCEPT !.status = "recovering"]
    [] OTHER -> [row EXCEPT !.status = "active"]

\* resolve_incident, for the interval that starts at `start`.
Continued(row, start) ==
  CASE start >= row.ends + RecoveryTime -> [row EXCEPT !.status = "recovered"]
    [] start >= row.ends /\ start < row.ends + RecoveryTime -> [row EXCEPT !.status = "recovering"]
    [] OTHER -> [row EXCEPT !.status = "active"]

Started(i) ==
  {[id |-> <<type, i>>, row |-> [status |-> "active", ends |-> i + d]] : type \in Types, d \in Durations}

Resolved(i, prior) ==
  IF prior = NoChange THEN Started(i) \cup {NoChange}
  ELSE {[prior EXCEPT !.row = Continued(prior.row, i - 1)]}

\* A fault: the interval an incident recovers in is still driven by it.
DrivingAlways(inc) == inc.id

\* A recovered incident no longer drives the rows of the interval, but no new
\* one starts in the interval it recovers in.
Driving(inc) == IF inc.id # NoIncident /\ inc.row.status # "recovered" THEN inc.id ELSE NoIncident

RowsOf(i, seed, driving) ==
  {[at |-> i, kind |-> "routine", key |-> NoIncident, incident |-> driving],
   [at |-> i, kind |-> "random", key |-> seed, incident |-> driving]}
  \cup (IF driving = NoIncident THEN {}
        ELSE {[at |-> i, kind |-> "incident", key |-> <<driving[1], 0>>, incident |-> driving]})

\* insert_raw_events: ON CONFLICT (event_id) DO UPDATE.
SameEvent(r, s) == r.at = s.at /\ r.kind = s.kind /\ r.key = s.key
Upserted(table, rows) == {r \in table : \A s \in rows : ~SameEvent(r, s)} \cup rows

\* The rows of the run, its incident and its state are written and committed.
\* What the run has read may be old by then; the incident is written by id.
Simulate(j) ==
  /\ job[j].pc = "read"
  /\ \E inc \in Resolved(job[j].at, job[j].prior) :
       /\ raw' = Upserted(raw, RowsOf(job[j].at, job[j].state.active, Driving(inc)))
       /\ incidents' = IF inc.id = NoIncident THEN incidents
                       ELSE [incidents EXCEPT ![inc.id] = inc.row]
       /\ state' = [active |-> Driving(inc), wip |-> job[j].state.wip + 1, last |-> job[j].at]
  /\ job' = [job EXCEPT ![j] = Over]
  /\ UNCHANGED <<derived, runs>>

\* The run is ended by an error or a lost connection: all is rolled back, and
\* the schedule does not come back to the interval.
SimulationFails(j) ==
  /\ UnderWay(j)
  /\ job' = [job EXCEPT ![j] = Over]
  /\ UNCHANGED <<simulated, derived, runs>>

-----------------------------------------------------------------------------
(* The daily projection. *)

DayOf(i) == (i - 1) \div DayLength
RowsOfDay(table, d) == {r \in table : DayOf(r.at) = d}

\* load_raw_rows: by event_time, from the start of the day and before its end.
LoadRawRows(p, d) ==
  /\ projector[p].pc = "idle"
  /\ projector' = [projector EXCEPT ![p] = [NotProjecting EXCEPT !.pc = "loaded", !.day = d,
                                                               !.rows = RowsOfDay(raw, d)]]
  /\ UNCHANGED <<simulated, asked, met, job, runs>>

\* build_snapshots: one per interval of the rows, the most severe row names it.
Snapshot(rows, i) ==
  IF \E r \in rows : r.at = i /\ r.incident # NoIncident THEN "incident" ELSE "normal"

\* A fault: the first interval of the next day is taken for the end of this one.
ClearedNext(d, i) == i >= d * DayLength /\ i <= (d + 1) * DayLength + 1

\* DELETE ... WHERE interval_end >= start AND interval_end <= end of the day.
Cleared(d, i) == i >= d * DayLength /\ i <= (d + 1) * DayLength

Deleting(p) == projector[p].pc \in {"clearing", "cleared"}

\* replace_projection: the DELETE of snapshots begins, and meets those that are
\* committed by now.
ClearSnapshots(p) ==
  /\ projector[p].pc = "loaded"
  /\ projector' = [projector EXCEPT ![p].pc = "clearing",
                      ![p].shots = {i \in Ends : Cleared(projector[p].day, i) /\ shots[i] # NoShot}]
  /\ met' = met \cup {{projector[p].day, projector[q].day} : q \in {q \in Projectors \ {p} : Deleting(q)}}
  /\ UNCHANGED <<simulated, asked, job, runs>>

\* It has locked them all, none of them deleted by a transaction that goes on,
\* and the DELETE of events begins.
ClearEvents(p) ==
  /\ projector[p].pc = "clearing"
  /\ \A q \in Projectors \ {p} : projector[q].pc = "cleared" => projector[q].shots \cap projector[p].shots = {}
  /\ projector' = [projector EXCEPT ![p].pc = "cleared",
                      ![p].events = {r \in projected : Cleared(projector[p].day, r.at)},
                      ![p].details = {i \in detailed : Cleared(projector[p].day, i)}]
  /\ UNCHANGED <<simulated, asked, met, job, runs>>

\* The plain INSERTs meet no row but those the run deletes itself.
Insertable(run) ==
  \A r \in run.rows :
    /\ shots[r.at] = NoShot \/ r.at \in run.shots
    /\ \A s \in projected \ run.events : ~SameEvent(r, s)

\* Another DELETE that waited for the rows a run has deleted finds them gone.
Ended(p) ==
  [q \in Projectors |->
     IF q = p THEN NotProjecting
     ELSE [projector[q] EXCEPT !.shots = @ \ projector[p].shots,
                               !.events = @ \ projector[p].events,
                               !.details = @ \ projector[p].details]]

\* What the snapshots are once a run's have replaced those it deleted.
ReplacedShots(run) ==
  [i \in Ends |-> IF \E r \in run.rows : r.at = i THEN Snapshot(run.rows, i)
                  ELSE IF i \in run.shots THEN NoShot ELSE shots[i]]

\* A fault: only the rows of the projection itself are deleted from the detail table.
ReplaceOwnRows(p) ==
  LET run == projector[p] IN
  /\ run.pc = "cleared" /\ Insertable(run)
  /\ projected' = (projected \ run.events) \cup run.rows
  /\ shots' = ReplacedShots(run)
  /\ marker' = [marker EXCEPT ![run.day] = Cardinality(run.rows)]
  /\ renewed' = [e \in Days |-> IF e = run.day THEN FALSE ELSE renewed[e] \/ e = run.day - 1]
  /\ projector' = Ended(p)
  /\ UNCHANGED <<simulated, detailed, met, job, runs>>

\* The rest of replace_projection, and the commit: the events met are deleted,
\* snapshots, events and marker written.
ReplaceProjection(p) ==
  LET run == projector[p] IN
  /\ run.pc = "cleared" /\ Insertable(run)
  /\ projected' = (projected \ run.events) \cup run.rows
  /\ detailed' = detailed \ run.details
  /\ shots' = ReplacedShots(run)
  /\ marker' = [marker EXCEPT ![run.day] = Cardinality(run.rows)]
  /\ renewed' = [e \in Days |-> IF e = run.day THEN FALSE ELSE renewed[e] \/ e = run.day - 1]
  /\ projector' = Ended(p)
  /\ UNCHANGED <<simulated, met, job, runs>>

\* An error, a row of another job met by the plain INSERTs, a deadlock: rolled back.
ProjectionFails(p) ==
  /\ projector[p].pc # "idle" /\ projector' = [projector EXCEPT ![p] = NotProjecting]
  /\ UNCHANGED <<simulated, asked, met, job, runs>>

-----------------------------------------------------------------------------
(* The snapshot writer. *)

\* main, for the interval that ends at i: insert_rows and insert_detail_rows, and
\* the commit.  What get_prior_state reads before only weighs the event that is
\* drawn.  An upsert waits for a projection that has deleted the row.
InsertLiveSnapshot(i) ==
  /\ \A p \in Projectors : projector[p].pc = "cleared" => i \notin projector[p].shots \cup projector[p].details
  /\ shots' = [shots EXCEPT ![i] = Live]
  /\ detailed' = detailed \cup {i}
  /\ UNCHANGED <<simulated, projected, marker, renewed, met, job, projector, runs>>

-----------------------------------------------------------------------------
Next ==
  \/ \E j \in Jobs :
       \/ \E i \in Ends : LoadState(j, i)
       \/ ActiveIncident(j) \/ Simulate(j) \/ SimulationFails(j)
  \/ \E p \in Projectors :
       \/ \E d \in Days : LoadRawRows(p, d)
       \/ ClearSnapshots(p) \/ ClearEvents(p) \/ ReplaceProjection(p) \/ ProjectionFails(p)
  \/ \E i \in LiveEnds : InsertLiveSnapshot(i)

Spec == Init /\ [][Next]_vars
-----------------------------------------------------------------------------
(* Properties. *)

TypeOK ==
  /\ raw \subseteq RawRow /\ projected \subseteq RawRow /\ detailed \subseteq LiveEnds
  /\ incidents \in [IncidentIds -> Incident \cup {Absent}] /\ state \in StateRow
  /\ shots \in [Ends -> Projections \cup {Live, NoShot}]
  /\ marker \in [Days -> Int] /\ renewed \in [Days -> BOOLEAN] /\ met \subseteq SUBSET Days
  /\ job \in [Jobs -> [pc : {"waiting", "loaded", "read", "over"}, at : 0..Horizon, state : StateRow,
                       prior : [id : IncidentIds \cup {NoIncident}, row : Incident \cup {Absent}]]]
  /\ projector \in [Projectors -> Projection]
  /\ runs \in {"in_order", "serial", "overlapped"}

\* As long as runs do not overlap, whatever intervals they are for and however
\* often they fail, the FAB has at most one open incident, and the state names
\* it: a run continues it, and no second one starts beside it.
StateNamesOpen == runs # "overlapped" => OpenIn(incidents) = {state.active} \ {NoIncident}

\* Runs in the order of their intervals take an incident forward only, from
\* active to recovering to recovered; steps may be left out with the intervals.
Forward ==
  {<<"absent", "active">>, <<"active", "recovering">>, <<"active", "recovered">>,
   <<"recovering", "recovered">>}
LifecycleForward ==
  [][runs' = "in_order" =>
       \A id \in IncidentIds :
         incidents'[id].status # incidents[id].status =>
           <<incidents[id].status, incidents'[id].status>> \in Forward]_vars

\* Runs in order leave a ledger that tells one story: the rows of an interval
\* are about one incident or none, which had started and whose recovery was not
\* over, and the WIP of the state has taken in each interval of the ledger once.
LedgerInOrder ==
  runs = "in_order" =>
    /\ \A r, s \in raw : r.at = s.at => r.incident = s.incident
    /\ \A r \in raw : r.incident # NoIncident =>
         /\ StartOf(r.incident) <= r.at
         /\ r.at - 1 < incidents[r.incident].ends + RecoveryTime
    /\ state.wip = Cardinality({r.at : r \in raw})

\* Projections that were deleting at the same time both covered interval i.
Crossed(i) == \E days \in met : \A d \in days : Cleared(d, i)

RowsAt(table, i) == {r \in table : r.at = i}

\* The two tables that are asked belong together, whatever statements of other
\* projections, the simulator and the snapshot writer come between two of a
\* projection: detail rows have the snapshot they are joined with, and the
\* snapshot the projection wrote is an incident iff one of its rows is.  Only
\* where two projections met (the midnight of adjacent days, or one day twice)
\* may a snapshot be left with none of its rows; never with some of them.
EventsExplained ==
  /\ \A r \in projected : shots[r.at] # NoShot
  /\ \A i \in detailed : shots[i] # NoShot
  /\ \A i \in Ends : shots[i] \in Projections =>
       IF RowsAt(projected, i) = {} THEN Crossed(i) ELSE shots[i] = Snapshot(projected, i)

\* What the projection has written for a day stays, to the number of rows its
\* marker names, until the day after it is projected, also with the projection
\* of another day at the same time; two of the same day may leave rows of both.
ProjectionKept ==
  \A d \in Days :
    marker[d] >= 0 /\ ~renewed[d] /\ {d} \notin met => Cardinality(RowsOfDay(projected, d)) = marker[d]

\* What the daily projection is for (docs/talentlab_task_3342_detailed_report.md:356
\* and the marker): the raw rows of the day can be asked from then on.
ProjectedDayKept == \A d \in Days : marker[d] >= 0 => Cardinality(RowsOfDay(projected, d)) = marker[d]

=============================================================================
