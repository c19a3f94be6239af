------------------------------ MODULE Text2Sql ------------------------------
(***************************************************************************)
(* One data question, from the catalog to the rows: answer_question and    *)
(* plan_text2sql of sub_agent/text2sql.py as the text2sql node of the      *)
(* graph calls them.  The catalog of each FAB asked for is read, the       *)
(* question is declined, answered by a template or given to a model that   *)
(* has two attempts, each a semantic plan and an SQL text checked against  *)
(* it, and the SQL that passed is run.  Tables are loaded and dropped      *)
(* meanwhile, and the database may be out of reach at every access.        *)
(*                                                                         *)
(* A question is a record: what it names and which of the patterns the     *)
(* code looks for ("words") occur in it.  Of an SQL text the model keeps   *)
(* what the checks tell apart.                                             *)
(***************************************************************************)
EXTENDS Naturals, Sequences

CONSTANTS
  Fabs,         \* FABs that exist (ALLOWED_FABS)
  Foreign,      \* a FAB number a question may name that is none of them
  NoFab,        \* no FAB named
  Families,     \* logical tables; each FAB may have one table of each
  Table,        \* tables that may exist: <<FAB, family>>
  SourceType,   \* kind of data in a family (source_type)
  LineFamilies, \* families with a column for the production line
  MetricFamilies, \* families with a column of the metric asked for
  Questions,    \* questions that are asked
  Written,      \* sets of tables the model may write a query on
  MaxChanges    \* bound: tables loaded or dropped during the question

Kinds == {"simulation_snapshot", "operational_report", "model_master", "release_plan"}

QueryTypes == {"status", "trend", "master_data_lookup", "release_plan_lookup", "unsupported"}

Words == {"change", "unclear", "counts", "product", "stock_total", "line", "snapshot", "queue",
          "simulation", "table", "record", "aggregate", "periods"}

Question == [compared : Seq(Fabs \cup {Foreign}),    \* comparison_fabs
             fab : Fabs \cup {NoFab},                \* resolve_fab
             type : QueryTypes,
             words : SUBSET Words]

ASSUME NamesAssumption == Foreign \notin Fabs /\ NoFab \notin Fabs

ASSUME FamiliesAssumption ==
  /\ SourceType \in [Families -> Kinds]
  /\ Table \subseteq Fabs \X Families
  /\ {"live_process_snapshots", "toolgroups"} \subseteq Families
  /\ SourceType["live_process_snapshots"] = "simulation_snapshot"
  /\ LineFamilies \subseteq Families
  /\ MetricFamilies \subseteq Families

ASSUME QuestionsAssumption == Questions \subseteq Question /\ Written \subseteq SUBSET Table

ASSUME BoundsAssumption == MaxChanges \in Nat

VARIABLES
  db,        \* tables the database has
  changes,   \* tables loaded or dropped so far
  question,  \* the question
  pc,        \* what the call does next
  loading,   \* FABs whose catalog is still to be read
  catalog,   \* tables found so far (database_catalog)
  attempt,   \* attempts begun by the model
  schema,    \* tables the attempt may use (schema_context["tables"])
  plan,      \* the attempt's validated plan (validated_semantic_plan)
  candidate, \* the query planned last: its status, SQL and semantic plan
  result,    \* what the node returns
  ran,       \* tables the query has read
  outage     \* the database was out of reach

outsideVars == <<db, changes, question>>
draftVars == <<attempt, schema, plan, candidate>>
vars == <<outsideVars, pc, loading, catalog, draftVars, result, ran, outage>>

-----------------------------------------------------------------------------
(* Tables and SQL texts                                                    *)

Snapshots(f) == <<f, "live_process_snapshots">>

Kind(t) == SourceType[t[2]]

\* Tables of one FAB: a catalog is bound to the FAB of the question.
Own(f) == {t \in catalog : t[1] = f}

NoPlan == [by |-> 0, tables |-> {}]

Plan == [by : 0..2, tables : SUBSET Table]

\* keeps: the text has the periods the question names; follows: it does what the plan says.
Sql == [tables : SUBSET Table, readOnly : BOOLEAN, keeps : BOOLEAN, follows : BOOLEAN]

\* A text rendered by code, from a template or from a plan.
Rendered(T, keeps) == [tables |-> T, readOnly |-> TRUE, keeps |-> keeps, follows |-> TRUE]

Simulated(T) == \A t \in T : Kind(t) = "simulation_snapshot"

Candidate == [status : {"none", "succeeded", "unsupported", "failed"}, sql : Sql, plan : Plan,
              attempt : 0..2]

NoCandidate == [status |-> "none", sql |-> Rendered({}, TRUE), plan |-> NoPlan, attempt |-> 0]

Statuses == {"succeeded", "needs_clarification", "data_unavailable", "unsupported", "failed"}

\* told: what the status stands for; rows: the FABs of its rows; plan: the semantic plan
\* attached to the result.
Result == [status : Statuses,
           told : {"rows", "no_rows", "missing", "called_missing", "declined", "failed"},
           rows : SUBSET Fabs, plan : Plan, attempt : 0..2]

NoResult == [status |-> "failed", told |-> "failed", rows |-> {}, plan |-> NoPlan, attempt |-> 0]

TypeOK ==
  /\ db \in SUBSET Table
  /\ changes \in 0..MaxChanges
  /\ question \in Questions
  /\ pc \in {"catalog", "probe", "plan", "ask_plan", "ask_sql", "review", "execute", "done"}
  /\ loading \in Seq(Fabs)
  /\ catalog \in SUBSET Table
  /\ attempt \in 0..2
  /\ schema \in SUBSET Table
  /\ plan \in Plan
  /\ candidate \in Candidate
  /\ result \in Result
  /\ ran \in SUBSET Table
  /\ outage \in BOOLEAN

-----------------------------------------------------------------------------
(* The question                                                            *)

Has(w) == w \in question.words

Comparing == Len(question.compared) > 1

\* FABs whose catalogs are read; none if one of those compared does not exist.
Targets ==
  IF Comparing
  THEN IF \E i \in DOMAIN question.compared : question.compared[i] = Foreign
       THEN << >> ELSE question.compared
  ELSE IF question.fab = NoFab THEN << >> ELSE <<question.fab>>

Init ==
  /\ db \in SUBSET Table
  /\ changes = 0
  /\ question \in Questions
  /\ pc = "catalog"
  /\ loading = Targets
  /\ catalog = {}
  /\ attempt = 0
  /\ schema = {}
  /\ plan = NoPlan
  /\ candidate = NoCandidate
  /\ result = NoResult
  /\ ran = {}
  /\ outage = FALSE

Finish(status, told) ==
  /\ pc' = "done"
  /\ result' = [NoResult EXCEPT !.status = status, !.told = told]

-----------------------------------------------------------------------------
(* The catalog (load_fab_catalog, probe_entity_sources)                    *)

\* Each FAB is read in a transaction of its own.
LoadFabCatalog ==
  /\ pc = "catalog"
  /\ loading # << >>
  /\ catalog' = catalog \cup {t \in db : t[1] = Head(loading)}
  /\ loading' = Tail(loading)
  /\ UNCHANGED <<outsideVars, pc, draftVars, result, ran, outage>>

CatalogRead ==
  /\ pc = "catalog"
  /\ loading = << >>
  /\ pc' = IF Has("record") /\ Targets # << >> THEN "probe" ELSE "plan"
  /\ UNCHANGED <<outsideVars, loading, catalog, draftVars, result, ran, outage>>

\* The probes only annotate tables; one that fails leaves its table unannotated.
ProbeEntitySources ==
  /\ pc = "probe"
  /\ pc' = "plan"
  /\ UNCHANGED <<outsideVars, loading, catalog, draftVars, result, ran, outage>>

\* A fault: the FAB whose catalog cannot be read is skipped.
CatalogSkips ==
  /\ pc = "catalog"
  /\ loading # << >>
  /\ outage' = TRUE
  /\ loading' = Tail(loading)
  /\ UNCHANGED <<outsideVars, pc, catalog, draftVars, result, ran>>

\* Whatever fails here fails the call: a part of the catalogs is never used.
CatalogFails ==
  /\ \/ pc = "catalog" /\ loading # << >>
     \/ pc = "probe"
  /\ outage' = TRUE
  /\ Finish("failed", "failed")
  /\ UNCHANGED <<outsideVars, loading, catalog, draftVars, ran>>

-----------------------------------------------------------------------------
(* Answers without a model: the early returns of plan_text2sql             *)

Metering == question.type \in {"status", "trend"}

\* build_snapshot_query finds its metrics, and nothing it does not cover.
SnapshotAsked ==
  /\ Has("snapshot")
  /\ question.words \cap {"product", "line", "aggregate", "periods"} = {}

\* data_source_type of the question, and the families its templates are about.
UsualKinds ==
  CASE question.type = "status" -> {"operational_report"}
    [] question.type = "trend" -> {"operational_report", "release_plan"}
    [] question.type = "release_plan_lookup" -> {"release_plan"}
    [] OTHER -> {"model_master"}

SimulationKnown == \E t \in catalog : Kind(t) = "simulation_snapshot"

\* What each return asks for, in the order of the code.
Early ==
  [change     |-> Has("change"),
   comparison |-> Comparing,
   clarify    |-> question.fab = NoFab \/ Has("unclear"),
   counts     |-> /\ question.type = "master_data_lookup"
                  /\ Has("counts")
                  /\ <<question.fab, "toolgroups">> \in catalog,
   product    |-> /\ Metering
                  /\ Has("product")
                  /\ \E t \in catalog : t[2] \in MetricFamilies
                  /\ \A t \in catalog : t[2] \in MetricFamilies => t[2] = "live_process_snapshots",
   total      |-> Has("stock_total") /\ Snapshots(question.fab) \in catalog,
   line       |-> Has("line") /\ \A t \in catalog : t[2] \notin LineFamilies,
   snapshot   |-> Metering /\ SnapshotAsked /\ Snapshots(question.fab) \in catalog,
   queue      |-> Metering /\ Has("queue") /\ ~ Has("simulation") /\ ~ SimulationKnown]

Order == <<"change", "comparison", "clarify", "counts", "product", "total", "line", "snapshot",
           "queue">>

\* The n-th return is the one taken; none is for n = Len(Order) + 1.
Reaches(n) ==
  /\ pc = "plan"
  /\ \A m \in 1..(n - 1) : ~ Early[Order[m]]
  /\ n \in DOMAIN Order => Early[Order[n]]

Returns(e) == \E n \in DOMAIN Order : Order[n] = e /\ Reaches(n)

\* A template's SQL passes its checks and is run as it is.
Plans(T, keeps) ==
  /\ candidate' = [status |-> "succeeded", sql |-> Rendered(T, keeps), plan |-> NoPlan,
                   attempt |-> 0]
  /\ pc' = "execute"
  /\ UNCHANGED <<outsideVars, loading, catalog, attempt, schema, plan, result, ran, outage>>

Ends(status) ==
  /\ Finish(status, IF status = "failed" THEN "failed" ELSE "declined")
  /\ UNCHANGED <<outsideVars, loading, catalog, draftVars, ran, outage>>

Decline ==
  \/ Returns("change") /\ Ends("unsupported")
  \/ (Returns("clarify") \/ Returns("total")) /\ Ends("needs_clarification")
  \/ (Returns("product") \/ Returns("line") \/ Returns("queue")) /\ Ends("data_unavailable")

\* FABs are compared on the snapshots all of them have, in one query.
PlanComparison ==
  /\ Returns("comparison")
  /\ LET T == {Snapshots(question.compared[i]) : i \in DOMAIN question.compared}
     IN IF Len(question.compared) <= 4 /\ SnapshotAsked /\ T \subseteq catalog
        THEN Plans(T, TRUE)
        ELSE Ends("data_unavailable")

PlanGrounded ==
  \/ Returns("counts") /\ Plans({<<question.fab, "toolgroups">>}, TRUE)
  \/ Returns("snapshot") /\ Plans({Snapshots(question.fab)}, TRUE)

NamesOtherTable == Has("table") /\ \E t \in catalog : Kind(t) \notin UsualKinds

FastPathAllowed ==
  /\ Reaches(Len(Order) + 1)
  /\ question.words \cap {"record", "simulation", "aggregate"} = {}
  /\ ~ NamesOtherTable
  /\ ~ (Has("queue") /\ SimulationKnown)

\* Templates of the question's own kind; a text without the periods asked for raises.
FastPath ==
  /\ FastPathAllowed
  /\ \/ question.type = "status" /\ Ends("needs_clarification")
     \/ /\ question.type # "unsupported"
        /\ \E S \in SUBSET {x \in Families : SourceType[x] \in UsualKinds} :
             /\ S # {}
             /\ {question.fab} \X S \subseteq catalog
             /\ Plans({question.fab} \X S, TRUE)
     \/ question.type # "unsupported" /\ Has("periods") /\ Ends("failed")

-----------------------------------------------------------------------------
(* The model's two attempts                                                *)

\* Tables are chosen by relevance, or all of them if none is relevant.
SelectSchema ==
  /\ Reaches(Len(Order) + 1)
  /\ IF Own(question.fab) = {}
     THEN Ends("unsupported")
     ELSE /\ schema' \in (SUBSET Own(question.fab)) \ {{}}
          /\ attempt' = 1
          /\ pc' = "ask_plan"
          /\ UNCHANGED <<outsideVars, loading, catalog, plan, candidate, result, ran, outage>>

\* The attempt's result, to be reviewed; p is the validated plan it carries.
Proposes(status, s, p) ==
  /\ candidate' = [status |-> status, sql |-> s, plan |-> p, attempt |-> attempt]
  /\ pc' = "review"
  /\ UNCHANGED <<outsideVars, loading, catalog, attempt, schema, result, ran, outage>>

\* A fault: the SQL is not compared with the plan.
ValidUnplanned(s) == s.readOnly /\ s.tables # {} /\ s.tables \subseteq schema /\ s.keeps

\* The four checks of _result_from_llm_output.
Valid(s) ==
  /\ s.readOnly
  /\ s.tables # {}
  /\ s.tables \subseteq schema
  /\ s.keeps
  /\ s.follows

Checked(s, p) ==
  IF Valid(s) THEN Proposes("succeeded", s, p) ELSE Proposes("failed", NoCandidate.sql, p)

\* A plan that names other tables than the schema's is not validated and not kept.
PlanRejected ==
  /\ pc = "ask_plan"
  /\ Proposes("failed", NoCandidate.sql, plan)
  /\ UNCHANGED plan

PlanDeclines ==
  /\ pc = "ask_plan"
  /\ plan' = [by |-> attempt, tables |-> {}]
  /\ Proposes("unsupported", NoCandidate.sql, plan')

PlanValidated ==
  /\ pc = "ask_plan"
  /\ \E T \in (SUBSET schema) \ {{}} :
       /\ plan' = [by |-> attempt, tables |-> T]
       /\ \/ /\ question.type # "trend"   \* compile_single_table
             /\ \E keeps \in {TRUE, ~ Has("periods")} : Checked(Rendered(T, keeps), plan')
          \/ /\ pc' = "ask_sql"
             /\ UNCHANGED <<outsideVars, loading, catalog, attempt, schema, candidate, result,
                            ran, outage>>

\* The model's SQL may be anything; one that does what the plan says uses the plan's tables.
WriteSql ==
  /\ pc = "ask_sql"
  /\ \/ Proposes("unsupported", NoCandidate.sql, plan)
     \/ \E T \in Written, readOnly \in BOOLEAN, follows \in BOOLEAN,
          keeps \in {TRUE, ~ Has("periods")} :
          /\ follows => T = plan.tables
          /\ Checked([tables |-> T, readOnly |-> readOnly, keeps |-> keeps, follows |-> follows],
                     plan)
  /\ UNCHANGED plan

\* The result of the last attempt, or the first one's if the second has failed.
Delivers(c) ==
  /\ pc' = "done"
  /\ result' = [status |-> c.status,
                told |-> IF c.status = "failed" THEN "failed" ELSE "declined",
                rows |-> {}, plan |-> c.plan, attempt |-> c.attempt]

\* The model cannot be reached or its answer cannot be read.
ModelFails ==
  /\ pc \in {"ask_plan", "ask_sql"}
  /\ IF attempt = 1
     THEN /\ pc' = "done"
          /\ result' = [NoResult EXCEPT !.plan = plan, !.attempt = 1]
     ELSE Delivers(candidate)
  /\ UNCHANGED <<outsideVars, loading, catalog, draftVars, ran, outage>>

\* A fault: as many attempts as it takes.
RetryAlways == candidate.status = "failed"

\* A failed check is repaired on the same tables, an unsupported question gets all of them.
Retry ==
  /\ attempt = 1
  /\ \/ candidate.status = "failed"
     \/ candidate.status = "unsupported" /\ schema # Own(question.fab)

\* A fault: the plan of the first attempt stays in the context of the second.
PlanKept == plan

\* Both plans are popped from the context of the second attempt.
PlanDropped == NoPlan

Review ==
  /\ pc = "review"
  /\ IF Retry
     THEN /\ attempt' = 2
          /\ schema' = IF candidate.status = "failed" THEN schema ELSE Own(question.fab)
          /\ plan' = PlanDropped
          /\ pc' = "ask_plan"
          /\ UNCHANGED <<candidate, result>>
     ELSE /\ UNCHANGED draftVars
          /\ IF candidate.status = "succeeded"
             THEN pc' = "execute" /\ UNCHANGED result
             ELSE Delivers(candidate)
  /\ UNCHANGED <<outsideVars, loading, catalog, ran, outage>>

-----------------------------------------------------------------------------
(* The query (ReadOnlyQueryExecutor.execute) and the node's own check      *)

Returned(status, told, rows) ==
  /\ pc' = "done"
  /\ result' = [status |-> status, told |-> told, rows |-> rows, plan |-> candidate.plan,
                attempt |-> candidate.attempt]

\* FABs of the planner's slots, which are taken from the same question.
Planned ==
  IF Comparing THEN {question.compared[i] : i \in DOMAIN question.compared} ELSE {question.fab}

\* A fault: the rows are not looked at, only what the query was planned for.
OutOfScopePlan(back) == FALSE

\* _result_scope_issues: a comparison has rows of each FAB.
OutOfScope(back) == Comparing /\ back # Planned

\* The tables are there and the query ends; back has the FABs of its rows, and agrees
\* tells if the slots other than the FAB and the times and areas compared agree.
QueryRuns ==
  /\ pc = "execute"
  /\ candidate.sql.tables \subseteq db
  /\ ran' = candidate.sql.tables
  /\ \E back \in SUBSET {t[1] : t \in candidate.sql.tables}, agrees \in BOOLEAN :
       IF back = {} /\ Simulated(candidate.sql.tables) /\ ~ Has("record")
       THEN Returned("data_unavailable", "no_rows", {})
       ELSE IF OutOfScope(back) \/ ~ agrees
            THEN Returned("failed", "failed", {})
            ELSE Returned("succeeded", IF back = {} THEN "no_rows" ELSE "rows", back)
  /\ UNCHANGED <<outsideVars, loading, catalog, draftVars, outage>>

\* An error whose text has "does not exist" is taken for a missing table, whatever it is
\* that does not exist.  The text quotes a part of the query around the place.
QueryErrs(quoted, told) ==
  IF question.type = "status" /\ \E t \in quoted : Kind(t) = "operational_report"
  THEN Finish("data_unavailable", told)
  ELSE IF Simulated(candidate.sql.tables)
       THEN Returned("data_unavailable", told, {})
       ELSE Returned("failed", "failed", {})

\* Tables were dropped after the catalog was read.
TablesMissing ==
  /\ pc = "execute"
  /\ \E quoted \in SUBSET candidate.sql.tables : ~ quoted \subseteq db /\ QueryErrs(quoted, "missing")
  /\ UNCHANGED <<outsideVars, loading, catalog, draftVars, ran, outage>>

\* A column, a function or an operator for the types at hand does not exist.
TypeError ==
  /\ pc = "execute"
  /\ candidate.sql.tables \subseteq db
  /\ \E quoted \in SUBSET candidate.sql.tables : QueryErrs(quoted, "called_missing")
  /\ UNCHANGED <<outsideVars, loading, catalog, draftVars, ran, outage>>

\* No connection, or the statement timeout.
QueryUnanswered ==
  /\ pc = "execute"
  /\ outage' = TRUE
  /\ Returned("failed", "failed", {})
  /\ UNCHANGED <<outsideVars, loading, catalog, draftVars, ran>>

-----------------------------------------------------------------------------
(* Loaders and migrations work on the same database.                       *)

ChangeTable(t) ==
  /\ pc # "done"
  /\ changes < MaxChanges
  /\ db' = IF t \in db THEN db \ {t} ELSE db \cup {t}
  /\ changes' = changes + 1
  /\ UNCHANGED <<question, pc, loading, catalog, draftVars, result, ran, outage>>

Call ==
  \/ LoadFabCatalog \/ CatalogRead \/ ProbeEntitySources \/ CatalogFails
  \/ Decline \/ PlanComparison \/ PlanGrounded \/ FastPath
  \/ SelectSchema \/ PlanRejected \/ PlanDeclines \/ PlanValidated \/ WriteSql \/ ModelFails
  \/ Review
  \/ QueryRuns \/ TablesMissing \/ TypeError \/ QueryUnanswered

Next == Call \/ \E t \in Table : ChangeTable(t)

Spec == Init /\ [][Next]_vars

\* The call is one thread, and every client it uses has a timeout.
FairSpec == Spec /\ WF_vars(Call)

-----------------------------------------------------------------------------
(* Properties                                                              *)

\* What reaches the database was checked in the very attempt that wrote it: one
\* reading SELECT on tables found in this call's catalog, of the FABs asked for, with
\* the periods asked for, doing what the plan of that attempt says.
RunsWhatWasChecked ==
  pc = "execute" =>
    /\ candidate.sql.readOnly /\ candidate.sql.keeps /\ candidate.sql.follows
    /\ candidate.sql.tables # {} /\ candidate.sql.tables \subseteq catalog
    /\ \A t \in candidate.sql.tables : t[1] \in Planned
    /\ candidate.plan.by = attempt
    /\ attempt > 0 => candidate.sql.tables = candidate.plan.tables

\* The semantic plan a result shows, which the answer is explained and judged with, is
\* one the attempt made that the result comes from, whatever was tried before or after.
PlanOfItsAttempt ==
  pc = "done" => result.plan.by \in {0, result.attempt}

\* Neither the query that runs nor the plan a result shows is left from another attempt
\* than the one that was checked.
CheckedInItsAttempt == RunsWhatWasChecked /\ PlanOfItsAttempt

\* Rows that are given to the answer are of the FABs asked for: none is of another FAB,
\* and a comparison has rows of each, even if the query ran without an error.
RowsInScope == pc = "done" /\ result.told = "rows" => result.rows = Planned

\* Whatever the model answers, the call ends: there is no third attempt.
Terminates == <>(pc = "done")

Told ==
  IF pc = "done" THEN result.told ELSE "pending"

\* The call keeps the promise of QueryPromise: rows come from tables that were looked
\* up and are still there, data is called missing only if a table is or the database has
\* refused the query, and a question that met an unreachable database has failed,
\* whatever part of it had been read before.
Promise == INSTANCE QueryPromise WITH
  Tables <- Table, tables <- db, known <- catalog, used <- ran, unreachable <- outage,
  told <- Told

KeepsPromise == Promise!Spec

=============================================================================
