----------------------------- MODULE AgentGraph -----------------------------
(***************************************************************************)
(* The LangGraph workflow that answers one question (agents/graph.py) with *)
(* the recovery policy it is bound by (agents/supervisor.py), the routes   *)
(* of the planner (agents/planner.py) and the dependency table of          *)
(* agents/execution.py.                                                    *)
(*                                                                         *)
(* One action per graph node and per outcome of the node.  The model       *)
(* answers (plan, plan review, recovery decision, self-reflection, answer  *)
(* review) and the tools' statuses are chosen nondeterministically among   *)
(* what the code lets through; everything the code does with them is here. *)
(* The edges of the graph are folded into the program counter pc: each     *)
(* node ends by setting pc to the node its router returns.                 *)
(***************************************************************************)
EXTENDS Naturals, Sequences, FiniteSets

CONSTANTS
  QueryTypes,       \* the query types the planner may choose for the question
  ExtraAgents,      \* the optional agents the planner or the supervisor may add
  PlanStatuses,     \* the statuses a plan or its review may come back with
  Outcome,          \* Outcome[a]: the statuses a run of agent a may end with
  RetryBudget,      \* retries per request (2 in the code)
  ReplanBudget,     \* replans per request (1)
  AlternateBudget,  \* alternate agents per request (1)
  RecursionLimit    \* super-steps LangGraph executes per request (100)

Agents == {"text2sql", "rag", "case_search", "impact", "visualization"}
None == "none"

\* REQUIRED_AGENT_ROUTES: the agents a ready plan of a type always contains.
Required ==
  [status |-> {"text2sql"}, master_data_lookup |-> {"text2sql"},
   release_plan_lookup |-> {"text2sql"},
   diagnosis |-> {"text2sql", "rag", "case_search"},
   impact |-> {"text2sql", "impact"}, trend |-> {"text2sql", "visualization"},
   knowledge_lookup |-> {"rag"}]

\* OPTIONAL_COMPOUND_AGENTS: the agents that may be added to a route.
Optional ==
  [status |-> {"visualization"}, master_data_lookup |-> {}, release_plan_lookup |-> {},
   diagnosis |-> {"impact", "visualization"},
   impact |-> {"rag", "case_search", "visualization"},
   trend |-> {"rag", "case_search"}, knowledge_lookup |-> {}]

\* AGENT_EXECUTION_ORDER.
Rank == [text2sql |-> 1, rag |-> 2, case_search |-> 3, impact |-> 4, visualization |-> 5]

NotReady == {"needs_clarification", "data_unavailable", "unsupported"}
Unretryable == NotReady \cup {"skipped"}
Failures == NotReady \cup {"failed"}
AgentStatus == {"succeeded", "skipped"} \cup Failures

ASSUME QueryTypesAssumption == QueryTypes # {} /\ QueryTypes \subseteq DOMAIN Required
ASSUME ExtraAgentsAssumption == ExtraAgents \subseteq Agents
ASSUME PlanStatusesAssumption ==
  "ready" \in PlanStatuses /\ PlanStatuses \subseteq NotReady \cup {"ready"}
ASSUME OutcomeAssumption ==
  /\ Outcome \in [Agents -> SUBSET AgentStatus]
  /\ Outcome["text2sql"] \subseteq Failures \cup {"succeeded"}
  /\ Outcome["rag"] \subseteq {"succeeded", "failed", "data_unavailable", "needs_clarification"}
  /\ Outcome["case_search"] \subseteq {"succeeded", "failed", "data_unavailable"}
  /\ Outcome["impact"] \subseteq {"succeeded", "data_unavailable"}
  /\ Outcome["visualization"] \subseteq {"succeeded", "data_unavailable"}
ASSUME BudgetAssumption ==
  /\ RetryBudget \in Nat /\ ReplanBudget \in Nat /\ AlternateBudget \in Nat
  /\ RecursionLimit \in Nat

VARIABLES
  pc,            \* the node to run next, or how the request ended
  plan,          \* the plan: query_type, status and the selected agents
  status,        \* state["status"]
  halted,        \* state["halted"]
  answer,        \* where state["answer"] comes from
  active,        \* active_results: status per agent of the current attempt
  evidence,      \* evidence items per source: none, failed or usable
  parts,         \* answer_parts: <<source, status of the run that wrote it>>
  chart,         \* is there a chart
  sql,           \* text2sql_result: none, rows or empty
  pending,       \* pending_agents: the queue of forced re-runs
  cursor,        \* execution_cursor: rank of the last planned step dispatched
  alternates,    \* completed_alternates
  forced,        \* forced_agent
  current,       \* current_agent, the one agent_supervisor reviews
  reflections,   \* agent_reflections: status of the latest run of each agent
  retries,       \* retry_counts
  budget,        \* retry / replan / alternate _budget_remaining
  replans,       \* replan_count
  reflection,    \* reflection["action"]
  termination,   \* termination_reason
  grounding,     \* grounding["validation"]
  review,        \* answer_review["approved"]
  steps,         \* super-steps LangGraph has executed
  basis,         \* history: the current results each current result was computed from
  plannings      \* history: how often the planner ran

requestVars == <<plan, status, halted, answer>>
resultVars == <<active, evidence, parts, chart, sql, basis>>
routeVars == <<pending, cursor, alternates, forced>>
reviewVars == <<current, reflections>>
budgetVars == <<retries, budget, replans>>
finalVars == <<reflection, termination, grounding, review>>
vars == <<pc, requestVars, resultVars, routeVars, reviewVars, budgetVars, finalVars,
          steps, plannings>>

Sources == Agents \cup {"synthesis"}
Nodes == Agents \cup {"planner", "supervisor", "dispatcher", "agent_supervisor",
                      "reflection", "composer", "answer_supervisor"}
Ends == {"end", "recursion_error", "aborted"}
Statuses == {"running", "ready"} \cup AgentStatus

-----------------------------------------------------------------------------
(* Plans, dependencies and the queue of re-runs. *)

Extras(type) == Optional[type] \cap ExtraAgents

\* The plans _normalize_agent_route can return for a type and a status: a
\* ready plan has every required agent and only permitted extras, any other
\* plan has no step.
PlansOf(type, s) ==
  IF s = "ready"
  THEN {[query_type |-> type, status |-> s, selected |-> Required[type] \cup x] :
          x \in SUBSET Extras(type)}
  ELSE {[query_type |-> type, status |-> s, selected |-> {}]}

IsRequired(a) ==
  a \in plan.selected /\ (plan.query_type # "diagnosis" \/ a \notin Required["diagnosis"])

\* Who consumes the result of an agent.
Consumers(a) ==
  CASE a = "text2sql" -> {"rag", "case_search", "impact", "visualization"}
    [] a = "rag" -> {"case_search"}
    [] OTHER -> {}

\* Mutant: the consumers of a consumer are forgotten.
DownstreamOneLevel(A) ==
  (A \cup UNION {IF a = "text2sql" THEN {"rag", "impact"} ELSE {} : a \in A}) \cap plan.selected

\* downstream_agents: the planned steps to recompute when A is re-run.
Downstream(A) ==
  LET afterSql == A \cup IF "text2sql" \in A THEN Consumers("text2sql") ELSE {}
      afterRag == afterSql \cup IF "rag" \in afterSql THEN Consumers("rag") ELSE {}
  IN afterRag \cap plan.selected

Pick(S, a) == IF a \in S THEN <<a>> ELSE <<>>
InOrder(S) == Pick(S, "text2sql") \o Pick(S, "rag") \o Pick(S, "case_search")
              \o Pick(S, "impact") \o Pick(S, "visualization")

\* Mutant: a new retry replaces the queue of the previous one.
RequeueReplacing(S) == InOrder(S)

\* Requeue(S): dict.fromkeys([*S in plan order, *pending]).  The queue holds
\* each agent at most once, so it never has a sixth entry.
Kept(S, i) == IF i <= Len(pending) /\ pending[i] \notin S THEN <<pending[i]>> ELSE <<>>
Requeue(S) == InOrder(S) \o Kept(S, 1) \o Kept(S, 2) \o Kept(S, 3) \o Kept(S, 4) \o Kept(S, 5)

ActiveAgents == {a \in Agents : active[a] # None}
Ran == \E a \in Agents : reflections[a] # None
AllSatisfied == plan.selected # {} /\ \A a \in plan.selected : active[a] = "succeeded"

-----------------------------------------------------------------------------
(* _prepare_agent_attempt: what disappears when the agents A are run again. *)

Obsolete(A) ==
  UNION {IF Downstream({a}) = {} THEN {a} ELSE Downstream({a}) : a \in A \cap ActiveAgents}
\* Mutant: only a new query is taken to change the diagnosis.
DropsSynthesisOnSql(S) == "text2sql" \in S
DropsSynthesis(S) == S \cap {"text2sql", "rag", "case_search"} # {}

ActiveWithout(S) == [a \in Agents |-> IF a \in S THEN None ELSE active[a]]
\* Mutant: dropping a result leaves its evidence behind.
EvidenceKept(S) == evidence
EvidenceWithout(S) ==
  [x \in Sources |-> IF x \in S \cap ActiveAgents \/ (x = "synthesis" /\ DropsSynthesis(S))
                     THEN None ELSE evidence[x]]
\* The answer parts kept with an active result are matched by their text; a
\* RAG result keeps only the text of its chunks, never its failure summary.
PartsWithout(S) ==
  {p \in parts : ~ \/ p[1] \in S /\ active[p[1]] = p[2] /\ (p[1] = "rag" => p[2] = "succeeded")
                   \/ p[1] = "synthesis" /\ DropsSynthesis(S)}
\* Mutant: the chart survives the rows it was drawn from.
ChartKept(S) == chart
ChartWithout(S) == chart /\ "visualization" \notin S
BasisWithout(S) == [x \in Sources |-> IF x \in S \/ (x = "synthesis" /\ DropsSynthesis(S))
                                      THEN {} ELSE basis[x]]

Invalidate(A) ==
  LET S == Obsolete(A)
  IN /\ active' = ActiveWithout(S)
     /\ evidence' = EvidenceWithout(S)
     /\ parts' = PartsWithout(S)
     /\ chart' = ChartWithout(S)
     /\ basis' = BasisWithout(S)
     /\ UNCHANGED sql

-----------------------------------------------------------------------------
(* Planner, supervisor, dispatcher. *)

\* Every node is one LangGraph super-step.
Step(node) ==
  /\ pc = node
  /\ steps < RecursionLimit
  /\ steps' = steps + 1

Init ==
  /\ pc = "planner"
  /\ plan = [query_type |-> None, status |-> "running", selected |-> {}]
  /\ status = "running" /\ halted = FALSE /\ answer = None
  /\ active = [a \in Agents |-> None]
  /\ evidence = [x \in Sources |-> None]
  /\ parts = {} /\ chart = FALSE /\ sql = None
  /\ pending = <<>> /\ cursor = 0 /\ alternates = {} /\ forced = None
  /\ current = None /\ reflections = [a \in Agents |-> None]
  /\ retries = [a \in Agents |-> 0]
  /\ budget = [retry |-> RetryBudget, replan |-> ReplanBudget, alternate |-> AlternateBudget]
  /\ replans = 0
  /\ reflection = None /\ termination = None /\ grounding = None /\ review = None
  /\ steps = 0 /\ plannings = 0
  /\ basis = [x \in Sources |-> {}]

\* A new plan drops the results, the queue and the marks of the previous one;
\* the counters, the reflections of earlier runs, the answer and the last
\* final reflection stay in the state.
Planner ==
  /\ Step("planner")
  /\ \E type \in QueryTypes, s \in PlanStatuses : plan' \in PlansOf(type, s)
  /\ status' = plan'.status
  /\ halted' = FALSE
  /\ active' = [a \in Agents |-> None]
  /\ evidence' = [x \in Sources |-> None]
  /\ basis' = [x \in Sources |-> {}]
  /\ parts' = {} /\ chart' = FALSE /\ sql' = None
  /\ pending' = <<>> /\ cursor' = 0 /\ alternates' = {} /\ forced' = None
  /\ termination' = None
  /\ plannings' = plannings + 1
  /\ pc' = "supervisor"
  /\ UNCHANGED <<answer, reviewVars, budgetVars, reflection, grounding, review>>

\* The statuses review_plan can leave a plan with: it never repairs a plan
\* that is not ready, and lets Text2SQL find out whether its data exists.
Reviewed(p) ==
  IF p.status # "ready" THEN {p.status}
  ELSE PlanStatuses \ IF "text2sql" \in p.selected THEN {"data_unavailable"} ELSE {}

Supervisor ==
  /\ Step("supervisor")
  /\ \E s \in Reviewed(plan) : plan' \in PlansOf(plan.query_type, s)
  /\ status' = plan'.status
  /\ halted' = (plan'.status # "ready")
  /\ answer' = IF plan'.status = "ready" THEN None ELSE "plan"
  /\ pc' = "dispatcher"
  /\ UNCHANGED <<resultVars, routeVars, reviewVars, budgetVars, finalVars, plannings>>

DispatchHalted ==
  /\ Step("dispatcher")
  /\ halted
  /\ pc' = "reflection"
  /\ UNCHANGED <<requestVars, resultVars, routeVars, reviewVars, budgetVars, finalVars, plannings>>

DispatchPending ==
  /\ Step("dispatcher")
  /\ ~halted /\ pending # <<>>
  /\ pc' = Head(pending)
  /\ forced' = Head(pending)
  /\ pending' = Tail(pending)
  /\ UNCHANGED <<requestVars, resultVars, cursor, alternates, reviewVars, budgetVars,
                 finalVars, plannings>>

\* Mutant: the step under the cursor is not yet done.
RemainingFromCursor ==
  {a \in plan.selected : Rank[a] >= cursor /\ ~(a \in alternates /\ active[a] # None)}

\* The planned steps left: behind the cursor, except those an alternate
\* already did and whose result is still in use.
Remaining ==
  {a \in plan.selected : Rank[a] > cursor /\ ~(a \in alternates /\ active[a] # None)}

DispatchStep(a) ==
  /\ Step("dispatcher")
  /\ ~halted /\ pending = <<>>
  /\ a \in Remaining /\ \A b \in Remaining : Rank[a] <= Rank[b]
  /\ cursor' = Rank[a]
  /\ pc' = a
  /\ UNCHANGED <<requestVars, resultVars, pending, alternates, forced, reviewVars, budgetVars,
                 finalVars, plannings>>

DispatchDone ==
  /\ Step("dispatcher")
  /\ ~halted /\ pending = <<>> /\ Remaining = {}
  /\ pc' = "reflection"
  /\ UNCHANGED <<requestVars, resultVars, routeVars, reviewVars, budgetVars, finalVars, plannings>>

-----------------------------------------------------------------------------
(* The agents.  Each run first drops what it makes obsolete, then records its *)
(* result and its reflection, and is always reviewed by agent_supervisor.  *)

\* _should_run_agent.
ShouldRun(a) == forced = a \/ (a \in plan.selected /\ ~halted)

\* The results a run of agent a reads.
Inputs(a) == {p \in ActiveAgents : a \in Consumers(p)}
Diagnosing(a) == a = "case_search" /\ plan.query_type = "diagnosis"

\* _agent_reflection_patch: a run of agent a ends with status s.
Record(a, s) ==
  LET S == Obsolete({a})
  IN /\ active' = [ActiveWithout(S) EXCEPT ![a] = s]
     /\ basis' = [x \in Sources |->
                    IF x = a THEN Inputs(a)
                    ELSE IF x = "synthesis" /\ Diagnosing(a)
                         THEN {p \in {"text2sql", "rag", "case_search"} : active'[p] # None}
                         ELSE BasisWithout(S)[x] \ {a}]
     /\ reflections' = [reflections EXCEPT ![a] = s]
     /\ current' = a
     /\ forced' = None
     /\ pc' = "agent_supervisor"

\* The evidence and the answer parts a run of agent a leaves in the state; a
\* diagnosis is synthesised again after every case search.
AddEvidence(a, e) ==
  evidence' = [EvidenceWithout(Obsolete({a})) EXCEPT
                 ![a] = e, !["synthesis"] = IF Diagnosing(a) THEN "usable" ELSE @]
AddParts(a, P) == parts' = PartsWithout(Obsolete({a})) \cup P

Text2sql ==
  /\ Step("text2sql") /\ ShouldRun("text2sql")
  /\ \E s \in Outcome["text2sql"], r \in {"rows", "empty"} :
       /\ r = "rows" => s = "succeeded"
       /\ sql' = r
       /\ Record("text2sql", s)
       /\ AddEvidence("text2sql", IF s = "succeeded" THEN "usable" ELSE "failed")
       /\ AddParts("text2sql", {<<"text2sql", s>>})
       /\ halted' = (s \in Failures /\ IsRequired("text2sql"))
       /\ status' = s
  /\ UNCHANGED <<plan, answer, chart, pending, cursor, alternates, budgetVars, finalVars, plannings>>

Rag ==
  /\ Step("rag") /\ ShouldRun("rag")
  /\ \E s \in Outcome["rag"] :
       /\ Record("rag", s)
       /\ AddEvidence("rag", IF s = "succeeded" THEN "usable" ELSE None)
       /\ AddParts("rag", {<<"rag", s>>})
       /\ halted' = (s = "needs_clarification")
       /\ answer' = IF s = "needs_clarification" THEN "rag" ELSE answer
       /\ status' = IF s = "needs_clarification" \/ (plan.selected = {"rag"} /\ s # "succeeded")
                    THEN s ELSE status
  /\ UNCHANGED <<plan, chart, sql, pending, cursor, alternates, budgetVars, finalVars, plannings>>

CaseSearch ==
  /\ Step("case_search") /\ ShouldRun("case_search")
  /\ \E s \in Outcome["case_search"] :
       /\ Record("case_search", s)
       /\ AddEvidence("case_search", IF s = "succeeded" THEN "usable" ELSE None)
  /\ AddParts("case_search",
              IF Diagnosing("case_search") THEN {<<"synthesis", "succeeded">>} ELSE {})
  /\ UNCHANGED <<requestVars, chart, sql, pending, cursor, alternates, budgetVars, finalVars, plannings>>

\* Mutant: an estimate is reported although there are no rows.
ImpactWithoutRows ==
  /\ Step("impact") /\ ShouldRun("impact")
  /\ \E s \in Outcome["impact"] :
       /\ Record("impact", s)
       /\ AddEvidence("impact", "usable")
       /\ AddParts("impact", {<<"impact", s>>})
       /\ status' = s
  /\ UNCHANGED <<plan, halted, answer, chart, sql, pending, cursor, alternates, budgetVars,
                 finalVars, plannings>>

\* Every estimate is computed from a numeric column of the SQL rows.
Impact ==
  /\ Step("impact") /\ ShouldRun("impact")
  /\ \E s \in Outcome["impact"] :
       /\ s = "succeeded" => sql = "rows"
       /\ Record("impact", s)
       /\ AddEvidence("impact", "usable")
       /\ AddParts("impact", {<<"impact", s>>})
       /\ status' = s
  /\ UNCHANGED <<plan, halted, answer, chart, sql, pending, cursor, alternates, budgetVars,
                 finalVars, plannings>>

\* No chart without rows; a chart that breaks its contract is unavailable.
\* Only a chart that is made touches the evidence.
Visualization ==
  /\ Step("visualization") /\ ShouldRun("visualization")
  /\ \E s \in IF halted \/ sql # "rows" THEN {"skipped"} ELSE Outcome["visualization"] :
       /\ Record("visualization", s)
       /\ IF s = "succeeded" THEN AddEvidence("visualization", "usable") ELSE UNCHANGED evidence
       /\ chart' = IF s = "skipped" THEN chart ELSE s = "succeeded"
  /\ UNCHANGED <<requestVars, parts, sql, pending, cursor, alternates, budgetVars, finalVars, plannings>>

\* _skipped: a node that must not run leaves the state alone.  If the latest run
\* was its own, that run is reviewed once more (_route_after_agent_result).
Skip(a) ==
  /\ Step(a) /\ ~ShouldRun(a)
  /\ pc' = IF current = a THEN "agent_supervisor" ELSE "dispatcher"
  /\ UNCHANGED <<requestVars, resultVars, routeVars, reviewVars, budgetVars, finalVars, plannings>>

-----------------------------------------------------------------------------
(* agent_supervisor: the recovery decision after every agent run. *)

\* What the model may answer: an action with the fields the policy looks at.
RecoveryOutputs ==
  [action : {"continue", "compose", "retry_same_agent"}, targets : {{}}, alternate : {None},
   repair : {FALSE}, feedback : BOOLEAN]
  \cup [action : {"replan"}, targets : {{}}, alternate : {None}, repair : {FALSE}, feedback : BOOLEAN]
  \cup [action : {"retry_agents"}, targets : SUBSET Agents, alternate : {None},
        repair : BOOLEAN, feedback : {FALSE}]
  \cup [action : {"alternate_agent"}, targets : {{}}, alternate : Agents,
        repair : {FALSE}, feedback : {FALSE}]

\* _allowed_alternate_agents.
AllowedAlternates ==
  (IF plan.query_type # "diagnosis" THEN {}
   ELSE CASE current \in {"text2sql", "case_search"} -> {"rag"}
          [] current = "rag" -> {"case_search"}
          [] OTHER -> {}) \ ActiveAgents

Retryable(a) == retries[a] < 1 /\ active[a] \notin Unretryable
RetrySameAllowed ==
  /\ budget.retry > 0 /\ retries[current] < 1
  /\ reflections[current] \notin Unretryable
RetryAgentsAllowed(o) ==
  /\ o.targets # {} /\ o.repair
  /\ Cardinality(o.targets) <= budget.retry
  /\ \A a \in o.targets : a \in ActiveAgents /\ Retryable(a)

\* enforce_recovery_policy: a retry that is refused turns into a replan of a
\* failed run, anything else that is refused into continue; targets and an
\* alternate stay only in the action they belong to.
Enforce(o) ==
  LET refused == o.action = "retry_same_agent" /\ ~RetrySameAllowed
      wanted == IF ~refused THEN o.action
                ELSE IF reflections[current] # "succeeded" /\ budget.replan > 0 THEN "replan"
                ELSE "continue"
      permitted ==
        \/ wanted \in {"continue", "retry_same_agent"}
        \/ wanted = "compose" /\ AllSatisfied
        \/ wanted = "retry_agents" /\ RetryAgentsAllowed(o)
        \/ wanted = "replan" /\ (o.feedback \/ refused) /\ budget.replan > 0
        \/ wanted = "alternate_agent" /\ budget.alternate > 0 /\ o.alternate \in AllowedAlternates
      action == IF permitted THEN wanted ELSE "continue"
  IN [o EXCEPT !.action = action,
               !.targets = IF action = "retry_agents" THEN @ ELSE {},
               !.alternate = IF action = "alternate_agent" THEN @ ELSE None]

\* The policy runs in review_agent_result and again in the node.
Decisions == {Enforce(o) : o \in {Enforce(o) : o \in RecoveryOutputs}}

Decide(d, action) == Step("agent_supervisor") /\ d.action = action

Continue(d) ==
  /\ Decide(d, "continue")
  /\ forced' = None
  /\ pc' = "dispatcher"
  /\ UNCHANGED <<requestVars, resultVars, pending, cursor, alternates, reviewVars, budgetVars,
                 finalVars, plannings>>

Compose(d) ==
  /\ Decide(d, "compose")
  /\ cursor' = Rank["visualization"]
  /\ pending' = <<>>
  /\ forced' = None
  /\ pc' = "reflection"
  /\ UNCHANGED <<requestVars, resultVars, alternates, reviewVars, budgetVars, finalVars, plannings>>

\* Mutant: a retry of several agents is charged once.
SpendOneRetry(A) ==
  /\ retries' = [a \in Agents |-> IF a \in A THEN retries[a] + 1 ELSE retries[a]]
  /\ budget' = [budget EXCEPT !.retry = @ - 1]
  /\ UNCHANGED replans

\* Spend one retry on each agent of A.
SpendRetries(A) ==
  /\ retries' = [a \in Agents |-> IF a \in A THEN retries[a] + 1 ELSE retries[a]]
  /\ budget' = [budget EXCEPT !.retry = @ - Cardinality(A)]
  /\ UNCHANGED replans

RetryAgents(d) ==
  /\ Decide(d, "retry_agents")
  /\ pending' = Requeue(Downstream(d.targets) \cap ActiveAgents)
  /\ SpendRetries(d.targets)
  /\ Invalidate(d.targets)
  /\ halted' = FALSE /\ forced' = None
  /\ pc' = "dispatcher"
  /\ UNCHANGED <<plan, status, answer, cursor, alternates, reviewVars, finalVars, plannings>>

RetrySame(d) ==
  /\ Decide(d, "retry_same_agent")
  /\ pending' = Requeue((Downstream({current}) \cap ActiveAgents) \ {current})
  /\ SpendRetries({current})
  /\ Invalidate({current})
  /\ halted' = FALSE /\ forced' = None
  /\ pc' = current
  /\ UNCHANGED <<plan, status, answer, cursor, alternates, reviewVars, finalVars, plannings>>

SpendReplan ==
  /\ replans' = replans + 1
  /\ budget' = [budget EXCEPT !.replan = @ - 1]
  /\ UNCHANGED retries

Replan(d) ==
  /\ Decide(d, "replan")
  /\ SpendReplan
  /\ halted' = FALSE /\ forced' = None
  /\ pc' = "planner"
  /\ UNCHANGED <<plan, status, answer, resultVars, pending, cursor, alternates, reviewVars,
                 finalVars, plannings>>

Alternate(d) ==
  /\ Decide(d, "alternate_agent")
  /\ budget' = [budget EXCEPT !.alternate = @ - 1]
  /\ alternates' = alternates \cup {d.alternate}
  /\ halted' = FALSE /\ forced' = d.alternate
  /\ pc' = d.alternate
  /\ UNCHANGED <<plan, status, answer, resultVars, pending, cursor, reviewVars, retries, replans,
                 finalVars, plannings>>

AgentSupervisor ==
  pc = "agent_supervisor" /\ \E d \in Decisions :
    \/ Continue(d) \/ Compose(d) \/ RetryAgents(d) \/ RetrySame(d) \/ Replan(d) \/ Alternate(d)

-----------------------------------------------------------------------------
(* Final reflection, composition and answer review. *)

\* A stopped request whose answer is already there.
Stopped == halted /\ (~Ran \/ (status = "needs_clarification" /\ answer # None))

\* uses_document_grounding: nothing but RAG chunks and failed queries.
DocumentGrounding ==
  /\ plan.query_type = "knowledge_lookup" \/ "rag" \in plan.selected
  /\ \A x \in Sources \ {"rag"} : evidence[x] # "usable"

\* _route_final_reflection.
AfterReflection(action, target) ==
  IF action = "replan" THEN "planner"
  ELSE IF action = "retry_target" /\ target # None THEN target
  ELSE "composer"

\* Nothing to reflect on: the state is left alone, and with it the action of
\* an earlier final reflection, which the router reads again.
ReflectStopped ==
  /\ Step("reflection") /\ Stopped
  /\ pc' = AfterReflection(reflection, forced)
  /\ UNCHANGED <<requestVars, resultVars, routeVars, reviewVars, budgetVars, finalVars, plannings>>

ReflectGrounded ==
  /\ Step("reflection") /\ ~Stopped /\ DocumentGrounding
  /\ reflection' = None
  /\ pc' = "composer"
  /\ UNCHANGED <<requestVars, resultVars, routeVars, reviewVars, budgetVars, termination,
                 grounding, review, plannings>>

Reflecting == Step("reflection") /\ ~Stopped /\ ~DocumentGrounding

\* Compose, or hand over to a person: the model's own choice, or what a
\* refused retry or replan becomes.
ReflectCompose ==
  /\ Reflecting
  /\ \E action \in {"compose", "human_review"} :
       /\ reflection' = action
       /\ termination' \in IF action = "compose" THEN {"completed", "composed_with_limitations"}
                           ELSE {"human_review_required"}
  /\ forced' = None
  /\ pc' = "composer"
  /\ UNCHANGED <<requestVars, resultVars, pending, cursor, alternates, reviewVars, budgetVars,
                 grounding, review, plannings>>

ReflectReplan ==
  /\ Reflecting
  /\ budget.replan > 0
  /\ SpendReplan
  /\ reflection' = "replan"
  /\ termination' = None /\ forced' = None
  /\ pc' = "planner"
  /\ UNCHANGED <<requestVars, resultVars, pending, cursor, alternates, reviewVars,
                 grounding, review, plannings>>

\* A retry target needs an earlier run that may be repeated, of this plan or
\* of the one it replaced.
RetryTargetAllowed(a) ==
  /\ budget.retry > 0 /\ retries[a] < 1
  /\ reflections[a] \notin Unretryable \cup {None}

\* The queue is replaced, not extended, and halted stays as it is.
ReflectRetry(a) ==
  /\ Reflecting
  /\ RetryTargetAllowed(a)
  /\ SpendRetries({a})
  /\ pending' = InOrder((Downstream({a}) \cap ActiveAgents) \ {a})
  /\ Invalidate({a})
  /\ reflection' = "retry_target"
  /\ termination' = None /\ forced' = a
  /\ pc' = a
  /\ UNCHANGED <<requestVars, cursor, alternates, reviewVars, grounding, review, plannings>>

\* A stopped request keeps its answer; otherwise the composer writes one,
\* unless the request is halted with an answer.  A document answer carries the
\* outcome of its citation check.
ComposerKeeps ==
  /\ Step("composer") /\ Stopped
  /\ pc' = "answer_supervisor"
  /\ UNCHANGED <<requestVars, resultVars, routeVars, reviewVars, budgetVars, finalVars, plannings>>

Validations == {"verified", "insufficient", "rejected"}

Composer ==
  /\ Step("composer") /\ ~Stopped
  /\ LET kept == halted /\ answer # None
     IN /\ answer' = IF kept THEN answer ELSE "composed"
        /\ grounding' \in IF ~kept /\ DocumentGrounding THEN Validations ELSE {None}
  /\ status' = CASE grounding' = "rejected" -> "failed"
                 [] grounding' = "insufficient" ->
                      IF status = "failed" THEN "failed" ELSE "data_unavailable"
                 [] OTHER -> IF status = "ready" THEN "succeeded" ELSE status
  /\ pc' = "answer_supervisor"
  /\ UNCHANGED <<plan, halted, resultVars, routeVars, reviewVars, budgetVars, reflection,
                 termination, review, plannings>>

\* A document answer was already checked claim by claim.
ReviewGrounded ==
  /\ Step("answer_supervisor") /\ grounding # None
  /\ review' = IF grounding = "rejected" THEN "refused" ELSE "approved"
  /\ pc' = "end"
  /\ UNCHANGED <<requestVars, resultVars, routeVars, reviewVars, budgetVars, reflection,
                 termination, grounding, plannings>>

\* Mutant: a refused answer is withheld and the status forgotten.
ReviewKeepsStatus ==
  /\ Step("answer_supervisor") /\ grounding = None
  /\ \/ review' = "approved" /\ UNCHANGED <<answer, termination>>
     \/ review' = "refused" /\ answer' = "withheld" /\ termination' = "answer_review_failed"
  /\ pc' = "end"
  /\ UNCHANGED <<plan, status, halted, resultVars, routeVars, reviewVars, budgetVars, reflection,
                 grounding, plannings>>

ReviewAnswer ==
  /\ Step("answer_supervisor") /\ grounding = None
  /\ \/ review' = "approved" /\ UNCHANGED <<answer, status, termination>>
     \/ /\ review' = "refused"
        /\ answer' = "withheld"
        /\ status' = "failed"
        /\ termination' = IF termination = "human_review_required" THEN termination
                          ELSE "answer_review_failed"
  /\ pc' = "end"
  /\ UNCHANGED <<plan, halted, resultVars, routeVars, reviewVars, budgetVars, reflection,
                 grounding, plannings>>

-----------------------------------------------------------------------------
(* How a request ends other than with an answer. *)

\* LangGraph gives up when the limit is reached and a node is still due.
OutOfSteps ==
  /\ pc \in Nodes /\ steps >= RecursionLimit
  /\ pc' = "recursion_error"
  /\ UNCHANGED <<requestVars, resultVars, routeVars, reviewVars, budgetVars, finalVars,
                 steps, plannings>>

\* The nodes that call the model outside a try: a failed call leaves the graph
\* with an exception.
CallsModel ==
  \/ pc \in {"planner", "supervisor", "agent_supervisor"}
  \/ pc = "reflection" /\ ~Stopped /\ ~DocumentGrounding
  \/ pc = "composer" /\ ~Stopped /\ ~DocumentGrounding /\ ~(halted /\ answer # None)
  \/ pc = "answer_supervisor" /\ grounding = None
NodeRaises ==
  /\ CallsModel /\ steps < RecursionLimit
  /\ pc' = "aborted"
  /\ UNCHANGED <<requestVars, resultVars, routeVars, reviewVars, budgetVars, finalVars,
                 steps, plannings>>

Ended == pc \in Ends /\ UNCHANGED vars

Dispatcher == DispatchHalted \/ DispatchPending \/ (\E a \in Agents : DispatchStep(a)) \/ DispatchDone
RunAgent ==
  \/ Text2sql \/ Rag \/ CaseSearch \/ Impact \/ Visualization
  \/ \E a \in Agents : Skip(a)
Reflection ==
  \/ ReflectStopped \/ ReflectGrounded \/ ReflectCompose \/ ReflectReplan
  \/ \E a \in Agents : ReflectRetry(a)
Answering == ComposerKeeps \/ Composer \/ ReviewGrounded \/ ReviewAnswer

Next ==
  \/ Planner \/ Supervisor \/ Dispatcher \/ RunAgent \/ AgentSupervisor
  \/ Reflection \/ Answering \/ OutOfSteps \/ NodeRaises \/ Ended

\* The request's task is scheduled until it ends: the graph runs on one event
\* loop task and every node returns (model and database calls have timeouts).
Spec == Init /\ [][Next]_vars /\ WF_vars(Next)

-----------------------------------------------------------------------------
(* Properties. *)

RequestType ==
  /\ plan \in [query_type : DOMAIN Required \cup {None},
               status : PlanStatuses \cup {"running"}, selected : SUBSET Agents]
  /\ status \in Statuses
  /\ halted \in BOOLEAN
  /\ answer \in {None, "plan", "rag", "composed", "withheld"}
ResultType ==
  /\ active \in [Agents -> AgentStatus \cup {None}]
  /\ evidence \in [Sources -> {None, "failed", "usable"}]
  /\ parts \subseteq Sources \X AgentStatus
  /\ chart \in BOOLEAN
  /\ sql \in {None, "rows", "empty"}
  /\ basis \in [Sources -> SUBSET Agents]
RouteType ==
  /\ pending \in Seq(Agents)
  /\ cursor \in 0..5
  /\ alternates \subseteq Agents
  /\ forced \in Agents \cup {None}
ReviewType ==
  /\ current \in Agents \cup {None}
  /\ reflections \in [Agents -> AgentStatus \cup {None}]
BudgetType ==
  /\ retries \in [Agents -> Nat]
  /\ budget \in [retry : Nat, replan : Nat, alternate : Nat]
  /\ replans \in Nat
FinalType ==
  /\ reflection \in {None, "compose", "human_review", "replan", "retry_target"}
  /\ termination \in {None, "completed", "composed_with_limitations",
                      "human_review_required", "answer_review_failed"}
  /\ grounding \in Validations \cup {None}
  /\ review \in {None, "approved", "refused"}
ControlType ==
  /\ pc \in Nodes \cup Ends
  /\ steps \in Nat
  /\ plannings \in Nat
  /\ pc = "supervisor" => plan.query_type \in DOMAIN Required /\ plan.status \in PlanStatuses
  /\ pc = "agent_supervisor" => current \in Agents

\* Every piece of the state keeps its type; in particular no budget of
\* AgentState is ever overdrawn, and a node finds the state it relies on.
TypeOK ==
  /\ RequestType /\ ResultType /\ RouteType /\ ReviewType
  /\ BudgetType /\ FinalType /\ ControlType

\* However often the supervisor, the final reflection and the planner hand the
\* request back to each other, an agent is retried at most once and every retry
\* and replan is charged: a new plan does not give a budget back.
BudgetsKept ==
  /\ \A a \in Agents : retries[a] <= 1
  /\ Cardinality({a \in Agents : retries[a] = 1}) + budget.retry = RetryBudget
  /\ replans + budget.replan = ReplanBudget

\* No result of a planned agent outlives a result it was computed from: when a
\* planned producer is dropped or has run again, the consumer is gone or was
\* computed again after it (downstream_agents, _prepare_agent_attempt).
Fresh ==
  \A p \in plan.selected, c \in ActiveAgents \cap plan.selected :
    c \in Consumers(p) => active[p] # None /\ p \in basis[c]

\* The diagnosis in the evidence was synthesised from exactly the results in
\* use: none of them was dropped, replaced or added since.  A plan without steps
\* is excluded: see SynthesisCurrent below.
SynthesisFresh ==
  (evidence["synthesis"] # None /\ plan.selected # {}) =>
    basis["synthesis"] = ActiveAgents \cap {"text2sql", "rag", "case_search"}

\* The diagnosis is an answer part as long as it is in the evidence, no longer.
DiagnosisPart == <<"synthesis", "succeeded">> \in parts <=> evidence["synthesis"] # None

\* What the answer is composed from is never older than what it rests on.
NothingStale == Fresh /\ SynthesisFresh /\ DiagnosisPart

\* active_results and the evidence list, kept apart by the code, agree: usable
\* evidence belongs to a result in use, failed evidence to a failed one, and a
\* success always has its evidence.
EvidenceCurrent ==
  \A a \in Agents :
    /\ evidence[a] = "usable" => active[a] \in {"succeeded", "data_unavailable"}
    /\ evidence[a] = "failed" => active[a] \in Failures
    /\ active[a] = "succeeded" => evidence[a] = "usable"

\* A chart the plan asks for was drawn from the SQL result in use.
ChartCurrent ==
  (chart /\ "visualization" \in plan.selected) =>
    active["visualization"] = "succeeded" /\ "text2sql" \in basis["visualization"]

\* The answer parts are those of the results in use: a query, an estimate and a
\* successful document search have exactly the part of their latest run.  The
\* summary of a failed document search is excluded: see PartsCurrent below.
PartsAgree ==
  /\ \A a \in {"text2sql", "impact"}, s \in AgentStatus : <<a, s>> \in parts <=> active[a] = s
  /\ <<"rag", "succeeded">> \in parts <=> active["rag"] = "succeeded"

\* The places a result is kept in agree about the result in use: the active
\* results, the evidence, the chart and the answer parts.
PlacesAgree == EvidenceCurrent /\ ChartCurrent /\ PartsAgree

\* A planned agent that is entered does run: whatever sent the request there has
\* cleared halted or forced the agent, so that _skipped is reached only by an
\* agent outside the plan (see RetryRuns below).
NoSkip == pc \in plan.selected => ShouldRun(pc)

\* The retried query failed for good, and the final reflection then had an agent
\* outside the plan run again, which clears halted.
QueryGivenUp ==
  /\ IsRequired("text2sql") /\ active["text2sql"] \in Failures
  /\ retries["text2sql"] = 1 /\ reflection = "retry_target"

\* A request that goes to the final reflection without being halted has run
\* every planned step and has no re-run queued, in whatever order alternates
\* and retries took the steps, unless the query was given up.
NoStepLost ==
  (pc = "reflection" /\ ~halted) =>
    pending = <<>> /\ \A a \in plan.selected : active[a] # None \/ QueryGivenUp

\* The dispatcher loses no step and enters no planned agent for nothing.
EveryStepRuns == NoStepLost /\ NoSkip

\* A question answered "succeeded" with Text2SQL in its plan rests on a
\* successful query: no later agent paints over a query that failed.
SqlFailureVisible ==
  (pc = "end" /\ status = "succeeded" /\ "text2sql" \in plan.selected) =>
    active["text2sql"] = "succeeded"

\* A request ends with an answer, a review of it and a final status; a refused
\* answer and a question back to the user are never reported as a success.
EndStatus ==
  pc = "end" =>
    /\ status \in {"succeeded"} \cup Failures
    /\ answer # None /\ review # None
    /\ status = "succeeded" => review = "approved" /\ answer = "composed"

\* What is reported as a success was one, for the query and for the answer.
SuccessEarned == SqlFailureVisible /\ EndStatus

\* Every request ends with an answer or with a model error: the retries, replans
\* and alternates the budgets allow never use up LangGraph's super-steps.  The
\* one way to that limit is a plan nobody is charged for (see ReplanOnce below):
\* planned more often than the replan budget allows, a request may go round for
\* ever, and LangGraph stops it.
Terminates == <>(pc \in {"end", "aborted"} \/ plannings > 1 + ReplanBudget)

(* What the documents say of recovery and the graph does not keep. *)

\* architecture.md: "replan: Planner (at most once)".
ReplanOnce == plannings <= 1 + ReplanBudget

\* planner_supervisor_hackathon: nothing of a previous attempt is mixed into
\* the final answer; here every answer part belongs to the run in use.
PartsCurrent ==
  pc = "composer" => \A p \in parts : p[1] \in Agents => active[p[1]] = p[2]

\* planner_supervisor_hackathon: when an upstream result is renewed, the
\* consumers that had already run are computed again.
ConsumersRecomputed ==
  pc = "composer" =>
    \A p \in ActiveAgents, c \in ActiveAgents \cap plan.selected :
      (c \in Consumers(p) /\ active[p] = "succeeded") => p \in basis[c]

\* agent_handover_2026-09-07: "retry_same_agent" runs the same agent again with
\* the feedback; here whatever agent is entered does run.
RetryRuns == pc \in Agents => ShouldRun(pc)

\* development_todo: after a retry the consumers are computed again and no step
\* goes missing, here not even those that waited behind a failed query.
StepsKept == (pc = "reflection" /\ ~halted) => plan.selected \subseteq ActiveAgents

\* planner_supervisor_hackathon: when an upstream result is renewed, what was
\* computed from it is computed again; here the diagnosis, whatever the plan.
SynthesisCurrent ==
  (pc = "composer" /\ evidence["synthesis"] # None) =>
    basis["synthesis"] = ActiveAgents \cap {"text2sql", "rag", "case_search"}

=============================================================================
