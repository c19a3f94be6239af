-------------------------- MODULE AgentGraph_proofs --------------------------
(***************************************************************************)
(* Proofs about AgentGraph for every plan, tool outcome and recursion      *)
(* limit: its type invariant and the conservation of the recovery budgets; *)
(* Route, where a request is in its plan; and on top of it Places and      *)
(* Parts (the places of a result agree), Earned (a success was one),       *)
(* Account (every step of the plan is done, due or given up) and           *)
(* Recomputed (nothing in use is older than what it was computed from).    *)
(***************************************************************************)
EXTENDS AgentGraph, FiniteSetTheorems, SequenceTheorems, TLAPS

-----------------------------------------------------------------------------
(* Operators on plans and queues. *)

\* Sequences of at most one element.
LEMMA ShortSeq ==
  ASSUME NEW A
  PROVE  <<>> \in Seq(A) /\ \A a \in A : <<a>> \in Seq(A)
  OBVIOUS

\* The queue of re-runs stays a sequence of agents.
LEMMA QueueType ==
  ASSUME NEW S, pending \in Seq(Agents)
  PROVE  InOrder(S) \in Seq(Agents) /\ Requeue(S) \in Seq(Agents)
<1>1. ASSUME NEW T, NEW a \in Agents PROVE Pick(T, a) \in Seq(Agents)
  BY ShortSeq DEF Pick
<1>2. {"text2sql", "rag", "case_search", "impact", "visualization"} \subseteq Agents
  BY DEF Agents
<1>3. InOrder(S) \in Seq(Agents)
  BY <1>1, <1>2, ConcatProperties DEF InOrder
<1>4. ASSUME NEW i \in 1..5 PROVE Kept(S, i) \in Seq(Agents)
  BY ShortSeq, ElementOfSeq, LenProperties DEF Kept
<1>5. QED
  BY <1>3, <1>4, ConcatProperties DEF Requeue

\* A plan the planner may return is well typed.
LEMMA PlansType ==
  ASSUME NEW type \in DOMAIN Required, NEW s \in PlanStatuses, NEW p \in PlansOf(type, s)
  PROVE  p \in [query_type : DOMAIN Required \cup {None},
                status : PlanStatuses \cup {"running"}, selected : SUBSET Agents]
<1>1. Required[type] \subseteq Agents
  BY DEF Required, Agents
<1>2. Extras(type) \subseteq Agents
  BY ExtraAgentsAssumption DEF Extras
<1>3. QED
  BY <1>1, <1>2 DEF PlansOf

\* What is left after the results of the agents in S are dropped.
LEMMA WithoutType ==
  ASSUME TypeOK, NEW S
  PROVE  /\ ActiveWithout(S) \in [Agents -> AgentStatus \cup {None}]
         /\ EvidenceWithout(S) \in [Sources -> {None, "failed", "usable"}]
         /\ PartsWithout(S) \subseteq Sources \X AgentStatus
         /\ ChartWithout(S) \in BOOLEAN
         /\ BasisWithout(S) \in [Sources -> SUBSET Agents]
  BY DEF TypeOK, ResultType, None, ActiveWithout, EvidenceWithout, PartsWithout, ChartWithout, BasisWithout

-----------------------------------------------------------------------------
(* What a recovery decision that passed the policy may be. *)

Recovery ==
  [action : {"continue", "compose", "retry_same_agent", "retry_agents", "replan", "alternate_agent"},
   targets : SUBSET Agents, alternate : Agents \cup {None}, repair : BOOLEAN, feedback : BOOLEAN]

Permitted(d) ==
  /\ d \in Recovery
  /\ d.action = "compose" => AllSatisfied
  /\ d.action = "retry_agents" => RetryAgentsAllowed(d)
  /\ d.action = "retry_same_agent" => RetrySameAllowed
  /\ d.action = "replan" => budget.replan > 0
  /\ d.action = "alternate_agent" => budget.alternate > 0 /\ d.alternate \in AllowedAlternates

\* One application of the policy is enough for its answer to be permitted.
LEMMA EnforcePermits ==
  ASSUME NEW o \in Recovery
  PROVE  Permitted(Enforce(o))
<1> DEFINE refused == o.action = "retry_same_agent" /\ ~RetrySameAllowed
           d == Enforce(o)
<1>1. /\ d \in Recovery /\ d.repair = o.repair
      /\ d.action = "retry_agents" => d.targets = o.targets
      /\ d.action = "alternate_agent" => d.alternate = o.alternate
  BY DEF Enforce, Recovery
<1>2. d.action = "retry_agents" => (RetryAgentsAllowed(d) <=> RetryAgentsAllowed(o))
  BY <1>1 DEF RetryAgentsAllowed
<1>3. CASE refused
  BY <1>1, <1>3 DEF Enforce, Permitted, Recovery
<1>4. CASE ~refused
  BY <1>1, <1>2, <1>4 DEF Enforce, Permitted, Recovery
<1>5. QED
  BY <1>3, <1>4

\* Every decision the node acts on is permitted.
LEMMA DecisionsPermitted ==
  ASSUME NEW d \in Decisions
  PROVE  Permitted(d)
<1>1. RecoveryOutputs \subseteq Recovery
  BY DEF RecoveryOutputs, Recovery
<1>2. PICK o \in RecoveryOutputs : d = Enforce(Enforce(o))
  BY DEF Decisions
<1>3. Enforce(o) \in Recovery
  BY <1>1, EnforcePermits DEF Permitted
<1>4. QED
  BY <1>2, <1>3, EnforcePermits

-----------------------------------------------------------------------------
(* Type correctness. *)

LEMMA AgentsFinite == IsFiniteSet(Agents)
<1>1. Agents = ((({"text2sql"} \cup {"rag"}) \cup {"case_search"}) \cup {"impact"})
               \cup {"visualization"}
  BY DEF Agents
<1>2. QED
  BY <1>1, FS_Singleton, FS_Union

\* The group of counters of a set of retried agents.
LEMMA SpendRetriesType ==
  ASSUME TypeOK, NEW A \in SUBSET Agents, Cardinality(A) <= budget.retry, SpendRetries(A)
  PROVE  /\ retries' \in [Agents -> Nat]
         /\ budget' \in [retry : Nat, replan : Nat, alternate : Nat]
         /\ replans' \in Nat
<1>1. Cardinality(A) \in Nat
  BY AgentsFinite, FS_Subset, FS_CardinalityType
<1>2. retries \in [Agents -> Nat] /\ budget \in [retry : Nat, replan : Nat, alternate : Nat]
      /\ replans \in Nat
  BY DEF TypeOK, BudgetType
<1>3. budget.retry - Cardinality(A) \in Nat
  BY <1>1, <1>2
<1>4. retries' \in [Agents -> Nat]
  BY <1>2 DEF SpendRetries
<1>5. budget' = [budget EXCEPT !.retry = budget.retry - Cardinality(A)] /\ replans' = replans
  BY DEF SpendRetries
<1>6. QED
  BY <1>2, <1>3, <1>4, <1>5

LEMMA SpendReplanType ==
  ASSUME TypeOK, budget.replan > 0, SpendReplan
  PROVE  BudgetType'
<1>1. BudgetType
  BY DEF TypeOK
<1>2. /\ replans' = replans + 1
      /\ budget' = [budget EXCEPT !.replan = budget.replan - 1]
      /\ retries' = retries
  BY DEF SpendReplan
<1>3. QED
  BY <1>1, <1>2 DEF BudgetType

\* What every run of an agent records.
LEMMA RecordType ==
  ASSUME TypeOK, NEW a \in Agents, NEW s \in AgentStatus, Record(a, s)
  PROVE  /\ active' \in [Agents -> AgentStatus \cup {None}]
         /\ basis' \in [Sources -> SUBSET Agents]
         /\ reflections' \in [Agents -> AgentStatus \cup {None}]
         /\ current' = a /\ forced' = None /\ pc' = "agent_supervisor"
<1> DEFINE W == BasisWithout(Obsolete({a}))
<1>1. W \in [Sources -> SUBSET Agents]
  BY WithoutType
<1>2. Inputs(a) \subseteq Agents
  BY DEF Inputs, ActiveAgents
<1>3. {"text2sql", "rag", "case_search"} \subseteq Agents
  BY DEF Agents
<1> HIDE DEF W
<1>4. basis' = [x \in Sources |->
                  IF x = a THEN Inputs(a)
                  ELSE IF x = "synthesis" /\ Diagnosing(a)
                       THEN {p \in {"text2sql", "rag", "case_search"} : active'[p] # None}
                       ELSE W[x] \ {a}]
  BY DEF Record, W
<1>5. basis' \in [Sources -> SUBSET Agents]
  BY <1>1, <1>2, <1>3, <1>4
<1>6. active' \in [Agents -> AgentStatus \cup {None}]
  BY WithoutType DEF Record
<1>7. QED
  BY <1>5, <1>6 DEF Record, TypeOK, ReviewType

LEMMA AddType ==
  ASSUME TypeOK, NEW a \in Agents, NEW e \in {None, "failed", "usable"}, AddEvidence(a, e)
  PROVE  evidence' \in [Sources -> {None, "failed", "usable"}]
  BY WithoutType DEF AddEvidence

LEMMA InitType == Init => TypeOK
<1> SUFFICES ASSUME Init PROVE TypeOK
  OBVIOUS
<1>1. RequestType /\ ReviewType /\ FinalType /\ ControlType
  BY DEF Init, RequestType, ReviewType, FinalType, ControlType, Nodes, Statuses
<1>2. ResultType
  BY DEF Init, ResultType
<1>3. RouteType
  BY ShortSeq DEF Init, RouteType
<1>4. BudgetType
  BY BudgetAssumption DEF Init, BudgetType
<1>5. QED
  BY <1>1, <1>2, <1>3, <1>4 DEF TypeOK

\* Each step keeps the types.
LEMMA StepType == TypeOK /\ [Next]_vars => TypeOK'
<1> SUFFICES ASSUME TypeOK, [Next]_vars PROVE TypeOK'
  OBVIOUS
<1> USE DEF requestVars, resultVars, routeVars, reviewVars, budgetVars, finalVars,
            RequestType, ResultType, RouteType, ReviewType, BudgetType, FinalType, ControlType
<1>1. CASE Planner
  <2>1. PICK type \in QueryTypes, s \in PlanStatuses : plan' \in PlansOf(type, s)
    BY <1>1 DEF Planner
  <2>2. type \in DOMAIN Required
    BY QueryTypesAssumption
  <2>3. plan' \in [query_type : DOMAIN Required \cup {None},
                   status : PlanStatuses \cup {"running"}, selected : SUBSET Agents]
    BY <2>1, <2>2, PlansType
  <2>4. plan'.query_type = type /\ plan'.status = s
    BY <2>1 DEF PlansOf
  <2>5. s \in Statuses
    BY PlanStatusesAssumption DEF Statuses, AgentStatus, Failures
  <2>6. QED
    <3>1. RequestType'
      BY <1>1, <2>3, <2>4, <2>5 DEF Planner, TypeOK
    <3>2. ControlType'
      BY <1>1, <2>2, <2>4 DEF Planner, Step, TypeOK, Nodes
    <3>3. ResultType'
      BY <1>1 DEF Planner
    <3>4. RouteType'
      BY <1>1, ShortSeq DEF Planner
    <3>5. ReviewType' /\ BudgetType' /\ FinalType'
      BY <1>1 DEF Planner, TypeOK
    <3>6. QED
      BY <3>1, <3>2, <3>3, <3>4, <3>5 DEF TypeOK
<1>2. CASE Supervisor
  <2>1. plan.query_type \in DOMAIN Required /\ plan.status \in PlanStatuses
    BY <1>2 DEF Supervisor, Step, TypeOK
  <2>2. PICK s \in Reviewed(plan) : plan' \in PlansOf(plan.query_type, s)
    BY <1>2 DEF Supervisor
  <2>3. s \in PlanStatuses
    BY <2>1, <2>2 DEF Reviewed
  <2>4. plan' \in [query_type : DOMAIN Required \cup {None},
                   status : PlanStatuses \cup {"running"}, selected : SUBSET Agents]
    BY <2>1, <2>2, <2>3, PlansType
  <2>5. plan'.status = s
    BY <2>2 DEF PlansOf
  <2>6. s \in Statuses
    BY <2>3, PlanStatusesAssumption DEF Statuses, AgentStatus, Failures
  <2>7. QED
    BY <1>2, <2>4, <2>5, <2>6 DEF Supervisor, Step, TypeOK, Nodes, None
<1>3. CASE Dispatcher
  <2>1. CASE DispatchHalted
    BY <2>1 DEF DispatchHalted, Step, TypeOK, Nodes
  <2>2. CASE DispatchPending
    <3>1. Head(pending) \in Agents /\ Tail(pending) \in Seq(Agents)
      BY <2>2, HeadTailProperties DEF DispatchPending, TypeOK
    <3>2. QED
      BY <2>2, <3>1 DEF DispatchPending, Step, TypeOK, Nodes, Agents
  <2>3. ASSUME NEW a \in Agents, DispatchStep(a) PROVE TypeOK'
    <3>1. Rank[a] \in 0..5 /\ a \in Nodes /\ a \notin {"supervisor", "agent_supervisor"}
      BY <2>3 DEF Rank, Agents, Nodes
    <3>2. /\ pc' = a /\ cursor' = Rank[a] /\ steps' = steps + 1
          /\ UNCHANGED <<requestVars, resultVars, pending, alternates, forced, reviewVars, budgetVars,
                         finalVars, plannings>>
      BY <2>3 DEF DispatchStep, Step
    <3>3. RouteType' /\ ControlType'
      BY <3>1, <3>2 DEF TypeOK
    <3>4. RequestType' /\ ResultType' /\ ReviewType' /\ BudgetType' /\ FinalType'
      BY <3>2 DEF TypeOK
    <3>5. QED
      BY <3>3, <3>4 DEF TypeOK
  <2>4. CASE DispatchDone
    BY <2>4 DEF DispatchDone, Step, TypeOK, Nodes
  <2>5. QED
    BY <1>3, <2>1, <2>2, <2>3, <2>4 DEF Dispatcher
<1>4. CASE RunAgent
  <2>1. CASE Text2sql
    <3>1. PICK s \in Outcome["text2sql"] : Record("text2sql", s) /\
             AddEvidence("text2sql", IF s = "succeeded" THEN "usable" ELSE "failed")
             /\ AddParts("text2sql", {<<"text2sql", s>>}) /\ status' = s
             /\ sql' \in {"rows", "empty"}
             /\ halted' \in BOOLEAN
      BY <2>1 DEF Text2sql
    <3>2. s \in AgentStatus /\ "text2sql" \in Agents
      BY OutcomeAssumption DEF Agents, AgentStatus
    <3>3. evidence' \in [Sources -> {None, "failed", "usable"}]
      BY <3>1, <3>2, AddType
    <3>4. parts' \subseteq Sources \X AgentStatus
      BY <3>1, <3>2, WithoutType DEF AddParts, Sources
    <3>5. QED
      BY <2>1, <3>1, <3>2, <3>3, <3>4, RecordType DEF Text2sql, Step, TypeOK, Nodes, Statuses, None
  <2>2. CASE Rag
    <3>1. PICK s \in Outcome["rag"] : Record("rag", s) /\
             AddEvidence("rag", IF s = "succeeded" THEN "usable" ELSE None)
             /\ AddParts("rag", {<<"rag", s>>}) /\ status' \in {s, status}
             /\ halted' \in BOOLEAN /\ answer' \in {"rag", answer}
      BY <2>2 DEF Rag
    <3>2. s \in AgentStatus /\ "rag" \in Agents
      BY OutcomeAssumption DEF Agents, AgentStatus, Failures
    <3>3. evidence' \in [Sources -> {None, "failed", "usable"}]
      BY <3>1, <3>2, AddType
    <3>4. parts' \subseteq Sources \X AgentStatus
      BY <3>1, <3>2, WithoutType DEF AddParts, Sources
    <3>5. QED
      BY <2>2, <3>1, <3>2, <3>3, <3>4, RecordType DEF Rag, Step, TypeOK, Nodes, Statuses, None
  <2>3. CASE CaseSearch
    <3>1. PICK s \in Outcome["case_search"] : Record("case_search", s) /\
             AddEvidence("case_search", IF s = "succeeded" THEN "usable" ELSE None)
      BY <2>3 DEF CaseSearch
    <3>2. s \in AgentStatus /\ "case_search" \in Agents
      BY OutcomeAssumption DEF Agents, AgentStatus, Failures
    <3>3. evidence' \in [Sources -> {None, "failed", "usable"}]
      BY <3>1, <3>2, AddType
    <3>4. parts' \subseteq Sources \X AgentStatus
      <4>1. {<<"synthesis", "succeeded">>} \subseteq Sources \X AgentStatus
        BY DEF Sources, AgentStatus
      <4>2. QED
        BY <2>3, <4>1, WithoutType DEF CaseSearch, AddParts
    <3>5. QED
      BY <2>3, <3>1, <3>2, <3>3, <3>4, RecordType DEF CaseSearch, Step, TypeOK, Nodes, None
  <2>4. CASE Impact
    <3>1. PICK s \in Outcome["impact"] : Record("impact", s) /\ AddEvidence("impact", "usable")
             /\ AddParts("impact", {<<"impact", s>>}) /\ status' = s
      BY <2>4 DEF Impact
    <3>2. s \in AgentStatus /\ "impact" \in Agents
      BY OutcomeAssumption DEF Agents, AgentStatus, Failures, NotReady
    <3>3. evidence' \in [Sources -> {None, "failed", "usable"}]
      BY <3>1, <3>2, AddType
    <3>4. parts' \subseteq Sources \X AgentStatus
      BY <3>1, <3>2, WithoutType DEF AddParts, Sources
    <3>5. QED
      BY <2>4, <3>1, <3>2, <3>3, <3>4, RecordType DEF Impact, Step, TypeOK, Nodes, Statuses, None
  <2>5. CASE Visualization
    <3>1. PICK s \in AgentStatus : Record("visualization", s) /\
             (AddEvidence("visualization", "usable") \/ UNCHANGED evidence)
             /\ chart' \in BOOLEAN
      BY <2>5, OutcomeAssumption DEF Visualization, AgentStatus, Failures, NotReady, TypeOK
    <3>2. "visualization" \in Agents
      BY DEF Agents
    <3>3. evidence' \in [Sources -> {None, "failed", "usable"}]
      BY <3>1, <3>2, AddType DEF TypeOK
    <3>4. QED
      BY <2>5, <3>1, <3>2, <3>3, RecordType DEF Visualization, Step, TypeOK, Nodes, None
  <2>6. ASSUME NEW a \in Agents, Skip(a) PROVE TypeOK'
    <3>1. RequestType' /\ ResultType' /\ RouteType' /\ ReviewType' /\ BudgetType' /\ FinalType'
      BY <2>6 DEF Skip, TypeOK
    <3>2. ControlType'
      BY <2>6 DEF Skip, Step, TypeOK, Nodes, Agents
    <3>3. QED
      BY <3>1, <3>2 DEF TypeOK
  <2>7. QED
    BY <1>4, <2>1, <2>2, <2>3, <2>4, <2>5, <2>6 DEF RunAgent
<1>5. CASE AgentSupervisor
  <2> SUFFICES ASSUME NEW d \in Decisions,
                      \/ Continue(d) \/ Compose(d) \/ RetryAgents(d)
                      \/ RetrySame(d) \/ Replan(d) \/ Alternate(d)
               PROVE  TypeOK'
    BY <1>5 DEF AgentSupervisor
  <2>1. Permitted(d)
    BY DecisionsPermitted
  <2>2. CASE Continue(d)
    BY <2>2 DEF Continue, Decide, Step, TypeOK, Nodes, None
  <2>3. CASE Compose(d)
    BY <2>3, ShortSeq DEF Compose, Decide, Step, TypeOK, Nodes, None, Rank
  <2>4. CASE RetryAgents(d)
    <3>1. d.targets \in SUBSET Agents /\ Cardinality(d.targets) <= budget.retry
      BY <2>1, <2>4 DEF Permitted, Recovery, RetryAgents, Decide, RetryAgentsAllowed
    <3>2. pending' \in Seq(Agents)
      BY <2>4, QueueType DEF RetryAgents, TypeOK
    <3>3. /\ retries' \in [Agents -> Nat]
          /\ budget' \in [retry : Nat, replan : Nat, alternate : Nat]
          /\ replans' \in Nat
      BY <2>4, <3>1, SpendRetriesType DEF RetryAgents
    <3>4. ResultType'
      BY <2>4, WithoutType DEF RetryAgents, Invalidate, TypeOK
    <3>5. RequestType' /\ ReviewType' /\ FinalType'
      <4>1. RequestType'
        BY <2>4 DEF RetryAgents, TypeOK
      <4>2. ReviewType'
        BY <2>4 DEF RetryAgents, TypeOK
      <4>3. FinalType'
        BY <2>4 DEF RetryAgents, TypeOK
      <4>4. QED
        BY <4>1, <4>2, <4>3
    <3>6. RouteType'
      BY <2>4, <3>2 DEF RetryAgents, TypeOK
    <3>7. ControlType'
      BY <2>4 DEF RetryAgents, Decide, Step, TypeOK, Nodes
    <3>8. QED
      BY <3>3, <3>4, <3>5, <3>6, <3>7 DEF TypeOK
  <2>5. CASE RetrySame(d)
    <3>1. current \in Agents /\ budget.retry > 0
      BY <2>1, <2>5 DEF Permitted, RetrySame, Decide, Step, RetrySameAllowed, TypeOK
    <3>2. {current} \in SUBSET Agents /\ Cardinality({current}) <= budget.retry
      <4>1. Cardinality({current}) = 1
        BY FS_Singleton
      <4>2. QED
        BY <3>1, <4>1 DEF TypeOK
    <3>3. pending' \in Seq(Agents)
      BY <2>5, QueueType DEF RetrySame, TypeOK
    <3>4. pc' \in Nodes /\ pc' \notin {"supervisor", "agent_supervisor"}
      BY <2>5, <3>1 DEF RetrySame, Nodes, Agents
    <3>5. BudgetType'
      BY <2>5, <3>2, SpendRetriesType DEF RetrySame
    <3>6. ResultType'
      BY <2>5, WithoutType DEF RetrySame, Invalidate, TypeOK
    <3>7. RequestType' /\ ReviewType' /\ FinalType'
      <4>1. RequestType'
        BY <2>5 DEF RetrySame, TypeOK
      <4>2. ReviewType'
        BY <2>5 DEF RetrySame, TypeOK
      <4>3. FinalType'
        BY <2>5 DEF RetrySame, TypeOK
      <4>4. QED
        BY <4>1, <4>2, <4>3
    <3>8. RouteType'
      BY <2>5, <3>3 DEF RetrySame, TypeOK
    <3>9. ControlType'
      BY <2>5, <3>4 DEF RetrySame, Decide, Step, TypeOK
    <3>10. QED
      BY <3>5, <3>6, <3>7, <3>8, <3>9 DEF TypeOK
  <2>6. CASE Replan(d)
    <3>1. budget.replan > 0
      BY <2>1, <2>6 DEF Permitted, Replan, Decide
    <3>2. BudgetType'
      BY <2>6, <3>1, SpendReplanType DEF Replan
    <3>3. RequestType' /\ ResultType' /\ ReviewType' /\ FinalType'
      <4>1. RequestType'
        BY <2>6 DEF Replan, TypeOK
      <4>2. ResultType'
        BY <2>6 DEF Replan, TypeOK
      <4>3. ReviewType'
        BY <2>6 DEF Replan, TypeOK
      <4>4. FinalType'
        BY <2>6 DEF Replan, TypeOK
      <4>5. QED
        BY <4>1, <4>2, <4>3, <4>4
    <3>4. RouteType'
      BY <2>6 DEF Replan, TypeOK
    <3>5. ControlType'
      BY <2>6 DEF Replan, Decide, Step, TypeOK, Nodes
    <3>6. QED
      BY <3>2, <3>3, <3>4, <3>5 DEF TypeOK
  <2>7. CASE Alternate(d)
    <3>1. budget.alternate > 0 /\ d.alternate \in AllowedAlternates
      BY <2>1, <2>7 DEF Permitted, Alternate, Decide
    <3>2. d.alternate \in {"rag", "case_search"}
      BY <3>1 DEF AllowedAlternates
    <3>3. BudgetType'
      <4>1. budget' = [budget EXCEPT !.alternate = budget.alternate - 1]
            /\ UNCHANGED <<retries, replans>>
        BY <2>7 DEF Alternate
      <4>2. BudgetType
        BY DEF TypeOK
      <4>3. QED
        BY <3>1, <4>1, <4>2
    <3>4. RequestType' /\ ResultType' /\ ReviewType' /\ FinalType'
      <4>1. RequestType'
        BY <2>7 DEF Alternate, TypeOK
      <4>2. ResultType'
        BY <2>7 DEF Alternate, TypeOK
      <4>3. ReviewType'
        BY <2>7 DEF Alternate, TypeOK
      <4>4. FinalType'
        BY <2>7 DEF Alternate, TypeOK
      <4>5. QED
        BY <4>1, <4>2, <4>3, <4>4
    <3>5. RouteType'
      BY <2>7, <3>2 DEF Alternate, TypeOK, Agents
    <3>6. ControlType'
      <4>1. pc' = d.alternate /\ steps' = steps + 1 /\ plannings' = plannings
        BY <2>7 DEF Alternate, Decide, Step
      <4>2. pc' \in Nodes /\ pc' \notin {"supervisor", "agent_supervisor"}
        BY <3>2, <4>1 DEF Nodes, Agents
      <4>3. QED
        BY <4>1, <4>2 DEF TypeOK
    <3>7. QED
      BY <3>3, <3>4, <3>5, <3>6 DEF TypeOK
  <2>8. QED
    BY <2>2, <2>3, <2>4, <2>5, <2>6, <2>7
<1>6. CASE Reflection
  <2>1. CASE ReflectStopped
    <3>1. pc' \in Nodes /\ pc' \notin {"supervisor", "agent_supervisor"}
      BY <2>1 DEF ReflectStopped, AfterReflection, TypeOK, Nodes, Agents, None
    <3>2. QED
      BY <2>1, <3>1 DEF ReflectStopped, Step, TypeOK
  <2>2. CASE ReflectGrounded
    BY <2>2 DEF ReflectGrounded, Step, TypeOK, Nodes, None
  <2>3. CASE ReflectCompose
    BY <2>3 DEF ReflectCompose, Reflecting, Step, TypeOK, Nodes, None
  <2>4. CASE ReflectReplan
    <3>1. BudgetType'
      BY <2>4, SpendReplanType DEF ReflectReplan
    <3>2. RequestType' /\ ResultType' /\ ReviewType' /\ FinalType'
      BY <2>4 DEF ReflectReplan, TypeOK
    <3>3. RouteType'
      BY <2>4 DEF ReflectReplan, TypeOK
    <3>4. ControlType'
      BY <2>4 DEF ReflectReplan, Reflecting, Step, TypeOK, Nodes
    <3>5. QED
      BY <3>1, <3>2, <3>3, <3>4 DEF TypeOK
  <2>5. ASSUME NEW a \in Agents, ReflectRetry(a) PROVE TypeOK'
    <3>1. {a} \in SUBSET Agents /\ Cardinality({a}) <= budget.retry
      <4>1. Cardinality({a}) = 1
        BY FS_Singleton
      <4>2. QED
        BY <2>5, <4>1 DEF ReflectRetry, RetryTargetAllowed, TypeOK
    <3>2. pending' \in Seq(Agents)
      BY <2>5, QueueType DEF ReflectRetry, TypeOK
    <3>3. pc' \in Nodes /\ pc' \notin {"supervisor", "agent_supervisor"}
      BY <2>5 DEF ReflectRetry, Nodes, Agents
    <3>4. BudgetType'
      BY <2>5, <3>1, SpendRetriesType DEF ReflectRetry
    <3>5. ResultType'
      BY <2>5, WithoutType DEF ReflectRetry, Invalidate, TypeOK
    <3>6. RequestType' /\ ReviewType' /\ FinalType'
      BY <2>5 DEF ReflectRetry, TypeOK
    <3>7. RouteType'
      BY <2>5, <3>2 DEF ReflectRetry, TypeOK
    <3>8. ControlType'
      BY <2>5, <3>3 DEF ReflectRetry, Reflecting, Step, TypeOK
    <3>9. QED
      BY <3>4, <3>5, <3>6, <3>7, <3>8 DEF TypeOK
  <2>6. QED
    BY <1>6, <2>1, <2>2, <2>3, <2>4, <2>5 DEF Reflection
<1>7. CASE Answering
  <2>1. CASE ComposerKeeps
    BY <2>1 DEF ComposerKeeps, Step, TypeOK, Nodes
  <2>2. CASE Composer
    BY <2>2 DEF Composer, Step, TypeOK, Nodes, Statuses, AgentStatus, Failures, NotReady,
                Validations, None
  <2>3. CASE ReviewGrounded
    BY <2>3 DEF ReviewGrounded, Step, TypeOK, Nodes, Ends
  <2>4. CASE ReviewAnswer
    BY <2>4 DEF ReviewAnswer, Step, TypeOK, Nodes, Ends, Statuses, AgentStatus, Failures
  <2>5. QED
    BY <1>7, <2>1, <2>2, <2>3, <2>4 DEF Answering
<1>8. CASE OutOfSteps
  BY <1>8 DEF OutOfSteps, TypeOK, Ends, Nodes
<1>9. CASE NodeRaises
  BY <1>9 DEF NodeRaises, TypeOK, Ends, Nodes
<1>10. CASE Ended \/ UNCHANGED vars
  <2>1. UNCHANGED vars
    BY <1>10 DEF Ended
  <2>2. RequestType' /\ ResultType' /\ RouteType' /\ ReviewType'
    BY <2>1 DEF TypeOK, vars
  <2>3. BudgetType' /\ FinalType' /\ ControlType'
    BY <2>1 DEF TypeOK, vars
  <2>4. QED
    BY <2>2, <2>3 DEF TypeOK
<1>11. QED
  BY <1>1, <1>2, <1>3, <1>4, <1>5, <1>6, <1>7, <1>8, <1>9, <1>10 DEF Next

\* The state of a request is well typed for every plan, outcome and budget; no
\* budget is overdrawn.
THEOREM TypeCorrect == Spec => []TypeOK
  BY InitType, StepType, PTL DEF Spec

-----------------------------------------------------------------------------
(* Conservation of the recovery budgets. *)

\* Retrying agents that were not retried before moves as many units from the
\* budget to the set of retried agents.
LEMMA RetriesConserved ==
  ASSUME TypeOK, BudgetsKept, NEW A \in SUBSET Agents, SpendRetries(A),
         \A a \in A : retries[a] < 1
  PROVE  BudgetsKept'
<1> DEFINE Spent == {a \in Agents : retries[a] = 1}
<1>1. retries \in [Agents -> Nat] /\ budget \in [retry : Nat, replan : Nat, alternate : Nat]
  BY DEF TypeOK, BudgetType
<1>2. IsFiniteSet(Spent) /\ IsFiniteSet(A)
  BY AgentsFinite, FS_Subset
<1>3. Cardinality(Spent) \in Nat /\ Cardinality(A) \in Nat
  BY <1>2, FS_CardinalityType
<1>4. Spent \cap A = {}
  OBVIOUS
<1>5. Cardinality(Spent \cup A) = Cardinality(Spent) + Cardinality(A)
  <2> HIDE DEF Spent
  <2>1. Cardinality(Spent \cap A) = 0
    BY <1>4, FS_EmptySet
  <2>2. Cardinality(Spent \cup A)
          = Cardinality(Spent) + Cardinality(A) - Cardinality(Spent \cap A)
    BY <1>2, FS_Union
  <2>3. QED
    BY <1>3, <2>1, <2>2
<1>6. \A a \in Agents : retries'[a] = IF a \in A THEN retries[a] + 1 ELSE retries[a]
  BY DEF SpendRetries
<1>7. \A a \in Agents : retries'[a] <= 1 /\ (retries'[a] = 1 <=> a \in Spent \cup A)
  BY <1>1, <1>6 DEF BudgetsKept
<1>8. {a \in Agents : retries'[a] = 1} = Spent \cup A
  BY <1>7
<1>9. /\ budget'.retry = budget.retry - Cardinality(A)
      /\ budget'.replan = budget.replan
      /\ replans' = replans
  BY <1>1 DEF SpendRetries
<1>10. Cardinality(Spent) + budget.retry = RetryBudget /\ replans + budget.replan = ReplanBudget
  BY DEF BudgetsKept
<1> HIDE DEF Spent
<1>11. Cardinality(Spent \cup A) + budget'.retry = RetryBudget
  BY <1>1, <1>3, <1>5, <1>9, <1>10
<1>12. QED
  BY <1>7, <1>8, <1>9, <1>10, <1>11 DEF BudgetsKept

LEMMA ReplansConserved ==
  ASSUME TypeOK, BudgetsKept, SpendReplan
  PROVE  BudgetsKept'
<1>1. budget \in [retry : Nat, replan : Nat, alternate : Nat] /\ replans \in Nat
  BY DEF TypeOK, BudgetType
<1>2. /\ budget'.retry = budget.retry /\ budget'.replan = budget.replan - 1
      /\ replans' = replans + 1 /\ retries' = retries
  BY <1>1 DEF SpendReplan
<1>3. QED
  BY <1>1, <1>2 DEF BudgetsKept

\* Only the last two and an alternate, which has a budget of its own, touch the
\* counters.
LEMMA BudgetsStep == TypeOK /\ BudgetsKept /\ [Next]_vars => BudgetsKept'
<1> SUFFICES ASSUME TypeOK, BudgetsKept, [Next]_vars PROVE BudgetsKept'
  OBVIOUS
<1>1. ASSUME UNCHANGED <<retries, budget, replans>> PROVE BudgetsKept'
  BY <1>1 DEF BudgetsKept
<1>2. CASE AgentSupervisor
  <2> SUFFICES ASSUME NEW d \in Decisions,
                      \/ Continue(d) \/ Compose(d) \/ RetryAgents(d)
                      \/ RetrySame(d) \/ Replan(d) \/ Alternate(d)
               PROVE  BudgetsKept'
    BY <1>2 DEF AgentSupervisor
  <2>1. Permitted(d)
    BY DecisionsPermitted
  <2>2. CASE Continue(d) \/ Compose(d)
    BY <1>1, <2>2 DEF Continue, Compose, budgetVars
  <2>3. CASE RetryAgents(d)
    <3>1. d.targets \in SUBSET Agents /\ \A a \in d.targets : retries[a] < 1
      BY <2>1, <2>3 DEF Permitted, Recovery, RetryAgents, Decide, RetryAgentsAllowed, Retryable
    <3>2. QED
      BY <2>3, <3>1, RetriesConserved DEF RetryAgents
  <2>4. CASE RetrySame(d)
    <3>1. {current} \in SUBSET Agents /\ retries[current] < 1
      BY <2>1, <2>4 DEF Permitted, RetrySame, Decide, Step, RetrySameAllowed, TypeOK, ControlType
    <3>2. QED
      BY <2>4, <3>1, RetriesConserved DEF RetrySame
  <2>5. CASE Replan(d)
    BY <2>5, ReplansConserved DEF Replan
  <2>6. CASE Alternate(d)
    <3>1. budget \in [retry : Nat, replan : Nat, alternate : Nat]
      BY DEF TypeOK, BudgetType
    <3>2. /\ budget'.retry = budget.retry /\ budget'.replan = budget.replan
          /\ retries' = retries /\ replans' = replans
      BY <2>6, <3>1 DEF Alternate
    <3>3. QED
      BY <3>2 DEF BudgetsKept
  <2>7. QED
    BY <2>2, <2>3, <2>4, <2>5, <2>6
<1>3. CASE Reflection
  <2>1. CASE ReflectStopped \/ ReflectGrounded \/ ReflectCompose
    BY <1>1, <2>1 DEF ReflectStopped, ReflectGrounded, ReflectCompose, budgetVars
  <2>2. CASE ReflectReplan
    BY <2>2, ReplansConserved DEF ReflectReplan
  <2>3. ASSUME NEW a \in Agents, ReflectRetry(a) PROVE BudgetsKept'
    <3>1. {a} \in SUBSET Agents /\ retries[a] < 1
      BY <2>3 DEF ReflectRetry, RetryTargetAllowed
    <3>2. QED
      BY <2>3, <3>1, RetriesConserved DEF ReflectRetry
  <2>4. QED
    BY <1>3, <2>1, <2>2, <2>3 DEF Reflection
<1>4. CASE Planner \/ Supervisor \/ Dispatcher
  BY <1>1, <1>4 DEF Planner, Supervisor, Dispatcher, DispatchHalted, DispatchPending,
     DispatchStep, DispatchDone, budgetVars
<1>5. CASE RunAgent
  BY <1>1, <1>5 DEF RunAgent, Text2sql, Rag, CaseSearch, Impact, Visualization, Skip,
     budgetVars
<1>6. CASE Answering
  BY <1>1, <1>6 DEF Answering, ComposerKeeps, Composer, ReviewGrounded, ReviewAnswer, budgetVars
<1>7. CASE OutOfSteps \/ NodeRaises \/ Ended \/ UNCHANGED vars
  BY <1>1, <1>7 DEF OutOfSteps, NodeRaises, Ended, vars, budgetVars
<1>8. QED
  BY <1>2, <1>3, <1>4, <1>5, <1>6, <1>7 DEF Next

LEMMA BudgetsInit == Init => BudgetsKept
<1> SUFFICES ASSUME Init PROVE BudgetsKept
  OBVIOUS
<1>1. {a \in Agents : retries[a] = 1} = {}
  BY DEF Init
<1>2. Cardinality({a \in Agents : retries[a] = 1}) = 0
  BY <1>1, FS_EmptySet
<1>3. QED
  BY <1>2, BudgetAssumption DEF Init, BudgetsKept

\* However the planner, the supervisor and the final reflection hand a request
\* back to each other, no agent is retried twice and every retry and replan is
\* taken from the request's budget, for every value of the budgets.
THEOREM BudgetsAreKept == Spec => []BudgetsKept
  BY TypeCorrect, BudgetsInit, BudgetsStep, PTL DEF Spec

-----------------------------------------------------------------------------
(* The queue of re-runs: what it holds and in which order. *)

\* x is in the queue s; x is ahead of y in s.
Has(s, x) == \E i \in 1..Len(s) : s[i] = x
Ahead(s, x, y) == \E i, j \in 1..Len(s) : i < j /\ s[i] = x /\ s[j] = y

\* s holds exactly the agents of S, in the order of the plan.
Orders(s, S) ==
  /\ s \in Seq(Agents)
  /\ \A x : Has(s, x) <=> x \in S
  /\ \A x, y : Ahead(s, x, y) <=> x \in S /\ y \in S /\ Rank[x] < Rank[y]

\* A concatenation holds what its parts hold.
LEMMA HasConcat ==
  ASSUME NEW s \in Seq(Agents), NEW t \in Seq(Agents), NEW x
  PROVE  Has(s \o t, x) <=> Has(s, x) \/ Has(t, x)
<1>1. Len(s) \in Nat /\ Len(t) \in Nat
  BY LenProperties
<1>2. /\ Len(s \o t) = Len(s) + Len(t)
      /\ \A i \in 1..Len(s) : (s \o t)[i] = s[i]
      /\ \A i \in 1..Len(t) : (s \o t)[Len(s) + i] = t[i]
      /\ \A i \in 1..Len(s) + Len(t) : i > Len(s) => (s \o t)[i] = t[i - Len(s)]
  BY <1>1, ConcatProperties
<1>3. ASSUME Has(s \o t, x) PROVE Has(s, x) \/ Has(t, x)
  <2>1. PICK i \in 1..Len(s) + Len(t) : (s \o t)[i] = x
    BY <1>2, <1>3 DEF Has
  <2>2. CASE i <= Len(s)
    BY <1>1, <1>2, <2>1, <2>2 DEF Has
  <2>3. CASE i > Len(s)
    <3>1. i - Len(s) \in 1..Len(t)
      BY <1>1, <2>1, <2>3
    <3>2. QED
      BY <1>2, <2>1, <2>3, <3>1 DEF Has
  <2>4. QED
    BY <1>1, <2>1, <2>2, <2>3
<1>4. ASSUME Has(s, x) PROVE Has(s \o t, x)
  BY <1>1, <1>2, <1>4 DEF Has
<1>5. ASSUME Has(t, x) PROVE Has(s \o t, x)
  <2>1. PICK i \in 1..Len(t) : t[i] = x
    BY <1>5 DEF Has
  <2>2. Len(s) + i \in 1..Len(s \o t) /\ (s \o t)[Len(s) + i] = x
    BY <1>1, <1>2, <2>1
  <2>3. QED
    BY <2>2 DEF Has
<1>6. QED
  BY <1>3, <1>4, <1>5

\* A concatenation keeps the order of its parts, and the first is ahead of the second.
LEMMA AheadConcat ==
  ASSUME NEW s \in Seq(Agents), NEW t \in Seq(Agents), NEW x, NEW y
  PROVE  Ahead(s \o t, x, y) <=> Ahead(s, x, y) \/ Ahead(t, x, y) \/ (Has(s, x) /\ Has(t, y))
<1>1. Len(s) \in Nat /\ Len(t) \in Nat
  BY LenProperties
<1>2. /\ Len(s \o t) = Len(s) + Len(t)
      /\ \A i \in 1..Len(s) : (s \o t)[i] = s[i]
      /\ \A i \in 1..Len(t) : (s \o t)[Len(s) + i] = t[i]
      /\ \A i \in 1..Len(s) + Len(t) : i > Len(s) => (s \o t)[i] = t[i - Len(s)]
  BY <1>1, ConcatProperties
<1>3. ASSUME Ahead(s \o t, x, y)
      PROVE  Ahead(s, x, y) \/ Ahead(t, x, y) \/ (Has(s, x) /\ Has(t, y))
  <2>1. PICK i \in 1..Len(s) + Len(t), j \in 1..Len(s) + Len(t) :
          i < j /\ (s \o t)[i] = x /\ (s \o t)[j] = y
    BY <1>2, <1>3 DEF Ahead
  <2>2. CASE j <= Len(s)
    <3>1. i \in 1..Len(s) /\ j \in 1..Len(s)
      BY <1>1, <2>1, <2>2
    <3>2. QED
      BY <1>2, <2>1, <3>1 DEF Ahead
  <2>3. CASE i <= Len(s) /\ j > Len(s)
    <3>1. i \in 1..Len(s) /\ j - Len(s) \in 1..Len(t)
      BY <1>1, <2>1, <2>3
    <3>2. QED
      BY <1>2, <2>1, <2>3, <3>1 DEF Has
  <2>4. CASE i > Len(s)
    <3>1. i - Len(s) \in 1..Len(t) /\ j - Len(s) \in 1..Len(t) /\ i - Len(s) < j - Len(s)
          /\ j > Len(s)
      BY <1>1, <2>1, <2>4
    <3>2. t[i - Len(s)] = x /\ t[j - Len(s)] = y
      BY <1>2, <2>1, <2>4, <3>1
    <3>3. QED
      BY <3>1, <3>2 DEF Ahead
  <2>5. QED
    BY <1>1, <2>1, <2>2, <2>3, <2>4
<1>4. ASSUME Ahead(s, x, y) PROVE Ahead(s \o t, x, y)
  <2>1. PICK i \in 1..Len(s), j \in 1..Len(s) : i < j /\ s[i] = x /\ s[j] = y
    BY <1>4 DEF Ahead
  <2>2. i \in 1..Len(s \o t) /\ j \in 1..Len(s \o t) /\ (s \o t)[i] = x /\ (s \o t)[j] = y
    BY <1>1, <1>2, <2>1
  <2>3. QED
    BY <2>1, <2>2 DEF Ahead
<1>5. ASSUME Ahead(t, x, y) PROVE Ahead(s \o t, x, y)
  <2>1. PICK i \in 1..Len(t), j \in 1..Len(t) : i < j /\ t[i] = x /\ t[j] = y
    BY <1>5 DEF Ahead
  <2>2. /\ Len(s) + i \in 1..Len(s \o t) /\ (s \o t)[Len(s) + i] = x
        /\ Len(s) + j \in 1..Len(s \o t) /\ (s \o t)[Len(s) + j] = y
        /\ Len(s) + i < Len(s) + j
    BY <1>1, <1>2, <2>1
  <2>3. QED
    BY <2>2 DEF Ahead
<1>6. ASSUME Has(s, x), Has(t, y) PROVE Ahead(s \o t, x, y)
  <2>1. PICK i \in 1..Len(s) : s[i] = x
    BY <1>6 DEF Has
  <2>2. PICK j \in 1..Len(t) : t[j] = y
    BY <1>6 DEF Has
  <2>3. /\ i \in 1..Len(s \o t) /\ (s \o t)[i] = x
        /\ Len(s) + j \in 1..Len(s \o t) /\ (s \o t)[Len(s) + j] = y
        /\ i < Len(s) + j
    BY <1>1, <1>2, <2>1, <2>2
  <2>4. QED
    BY <2>3 DEF Ahead
<1>7. QED
  BY <1>3, <1>4, <1>5, <1>6

\* Queues of at most one agent.
LEMMA ShortQueue ==
  /\ \A x, y : ~Has(<<>>, x) /\ ~Ahead(<<>>, x, y)
  /\ \A a, x, y : (Has(<<a>>, x) <=> x = a) /\ ~Ahead(<<a>>, x, y)
<1>1. Len(<<>>) = 0 /\ \A a : Len(<<a>>) = 1 /\ <<a>>[1] = a
  OBVIOUS
<1>2. \A x, y : ~Has(<<>>, x) /\ ~Ahead(<<>>, x, y)
  BY DEF Has, Ahead
<1>3. ASSUME NEW a, NEW x, NEW y PROVE (Has(<<a>>, x) <=> x = a) /\ ~Ahead(<<a>>, x, y)
  BY <1>1 DEF Has, Ahead
<1>4. QED
  BY <1>2, <1>3

\* A queue extended by one agent, if the agent is in S.
LEMMA PickQueue ==
  ASSUME NEW q \in Seq(Agents), NEW S, NEW a \in Agents
  PROVE  /\ q \o Pick(S, a) \in Seq(Agents)
         /\ \A x : Has(q \o Pick(S, a), x) <=> Has(q, x) \/ (x = a /\ a \in S)
         /\ \A x, y : Ahead(q \o Pick(S, a), x, y) <=>
                        Ahead(q, x, y) \/ (Has(q, x) /\ y = a /\ a \in S)
<1> DEFINE p == Pick(S, a)
<1>1. /\ p \in Seq(Agents)
      /\ \A x : Has(p, x) <=> x = a /\ a \in S
      /\ \A x, y : ~Ahead(p, x, y)
  BY ShortSeq, ShortQueue DEF Pick
<1> HIDE DEF p
<1>2. q \o p \in Seq(Agents)
  BY <1>1, ConcatProperties
<1>3. ASSUME NEW x PROVE Has(q \o p, x) <=> Has(q, x) \/ (x = a /\ a \in S)
  BY <1>1, HasConcat
<1>4. ASSUME NEW x, NEW y
      PROVE  Ahead(q \o p, x, y) <=> Ahead(q, x, y) \/ (Has(q, x) /\ y = a /\ a \in S)
  BY <1>1, AheadConcat
<1>5. QED
  BY <1>2, <1>3, <1>4 DEF p

\* q holds the agents of S up to rank n, in the order of the plan.
UpTo(q, S, n) ==
  /\ q \in Seq(Agents)
  /\ \A x : Has(q, x) <=> x \in S /\ Rank[x] <= n
  /\ \A x, y : Ahead(q, x, y) <=> x \in S /\ y \in S /\ Rank[x] < Rank[y] /\ Rank[y] <= n

\* The next agent of the plan's order is put at the end.
LEMMA UpToNext ==
  ASSUME NEW S \in SUBSET Agents, NEW n \in 0..4, NEW q, UpTo(q, S, n),
         NEW a \in Agents, Rank[a] = n + 1
  PROVE  UpTo(q \o Pick(S, a), S, n + 1)
<1>1. \A x \in S : /\ Rank[x] \in Nat
                   /\ Rank[x] <= n + 1 <=> Rank[x] <= n \/ x = a
  BY DEF Rank, Agents
<1>2. \A x \in S : x = a => ~(Rank[x] <= n)
  BY DEF Rank, Agents
<1>3. \A x \in S : Rank[x] < Rank[a] <=> Rank[x] <= n
  BY <1>1
<1>4. QED
  BY <1>1, <1>2, <1>3, PickQueue DEF UpTo

\* InOrder (graph.py) queues exactly the agents of S, in the order of the plan.
LEMMA InOrderQueue ==
  ASSUME NEW S \in SUBSET Agents
  PROVE  Orders(InOrder(S), S)
<1> DEFINE q1 == Pick(S, "text2sql")
           q2 == q1 \o Pick(S, "rag")
           q3 == q2 \o Pick(S, "case_search")
           q4 == q3 \o Pick(S, "impact")
           q5 == q4 \o Pick(S, "visualization")
<1>1. /\ "text2sql" \in Agents /\ Rank["text2sql"] = 1
      /\ "rag" \in Agents /\ Rank["rag"] = 2
      /\ "case_search" \in Agents /\ Rank["case_search"] = 3
      /\ "impact" \in Agents /\ Rank["impact"] = 4
      /\ "visualization" \in Agents /\ Rank["visualization"] = 5
  BY DEF Agents, Rank
<1>2. UpTo(q1, S, 1)
  <2>1. \A x \in S : (Rank[x] <= 1 <=> x = "text2sql") /\ (\A y \in S : Rank[y] < Rank[x] => ~(Rank[x] <= 1))
    BY DEF Rank, Agents
  <2>2. q1 \in Seq(Agents) /\ (\A x : Has(q1, x) <=> x = "text2sql" /\ "text2sql" \in S)
        /\ \A x, y : ~Ahead(q1, x, y)
    BY <1>1, ShortSeq, ShortQueue DEF Pick
  <2>3. QED
    BY <2>1, <2>2 DEF UpTo
<1> HIDE DEF q1
<1>3. UpTo(q2, S, 2)
  BY <1>1, <1>2, UpToNext
<1> HIDE DEF q2
<1>4. UpTo(q3, S, 3)
  BY <1>1, <1>3, UpToNext
<1> HIDE DEF q3
<1>5. UpTo(q4, S, 4)
  BY <1>1, <1>4, UpToNext
<1> HIDE DEF q4
<1>6. UpTo(q5, S, 5)
  BY <1>1, <1>5, UpToNext
<1>7. q5 = InOrder(S)
  BY DEF InOrder, q1, q2, q3, q4
<1>8. \A x \in S : Rank[x] <= 5
  BY DEF Rank, Agents
<1> HIDE DEF q5
<1>9. QED
  BY <1>6, <1>7, <1>8 DEF UpTo, Orders

\* A queue extended by the i-th waiting agent, unless it is in S.
LEMMA KeptQueue ==
  ASSUME pending \in Seq(Agents), NEW q \in Seq(Agents), NEW S, NEW i \in 1..5
  PROVE  /\ q \o Kept(S, i) \in Seq(Agents)
         /\ \A x : Has(q \o Kept(S, i), x) <=>
                    Has(q, x) \/ (i <= Len(pending) /\ pending[i] = x /\ x \notin S)
         /\ \A x, y : Ahead(q \o Kept(S, i), x, y) <=>
              Ahead(q, x, y) \/ (Has(q, x) /\ i <= Len(pending) /\ pending[i] = y /\ y \notin S)
<1> DEFINE p == Kept(S, i)
<1>1. Len(pending) \in Nat /\ (i <= Len(pending) => pending[i] \in Agents)
  BY LenProperties, ElementOfSeq
<1>2. /\ p \in Seq(Agents)
      /\ \A x : Has(p, x) <=> i <= Len(pending) /\ pending[i] = x /\ x \notin S
      /\ \A x, y : ~Ahead(p, x, y)
  <2>1. CASE i <= Len(pending) /\ pending[i] \notin S
    <3>1. PICK v \in Agents : v = pending[i]
      BY <1>1, <2>1
    <3>2. p = <<v>>
      BY <2>1, <3>1 DEF Kept
    <3>3. /\ p \in Seq(Agents) /\ \A x : Has(p, x) <=> x = v
          /\ \A x, y : ~Ahead(p, x, y)
      <4>1. <<v>> \in Seq(Agents)
        BY ShortSeq
      <4>2. (\A x : Has(<<v>>, x) <=> x = v) /\ (\A x, y : ~Ahead(<<v>>, x, y))
        BY ShortQueue, Zenon
      <4>3. QED
        BY <3>2, <4>1, <4>2, Zenon
    <3>4. QED
      BY <2>1, <3>1, <3>3
  <2>2. CASE ~(i <= Len(pending) /\ pending[i] \notin S)
    <3>1. p = <<>>
      BY <2>2 DEF Kept
    <3>2. QED
      BY <2>2, <3>1, ShortSeq, ShortQueue
  <2>3. QED
    BY <2>1, <2>2
<1> HIDE DEF p
<1>3. q \o p \in Seq(Agents)
  BY <1>2, ConcatProperties
<1>4. ASSUME NEW x
      PROVE  Has(q \o p, x) <=> Has(q, x) \/ (i <= Len(pending) /\ pending[i] = x /\ x \notin S)
  BY <1>2, HasConcat
<1>5. ASSUME NEW x, NEW y
      PROVE  Ahead(q \o p, x, y) <=>
               Ahead(q, x, y) \/ (Has(q, x) /\ i <= Len(pending) /\ pending[i] = y /\ y \notin S)
  BY <1>2, AheadConcat
<1>6. QED
  BY <1>3, <1>4, <1>5 DEF p

\* q holds the agents of S in order and then the first n waiting agents outside S.
HasUpTo(x, n) == \E i \in 1..Len(pending) : i <= n /\ pending[i] = x
AheadUpTo(x, y, n) ==
  \E i, j \in 1..Len(pending) : i < j /\ j <= n /\ pending[i] = x /\ pending[j] = y
KeptTo(q, S, n) ==
  /\ q \in Seq(Agents)
  /\ \A x : Has(q, x) <=> x \in S \/ HasUpTo(x, n)
  /\ \A x, y : Ahead(q, x, y) <=>
       \/ x \in S /\ y \in S /\ Rank[x] < Rank[y]
       \/ x \in S /\ y \notin S /\ HasUpTo(y, n)
       \/ x \notin S /\ y \notin S /\ AheadUpTo(x, y, n)

\* The next place of the old queue is kept unless its agent is queued anew.
LEMMA KeptToNext ==
  ASSUME pending \in Seq(Agents), NEW S \in SUBSET Agents, NEW n \in 0..4, NEW q, KeptTo(q, S, n)
  PROVE  KeptTo(q \o Kept(S, n + 1), S, n + 1)
<1>1. Len(pending) \in Nat /\ n + 1 \in 1..5
  BY LenProperties
<1>2. \A x : HasUpTo(x, n + 1) <=> HasUpTo(x, n) \/ (n + 1 <= Len(pending) /\ pending[n + 1] = x)
  BY <1>1 DEF HasUpTo
<1>3. \A x, y : AheadUpTo(x, y, n + 1) <=>
         AheadUpTo(x, y, n) \/ (HasUpTo(x, n) /\ n + 1 <= Len(pending) /\ pending[n + 1] = y)
  <2> SUFFICES ASSUME NEW x, NEW y
               PROVE  AheadUpTo(x, y, n + 1) <=>
                      \/ AheadUpTo(x, y, n)
                      \/ HasUpTo(x, n) /\ n + 1 <= Len(pending) /\ pending[n + 1] = y
    OBVIOUS
  <2>1. ASSUME AheadUpTo(x, y, n + 1), ~AheadUpTo(x, y, n)
        PROVE  HasUpTo(x, n) /\ n + 1 <= Len(pending) /\ pending[n + 1] = y
    <3>1. PICK i \in 1..Len(pending), j \in 1..Len(pending) :
            i < j /\ j <= n + 1 /\ pending[i] = x /\ pending[j] = y
      BY <2>1 DEF AheadUpTo
    <3>2. j = n + 1
      BY <1>1, <2>1, <3>1 DEF AheadUpTo
    <3>3. QED
      BY <1>1, <3>1, <3>2 DEF HasUpTo
  <2>2. ASSUME AheadUpTo(x, y, n) PROVE AheadUpTo(x, y, n + 1)
    BY <1>1, <2>2 DEF AheadUpTo
  <2>3. ASSUME HasUpTo(x, n), n + 1 <= Len(pending), pending[n + 1] = y PROVE AheadUpTo(x, y, n + 1)
    <3>1. PICK i \in 1..Len(pending) : i <= n /\ pending[i] = x
      BY <2>3 DEF HasUpTo
    <3>2. i < n + 1 /\ n + 1 \in 1..Len(pending) /\ n + 1 <= n + 1
      BY <1>1, <2>3, <3>1
    <3>3. QED
      BY <2>3, <3>1, <3>2 DEF AheadUpTo
  <2>4. QED
    BY <2>1, <2>2, <2>3
<1> DEFINE r == q \o Kept(S, n + 1)
<1>4. /\ r \in Seq(Agents)
      /\ \A x : Has(r, x) <=>
           Has(q, x) \/ (n + 1 <= Len(pending) /\ pending[n + 1] = x /\ x \notin S)
      /\ \A x, y : Ahead(r, x, y) <=>
           \/ Ahead(q, x, y)
           \/ Has(q, x) /\ n + 1 <= Len(pending) /\ pending[n + 1] = y /\ y \notin S
  BY <1>1, KeptQueue DEF KeptTo
<1> HIDE DEF r
<1>5. \A x : Has(r, x) <=> x \in S \/ HasUpTo(x, n + 1)
  BY <1>2, <1>4 DEF KeptTo
<1>6. \A x, y : Ahead(r, x, y) <=>
         \/ x \in S /\ y \in S /\ Rank[x] < Rank[y]
         \/ x \in S /\ y \notin S /\ HasUpTo(y, n + 1)
         \/ x \notin S /\ y \notin S /\ AheadUpTo(x, y, n + 1)
  BY <1>2, <1>3, <1>4 DEF KeptTo
<1>7. QED
  BY <1>4, <1>5, <1>6 DEF KeptTo, r

\* Requeue puts the agents of S, in order, ahead of those already waiting; as
\* nobody waits twice there are at most five, and none is lost.
LEMMA RequeueQueue ==
  ASSUME pending \in Seq(Agents), \A x : ~Ahead(pending, x, x), NEW S \in SUBSET Agents
  PROVE  /\ \A x : Has(Requeue(S), x) <=> x \in S \/ Has(pending, x)
         /\ \A x, y : Ahead(Requeue(S), x, y) <=>
              \/ x \in S /\ y \in S /\ Rank[x] < Rank[y]
              \/ x \in S /\ y \notin S /\ Has(pending, y)
              \/ x \notin S /\ y \notin S /\ Ahead(pending, x, y)
<1> DEFINE q0 == InOrder(S)
           q1 == q0 \o Kept(S, 1)
           q2 == q1 \o Kept(S, 2)
           q3 == q2 \o Kept(S, 3)
           q4 == q3 \o Kept(S, 4)
           q5 == q4 \o Kept(S, 5)
<1>1. Len(pending) \in Nat /\ \A i \in 1..Len(pending) : pending[i] \in Agents
  BY LenProperties, ElementOfSeq
<1>2. Len(pending) <= 5
  <2> SUFFICES ASSUME Len(pending) >= 6 PROVE FALSE
    BY <1>1
  <2>1. \A i, j \in 1..6 : i < j => pending[i] # pending[j]
    <3> SUFFICES ASSUME NEW i \in 1..6, NEW j \in 1..6, i < j PROVE pending[i] # pending[j]
      OBVIOUS
    <3>1. i \in 1..Len(pending) /\ j \in 1..Len(pending)
      BY <1>1
    <3>2. ~Ahead(pending, pending[i], pending[i])
      OBVIOUS
    <3>3. QED
      BY <3>1, <3>2 DEF Ahead
  <2>2. \A i \in 1..6 : pending[i] \in Agents
    BY <1>1
  <2> DEFINE v1 == pending[1]  v2 == pending[2]  v3 == pending[3]
             v4 == pending[4]  v5 == pending[5]  v6 == pending[6]
  <2>3. /\ v1 \in Agents /\ v2 \in Agents /\ v3 \in Agents /\ v4 \in Agents /\ v5 \in Agents
        /\ v6 \in Agents
    BY <2>2
  <2>4. /\ v1 # v2 /\ v1 # v3 /\ v1 # v4 /\ v1 # v5 /\ v1 # v6
        /\ v2 # v3 /\ v2 # v4 /\ v2 # v5 /\ v2 # v6
        /\ v3 # v4 /\ v3 # v5 /\ v3 # v6 /\ v4 # v5 /\ v4 # v6 /\ v5 # v6
    BY <2>1
  <2> HIDE DEF v1, v2, v3, v4, v5, v6
  <2>5. QED
    BY <2>3, <2>4 DEF Agents
<1>3. KeptTo(q0, S, 0)
  <2>1. \A x, y : ~HasUpTo(x, 0) /\ ~AheadUpTo(x, y, 0)
    BY <1>1 DEF HasUpTo, AheadUpTo
  <2>2. QED
    BY <2>1, InOrderQueue DEF Orders, KeptTo
<1> HIDE DEF q0
<1>4. KeptTo(q1, S, 1)
  BY <1>3, KeptToNext
<1> HIDE DEF q1
<1>5. KeptTo(q2, S, 2)
  BY <1>4, KeptToNext
<1> HIDE DEF q2
<1>6. KeptTo(q3, S, 3)
  BY <1>5, KeptToNext
<1> HIDE DEF q3
<1>7. KeptTo(q4, S, 4)
  BY <1>6, KeptToNext
<1> HIDE DEF q4
<1>8. KeptTo(q5, S, 5)
  BY <1>7, KeptToNext
<1>9. Requeue(S) = q5
  BY DEF Requeue, q0, q1, q2, q3, q4
<1>10. \A x, y : /\ HasUpTo(x, 5) <=> Has(pending, x)
                 /\ AheadUpTo(x, y, 5) <=> Ahead(pending, x, y)
  BY <1>1, <1>2 DEF HasUpTo, AheadUpTo, Has, Ahead
<1> HIDE DEF q5
<1>11. QED
  BY <1>8, <1>9, <1>10 DEF KeptTo

\* The dispatcher takes the first agent off the queue.
LEMMA TailQueue ==
  ASSUME NEW q \in Seq(Agents), q # <<>>
  PROVE  /\ Head(q) \in Agents
         /\ \A x : Has(q, x) <=> x = Head(q) \/ Has(Tail(q), x)
         /\ \A x, y : Ahead(q, x, y) <=>
              (x = Head(q) /\ Has(Tail(q), y)) \/ Ahead(Tail(q), x, y)
<1>1. Len(q) \in Nat \ {0}
  BY LenProperties, EmptySeq
<1>2. /\ Head(q) \in Agents /\ Tail(q) \in Seq(Agents) /\ Len(Tail(q)) = Len(q) - 1
      /\ \A i \in 1..Len(Tail(q)) : Tail(q)[i] = q[i + 1]
  BY HeadTailProperties
<1>3. Head(q) = q[1]
  OBVIOUS
<1>4. ASSUME NEW x PROVE Has(q, x) <=> x = Head(q) \/ Has(Tail(q), x)
  <2>1. ASSUME Has(q, x), x # Head(q) PROVE Has(Tail(q), x)
    <3>1. PICK i \in 1..Len(q) : q[i] = x
      BY <2>1 DEF Has
    <3>2. i # 1
      BY <1>3, <2>1, <3>1
    <3>3. i - 1 \in 1..Len(Tail(q)) /\ (i - 1) + 1 = i
      BY <1>1, <1>2, <3>1, <3>2
    <3>4. Tail(q)[i - 1] = x
      BY <1>2, <3>1, <3>3
    <3>5. QED
      BY <3>3, <3>4 DEF Has
  <2>2. ASSUME x = Head(q) PROVE Has(q, x)
    BY <1>1, <1>3, <2>2 DEF Has
  <2>3. ASSUME Has(Tail(q), x) PROVE Has(q, x)
    <3>1. PICK i \in 1..Len(Tail(q)) : Tail(q)[i] = x
      BY <2>3 DEF Has
    <3>2. i + 1 \in 1..Len(q) /\ q[i + 1] = x
      BY <1>1, <1>2, <3>1
    <3>3. QED
      BY <3>2 DEF Has
  <2>4. QED
    BY <2>1, <2>2, <2>3
<1>5. ASSUME NEW x, NEW y
      PROVE  Ahead(q, x, y) <=> (x = Head(q) /\ Has(Tail(q), y)) \/ Ahead(Tail(q), x, y)
  <2>1. ASSUME Ahead(q, x, y) PROVE (x = Head(q) /\ Has(Tail(q), y)) \/ Ahead(Tail(q), x, y)
    <3>1. PICK i \in 1..Len(q), j \in 1..Len(q) : i < j /\ q[i] = x /\ q[j] = y
      BY <2>1 DEF Ahead
    <3>2. j - 1 \in 1..Len(Tail(q)) /\ (j - 1) + 1 = j
      BY <1>1, <1>2, <3>1
    <3>3. Tail(q)[j - 1] = y
      BY <1>2, <3>1, <3>2
    <3>4. CASE i = 1
      BY <1>3, <3>1, <3>2, <3>3, <3>4 DEF Has
    <3>5. CASE i # 1
      <4>1. i - 1 \in 1..Len(Tail(q)) /\ (i - 1) + 1 = i /\ i - 1 < j - 1
        BY <1>1, <1>2, <3>1, <3>5
      <4>2. Tail(q)[i - 1] = x
        BY <1>2, <3>1, <4>1
      <4>3. QED
        BY <3>2, <3>3, <4>1, <4>2 DEF Ahead
    <3>6. QED
      BY <3>4, <3>5
  <2>2. ASSUME x = Head(q), Has(Tail(q), y) PROVE Ahead(q, x, y)
    <3>1. PICK j \in 1..Len(Tail(q)) : Tail(q)[j] = y
      BY <2>2 DEF Has
    <3>2. 1 \in 1..Len(q) /\ j + 1 \in 1..Len(q) /\ 1 < j + 1 /\ q[1] = x /\ q[j + 1] = y
      BY <1>1, <1>2, <1>3, <2>2, <3>1
    <3>3. QED
      BY <3>2 DEF Ahead
  <2>3. ASSUME Ahead(Tail(q), x, y) PROVE Ahead(q, x, y)
    <3>1. PICK i \in 1..Len(Tail(q)), j \in 1..Len(Tail(q)) :
            i < j /\ Tail(q)[i] = x /\ Tail(q)[j] = y
      BY <2>3 DEF Ahead
    <3>2. /\ i + 1 \in 1..Len(q) /\ j + 1 \in 1..Len(q) /\ i + 1 < j + 1
          /\ q[i + 1] = x /\ q[j + 1] = y
      BY <1>1, <1>2, <3>1
    <3>3. QED
      BY <3>2 DEF Ahead
  <2>4. QED
    BY <2>1, <2>2, <2>3
<1>6. QED
  BY <1>2, <1>4, <1>5

-----------------------------------------------------------------------------
(* What a run or a retry makes obsolete, agent by agent. *)

\* A planned agent is recomputed with its producers.
LEMMA DownstreamAgents ==
  ASSUME TypeOK, NEW A \in SUBSET Agents
  PROVE  /\ Downstream(A) \in SUBSET Agents
         /\ \A x : x \in Downstream(A) <=>
              /\ x \in plan.selected
              /\ \/ x \in A \/ "text2sql" \in A
                 \/ x = "case_search" /\ "rag" \in A
<1>1. plan.selected \subseteq Agents
  BY DEF TypeOK, RequestType
<1>2. QED
  BY <1>1 DEF Downstream, Consumers, Agents

\* What goes with one agent that has a result.
LEMMA ObsoleteOne ==
  ASSUME TypeOK, NEW a \in Agents, NEW x
  PROVE  x \in (IF Downstream({a}) = {} THEN {a} ELSE Downstream({a})) <=>
           \/ x = a /\ (a \in plan.selected \/ Downstream({a}) = {})
           \/ x \in plan.selected /\ (a = "text2sql" \/ (a = "rag" /\ x = "case_search"))
<1>1. {a} \in SUBSET Agents
  OBVIOUS
<1>2. \A y : y \in Downstream({a}) <=>
         /\ y \in plan.selected
         /\ \/ y = a \/ "text2sql" = a
            \/ y = "case_search" /\ "rag" = a
  BY <1>1, DownstreamAgents
<1>3. CASE Downstream({a}) = {}
  BY <1>2, <1>3
<1>4. CASE Downstream({a}) # {}
  BY <1>2, <1>4
<1>5. QED
  BY <1>3, <1>4

\* An agent outside the plan with no planned consumer has nothing downstream.
LEMMA NothingDownstream ==
  ASSUME TypeOK
  PROVE  \A a \in Agents : Downstream({a}) = {} <=>
           /\ a \notin plan.selected
           /\ a = "text2sql" => plan.selected = {}
           /\ a = "rag" => "case_search" \notin plan.selected
<1> SUFFICES ASSUME NEW a \in Agents
             PROVE  Downstream({a}) = {} <=>
                    /\ a \notin plan.selected
                    /\ a = "text2sql" => plan.selected = {}
                    /\ a = "rag" => "case_search" \notin plan.selected
  OBVIOUS
<1>1. \A y : y \in Downstream({a}) <=>
         /\ y \in plan.selected
         /\ \/ y = a \/ "text2sql" = a
            \/ y = "case_search" /\ "rag" = a
  BY DownstreamAgents
<1>2. QED
  BY <1>1

\* The agents whose results go when the agents of A run again.
Goes(x, A) ==
  \/ /\ x \in A /\ active[x] # None
     /\ \/ x \in plan.selected
        \/ x = "text2sql" /\ plan.selected = {}
        \/ x = "rag" /\ "case_search" \notin plan.selected
        \/ x \in {"case_search", "impact", "visualization"}
  \/ /\ x \in plan.selected
     /\ \/ "text2sql" \in A /\ active["text2sql"] # None
        \/ x = "case_search" /\ "rag" \in A /\ active["rag"] # None

\* The agents whose results go are those Goes names.
LEMMA ObsoleteAgents ==
  ASSUME TypeOK, NEW A \in SUBSET Agents
  PROVE  /\ Obsolete(A) \in SUBSET Agents
         /\ \A x : x \in Obsolete(A) <=> Goes(x, A)
<1>1. plan.selected \subseteq Agents
  BY DEF TypeOK, RequestType
<1> DEFINE D(a) == IF Downstream({a}) = {} THEN {a} ELSE Downstream({a})
<1>2. ASSUME NEW x PROVE x \in Obsolete(A) <=> \E a \in A : active[a] # None /\ x \in D(a)
  BY DEF Obsolete, ActiveAgents
<1>3. ASSUME NEW a \in Agents, NEW x
      PROVE  x \in D(a) <=>
               \/ x = a /\ (a \in plan.selected \/ Downstream({a}) = {})
               \/ x \in plan.selected /\ (a = "text2sql" \/ (a = "rag" /\ x = "case_search"))
  BY ObsoleteOne
<1> HIDE DEF D
<1>4. ASSUME NEW x PROVE x \in Obsolete(A) <=> Goes(x, A)
  <2>1. ASSUME x \in Obsolete(A) PROVE Goes(x, A)
    <3>1. PICK a \in A : active[a] # None /\ x \in D(a)
      BY <1>2, <2>1
    <3>2. \/ x = a /\ (a \in plan.selected \/ Downstream({a}) = {})
          \/ x \in plan.selected /\ (a = "text2sql" \/ (a = "rag" /\ x = "case_search"))
      BY <1>3, <3>1
    <3>3. QED
      BY <3>1, <3>2, NothingDownstream DEF Goes, Agents
  <2>2. ASSUME Goes(x, A) PROVE x \in Obsolete(A)
    <3>1. CASE /\ x \in A /\ active[x] # None
               /\ \/ x \in plan.selected
                  \/ x = "text2sql" /\ plan.selected = {}
                  \/ x = "rag" /\ "case_search" \notin plan.selected
                  \/ x \in {"case_search", "impact", "visualization"}
      <4>1. x \in plan.selected \/ Downstream({x}) = {}
        BY <3>1, NothingDownstream
      <4>2. QED
        BY <1>2, <1>3, <3>1, <4>1
    <3>2. CASE x \in plan.selected /\ "text2sql" \in A /\ active["text2sql"] # None
      BY <1>2, <1>3, <3>2
    <3>3. CASE x \in plan.selected /\ x = "case_search" /\ "rag" \in A /\ active["rag"] # None
      BY <1>2, <1>3, <3>3
    <3>4. QED
      BY <2>2, <3>1, <3>2, <3>3 DEF Goes
  <2>3. QED
    BY <2>1, <2>2
<1>5. QED
  BY <1>1, <1>4 DEF Goes

\* The results after the agents of A are dropped to be run again.
LEMMA DropEffect ==
  ASSUME TypeOK, NEW A \in SUBSET Agents, Invalidate(A)
  PROVE  /\ \A x \in Agents : active'[x] = IF Goes(x, A) THEN None ELSE active[x]
         /\ \A x \in Agents : evidence'[x] =
              IF Goes(x, A) /\ active[x] # None THEN None ELSE evidence[x]
         /\ \A x \in Agents : basis'[x] = IF Goes(x, A) THEN {} ELSE basis[x]
         /\ chart' = (chart /\ ~Goes("visualization", A))
         /\ sql' = sql
<1>1. \A x : x \in Obsolete(A) <=> Goes(x, A)
  BY ObsoleteAgents
<1>2. Agents \subseteq Sources /\ "synthesis" \notin Agents
  BY DEF Sources, Agents
<1>3. \A x \in Agents : active'[x] = IF Goes(x, A) THEN None ELSE active[x]
  BY <1>1 DEF Invalidate, ActiveWithout
<1>4. \A x \in Agents : evidence'[x] = IF Goes(x, A) /\ active[x] # None THEN None ELSE evidence[x]
  <2> SUFFICES ASSUME NEW x \in Agents
               PROVE  evidence'[x] = IF Goes(x, A) /\ active[x] # None THEN None ELSE evidence[x]
    OBVIOUS
  <2>1. x \in Sources /\ x # "synthesis" /\ (x \in Obsolete(A) \cap ActiveAgents
          <=> Goes(x, A) /\ active[x] # None)
    BY <1>1, <1>2 DEF ActiveAgents
  <2>2. QED
    BY <2>1 DEF Invalidate, EvidenceWithout
<1>5. \A x \in Agents : basis'[x] = IF Goes(x, A) THEN {} ELSE basis[x]
  <2> SUFFICES ASSUME NEW x \in Agents
               PROVE  basis'[x] = IF Goes(x, A) THEN {} ELSE basis[x]
    OBVIOUS
  <2>1. x \in Sources /\ x # "synthesis" /\ (x \in Obsolete(A) <=> Goes(x, A))
    BY <1>1, <1>2
  <2>2. QED
    BY <2>1 DEF Invalidate, BasisWithout
<1>6. chart' = (chart /\ ~Goes("visualization", A)) /\ sql' = sql
  BY <1>1 DEF Invalidate, ChartWithout
<1>7. QED
  BY <1>3, <1>4, <1>5, <1>6

\* The results after a run of agent a that ended with status s.
LEMMA RecordEffect ==
  ASSUME TypeOK, NEW a \in Agents, NEW s, Record(a, s)
  PROVE  /\ \A x \in Agents : active'[x] =
              IF x = a THEN s ELSE IF Goes(x, {a}) THEN None ELSE active[x]
         /\ basis'[a] = Inputs(a)
         /\ \A x \in Agents \ {a} : basis'[x] = IF Goes(x, {a}) THEN {} ELSE basis[x] \ {a}
         /\ current' = a /\ forced' = None /\ pc' = "agent_supervisor"
<1>1. {a} \in SUBSET Agents
  OBVIOUS
<1>2. \A x : x \in Obsolete({a}) <=> Goes(x, {a})
  BY <1>1, ObsoleteAgents
<1>3. Agents \subseteq Sources /\ "synthesis" \notin Agents
  BY DEF Sources, Agents
<1>4. \A x \in Agents : active'[x] =
         IF x = a THEN s ELSE IF Goes(x, {a}) THEN None ELSE active[x]
  BY <1>2 DEF Record, ActiveWithout
<1> DEFINE B == BasisWithout(Obsolete({a}))
<1>5. \A x \in Agents : B[x] = IF Goes(x, {a}) THEN {} ELSE basis[x]
  BY <1>2, <1>3 DEF BasisWithout
<1> HIDE DEF B
<1>6. basis' = [x \in Sources |->
                  IF x = a THEN Inputs(a)
                  ELSE IF x = "synthesis" /\ Diagnosing(a)
                       THEN {p \in {"text2sql", "rag", "case_search"} : active'[p] # None}
                       ELSE B[x] \ {a}]
  BY DEF Record, B
<1>7. basis'[a] = Inputs(a)
  BY <1>3, <1>6
<1>8. \A x \in Agents \ {a} : basis'[x] = B[x] \ {a}
  BY <1>3, <1>6
<1>9. \A x \in Agents \ {a} : basis'[x] = IF Goes(x, {a}) THEN {} ELSE basis[x] \ {a}
  BY <1>5, <1>8
<1>10. QED
  BY <1>4, <1>7, <1>9 DEF Record

\* New evidence of an agent drops that of the active agents computed from it.
LEMMA EvidenceEffect ==
  ASSUME TypeOK, NEW a \in Agents, NEW e, AddEvidence(a, e)
  PROVE  /\ evidence'[a] = e
         /\ \A x \in Agents \ {a} : evidence'[x] =
              IF Goes(x, {a}) /\ active[x] # None THEN None ELSE evidence[x]
<1>1. {a} \in SUBSET Agents
  OBVIOUS
<1>2. \A x : x \in Obsolete({a}) <=> Goes(x, {a})
  BY <1>1, ObsoleteAgents
<1>3. Agents \subseteq Sources /\ "synthesis" \notin Agents
  BY DEF Sources, Agents
<1> DEFINE E == EvidenceWithout(Obsolete({a}))
<1>4. /\ E \in [Sources -> {None, "failed", "usable"}]
      /\ \A x \in Agents : E[x] = IF Goes(x, {a}) /\ active[x] # None THEN None ELSE evidence[x]
  <2>1. E \in [Sources -> {None, "failed", "usable"}]
    BY WithoutType
  <2>2. ASSUME NEW x \in Agents
        PROVE  E[x] = IF Goes(x, {a}) /\ active[x] # None THEN None ELSE evidence[x]
    <3>1. x \in Sources /\ x # "synthesis" /\ (x \in Obsolete({a}) \cap ActiveAgents
            <=> Goes(x, {a}) /\ active[x] # None)
      BY <1>2, <1>3 DEF ActiveAgents
    <3>2. QED
      BY <3>1 DEF EvidenceWithout
  <2>3. QED
    BY <2>1, <2>2
<1> HIDE DEF E
<1>5. evidence' = [E EXCEPT ![a] = e, !["synthesis"] = IF Diagnosing(a) THEN "usable" ELSE @]
  BY DEF AddEvidence, E
<1>6. QED
  BY <1>3, <1>4, <1>5

-----------------------------------------------------------------------------
(* Where a request is in its plan. *)

Broken == {"recursion_error", "aborted"}
Queued(a) == Has(pending, a)

\* A plan with a consumer of the query has the query, a diagnosis its route.
PlanShape ==
  /\ plan.selected \cap {"case_search", "impact", "visualization"} # {} =>
       "text2sql" \in plan.selected
  /\ plan.selected # {} /\ plan.query_type = "diagnosis" => Required["diagnosis"] \subseteq plan.selected

\* A plan is reviewed before anything is run for it.
CleanStart ==
  pc = "supervisor" =>
    /\ active = [a \in Agents |-> None] /\ evidence = [x \in Sources |-> None]
    /\ chart = FALSE /\ sql = None /\ pending = <<>> /\ cursor = 0 /\ alternates = {} /\ ~halted

\* Until the planned query has run, nothing else has.
QueryFirst ==
  "text2sql" \in plan.selected /\ sql = None =>
    \/ /\ pc \in {"supervisor", "dispatcher", "text2sql"}
       /\ pending = <<>> /\ ~halted /\ alternates = {}
       /\ cursor = IF pc = "text2sql" THEN 1 ELSE 0
       /\ \A a \in Agents : active[a] = None
    \/ pc \in Broken
CursorMoved == "text2sql" \in plan.selected /\ sql # None => cursor >= 1
SqlActive == active["text2sql"] # None => sql # None

\* A query whose result was dropped is run again at once: it is entered, or it
\* heads the queue of a request that is not halted.
QueryDropped ==
  active["text2sql"] = None /\ sql # None =>
    \/ pc \in Broken \cup {"text2sql"}
    \/ pc = "dispatcher" /\ ~halted /\ Queued("text2sql")
QueryQueued ==
  Queued("text2sql") =>
    /\ pc \in Broken \cup {"dispatcher"} /\ ~halted /\ active["text2sql"] = None
    /\ retries["text2sql"] = 1
    /\ \A x \in Agents : ~Ahead(pending, x, "text2sql")
QueryRun ==
  pc = "text2sql" =>
    /\ active["text2sql"] = None
    /\ sql # None \/ pending # <<>> => retries["text2sql"] = 1

\* Only planned agents wait, each once.
QueuePlanned ==
  /\ \A a : Queued(a) => a \in plan.selected
  /\ \A a : ~Ahead(pending, a, a)

\* An agent outside the plan has a result only as a retry or as an alternate.
OutOfPlan ==
  \A a \in Agents :
    active[a] # None \/ pc = a \/ (pc = "agent_supervisor" /\ current = a) =>
      a \in plan.selected \/ retries[a] = 1 \/ a \in alternates
Alternates ==
  /\ budget.alternate <= AlternateBudget
  /\ alternates \subseteq {"rag", "case_search"}
  /\ alternates # {} => plan.query_type = "diagnosis" /\ (AlternateBudget <= 1 => budget.alternate = 0)

\* Only an alternate outside the plan may be entered and skipped.
Forced ==
  /\ pc \in Nodes \ Agents => forced = None
  /\ pc \in Agents => forced \in {None, pc} /\ (ShouldRun(pc) \/ pc \in alternates \ plan.selected)

Route ==
  /\ PlanShape /\ CleanStart /\ QueryFirst /\ CursorMoved /\ SqlActive
  /\ QueryDropped /\ QueryQueued /\ QueryRun
  /\ QueuePlanned /\ OutOfPlan /\ Alternates /\ Forced

\* The plans of a type have the shape.
LEMMA PlansShape ==
  ASSUME NEW type \in DOMAIN Required, NEW s, NEW p \in PlansOf(type, s)
  PROVE  /\ p.query_type = type /\ p.status = s
         /\ p.selected # {} => s = "ready"
         /\ p.selected \cap {"case_search", "impact", "visualization"} # {} =>
              "text2sql" \in p.selected
         /\ p.selected # {} /\ type = "diagnosis" => Required["diagnosis"] \subseteq p.selected
<1>1. CASE s # "ready"
  BY <1>1 DEF PlansOf
<1>2. CASE s = "ready"
  <2>1. PICK x \in SUBSET Extras(type) :
          p = [query_type |-> type, status |-> s, selected |-> Required[type] \cup x]
    BY <1>2 DEF PlansOf
  <2>2. x \subseteq Optional[type]
    BY DEF Extras
  <2>3. "text2sql" \in Required[type] \/ (Required[type] = {"rag"} /\ Optional[type] = {})
    BY DEF Required, Optional
  <2>4. QED
    BY <1>2, <2>1, <2>2, <2>3
<1>3. QED
  BY <1>1, <1>2

\* A request starts with nothing queued and no result.
LEMMA RouteInit == Init => Route
<1> SUFFICES ASSUME Init PROVE Route
  OBVIOUS
<1>1. \A x, y : ~Has(pending, x) /\ ~Ahead(pending, x, y)
  BY ShortQueue DEF Init
<1>2. plan.selected = {} /\ sql = None /\ pc = "planner" /\ \A a \in Agents : active[a] = None
  BY DEF Init
<1>3. PlanShape /\ CleanStart /\ QueryFirst /\ CursorMoved /\ SqlActive
  BY <1>2 DEF PlanShape, CleanStart, QueryFirst, CursorMoved, SqlActive, Agents
<1>4. QueryDropped /\ QueryQueued /\ QueryRun /\ QueuePlanned
  BY <1>1 DEF Init, QueryDropped, QueryQueued, QueryRun, QueuePlanned, Queued
<1>5. OutOfPlan /\ Alternates /\ Forced
  BY BudgetAssumption DEF Init, OutOfPlan, Alternates, Forced, Nodes, Agents
<1>6. QED
  BY <1>3, <1>4, <1>5 DEF Route

\* A new plan starts with no results and an empty queue.
LEMMA RoutePlanner == TypeOK /\ Route /\ Planner => Route'
<1> SUFFICES ASSUME TypeOK, Route, Planner PROVE Route'
  OBVIOUS
<1>1. \A x, y : ~Has(pending', x) /\ ~Ahead(pending', x, y)
  BY ShortQueue DEF Planner
<1>2. PICK type \in QueryTypes, s \in PlanStatuses : plan' \in PlansOf(type, s)
  BY DEF Planner
<1>3. type \in DOMAIN Required
  BY QueryTypesAssumption
<1>4. PlanShape'
  <2>1. /\ plan'.query_type = type
        /\ plan'.selected \cap {"case_search", "impact", "visualization"} # {} =>
             "text2sql" \in plan'.selected
        /\ plan'.selected # {} /\ type = "diagnosis" => Required["diagnosis"] \subseteq plan'.selected
    BY <1>2, <1>3, PlansShape
  <2>2. QED
    BY <2>1 DEF PlanShape
<1>5. pc' = "supervisor" /\ active' = [a \in Agents |-> None] /\ sql' = None /\ pending' = <<>>
      /\ cursor' = 0 /\ alternates' = {} /\ halted' = FALSE /\ forced' = None
      /\ evidence' = [x \in Sources |-> None] /\ chart' = FALSE /\ budget' = budget
  BY DEF Planner, budgetVars
<1>6. CleanStart' /\ QueryFirst' /\ CursorMoved' /\ SqlActive'
  BY <1>5 DEF CleanStart, QueryFirst, CursorMoved, SqlActive, Agents
<1>7. QueryDropped' /\ QueryQueued' /\ QueryRun' /\ QueuePlanned'
  BY <1>1, <1>5 DEF QueryDropped, QueryQueued, QueryRun, QueuePlanned, Queued
<1>8. OutOfPlan' /\ Alternates' /\ Forced'
  BY <1>5 DEF Route, OutOfPlan, Alternates, Forced, Nodes, Agents
<1>9. QED
  BY <1>4, <1>6, <1>7, <1>8 DEF Route

\* The supervisor hands a clean plan to the dispatcher.
LEMMA RouteSupervisor == TypeOK /\ Route /\ Supervisor => Route'
<1> SUFFICES ASSUME TypeOK, Route, Supervisor PROVE Route'
  OBVIOUS
<1>1. pc = "supervisor" /\ plan.query_type \in DOMAIN Required /\ forced = None
  BY DEF Supervisor, Step, TypeOK, ControlType, Route, Forced, Nodes, Agents
<1>2. PICK s \in Reviewed(plan) : plan' \in PlansOf(plan.query_type, s)
  BY DEF Supervisor
<1>3. /\ pc' = "dispatcher" /\ active' = active /\ sql' = sql /\ pending' = pending
      /\ cursor' = cursor /\ alternates' = alternates /\ forced' = forced
      /\ halted' = (plan'.status # "ready") /\ evidence' = evidence /\ chart' = chart
      /\ budget' = budget
  BY DEF Supervisor, resultVars, routeVars, budgetVars
<1>4. /\ active = [a \in Agents |-> None] /\ sql = None /\ pending = <<>> /\ cursor = 0
      /\ alternates = {}
  BY <1>1 DEF Route, CleanStart
<1>5. PlanShape' /\ (plan'.selected # {} => plan'.status = "ready")
  BY <1>1, <1>2, PlansShape DEF PlanShape
<1>6. \A x, y : ~Has(pending', x) /\ ~Ahead(pending', x, y)
  BY <1>3, <1>4, ShortQueue
<1>7. CleanStart' /\ QueryFirst' /\ CursorMoved' /\ SqlActive'
  BY <1>3, <1>4, <1>5 DEF CleanStart, QueryFirst, CursorMoved, SqlActive, Agents
<1>8. QueryDropped' /\ QueryQueued' /\ QueryRun' /\ QueuePlanned'
  BY <1>3, <1>4, <1>6 DEF QueryDropped, QueryQueued, QueryRun, QueuePlanned, Queued
<1>9. OutOfPlan' /\ Alternates' /\ Forced'
  BY <1>1, <1>3, <1>4 DEF Route, OutOfPlan, Alternates, Forced, Nodes, Agents
<1>10. QED
  BY <1>5, <1>7, <1>8, <1>9 DEF Route

\* The dispatcher enters a queued agent, the next step of the plan, or leaves.
LEMMA RouteDispatcher == TypeOK /\ Route /\ Dispatcher => Route'
<1> SUFFICES ASSUME TypeOK, Route, Dispatcher PROVE Route'
  OBVIOUS
<1>1. pc = "dispatcher" /\ forced = None
  BY DEF Dispatcher, DispatchHalted, DispatchPending, DispatchStep, DispatchDone, Step,
         Route, Forced, Nodes, Agents
<1> USE DEF Route, PlanShape, CleanStart, CursorMoved, SqlActive, Queued, Broken
<1>2. CASE DispatchHalted
  <2>1. halted /\ pc' = "reflection" /\ UNCHANGED <<requestVars, resultVars, routeVars, reviewVars, budgetVars>>
    BY <1>2 DEF DispatchHalted
  <2> USE DEF requestVars, resultVars, routeVars, reviewVars, budgetVars
  <2>2. QueryFirst' /\ QueryDropped' /\ QueryQueued' /\ QueryRun'
    BY <1>1, <2>1 DEF QueryFirst, QueryDropped, QueryQueued, QueryRun
  <2>3. QueuePlanned' /\ OutOfPlan' /\ Alternates' /\ Forced'
    BY <1>1, <2>1 DEF QueuePlanned, OutOfPlan, Alternates, Forced, Nodes, Agents
  <2>4. QED
    BY <1>1, <2>1, <2>2, <2>3
<1>3. CASE DispatchPending
  <2> DEFINE h == Head(pending)
  <2>1. /\ ~halted /\ pending # <<>> /\ pc' = h /\ forced' = h /\ pending' = Tail(pending)
        /\ UNCHANGED <<requestVars, resultVars, cursor, alternates, reviewVars, budgetVars>>
    BY <1>3 DEF DispatchPending
  <2>2. /\ h \in Agents
        /\ \A x : Has(pending, x) <=> x = h \/ Has(pending', x)
        /\ \A x, y : Ahead(pending, x, y) <=> (x = h /\ Has(pending', y)) \/ Ahead(pending', x, y)
    BY <2>1, TailQueue DEF TypeOK, RouteType
  <2> HIDE DEF h
  <2> USE DEF requestVars, resultVars, reviewVars, budgetVars
  <2>3. h \in plan.selected /\ ~Has(pending', h)
    BY <2>2 DEF QueuePlanned
  <2>4. h \notin Broken \cup {"supervisor", "dispatcher", "agent_supervisor"} /\ h \notin Nodes \ Agents
    BY <2>2 DEF Agents
  <2>5. ~Has(pending', "text2sql")
    BY <1>1, <2>2, <2>3 DEF QueryQueued
  <2>6. Has(pending, "text2sql") => h = "text2sql"
    BY <2>2, <2>5
  <2>7. QueryFirst' /\ QueryDropped' /\ QueryQueued'
    BY <1>1, <2>1, <2>4, <2>5, <2>6 DEF QueryFirst, QueryDropped, QueryQueued
  <2>8. QueryRun'
    BY <2>1, <2>2 DEF QueryRun, QueryQueued
  <2>9. QueuePlanned' /\ OutOfPlan' /\ Alternates' /\ Forced'
    BY <1>1, <2>1, <2>2, <2>3, <2>4 DEF QueuePlanned, OutOfPlan, Alternates, Forced, ShouldRun
  <2>10. QED
    BY <2>1, <2>4, <2>7, <2>8, <2>9
<1>4. ASSUME NEW a \in Agents, DispatchStep(a) PROVE Route'
  <2>1. /\ ~halted /\ pending = <<>> /\ a \in plan.selected /\ Rank[a] > cursor
        /\ \A b \in Remaining : Rank[a] <= Rank[b]
        /\ cursor' = Rank[a] /\ pc' = a
        /\ UNCHANGED <<requestVars, resultVars, pending, alternates, forced, reviewVars, budgetVars>>
    BY <1>4 DEF DispatchStep, Remaining
  <2>2. \A x, y : ~Has(pending, x) /\ ~Ahead(pending, x, y)
    BY <2>1, ShortQueue
  <2>3. cursor \in 0..5 /\ Rank[a] \in 1..5 /\ (Rank[a] = 1 <=> a = "text2sql")
    BY DEF Rank, Agents, TypeOK, RouteType
  <2>4. a \notin Broken \cup {"supervisor", "dispatcher", "agent_supervisor"} /\ a \notin Nodes \ Agents
    BY DEF Agents
  <2> USE DEF requestVars, resultVars, reviewVars, budgetVars
  <2>5. "text2sql" \in plan.selected /\ sql = None => a = "text2sql"
    <3>1. ASSUME "text2sql" \in plan.selected, sql = None PROVE "text2sql" \in Remaining
      BY <1>1, <3>1 DEF QueryFirst, Remaining, Rank, Agents
    <3>2. QED
      BY <2>1, <2>3, <3>1 DEF Rank
  <2>6. a = "text2sql" => sql = None /\ active["text2sql"] = None
    BY <2>1, <2>3 DEF CursorMoved
  <2>7. QueryFirst' /\ QueryDropped' /\ QueryQueued' /\ QueryRun'
    BY <1>1, <2>1, <2>2, <2>3, <2>4, <2>5, <2>6 DEF QueryFirst, QueryDropped, QueryQueued, QueryRun
  <2>8. QueuePlanned' /\ OutOfPlan' /\ Alternates' /\ Forced'
    BY <1>1, <2>1, <2>2, <2>4 DEF QueuePlanned, OutOfPlan, Alternates, Forced, ShouldRun
  <2>9. CursorMoved'
    BY <2>1, <2>3
  <2>10. QED
    BY <2>1, <2>4, <2>7, <2>8, <2>9
<1>5. CASE DispatchDone
  <2>1. /\ ~halted /\ pending = <<>> /\ Remaining = {} /\ pc' = "reflection"
        /\ UNCHANGED <<requestVars, resultVars, routeVars, reviewVars, budgetVars>>
    BY <1>5 DEF DispatchDone
  <2>2. \A x, y : ~Has(pending, x) /\ ~Ahead(pending, x, y)
    BY <2>1, ShortQueue
  <2>3. ~("text2sql" \in plan.selected /\ sql = None)
    BY <1>1, <2>1 DEF QueryFirst, Remaining, Rank, Agents
  <2> USE DEF requestVars, resultVars, routeVars, reviewVars, budgetVars
  <2>4. QueryFirst' /\ QueryDropped' /\ QueryQueued' /\ QueryRun'
    BY <1>1, <2>1, <2>2, <2>3 DEF QueryFirst, QueryDropped, QueryQueued, QueryRun
  <2>5. QueuePlanned' /\ OutOfPlan' /\ Alternates' /\ Forced'
    BY <1>1, <2>1 DEF QueuePlanned, OutOfPlan, Alternates, Forced, Nodes, Agents
  <2>6. QED
    BY <2>1, <2>4, <2>5
<1>6. QED
  BY <1>2, <1>3, <1>4, <1>5 DEF Dispatcher

\* The run of an agent, other than the query, in the request's route.
LEMMA RouteRun ==
  ASSUME TypeOK, Route, NEW a \in Agents \ {"text2sql"}, NEW s, s # None, pc = a, Record(a, s),
         UNCHANGED <<plan, sql, pending, cursor, alternates, retries, budget>>
  PROVE  Route'
<1>1. /\ \A x \in Agents : active'[x] = IF x = a THEN s ELSE IF Goes(x, {a}) THEN None ELSE active[x]
      /\ current' = a /\ forced' = None /\ pc' = "agent_supervisor"
  BY RecordEffect
<1>2. ~Goes("text2sql", {a})
  BY DEF Goes
<1>3. active'["text2sql"] = active["text2sql"]
  BY <1>1, <1>2 DEF Agents
<1>4. \A x \in Agents : active'[x] # None => active[x] # None \/ x = a
  BY <1>1
<1>5. a \notin Broken \cup {"supervisor", "dispatcher", "agent_supervisor", "text2sql"}
  BY DEF Agents, Broken
<1> USE DEF Route, PlanShape, CleanStart, CursorMoved, SqlActive, Queued, Broken
<1>6. PlanShape' /\ CleanStart' /\ CursorMoved' /\ SqlActive'
  BY <1>1, <1>3
<1>7. QueryFirst' /\ QueryDropped' /\ QueryQueued' /\ QueryRun'
  BY <1>1, <1>3, <1>5 DEF QueryFirst, QueryDropped, QueryQueued, QueryRun
<1>8. OutOfPlan'
  BY <1>1, <1>4 DEF OutOfPlan, Agents
<1>9. QueuePlanned' /\ Alternates' /\ Forced'
  BY <1>1 DEF QueuePlanned, Alternates, Forced, Agents
<1>10. QED
  BY <1>6, <1>7, <1>8, <1>9

\* Every agent's run, the query's with its own bookkeeping.
LEMMA RouteRunAgent == TypeOK /\ Route /\ RunAgent => Route'
<1> SUFFICES ASSUME TypeOK, Route, RunAgent PROVE Route'
  OBVIOUS
<1>1. \A s \in AgentStatus : s # None
  BY DEF AgentStatus, Failures, NotReady, None
<1>2. \A a \in Agents : Outcome[a] \subseteq AgentStatus
  BY OutcomeAssumption
<1>3. CASE Text2sql
  <2>1. pc = "text2sql" /\ "text2sql" \in Agents
    BY <1>3 DEF Text2sql, Step, Agents
  <2>2. PICK s \in Outcome["text2sql"] : Record("text2sql", s) /\ sql' \in {"rows", "empty"}
    BY <1>3 DEF Text2sql
  <2>3. UNCHANGED <<plan, pending, cursor, alternates, retries, budget>>
    BY <1>3 DEF Text2sql, budgetVars
  <2>4. s # None /\ sql' # None
    BY <1>1, <1>2, <2>1, <2>2 DEF None
  <2>5. /\ \A x \in Agents : active'[x] =
             IF x = "text2sql" THEN s ELSE IF Goes(x, {"text2sql"}) THEN None ELSE active[x]
        /\ current' = "text2sql" /\ forced' = None /\ pc' = "agent_supervisor"
    BY <2>1, <2>2, RecordEffect
  <2>6. \A x \in Agents : active'[x] # None => active[x] # None \/ x = "text2sql"
    BY <2>5
  <2>7. active'["text2sql"] # None
    BY <2>1, <2>4, <2>5
  <2> USE DEF Route, PlanShape, CleanStart, CursorMoved, SqlActive, Queued, Broken
  <2>8. PlanShape' /\ CleanStart' /\ SqlActive'
    BY <2>3, <2>4, <2>5
  <2>9. CursorMoved'
    BY <2>1, <2>3 DEF QueryFirst
  <2>10. QueryFirst' /\ QueryDropped' /\ QueryQueued' /\ QueryRun'
    BY <2>1, <2>3, <2>4, <2>5, <2>7 DEF QueryFirst, QueryDropped, QueryQueued, QueryRun
  <2>11. OutOfPlan'
    BY <2>1, <2>3, <2>5, <2>6 DEF OutOfPlan, Agents
  <2>12. QueuePlanned' /\ Alternates' /\ Forced'
    BY <2>3, <2>5 DEF QueuePlanned, Alternates, Forced, Agents
  <2>13. QED
    BY <2>8, <2>9, <2>10, <2>11, <2>12
<1>4. CASE Rag
  <2>1. PICK s \in Outcome["rag"] : Record("rag", s)
    BY <1>4 DEF Rag
  <2>2. pc = "rag" /\ UNCHANGED <<plan, sql, pending, cursor, alternates, retries, budget>>
    BY <1>4 DEF Rag, Step, budgetVars
  <2>3. QED
    BY <1>1, <1>2, <2>1, <2>2, RouteRun DEF Agents
<1>5. CASE CaseSearch
  <2>1. PICK s \in Outcome["case_search"] : Record("case_search", s)
    BY <1>5 DEF CaseSearch
  <2>2. pc = "case_search" /\ UNCHANGED <<plan, sql, pending, cursor, alternates, retries, budget>>
    BY <1>5 DEF CaseSearch, Step, budgetVars, requestVars
  <2>3. QED
    BY <1>1, <1>2, <2>1, <2>2, RouteRun DEF Agents
<1>6. CASE Impact
  <2>1. PICK s \in Outcome["impact"] : Record("impact", s)
    BY <1>6 DEF Impact
  <2>2. pc = "impact" /\ UNCHANGED <<plan, sql, pending, cursor, alternates, retries, budget>>
    BY <1>6 DEF Impact, Step, budgetVars
  <2>3. QED
    BY <1>1, <1>2, <2>1, <2>2, RouteRun DEF Agents
<1>7. CASE Visualization
  <2>1. PICK s \in {"skipped"} \cup Outcome["visualization"] : Record("visualization", s)
    BY <1>7 DEF Visualization
  <2>2. pc = "visualization" /\ UNCHANGED <<plan, sql, pending, cursor, alternates, retries, budget>>
    BY <1>7 DEF Visualization, Step, budgetVars, requestVars
  <2>3. s \in AgentStatus
    BY <1>2, <2>1 DEF AgentStatus, Agents
  <2>4. QED
    BY <1>1, <2>1, <2>2, <2>3, RouteRun DEF Agents
<1>8. ASSUME NEW a \in Agents, Skip(a) PROVE Route'
  <2>1. /\ pc = a /\ ~ShouldRun(a)
        /\ pc' = IF current = a THEN "agent_supervisor" ELSE "dispatcher"
        /\ UNCHANGED <<requestVars, resultVars, routeVars, reviewVars, budgetVars>>
    BY <1>8 DEF Skip, Step
  <2>2. a \in alternates \ plan.selected /\ a \notin {"text2sql"} \cup Broken \cup {"supervisor", "dispatcher"}
    BY <2>1 DEF Route, Forced, Alternates, Broken
  <2>3. forced = None
    BY <2>1 DEF Route, Forced, ShouldRun
  <2> USE DEF Route, PlanShape, CleanStart, CursorMoved, SqlActive, Queued, Broken
  <2> USE DEF requestVars, resultVars, routeVars, reviewVars, budgetVars
  <2>4. QueryFirst' /\ QueryDropped' /\ QueryQueued' /\ QueryRun'
    BY <2>1, <2>2 DEF QueryFirst, QueryDropped, QueryQueued, QueryRun
  <2>5. QueuePlanned' /\ OutOfPlan' /\ Alternates' /\ Forced'
    BY <2>1, <2>2, <2>3 DEF QueuePlanned, OutOfPlan, Alternates, Forced, Agents
  <2>6. QED
    BY <2>1, <2>4, <2>5
<1>9. QED
  BY <1>3, <1>4, <1>5, <1>6, <1>7, <1>8 DEF RunAgent

\* The final reflection and the answer.
LEMMA RouteAnswering == TypeOK /\ Route /\ Answering => Route'
<1> SUFFICES ASSUME TypeOK, Route, Answering PROVE Route'
  OBVIOUS
<1>1. /\ pc \in {"composer", "answer_supervisor"} /\ pc' \in {"answer_supervisor", "end"}
      /\ UNCHANGED <<plan, halted, resultVars, routeVars, reviewVars, budgetVars>>
  BY DEF Answering, ComposerKeeps, Composer, ReviewGrounded, ReviewAnswer, Step, requestVars
<1> USE DEF Route, PlanShape, CleanStart, CursorMoved, SqlActive, Queued, Broken
<1> USE DEF resultVars, routeVars, reviewVars, budgetVars
<1>2. QueryFirst' /\ QueryDropped' /\ QueryQueued' /\ QueryRun'
  BY <1>1 DEF QueryFirst, QueryDropped, QueryQueued, QueryRun
<1>3. QueuePlanned' /\ OutOfPlan' /\ Alternates' /\ Forced'
  BY <1>1 DEF QueuePlanned, OutOfPlan, Alternates, Forced, Nodes, Agents
<1>4. QED
  BY <1>1, <1>2, <1>3

\* Agents that were not retried before are charged and dropped.
LEMMA RetryEffect ==
  ASSUME TypeOK, Route, NEW A \in SUBSET Agents, \A a \in A : retries[a] < 1,
         Invalidate(A), SpendRetries(A)
  PROVE  /\ \A x \in Agents : active'[x] = IF Goes(x, A) THEN None ELSE active[x]
         /\ \A x \in Agents : retries'[x] = IF x \in A THEN 1 ELSE retries[x]
         /\ budget'.alternate = budget.alternate /\ sql' = sql
         /\ "text2sql" \in A => active'["text2sql"] = None
         /\ "text2sql" \in A /\ active["text2sql"] # None => "text2sql" \in plan.selected
         /\ "text2sql" \notin A => active'["text2sql"] = active["text2sql"]
<1>1. \A x \in Agents : active'[x] = IF Goes(x, A) THEN None ELSE active[x]
  BY DropEffect
<1>2. \A x \in Agents : retries'[x] = IF x \in A THEN 1 ELSE retries[x]
  <2>1. \A x \in Agents : retries[x] \in Nat
    BY DEF TypeOK, BudgetType
  <2>2. QED
    BY <2>1 DEF SpendRetries
<1>3. budget'.alternate = budget.alternate /\ sql' = sql
  BY DropEffect DEF SpendRetries, TypeOK, BudgetType
<1>4. "text2sql" \in A /\ active["text2sql"] # None => "text2sql" \in plan.selected
  BY DEF Route, OutOfPlan, Alternates
<1>5. "text2sql" \in A => active'["text2sql"] = None
  BY <1>1, <1>4 DEF Goes, Agents
<1>6. "text2sql" \notin A => active'["text2sql"] = active["text2sql"]
  BY <1>1 DEF Goes, Agents
<1>7. QED
  BY <1>1, <1>2, <1>3, <1>4, <1>5, <1>6

\* An alternate is a search of a diagnosis that has no result yet.
LEMMA AlternateAllowed ==
  ASSUME NEW a \in AllowedAlternates, current \in Agents
  PROVE  /\ plan.query_type = "diagnosis" /\ a \in {"rag", "case_search"} /\ a # current
         /\ a = "case_search" => current = "rag"
         /\ a \in Agents => active[a] = None
<1>1. a \notin ActiveAgents
  BY DEF AllowedAlternates
<1>2. CASE plan.query_type # "diagnosis"
  <2>1. AllowedAlternates = {} \ ActiveAgents
    BY <1>2 DEF AllowedAlternates
  <2>2. QED
    BY <2>1
<1>3. CASE plan.query_type = "diagnosis" /\ current \in {"text2sql", "case_search"}
  <2>1. AllowedAlternates = {"rag"} \ ActiveAgents
    BY <1>3 DEF AllowedAlternates
  <2>2. QED
    BY <1>1, <1>3, <2>1 DEF ActiveAgents
<1>4. CASE plan.query_type = "diagnosis" /\ current = "rag"
  <2>1. AllowedAlternates = {"case_search"} \ ActiveAgents
    BY <1>4 DEF AllowedAlternates
  <2>2. QED
    BY <1>1, <1>4, <2>1 DEF ActiveAgents
<1>5. CASE plan.query_type = "diagnosis" /\ current \in {"impact", "visualization"}
  <2>1. AllowedAlternates = {} \ ActiveAgents
    BY <1>5 DEF AllowedAlternates
  <2>2. QED
    BY <2>1
<1>6. QED
  BY <1>2, <1>3, <1>4, <1>5 DEF Agents

\* Every decision agent_supervisor may take.
LEMMA RouteAgentSupervisor == TypeOK /\ Route /\ AgentSupervisor => Route'
<1> SUFFICES ASSUME TypeOK, Route, NEW d \in Decisions,
                    \/ Continue(d) \/ Compose(d) \/ RetryAgents(d)
                    \/ RetrySame(d) \/ Replan(d) \/ Alternate(d)
             PROVE  Route'
  BY DEF AgentSupervisor
<1>1. Permitted(d)
  BY DecisionsPermitted
<1>2. pc = "agent_supervisor" /\ current \in Agents
  BY DEF Continue, Compose, RetryAgents, RetrySame, Replan, Alternate, Decide, Step,
         TypeOK, ControlType
<1>3. /\ forced = None /\ ~Has(pending, "text2sql")
      /\ "text2sql" \in plan.selected => sql # None
      /\ active["text2sql"] = None => sql = None
  BY <1>2 DEF Route, Forced, QueryQueued, QueryFirst, QueryDropped, Queued, Broken, Nodes, Agents
<1> USE DEF Route, PlanShape, CleanStart, CursorMoved, SqlActive, Queued, Broken
<1>4. CASE Continue(d)
  <2>1. pc' = "dispatcher" /\ forced' = None
        /\ UNCHANGED <<requestVars, resultVars, pending, cursor, alternates, reviewVars, budgetVars>>
    BY <1>4 DEF Continue
  <2> USE DEF requestVars, resultVars, reviewVars, budgetVars
  <2>2. QueryFirst' /\ QueryDropped' /\ QueryQueued' /\ QueryRun'
    BY <1>2, <1>3, <2>1 DEF QueryFirst, QueryDropped, QueryQueued, QueryRun
  <2>3. QueuePlanned' /\ OutOfPlan' /\ Alternates' /\ Forced'
    BY <1>2, <2>1 DEF QueuePlanned, OutOfPlan, Alternates, Forced, Nodes, Agents
  <2>4. QED
    BY <1>2, <2>1, <2>2, <2>3
<1>5. CASE Compose(d)
  <2>1. pc' = "reflection" /\ forced' = None /\ pending' = <<>> /\ cursor' = 5
        /\ UNCHANGED <<requestVars, resultVars, alternates, reviewVars, budgetVars>>
    BY <1>5 DEF Compose, Rank
  <2>2. \A x, y : ~Has(pending', x) /\ ~Ahead(pending', x, y)
    BY <2>1, ShortQueue
  <2> USE DEF requestVars, resultVars, reviewVars, budgetVars
  <2>3. QueryFirst' /\ QueryDropped' /\ QueryQueued' /\ QueryRun'
    BY <1>2, <1>3, <2>1, <2>2 DEF QueryFirst, QueryDropped, QueryQueued, QueryRun
  <2>4. QueuePlanned' /\ OutOfPlan' /\ Alternates' /\ Forced'
    BY <1>2, <2>1, <2>2 DEF QueuePlanned, OutOfPlan, Alternates, Forced, Nodes, Agents
  <2>5. QED
    BY <1>2, <2>1, <2>3, <2>4
<1>6. CASE RetryAgents(d)
  <2> DEFINE S == Downstream(d.targets) \cap ActiveAgents
  <2>1. /\ d.targets \in SUBSET Agents
        /\ \A a \in d.targets : retries[a] < 1 /\ active[a] # None
    BY <1>1, <1>6 DEF Permitted, Recovery, RetryAgents, Decide, RetryAgentsAllowed, Retryable, ActiveAgents
  <2>2. /\ Invalidate(d.targets) /\ SpendRetries(d.targets) /\ pending' = Requeue(S)
        /\ halted' = FALSE /\ forced' = None /\ pc' = "dispatcher"
        /\ UNCHANGED <<plan, cursor, alternates, current>>
    BY <1>6 DEF RetryAgents, reviewVars
  <2>3. /\ S \in SUBSET Agents /\ S \subseteq plan.selected
        /\ "text2sql" \in S => "text2sql" \in d.targets
        /\ "text2sql" \in plan.selected /\ "text2sql" \in d.targets => "text2sql" \in S
    BY <2>1, DownstreamAgents DEF ActiveAgents, Agents
  <2>4. /\ \A x : Has(pending', x) <=> x \in S \/ Has(pending, x)
        /\ \A x, y : Ahead(pending', x, y) <=>
             \/ x \in S /\ y \in S /\ Rank[x] < Rank[y]
             \/ x \in S /\ y \notin S /\ Has(pending, y)
             \/ x \notin S /\ y \notin S /\ Ahead(pending, x, y)
    BY <2>2, <2>3, RequeueQueue DEF QueuePlanned, TypeOK, RouteType
  <2> HIDE DEF S
  <2>5. /\ \A x \in Agents : active'[x] = IF Goes(x, d.targets) THEN None ELSE active[x]
        /\ \A x \in Agents : retries'[x] = IF x \in d.targets THEN 1 ELSE retries[x]
        /\ budget'.alternate = budget.alternate /\ sql' = sql
        /\ "text2sql" \in d.targets => active'["text2sql"] = None
        /\ "text2sql" \in d.targets => "text2sql" \in plan.selected
        /\ "text2sql" \notin d.targets => active'["text2sql"] = active["text2sql"]
    BY <2>1, <2>2, RetryEffect
  <2>6. \A x \in S : Rank[x] \in Nat /\ Rank[x] >= Rank["text2sql"]
    BY <2>3 DEF Rank, Agents
  <2>7. QueryFirst' /\ QueryDropped' /\ QueryRun'
    BY <1>2, <1>3, <2>2, <2>3, <2>4, <2>5 DEF QueryFirst, QueryDropped, QueryRun
  <2>8. QueryQueued'
    BY <1>3, <2>2, <2>3, <2>4, <2>5, <2>6 DEF QueryQueued, Agents, Rank
  <2>9. QueuePlanned'
    BY <2>2, <2>3, <2>4, <2>6 DEF QueuePlanned
  <2>10. OutOfPlan'
    BY <2>1, <2>2, <2>5 DEF OutOfPlan, Agents
  <2>11. Alternates' /\ Forced'
    BY <2>2, <2>5 DEF Alternates, Forced, Nodes, Agents
  <2>12. PlanShape' /\ CleanStart' /\ CursorMoved' /\ SqlActive'
    BY <2>2, <2>5
  <2>13. QED
    BY <2>7, <2>8, <2>9, <2>10, <2>11, <2>12
<1>7. CASE RetrySame(d)
  <2> DEFINE S == (Downstream({current}) \cap ActiveAgents) \ {current}
  <2>1. {current} \in SUBSET Agents /\ \A a \in {current} : retries[a] < 1
    BY <1>1, <1>2, <1>7 DEF Permitted, RetrySame, Decide, RetrySameAllowed
  <2>2. /\ Invalidate({current}) /\ SpendRetries({current}) /\ pending' = Requeue(S)
        /\ halted' = FALSE /\ forced' = None /\ pc' = current
        /\ UNCHANGED <<plan, cursor, alternates, current>>
    BY <1>7 DEF RetrySame, reviewVars
  <2>3. S \in SUBSET Agents /\ S \subseteq plan.selected /\ "text2sql" \notin S
    BY <2>1, DownstreamAgents DEF ActiveAgents, Agents
  <2>4. /\ \A x : Has(pending', x) <=> x \in S \/ Has(pending, x)
        /\ \A x, y : Ahead(pending', x, y) <=>
             \/ x \in S /\ y \in S /\ Rank[x] < Rank[y]
             \/ x \in S /\ y \notin S /\ Has(pending, y)
             \/ x \notin S /\ y \notin S /\ Ahead(pending, x, y)
    BY <2>2, <2>3, RequeueQueue DEF QueuePlanned, TypeOK, RouteType
  <2> HIDE DEF S
  <2>5. /\ \A x \in Agents : active'[x] = IF Goes(x, {current}) THEN None ELSE active[x]
        /\ \A x \in Agents : retries'[x] = IF x \in {current} THEN 1 ELSE retries[x]
        /\ budget'.alternate = budget.alternate /\ sql' = sql
        /\ "text2sql" \in {current} => active'["text2sql"] = None
        /\ "text2sql" \notin {current} => active'["text2sql"] = active["text2sql"]
    BY <2>1, <2>2, RetryEffect
  <2>6. \A x \in S : Rank[x] \in Nat
    BY <2>3 DEF Rank, Agents
  <2>7. current \in plan.selected \/ current \in alternates
    BY <1>2, <2>1 DEF OutOfPlan
  <2>8. current \notin Broken \cup {"supervisor", "dispatcher", "agent_supervisor"}
        /\ current \notin Nodes \ Agents
    BY <1>2 DEF Agents
  <2>9. QueryFirst' /\ QueryDropped' /\ QueryRun'
    BY <1>2, <1>3, <2>2, <2>5 DEF QueryFirst, QueryDropped, QueryRun, Agents
  <2>10. QueryQueued'
    BY <1>3, <2>3, <2>4 DEF QueryQueued
  <2>11. QueuePlanned'
    BY <2>2, <2>3, <2>4, <2>6 DEF QueuePlanned
  <2>12. OutOfPlan'
    BY <2>1, <2>2, <2>5, <2>8 DEF OutOfPlan, Agents
  <2>13. Alternates' /\ Forced'
    BY <1>2, <2>2, <2>5, <2>7, <2>8 DEF Alternates, Forced, ShouldRun
  <2>14. PlanShape' /\ CleanStart' /\ CursorMoved' /\ SqlActive'
    BY <2>2, <2>5, <2>8
  <2>15. QED
    BY <2>9, <2>10, <2>11, <2>12, <2>13, <2>14
<1>8. CASE Replan(d)
  <2>1. pc' = "planner" /\ forced' = None /\ retries' = retries /\ budget'.alternate = budget.alternate
        /\ halted' = FALSE
        /\ UNCHANGED <<plan, resultVars, pending, cursor, alternates, reviewVars>>
    BY <1>8 DEF Replan, SpendReplan, TypeOK, BudgetType
  <2> USE DEF resultVars, reviewVars
  <2>2. QueryFirst' /\ QueryDropped' /\ QueryQueued' /\ QueryRun'
    BY <1>2, <1>3, <2>1 DEF QueryFirst, QueryDropped, QueryQueued, QueryRun
  <2>3. QueuePlanned' /\ OutOfPlan' /\ Alternates' /\ Forced'
    BY <1>2, <2>1 DEF QueuePlanned, OutOfPlan, Alternates, Forced, Nodes, Agents
  <2>4. QED
    BY <1>2, <2>1, <2>2, <2>3
<1>9. CASE Alternate(d)
  <2> DEFINE a == d.alternate
  <2>1. /\ budget.alternate > 0 /\ a \in {"rag", "case_search"} /\ plan.query_type = "diagnosis"
    BY <1>1, <1>2, <1>9, AlternateAllowed DEF Permitted, Alternate, Decide
  <2>2. /\ pc' = a /\ forced' = a /\ alternates' = alternates \cup {a} /\ retries' = retries
        /\ budget'.alternate = budget.alternate - 1 /\ halted' = FALSE
        /\ UNCHANGED <<plan, resultVars, pending, cursor, reviewVars>>
    BY <1>9 DEF Alternate, TypeOK, BudgetType
  <2>3. budget.alternate \in Nat /\ AlternateBudget \in Nat
    BY BudgetAssumption DEF TypeOK, BudgetType
  <2> HIDE DEF a
  <2>4. a \notin Broken \cup {"supervisor", "dispatcher", "agent_supervisor", "text2sql"}
        /\ a \notin Nodes \ Agents
    BY <2>1 DEF Agents
  <2> USE DEF resultVars, reviewVars
  <2>5. QueryFirst' /\ QueryDropped' /\ QueryQueued' /\ QueryRun'
    BY <1>2, <1>3, <2>2, <2>4 DEF QueryFirst, QueryDropped, QueryQueued, QueryRun
  <2>6. QueuePlanned' /\ OutOfPlan' /\ Forced'
    BY <1>2, <2>2, <2>4 DEF QueuePlanned, OutOfPlan, Forced, ShouldRun
  <2>7. Alternates'
    BY <2>1, <2>2, <2>3 DEF Alternates
  <2>8. QED
    BY <1>2, <2>2, <2>4, <2>5, <2>6, <2>7
<1>10. QED
  BY <1>4, <1>5, <1>6, <1>7, <1>8, <1>9

\* The final reflection retries an agent, replans, or leaves the plan.
LEMMA RouteReflection == TypeOK /\ Route /\ Reflection => Route'
<1> SUFFICES ASSUME TypeOK, Route, Reflection PROVE Route'
  OBVIOUS
<1>1. pc = "reflection" /\ forced = None
  BY DEF Reflection, ReflectStopped, ReflectGrounded, ReflectCompose, ReflectReplan, ReflectRetry,
         Reflecting, Step, Route, Forced, Nodes, Agents
<1>2. /\ ~Has(pending, "text2sql")
      /\ "text2sql" \in plan.selected => sql # None
      /\ active["text2sql"] = None => sql = None
  BY <1>1 DEF Route, QueryQueued, QueryFirst, QueryDropped, Queued, Broken
<1> USE DEF Route, PlanShape, CleanStart, CursorMoved, SqlActive, Queued, Broken
<1>3. CASE ReflectStopped \/ ReflectGrounded \/ ReflectCompose \/ ReflectReplan
  <2>1. /\ pc' \in {"planner", "composer"} /\ forced' = None
        /\ retries' = retries /\ budget'.alternate = budget.alternate
        /\ UNCHANGED <<requestVars, resultVars, pending, cursor, alternates, reviewVars>>
    BY <1>1, <1>3 DEF ReflectStopped, ReflectGrounded, ReflectCompose, ReflectReplan, AfterReflection,
       SpendReplan, routeVars, budgetVars, TypeOK, BudgetType
  <2> USE DEF requestVars, resultVars, reviewVars
  <2>2. QueryFirst' /\ QueryDropped' /\ QueryQueued' /\ QueryRun'
    BY <1>1, <1>2, <2>1 DEF QueryFirst, QueryDropped, QueryQueued, QueryRun
  <2>3. QueuePlanned' /\ OutOfPlan' /\ Alternates' /\ Forced'
    BY <1>1, <2>1 DEF QueuePlanned, OutOfPlan, Alternates, Forced, Nodes, Agents
  <2>4. QED
    BY <1>1, <2>1, <2>2, <2>3
<1>4. ASSUME NEW a \in Agents, ReflectRetry(a) PROVE Route'
  <2> DEFINE S == (Downstream({a}) \cap ActiveAgents) \ {a}
  <2>1. {a} \in SUBSET Agents /\ \A b \in {a} : retries[b] < 1
    BY <1>4 DEF ReflectRetry, RetryTargetAllowed
  <2>2. /\ Invalidate({a}) /\ SpendRetries({a}) /\ pending' = InOrder(S)
        /\ forced' = a /\ pc' = a
        /\ UNCHANGED <<requestVars, cursor, alternates, reviewVars>>
    BY <1>4 DEF ReflectRetry
  <2>3. S \in SUBSET Agents /\ S \subseteq plan.selected /\ "text2sql" \notin S
    BY <2>1, DownstreamAgents DEF ActiveAgents, Agents
  <2>4. /\ \A x : Has(pending', x) <=> x \in S
        /\ \A x, y : Ahead(pending', x, y) <=> x \in S /\ y \in S /\ Rank[x] < Rank[y]
    BY <2>2, <2>3, InOrderQueue DEF Orders
  <2> HIDE DEF S
  <2>5. /\ \A x \in Agents : active'[x] = IF Goes(x, {a}) THEN None ELSE active[x]
        /\ \A x \in Agents : retries'[x] = IF x \in {a} THEN 1 ELSE retries[x]
        /\ budget'.alternate = budget.alternate /\ sql' = sql
        /\ "text2sql" \in {a} => active'["text2sql"] = None
        /\ "text2sql" \notin {a} => active'["text2sql"] = active["text2sql"]
    BY <2>1, <2>2, RetryEffect
  <2>6. \A x \in S : Rank[x] \in Nat
    BY <2>3 DEF Rank, Agents
  <2>7. a \notin Broken \cup {"supervisor", "dispatcher", "agent_supervisor"} /\ a \notin Nodes \ Agents
    BY DEF Agents
  <2> USE DEF requestVars, reviewVars
  <2>8. QueryFirst' /\ QueryDropped' /\ QueryRun'
    BY <1>1, <1>2, <2>2, <2>5 DEF QueryFirst, QueryDropped, QueryRun, Agents
  <2>9. QueryQueued'
    BY <2>3, <2>4 DEF QueryQueued
  <2>10. QueuePlanned'
    BY <2>2, <2>3, <2>4, <2>6 DEF QueuePlanned
  <2>11. OutOfPlan'
    BY <1>1, <2>1, <2>2, <2>5, <2>7 DEF OutOfPlan, Agents
  <2>12. Alternates' /\ Forced'
    BY <1>1, <2>2, <2>5, <2>7 DEF Alternates, Forced, ShouldRun
  <2>13. PlanShape' /\ CleanStart' /\ CursorMoved' /\ SqlActive'
    BY <2>2, <2>5, <2>7
  <2>14. QED
    BY <2>8, <2>9, <2>10, <2>11, <2>12, <2>13
<1>5. QED
  BY <1>3, <1>4 DEF Reflection

\* A request that breaks off, or has ended.
LEMMA RouteStopped == TypeOK /\ Route /\ (OutOfSteps \/ NodeRaises \/ UNCHANGED vars) => Route'
<1> SUFFICES ASSUME TypeOK, Route, OutOfSteps \/ NodeRaises \/ UNCHANGED vars PROVE Route'
  OBVIOUS
<1>1. /\ pc' = pc \/ pc' \in Broken
      /\ UNCHANGED <<requestVars, resultVars, routeVars, reviewVars, budgetVars>>
  BY DEF OutOfSteps, NodeRaises, vars, Broken
<1> USE DEF requestVars, resultVars, routeVars, reviewVars, budgetVars
<1>2. PlanShape' /\ CleanStart' /\ CursorMoved' /\ SqlActive'
  BY <1>1 DEF Route, PlanShape, CleanStart, CursorMoved, SqlActive, Broken
<1>3. QueryFirst' /\ QueryDropped' /\ QueryQueued' /\ QueryRun'
  BY <1>1 DEF Route, QueryFirst, QueryDropped, QueryQueued, QueryRun, Queued, Broken
<1>4. QueuePlanned' /\ OutOfPlan' /\ Alternates' /\ Forced'
  BY <1>1 DEF Route, QueuePlanned, OutOfPlan, Alternates, Forced, Queued, Broken, Nodes, Agents, ShouldRun
<1>5. QED
  BY <1>2, <1>3, <1>4 DEF Route

\* Every step keeps the route, one lemma per node.
LEMMA RouteStep == TypeOK /\ Route /\ [Next]_vars => Route'
<1>1. Ended => UNCHANGED vars
  BY DEF Ended
<1>2. QED
  BY <1>1, RoutePlanner, RouteSupervisor, RouteDispatcher, RouteRunAgent, RouteAgentSupervisor,
     RouteReflection, RouteAnswering, RouteStopped DEF Next

\* Where a request is in its plan, for every plan, outcome and budget.
LEMMA RouteKept == Spec => [](TypeOK /\ Route)
<1>1. Spec => []TypeOK
  BY TypeCorrect
<1>2. QED
  BY <1>1, RouteInit, RouteStep, PTL DEF Spec

-----------------------------------------------------------------------------
(* The places a result is kept in. *)

\* The evidence of a planned chart is that of the rows in use, and the chart is
\* not entered again with it unless it can be drawn again.
ChartRows ==
  /\ evidence["visualization"] # "failed"
  /\ evidence["visualization"] = "usable" =>
       /\ "visualization" \in plan.selected => sql = "rows" /\ active["text2sql"] # None
       /\ pc = "visualization" => ~halted /\ "visualization" \in plan.selected

\* PlacesAgree, agent by agent, with what its chart needs.
Agreed(a) ==
  /\ evidence[a] = "usable" => active[a] \in {"succeeded", "data_unavailable"}
  /\ evidence[a] = "failed" => active[a] \in Failures
  /\ active[a] = "succeeded" => evidence[a] = "usable"
Places == EvidenceCurrent /\ ChartCurrent /\ ChartRows

\* PlacesAgree is said agent by agent.
LEMMA PlacesAgents == EvidenceCurrent <=> \A a \in Agents : Agreed(a)
  BY DEF EvidenceCurrent, Agreed

\* Where no result is touched, the places agree as before.
LEMMA PlacesUntouched ==
  ASSUME Places, UNCHANGED <<resultVars, plan>>,
         pc' = "visualization" => ~halted' /\ "visualization" \in plan.selected
  PROVE  Places'
  BY DEF Places, EvidenceCurrent, ChartCurrent, ChartRows, resultVars

\* Agents of A are dropped to be run again.
LEMMA PlacesDropped ==
  ASSUME TypeOK, Route, Places, NEW A \in SUBSET Agents, Invalidate(A), plan' = plan,
         pc' = "visualization" => "visualization" \in A
  PROVE  Places'
<1>1. /\ \A x \in Agents : active'[x] = IF Goes(x, A) THEN None ELSE active[x]
      /\ \A x \in Agents : evidence'[x] = IF Goes(x, A) /\ active[x] # None THEN None ELSE evidence[x]
      /\ \A x \in Agents : basis'[x] = IF Goes(x, A) THEN {} ELSE basis[x]
      /\ chart' = (chart /\ ~Goes("visualization", A))
      /\ sql' = sql
  BY DropEffect
<1>2. None \notin {"usable", "failed", "succeeded", "data_unavailable"} \cup Failures
  BY DEF None, Failures, NotReady
<1>3. ASSUME NEW x \in Agents PROVE Agreed(x)'
  <2>1. Agreed(x)
    BY PlacesAgents DEF Places
  <2>2. CASE Goes(x, A)
    <3>1. active'[x] = None /\ evidence'[x] \notin {"usable", "failed"}
      BY <1>1, <1>2, <2>1, <2>2 DEF Agreed
    <3>2. QED
      BY <1>2, <3>1 DEF Agreed
  <2>3. CASE ~Goes(x, A)
    BY <1>1, <2>1, <2>3 DEF Agreed
  <2>4. QED
    BY <2>2, <2>3
<1>4. EvidenceCurrent'
  BY <1>3 DEF EvidenceCurrent, Agreed
<1>5. ChartCurrent'
  BY <1>1 DEF Places, ChartCurrent, Agents
<1>6. ChartRows'
  <2>1. Agreed("visualization")
    BY PlacesAgents DEF Places, Agents
  <2>2. evidence'["visualization"] # "failed"
    BY <1>1, <1>2 DEF Places, ChartRows, Agents
  <2>3. ASSUME evidence'["visualization"] = "usable"
        PROVE  /\ ~Goes("visualization", A) /\ evidence["visualization"] = "usable"
               /\ active["visualization"] # None
    BY <1>1, <1>2, <2>1, <2>3 DEF Agreed, Agents
  <2>4. ASSUME evidence'["visualization"] = "usable", "visualization" \in plan.selected
        PROVE  sql' = "rows" /\ active'["text2sql"] # None
    <3>1. sql = "rows" /\ active["text2sql"] # None
      BY <2>3, <2>4 DEF Places, ChartRows
    <3>2. ~Goes("text2sql", A)
      BY <2>3, <2>4, <3>1 DEF Goes
    <3>3. QED
      BY <1>1, <3>1, <3>2 DEF Agents
  <2>5. evidence'["visualization"] = "usable" => pc' # "visualization"
    BY <2>3 DEF Goes
  <2>6. QED
    BY <2>2, <2>4, <2>5 DEF ChartRows
<1>7. QED
  BY <1>4, <1>5, <1>6 DEF Places

\* A run of an agent that writes its evidence.
LEMMA PlacesRun ==
  ASSUME TypeOK, Route, Places, NEW a \in Agents, NEW s, NEW e, pc = a,
         Record(a, s), AddEvidence(a, e), plan' = plan,
         e = "usable" => s \in {"succeeded", "data_unavailable"},
         e = "failed" => s \in Failures /\ a # "visualization",
         s = "succeeded" => e = "usable",
         IF a = "visualization" THEN sql' = sql /\ chart' = (s = "succeeded") /\ sql = "rows"
                                ELSE chart' = chart,
         a # "text2sql" => sql' = sql
  PROVE  Places'
<1>1. /\ \A x \in Agents : active'[x] =
           IF x = a THEN s ELSE IF Goes(x, {a}) THEN None ELSE active[x]
      /\ basis'[a] = Inputs(a)
      /\ \A x \in Agents \ {a} : basis'[x] = IF Goes(x, {a}) THEN {} ELSE basis[x] \ {a}
      /\ pc' = "agent_supervisor"
  BY RecordEffect
<1>2. /\ evidence'[a] = e
      /\ \A x \in Agents \ {a} : evidence'[x] =
           IF Goes(x, {a}) /\ active[x] # None THEN None ELSE evidence[x]
  BY EvidenceEffect
<1>3. None \notin {"usable", "failed", "succeeded", "data_unavailable"} \cup Failures
  BY DEF None, Failures, NotReady
<1>4. ASSUME NEW x \in Agents PROVE Agreed(x)'
  <2>1. Agreed(x)
    BY PlacesAgents DEF Places
  <2>2. CASE x = a
    BY <1>1, <1>2, <2>2 DEF Agreed
  <2>3. CASE x # a /\ Goes(x, {a})
    <3>1. active'[x] = None /\ evidence'[x] \notin {"usable", "failed"}
      BY <1>1, <1>2, <1>3, <2>1, <2>3 DEF Agreed
    <3>2. QED
      BY <1>3, <3>1 DEF Agreed
  <2>4. CASE x # a /\ ~Goes(x, {a})
    BY <1>1, <1>2, <2>1, <2>4 DEF Agreed
  <2>5. QED
    BY <2>2, <2>3, <2>4
<1>5. EvidenceCurrent'
  BY <1>4 DEF EvidenceCurrent, Agreed
\* A planned chart never outlives the query: there is none when it runs.
<1>6. a = "text2sql" /\ "visualization" \in plan.selected =>
        ~chart /\ evidence["visualization"] # "usable" /\ active["visualization"] # "succeeded"
  <2>1. Agreed("visualization")
    BY PlacesAgents DEF Places, Agents
  <2>2. QED
    BY <2>1 DEF Route, QueryRun, Places, ChartRows, ChartCurrent, Agreed
<1>7. a \notin {"text2sql", "visualization"} => ~Goes("visualization", {a}) /\ ~Goes("text2sql", {a})
  BY DEF Goes
<1>8. ~Goes("text2sql", {"visualization"})
  BY DEF Goes
<1>9. a = "visualization" => active["text2sql"] # None
  BY DEF Route, QueryDropped, Queued, Broken, None
<1>10. ChartCurrent'
  <2>1. CASE a = "text2sql"
    BY <1>6, <2>1 DEF ChartCurrent
  <2>2. CASE a = "visualization"
    <3>1. "text2sql" \in Inputs(a)
      BY <1>9, <2>2 DEF Inputs, ActiveAgents, Consumers, Agents
    <3>2. QED
      BY <1>1, <2>2, <3>1 DEF ChartCurrent
  <2>3. CASE a \notin {"text2sql", "visualization"}
    BY <1>1, <1>7, <2>3 DEF Places, ChartCurrent, Agents
  <2>4. QED
    BY <2>1, <2>2, <2>3
<1>11. ChartRows'
  <2>1. CASE a = "text2sql"
    BY <1>1, <1>2, <1>3, <1>6, <2>1 DEF Places, ChartRows, Agents
  <2>2. CASE a = "visualization"
    BY <1>1, <1>2, <1>8, <1>9, <2>2 DEF Places, ChartRows, Agents
  <2>3. CASE a \notin {"text2sql", "visualization"}
    BY <1>1, <1>2, <1>7, <2>3 DEF Places, ChartRows, Agents
  <2>4. QED
    BY <2>1, <2>2, <2>3
<1>12. QED
  BY <1>5, <1>10, <1>11 DEF Places

\* A chart that was not made leaves the evidence as it was.
LEMMA PlacesNoChart ==
  ASSUME TypeOK, Route, Places, pc = "visualization",
         NEW s \in {"skipped", "data_unavailable"}, Record("visualization", s),
         s = "skipped" => halted \/ sql # "rows" \/ "visualization" \notin plan.selected,
         UNCHANGED <<plan, sql, evidence>>, chart' = IF s = "skipped" THEN chart ELSE FALSE
  PROVE  Places'
<1>1. "visualization" \in Agents /\ \A x \in Agents \ {"visualization"} : ~Goes(x, {"visualization"})
  BY DEF Agents, Goes
<1>2. /\ \A x \in Agents \ {"visualization"} : active'[x] = active[x]
      /\ active'["visualization"] = s /\ pc' = "agent_supervisor"
  BY <1>1, RecordEffect
<1>3. s = "skipped" => evidence["visualization"] # "usable"
  BY DEF Places, ChartRows
<1>4. EvidenceCurrent'
  BY <1>1, <1>2, <1>3 DEF Places, EvidenceCurrent, ChartRows
<1>5. ChartCurrent'
  <2>1. chart' /\ "visualization" \in plan.selected => FALSE
    BY <1>1, <1>3 DEF Places, ChartCurrent, EvidenceCurrent
  <2>2. QED
    BY <2>1 DEF ChartCurrent
<1>6. ChartRows'
  BY <1>2 DEF Places, ChartRows, Agents
<1>7. QED
  BY <1>4, <1>5, <1>6 DEF Places

\* Every agent writes its result to all its places.
LEMMA PlacesRunAgent == TypeOK /\ Route /\ Places /\ RunAgent => Places'
<1> SUFFICES ASSUME TypeOK, Route, Places, RunAgent PROVE Places'
  OBVIOUS
<1> USE OutcomeAssumption DEF Failures, NotReady
<1>1. CASE Text2sql
  <2>1. PICK s \in Outcome["text2sql"] :
          /\ Record("text2sql", s)
          /\ AddEvidence("text2sql", IF s = "succeeded" THEN "usable" ELSE "failed")
    BY <1>1 DEF Text2sql
  <2>2. pc = "text2sql" /\ UNCHANGED <<plan, chart>>
    BY <1>1 DEF Text2sql, Step
  <2>3. QED
    BY <2>1, <2>2, PlacesRun DEF Agents
<1>2. CASE Rag
  <2>1. PICK s \in Outcome["rag"] :
          Record("rag", s) /\ AddEvidence("rag", IF s = "succeeded" THEN "usable" ELSE None)
    BY <1>2 DEF Rag
  <2>2. pc = "rag" /\ UNCHANGED <<plan, chart, sql>>
    BY <1>2 DEF Rag, Step
  <2>3. QED
    BY <2>1, <2>2, PlacesRun DEF Agents, None
<1>3. CASE CaseSearch
  <2>1. PICK s \in Outcome["case_search"] :
          /\ Record("case_search", s)
          /\ AddEvidence("case_search", IF s = "succeeded" THEN "usable" ELSE None)
    BY <1>3 DEF CaseSearch
  <2>2. pc = "case_search" /\ UNCHANGED <<plan, chart, sql>>
    BY <1>3 DEF CaseSearch, Step, requestVars
  <2>3. QED
    BY <2>1, <2>2, PlacesRun DEF Agents, None
<1>4. CASE Impact
  <2>1. PICK s \in Outcome["impact"] : Record("impact", s) /\ AddEvidence("impact", "usable")
    BY <1>4 DEF Impact
  <2>2. pc = "impact" /\ UNCHANGED <<plan, chart, sql>>
    BY <1>4 DEF Impact, Step
  <2>3. QED
    BY <2>1, <2>2, PlacesRun DEF Agents
<1>5. CASE Visualization
  <2>1. PICK s \in IF halted \/ sql # "rows" THEN {"skipped"} ELSE Outcome["visualization"] :
          /\ Record("visualization", s)
          /\ IF s = "succeeded" THEN AddEvidence("visualization", "usable") ELSE UNCHANGED evidence
          /\ chart' = IF s = "skipped" THEN chart ELSE s = "succeeded"
    BY <1>5 DEF Visualization
  <2>2. pc = "visualization" /\ UNCHANGED <<plan, sql>>
    BY <1>5 DEF Visualization, Step, requestVars
  <2>3. CASE s = "succeeded"
    <3>1. sql = "rows" /\ chart' = (s = "succeeded")
      BY <2>1, <2>3
    <3>2. QED
      BY <2>1, <2>2, <2>3, <3>1, PlacesRun DEF Agents
  <2>4. CASE s # "succeeded"
    <3>1. s \in {"skipped", "data_unavailable"} /\ (s = "skipped" => halted \/ sql # "rows")
      BY <2>1, <2>4
    <3>2. chart' = IF s = "skipped" THEN chart ELSE FALSE
      BY <2>1, <2>4
    <3>3. QED
      BY <2>1, <2>2, <2>4, <3>1, <3>2, PlacesNoChart
  <2>5. QED
    BY <2>3, <2>4
<1>6. ASSUME NEW a \in Agents, Skip(a) PROVE Places'
  <2>1. UNCHANGED <<resultVars, plan>> /\ pc' # "visualization"
    BY <1>6 DEF Skip, requestVars
  <2>2. QED
    BY <2>1, PlacesUntouched
<1>7. QED
  BY <1>1, <1>2, <1>3, <1>4, <1>5, <1>6 DEF RunAgent

\* The dispatcher enters a chart only where it can be drawn.
LEMMA PlacesDispatcher == TypeOK /\ Route /\ Places /\ Dispatcher => Places'
<1> SUFFICES ASSUME TypeOK, Route, Places, Dispatcher PROVE Places'
  OBVIOUS
<1>1. CASE DispatchHalted \/ DispatchDone
  <2>1. UNCHANGED <<resultVars, plan>> /\ pc' # "visualization"
    BY <1>1 DEF DispatchHalted, DispatchDone, requestVars
  <2>2. QED
    BY <2>1, PlacesUntouched
<1>2. CASE DispatchPending
  <2>1. ~halted /\ pending # <<>> /\ pc' = Head(pending) /\ UNCHANGED <<resultVars, plan, halted>>
    BY <1>2 DEF DispatchPending, requestVars
  <2>2. Head(pending) \in plan.selected
    BY <2>1, TailQueue DEF Route, QueuePlanned, Queued, TypeOK, RouteType
  <2>3. QED
    BY <2>1, <2>2, PlacesUntouched
<1>3. ASSUME NEW a \in Agents, DispatchStep(a) PROVE Places'
  <2>1. ~halted /\ a \in plan.selected /\ pc' = a /\ UNCHANGED <<resultVars, plan, halted>>
    BY <1>3 DEF DispatchStep, Remaining, requestVars
  <2>2. QED
    BY <2>1, PlacesUntouched
<1>4. QED
  BY <1>1, <1>2, <1>3 DEF Dispatcher

\* What a decision drops it drops everywhere.
LEMMA PlacesAgentSupervisor == TypeOK /\ Route /\ Places /\ AgentSupervisor => Places'
<1> SUFFICES ASSUME TypeOK, Route, Places, NEW d \in Decisions,
                    \/ Continue(d) \/ Compose(d) \/ RetryAgents(d)
                    \/ RetrySame(d) \/ Replan(d) \/ Alternate(d)
             PROVE  Places'
  BY DEF AgentSupervisor
<1>1. Permitted(d) /\ (pc = "agent_supervisor" => current \in Agents)
  BY DecisionsPermitted DEF TypeOK, ControlType
<1>2. CASE Continue(d) \/ Compose(d) \/ Replan(d)
  <2>1. UNCHANGED <<resultVars, plan>> /\ pc' # "visualization"
    BY <1>2 DEF Continue, Compose, Replan, requestVars
  <2>2. QED
    BY <2>1, PlacesUntouched
<1>3. CASE RetryAgents(d)
  <2>1. d.targets \in SUBSET Agents
    BY <1>1, <1>3 DEF Permitted, Recovery, RetryAgents, Decide
  <2>2. Invalidate(d.targets) /\ plan' = plan /\ pc' # "visualization"
    BY <1>3 DEF RetryAgents
  <2>3. QED
    BY <2>1, <2>2, PlacesDropped
<1>4. CASE RetrySame(d)
  <2>1. {current} \in SUBSET Agents
    BY <1>1, <1>4 DEF RetrySame, Decide, Step
  <2>2. Invalidate({current}) /\ plan' = plan /\ pc' = current
    BY <1>4 DEF RetrySame
  <2>3. QED
    BY <2>1, <2>2, PlacesDropped
<1>5. CASE Alternate(d)
  <2>1. d.alternate \in AllowedAlternates /\ current \in Agents
    BY <1>1, <1>5 DEF Permitted, Alternate, Decide, Step
  <2>2. UNCHANGED <<resultVars, plan>> /\ pc' = d.alternate
    BY <1>5 DEF Alternate
  <2>3. QED
    BY <2>1, <2>2, AlternateAllowed, PlacesUntouched
<1>6. QED
  BY <1>2, <1>3, <1>4, <1>5

\* So does the final reflection.
LEMMA PlacesReflection == TypeOK /\ Route /\ Places /\ Reflection => Places'
<1> SUFFICES ASSUME TypeOK, Route, Places, Reflection PROVE Places'
  OBVIOUS
<1>1. CASE ReflectStopped \/ ReflectGrounded \/ ReflectCompose \/ ReflectReplan
  <2>1. pc = "reflection"
    BY <1>1 DEF ReflectStopped, ReflectGrounded, ReflectCompose, ReflectReplan, Reflecting, Step
  <2>2. forced = None
    BY <2>1 DEF Route, Forced, Nodes, Agents
  <2>3. UNCHANGED <<resultVars, plan>> /\ pc' # "visualization"
    BY <1>1, <2>2 DEF ReflectStopped, ReflectGrounded, ReflectCompose, ReflectReplan,
       AfterReflection, requestVars
  <2>4. QED
    BY <2>3, PlacesUntouched
<1>2. ASSUME NEW a \in Agents, ReflectRetry(a) PROVE Places'
  <2>1. Invalidate({a}) /\ plan' = plan /\ pc' = a /\ {a} \in SUBSET Agents
    BY <1>2 DEF ReflectRetry, requestVars
  <2>2. QED
    BY <2>1, PlacesDropped
<1>3. QED
  BY <1>1, <1>2 DEF Reflection

\* A request starts with all places empty.
LEMMA PlacesInit == Init => Places
<1>1. Agents \subseteq Sources /\ "visualization" \in Agents
  BY DEF Agents, Sources
<1>2. QED
  BY <1>1 DEF Init, Places, EvidenceCurrent, ChartCurrent, ChartRows, None

\* Every step keeps the places of a result in agreement.
LEMMA PlacesStep == TypeOK /\ Route /\ Places /\ [Next]_vars => Places'
<1> SUFFICES ASSUME TypeOK, Route, Places, [Next]_vars PROVE Places'
  OBVIOUS
<1>1. Agents \subseteq Sources /\ "visualization" \in Agents
  BY DEF Agents, Sources
<1>2. CASE Planner
  BY <1>1, <1>2 DEF Planner, Places, EvidenceCurrent, ChartCurrent, ChartRows, None
<1>3. CASE Supervisor
  <2>1. pc = "supervisor" /\ pc' = "dispatcher" /\ UNCHANGED resultVars
    BY <1>3 DEF Supervisor, Step
  <2>2. chart = FALSE /\ evidence = [x \in Sources |-> None] /\ active = [x \in Agents |-> None]
    BY <2>1 DEF Route, CleanStart
  <2>3. QED
    BY <1>1, <2>1, <2>2 DEF Places, EvidenceCurrent, ChartCurrent, ChartRows, None, resultVars
<1>4. CASE Answering \/ OutOfSteps \/ NodeRaises \/ Ended \/ UNCHANGED vars
  <2>1. UNCHANGED <<resultVars, plan>> /\ ((pc' = pc /\ halted' = halted) \/ pc' # "visualization")
    BY <1>4 DEF Answering, ComposerKeeps, Composer, ReviewGrounded, ReviewAnswer, OutOfSteps,
       NodeRaises, Ended, vars, requestVars
  <2>2. CASE pc' # "visualization"
    BY <2>1, <2>2, PlacesUntouched
  <2>3. CASE pc' = pc /\ halted' = halted
    BY <2>1, <2>3 DEF Places, EvidenceCurrent, ChartCurrent, ChartRows, resultVars
  <2>4. QED
    BY <2>1, <2>2, <2>3
<1>5. QED
  BY <1>2, <1>3, <1>4, PlacesDispatcher, PlacesRunAgent, PlacesAgentSupervisor, PlacesReflection
  DEF Next

(* The answer parts. *)

\* A document search outside the plan of a case search is entered only once: a
\* second run of it would leave the part of the first.
RagOnce ==
  pc = "rag" /\ "rag" \notin plan.selected /\ "case_search" \in plan.selected =>
    active["rag"] = None
Parts == PartsAgree /\ DiagnosisPart /\ RagOnce

\* What is left of the answer parts when the agents of A run again.
LEMMA PartsLeft ==
  ASSUME TypeOK, NEW A \in SUBSET Agents
  PROVE  /\ \A x \in Agents : \A s : <<x, s>> \in PartsWithout(Obsolete(A)) <=>
              /\ <<x, s>> \in parts
              /\ ~(Goes(x, A) /\ active[x] = s /\ (x = "rag" => s = "succeeded"))
         /\ <<"synthesis", "succeeded">> \in PartsWithout(Obsolete(A)) <=>
              <<"synthesis", "succeeded">> \in parts /\ ~DropsSynthesis(Obsolete(A))
<1>1. /\ \A x : x \in Obsolete(A) <=> Goes(x, A)
      /\ Obsolete(A) \in SUBSET Agents
  BY ObsoleteAgents
<1>2. "synthesis" \notin Agents
  BY DEF Agents
<1> DEFINE S == Obsolete(A)
<1> HIDE DEF S
<1>3. ASSUME NEW x, NEW s
      PROVE  <<x, s>> \in PartsWithout(S) <=>
               /\ <<x, s>> \in parts
               /\ ~(x \in S /\ active[x] = s /\ (x = "rag" => s = "succeeded"))
               /\ ~(x = "synthesis" /\ DropsSynthesis(S))
  BY DEF PartsWithout
<1>4. QED
  BY <1>1, <1>2, <1>3 DEF S

\* The diagnosis goes from the evidence when its part goes.
LEMMA DiagnosisLeft ==
  ASSUME TypeOK, NEW A \in SUBSET Agents
  PROVE  EvidenceWithout(Obsolete(A))["synthesis"] =
           IF DropsSynthesis(Obsolete(A)) THEN None ELSE evidence["synthesis"]
<1>1. Obsolete(A) \in SUBSET Agents /\ "synthesis" \notin Agents /\ "synthesis" \in Sources
  BY ObsoleteAgents DEF Agents, Sources
<1> DEFINE S == Obsolete(A)
<1> HIDE DEF S
<1>2. S \in SUBSET Agents
  BY <1>1 DEF S
<1>3. EvidenceWithout(S)["synthesis"] = IF DropsSynthesis(S) THEN None ELSE evidence["synthesis"]
  BY <1>1, <1>2 DEF EvidenceWithout
<1>4. QED
  BY <1>3 DEF S

\* Where no result is touched, the parts agree as before.
LEMMA PartsUntouched ==
  ASSUME Parts, UNCHANGED <<resultVars, plan>>, pc' # "rag" \/ pc' = pc
  PROVE  Parts'
  BY DEF Parts, PartsAgree, DiagnosisPart, RagOnce, resultVars

\* Agents of A are dropped to be run again.
LEMMA PartsDropped ==
  ASSUME TypeOK, Parts, NEW A \in SUBSET Agents, Invalidate(A), plan' = plan,
         pc' = "rag" /\ "rag" \notin plan.selected /\ "case_search" \in plan.selected =>
           active["rag"] = None
  PROVE  Parts'
<1>1. \A x \in Agents : active'[x] = IF Goes(x, A) THEN None ELSE active[x]
  BY DropEffect
<1>2. None \notin AgentStatus /\ "succeeded" \in AgentStatus
  BY DEF None, AgentStatus, Failures, NotReady
<1>3. /\ parts' = PartsWithout(Obsolete(A))
      /\ evidence' = EvidenceWithout(Obsolete(A))
  BY DEF Invalidate
<1>4. ASSUME NEW x \in {"text2sql", "impact"}, NEW s \in AgentStatus
      PROVE  <<x, s>> \in parts' <=> active'[x] = s
  <2>1. x \in Agents /\ x # "rag"
    BY DEF Agents
  <2>2. <<x, s>> \in parts <=> active[x] = s
    BY <1>4 DEF Parts, PartsAgree
  <2>3. <<x, s>> \in parts' <=> <<x, s>> \in parts /\ ~(Goes(x, A) /\ active[x] = s)
    BY <1>3, <2>1, PartsLeft
  <2>4. QED
    BY <1>1, <1>2, <2>1, <2>2, <2>3
<1>5. <<"rag", "succeeded">> \in parts' <=> active'["rag"] = "succeeded"
  <2>1. "rag" \in Agents /\ (<<"rag", "succeeded">> \in parts <=> active["rag"] = "succeeded")
    BY DEF Agents, Parts, PartsAgree
  <2>2. <<"rag", "succeeded">> \in parts' <=>
          <<"rag", "succeeded">> \in parts /\ ~(Goes("rag", A) /\ active["rag"] = "succeeded")
    BY <1>3, <2>1, PartsLeft
  <2>3. QED
    BY <1>1, <1>2, <2>1, <2>2
<1>6. DiagnosisPart'
  BY <1>3, PartsLeft, DiagnosisLeft DEF Parts, DiagnosisPart
<1>7. RagOnce'
  <2>1. "rag" \in Agents
    BY DEF Agents
  <2>2. QED
    BY <1>1, <2>1 DEF RagOnce
<1>8. QED
  BY <1>4, <1>5, <1>6, <1>7 DEF Parts, PartsAgree

\* The parts a run of agent a that ended with s writes.
PartsOf(a, s) ==
  IF a # "case_search" THEN {<<a, s>>}
  ELSE IF Diagnosing(a) THEN {<<"synthesis", "succeeded">>} ELSE {}

\* A run of an agent replaces its part.
LEMMA PartsRun ==
  ASSUME TypeOK, Route, Parts, NEW a \in Agents \ {"visualization"}, NEW s \in AgentStatus, NEW e,
         pc = a, Record(a, s), AddEvidence(a, e), AddParts(a, PartsOf(a, s)), plan' = plan
  PROVE  Parts'
<1>1. /\ \A x \in Agents : active'[x] =
           IF x = a THEN s ELSE IF Goes(x, {a}) THEN None ELSE active[x]
      /\ pc' = "agent_supervisor"
  BY RecordEffect
<1>2. None \notin AgentStatus /\ "succeeded" \in AgentStatus /\ None # "usable"
  BY DEF None, AgentStatus, Failures, NotReady
<1>3. {a} \in SUBSET Agents
  OBVIOUS
<1>4. /\ \A x \in Agents : \A t : <<x, t>> \in parts' <=>
           \/ <<x, t>> \in PartsOf(a, s)
           \/ <<x, t>> \in parts /\ ~(Goes(x, {a}) /\ active[x] = t /\ (x = "rag" => t = "succeeded"))
      /\ <<"synthesis", "succeeded">> \in parts' <=>
           \/ <<"synthesis", "succeeded">> \in PartsOf(a, s)
           \/ <<"synthesis", "succeeded">> \in parts /\ ~DropsSynthesis(Obsolete({a}))
  BY <1>3, PartsLeft DEF AddParts
<1>5. /\ \A x \in Agents : \A t : <<x, t>> \in PartsOf(a, s) <=> x = a /\ t = s /\ a # "case_search"
      /\ <<"synthesis", "succeeded">> \in PartsOf(a, s) <=> Diagnosing(a)
  BY DEF PartsOf, Diagnosing, Agents
\* The result the run replaces goes with it, if there is one.
<1>6. a \in {"text2sql", "rag", "impact"} => active[a] = None \/ Goes(a, {a})
  BY DEF Route, QueryRun, Parts, RagOnce, Goes
<1>7. ASSUME NEW x \in {"text2sql", "impact"}, NEW t \in AgentStatus
      PROVE  <<x, t>> \in parts' <=> active'[x] = t
  <2>1. x \in Agents /\ x # "rag" /\ (<<x, t>> \in parts <=> active[x] = t)
    BY <1>7 DEF Agents, Parts, PartsAgree
  <2>2. CASE x = a
    BY <1>1, <1>2, <1>4, <1>5, <1>6, <2>1, <2>2
  <2>3. CASE x # a
    BY <1>1, <1>2, <1>4, <1>5, <2>1, <2>3
  <2>4. QED
    BY <2>2, <2>3
<1>8. <<"rag", "succeeded">> \in parts' <=> active'["rag"] = "succeeded"
  <2>1. "rag" \in Agents /\ (<<"rag", "succeeded">> \in parts <=> active["rag"] = "succeeded")
    BY DEF Agents, Parts, PartsAgree
  <2>2. CASE "rag" = a
    BY <1>1, <1>2, <1>4, <1>5, <1>6, <2>1, <2>2
  <2>3. CASE "rag" # a
    BY <1>1, <1>2, <1>4, <1>5, <2>1, <2>3
  <2>4. QED
    BY <2>2, <2>3
<1>9. DiagnosisPart'
  <2> DEFINE E == EvidenceWithout(Obsolete({a}))
  <2>1. E["synthesis"] = IF DropsSynthesis(Obsolete({a})) THEN None ELSE evidence["synthesis"]
    BY <1>3, DiagnosisLeft
  <2>2. "synthesis" \in Sources /\ "synthesis" # a /\ DOMAIN E = Sources
    BY DEF Sources, Agents, EvidenceWithout
  <2> HIDE DEF E
  <2>3. evidence' = [E EXCEPT ![a] = e, !["synthesis"] = IF Diagnosing(a) THEN "usable" ELSE @]
    BY DEF AddEvidence, E
  <2>4. evidence'["synthesis"] = IF Diagnosing(a) THEN "usable" ELSE E["synthesis"]
    BY <2>2, <2>3
  <2>5. QED
    BY <1>2, <1>4, <1>5, <2>1, <2>4 DEF Parts, DiagnosisPart
<1>10. RagOnce'
  BY <1>1 DEF RagOnce
<1>11. QED
  BY <1>7, <1>8, <1>9, <1>10 DEF Parts, PartsAgree

\* A chart has no part and drops none.
LEMMA PartsChart ==
  ASSUME TypeOK, Parts, Visualization
  PROVE  Parts'
<1>1. PICK s \in IF halted \/ sql # "rows" THEN {"skipped"} ELSE Outcome["visualization"] :
        /\ Record("visualization", s)
        /\ IF s = "succeeded" THEN AddEvidence("visualization", "usable") ELSE UNCHANGED evidence
  BY DEF Visualization
<1>2. "visualization" \in Agents /\ {"visualization"} \in SUBSET Agents
  BY DEF Agents
<1>3. /\ \A x \in Agents \ {"visualization"} : active'[x] = active[x]
      /\ pc' = "agent_supervisor"
  BY <1>1, <1>2, RecordEffect DEF Goes
<1>4. ~DropsSynthesis(Obsolete({"visualization"}))
  BY <1>2, ObsoleteAgents DEF Goes, DropsSynthesis
<1>5. evidence'["synthesis"] = evidence["synthesis"]
  <2>1. CASE s = "succeeded"
    <3> DEFINE E == EvidenceWithout(Obsolete({"visualization"}))
    <3>1. E["synthesis"] = evidence["synthesis"]
      BY <1>2, <1>4, DiagnosisLeft
    <3>2. "synthesis" \in Sources /\ DOMAIN E = Sources
      BY DEF Sources, EvidenceWithout
    <3> HIDE DEF E
    <3>3. evidence' = [E EXCEPT !["visualization"] = "usable",
                         !["synthesis"] = IF Diagnosing("visualization") THEN "usable" ELSE @]
      BY <1>1, <2>1 DEF AddEvidence, E
    <3>4. ~Diagnosing("visualization")
      BY DEF Diagnosing
    <3>5. QED
      BY <3>1, <3>2, <3>3, <3>4
  <2>2. CASE s # "succeeded"
    BY <1>1, <2>2
  <2>3. QED
    BY <2>1, <2>2
<1>6. parts' = parts
  BY DEF Visualization
<1>7. QED
  BY <1>3, <1>5, <1>6 DEF Parts, PartsAgree, DiagnosisPart, RagOnce, Agents

\* Every agent replaces its own part.
LEMMA PartsRunAgent == TypeOK /\ Route /\ Parts /\ RunAgent => Parts'
<1> SUFFICES ASSUME TypeOK, Route, Parts, RunAgent PROVE Parts'
  OBVIOUS
<1>1. \A a \in Agents : Outcome[a] \subseteq AgentStatus
  BY OutcomeAssumption
<1>2. CASE Text2sql
  <2>1. PICK s \in Outcome["text2sql"] :
          /\ Record("text2sql", s) /\ AddParts("text2sql", {<<"text2sql", s>>})
          /\ AddEvidence("text2sql", IF s = "succeeded" THEN "usable" ELSE "failed")
    BY <1>2 DEF Text2sql
  <2>2. pc = "text2sql" /\ plan' = plan /\ "text2sql" \in Agents \ {"visualization"}
        /\ PartsOf("text2sql", s) = {<<"text2sql", s>>}
    BY <1>2 DEF Text2sql, Step, Agents, PartsOf
  <2>3. QED
    BY <1>1, <2>1, <2>2, PartsRun
<1>3. CASE Rag
  <2>1. PICK s \in Outcome["rag"] :
          /\ Record("rag", s) /\ AddParts("rag", {<<"rag", s>>})
          /\ AddEvidence("rag", IF s = "succeeded" THEN "usable" ELSE None)
    BY <1>3 DEF Rag
  <2>2. pc = "rag" /\ plan' = plan /\ "rag" \in Agents \ {"visualization"}
        /\ PartsOf("rag", s) = {<<"rag", s>>}
    BY <1>3 DEF Rag, Step, Agents, PartsOf
  <2>3. QED
    BY <1>1, <2>1, <2>2, PartsRun
<1>4. CASE CaseSearch
  <2>1. PICK s \in Outcome["case_search"] :
          /\ Record("case_search", s)
          /\ AddEvidence("case_search", IF s = "succeeded" THEN "usable" ELSE None)
    BY <1>4 DEF CaseSearch
  <2>2. AddParts("case_search", PartsOf("case_search", s))
    BY <1>4 DEF CaseSearch, PartsOf
  <2>3. pc = "case_search" /\ plan' = plan /\ "case_search" \in Agents \ {"visualization"}
    BY <1>4 DEF CaseSearch, Step, Agents, requestVars
  <2>4. QED
    BY <1>1, <2>1, <2>2, <2>3, PartsRun
<1>5. CASE Impact
  <2>1. PICK s \in Outcome["impact"] :
          /\ Record("impact", s) /\ AddParts("impact", {<<"impact", s>>})
          /\ AddEvidence("impact", "usable")
    BY <1>5 DEF Impact
  <2>2. pc = "impact" /\ plan' = plan /\ "impact" \in Agents \ {"visualization"}
        /\ PartsOf("impact", s) = {<<"impact", s>>}
    BY <1>5 DEF Impact, Step, Agents, PartsOf
  <2>3. QED
    BY <1>1, <2>1, <2>2, PartsRun
<1>6. CASE Visualization
  BY <1>6, PartsChart
<1>7. ASSUME NEW a \in Agents, Skip(a) PROVE Parts'
  <2>1. UNCHANGED <<resultVars, plan>> /\ pc' # "rag"
    BY <1>7 DEF Skip, requestVars
  <2>2. QED
    BY <2>1, PartsUntouched
<1>8. QED
  BY <1>2, <1>3, <1>4, <1>5, <1>6, <1>7 DEF RunAgent

\* The dispatcher enters planned agents only.
LEMMA PartsDispatcher == TypeOK /\ Route /\ Parts /\ Dispatcher => Parts'
<1> SUFFICES ASSUME TypeOK, Route, Parts, Dispatcher PROVE Parts'
  OBVIOUS
<1>1. UNCHANGED <<resultVars, plan>>
  BY DEF Dispatcher, DispatchHalted, DispatchPending, DispatchStep, DispatchDone, requestVars
<1>2. CASE DispatchHalted \/ DispatchDone
  <2>1. pc' # "rag"
    BY <1>2 DEF DispatchHalted, DispatchDone
  <2>2. QED
    BY <1>1, <2>1, PartsUntouched
<1>3. CASE DispatchPending \/ \E a \in Agents : DispatchStep(a)
  <2>1. pc' \in plan.selected
    <3>1. CASE DispatchPending
      <4>1. pending # <<>> /\ pc' = Head(pending)
        BY <3>1 DEF DispatchPending
      <4>2. QED
        BY <4>1, TailQueue DEF Route, QueuePlanned, Queued, TypeOK, RouteType
    <3>2. CASE \E a \in Agents : DispatchStep(a)
      BY <3>2 DEF DispatchStep, Remaining
    <3>3. QED
      BY <1>3, <3>1, <3>2
  <2>2. RagOnce'
    BY <1>1, <2>1 DEF RagOnce
  <2>3. QED
    BY <1>1, <2>2 DEF Parts, PartsAgree, DiagnosisPart, resultVars
<1>4. QED
  BY <1>2, <1>3 DEF Dispatcher

\* An agent outside the plan that may be retried has no result yet, or one that
\* goes with the retry.
LEMMA RagUnused ==
  ASSUME TypeOK, Route, "rag" \notin plan.selected, "case_search" \in plan.selected,
         retries["rag"] # 1,
         active["rag"] # None \/ (pc = "agent_supervisor" /\ current = "rag")
  PROVE  FALSE
<1>1. "rag" \in Agents /\ "rag" \in Required["diagnosis"]
  BY DEF Agents, Required
<1>2. "rag" \in alternates
  BY <1>1 DEF Route, OutOfPlan
<1>3. QED
  BY <1>1, <1>2 DEF Route, Alternates, PlanShape

\* What a decision drops it drops from the parts as well.
LEMMA PartsAgentSupervisor == TypeOK /\ Route /\ Parts /\ AgentSupervisor => Parts'
<1> SUFFICES ASSUME TypeOK, Route, Parts, NEW d \in Decisions,
                    \/ Continue(d) \/ Compose(d) \/ RetryAgents(d)
                    \/ RetrySame(d) \/ Replan(d) \/ Alternate(d)
             PROVE  Parts'
  BY DEF AgentSupervisor
<1>1. Permitted(d) /\ (pc = "agent_supervisor" => current \in Agents)
  BY DecisionsPermitted DEF TypeOK, ControlType
<1>2. CASE Continue(d) \/ Compose(d) \/ Replan(d)
  <2>1. UNCHANGED <<resultVars, plan>> /\ pc' # "rag"
    BY <1>2 DEF Continue, Compose, Replan, requestVars
  <2>2. QED
    BY <2>1, PartsUntouched
<1>3. CASE RetryAgents(d)
  <2>1. d.targets \in SUBSET Agents
    BY <1>1, <1>3 DEF Permitted, Recovery, RetryAgents, Decide
  <2>2. Invalidate(d.targets) /\ plan' = plan /\ pc' # "rag"
    BY <1>3 DEF RetryAgents
  <2>3. QED
    BY <2>1, <2>2, PartsDropped
<1>4. CASE RetrySame(d)
  <2>1. {current} \in SUBSET Agents /\ pc = "agent_supervisor"
    BY <1>1, <1>4 DEF RetrySame, Decide, Step
  <2>2. Invalidate({current}) /\ plan' = plan /\ pc' = current
    BY <1>4 DEF RetrySame
  <2>3. retries[current] < 1
    BY <1>1, <1>4 DEF Permitted, RetrySame, Decide, RetrySameAllowed
  <2>4. QED
    BY <2>1, <2>2, <2>3, RagUnused, PartsDropped
<1>5. CASE Alternate(d)
  <2>1. d.alternate \in AllowedAlternates
    BY <1>1, <1>5 DEF Permitted, Alternate, Decide
  <2>2. UNCHANGED <<resultVars, plan>> /\ pc' = d.alternate
    BY <1>5 DEF Alternate
  <2>3. d.alternate = "rag" => active["rag"] = None
    BY <2>1 DEF AllowedAlternates, ActiveAgents, Agents
  <2>4. RagOnce'
    BY <2>2, <2>3 DEF RagOnce, resultVars
  <2>5. QED
    BY <2>2, <2>4 DEF Parts, PartsAgree, DiagnosisPart, resultVars
<1>6. QED
  BY <1>2, <1>3, <1>4, <1>5

\* So does the final reflection.
LEMMA PartsReflection == TypeOK /\ Route /\ Parts /\ Reflection => Parts'
<1> SUFFICES ASSUME TypeOK, Route, Parts, Reflection PROVE Parts'
  OBVIOUS
<1>1. CASE ReflectStopped \/ ReflectGrounded \/ ReflectCompose \/ ReflectReplan
  <2>1. forced = None
    BY <1>1 DEF Route, Forced, Nodes, Agents, ReflectStopped, ReflectGrounded, ReflectCompose,
       ReflectReplan, Reflecting, Step
  <2>2. UNCHANGED <<resultVars, plan>> /\ pc' # "rag"
    BY <1>1, <2>1 DEF ReflectStopped, ReflectGrounded, ReflectCompose, ReflectReplan,
       AfterReflection, requestVars
  <2>3. QED
    BY <2>2, PartsUntouched
<1>2. ASSUME NEW a \in Agents, ReflectRetry(a) PROVE Parts'
  <2>1. Invalidate({a}) /\ plan' = plan /\ pc' = a /\ {a} \in SUBSET Agents
    BY <1>2 DEF ReflectRetry, requestVars
  <2>2. retries[a] < 1
    BY <1>2 DEF ReflectRetry, RetryTargetAllowed
  <2>3. QED
    BY <2>1, <2>2, RagUnused, PartsDropped
<1>3. QED
  BY <1>1, <1>2 DEF Reflection

\* A request starts without parts.
LEMMA PartsInit == Init => Parts
<1>1. None \notin AgentStatus /\ "succeeded" \in AgentStatus /\ "synthesis" \in Sources
  BY DEF None, AgentStatus, Failures, NotReady, Sources
<1>2. QED
  BY <1>1 DEF Init, Parts, PartsAgree, DiagnosisPart, RagOnce, Agents

\* Every step keeps the parts with their results.
LEMMA PartsStep == TypeOK /\ Route /\ Parts /\ [Next]_vars => Parts'
<1> SUFFICES ASSUME TypeOK, Route, Parts, [Next]_vars PROVE Parts'
  OBVIOUS
<1>1. CASE Planner
  <2>1. None \notin AgentStatus /\ "succeeded" \in AgentStatus /\ "synthesis" \in Sources
    BY DEF None, AgentStatus, Failures, NotReady, Sources
  <2>2. QED
    BY <1>1, <2>1 DEF Planner, Parts, PartsAgree, DiagnosisPart, RagOnce, Agents
<1>2. CASE Supervisor
  BY <1>2 DEF Supervisor, Parts, PartsAgree, DiagnosisPart, RagOnce, resultVars
<1>3. CASE Answering \/ OutOfSteps \/ NodeRaises \/ Ended \/ UNCHANGED vars
  <2>1. UNCHANGED <<resultVars, plan>> /\ (pc' = pc \/ pc' # "rag")
    BY <1>3 DEF Answering, ComposerKeeps, Composer, ReviewGrounded, ReviewAnswer, OutOfSteps,
       NodeRaises, Ended, vars, requestVars
  <2>2. QED
    BY <2>1, PartsUntouched
<1>4. QED
  BY <1>1, <1>2, <1>3, PartsDispatcher, PartsRunAgent, PartsAgentSupervisor, PartsReflection
  DEF Next

\* A result never lives on in one place after it went from another: evidence,
\* chart, answer part and active result agree at every moment of every request,
\* however retries, alternates and replans follow one another.
THEOREM PlacesAlwaysAgree == Spec => []PlacesAgree
<1>1. Places /\ Parts => PlacesAgree
  BY DEF Places, Parts, PlacesAgree
<1>2. QED
  BY <1>1, RouteKept, PlacesInit, PlacesStep, PartsInit, PartsStep, PTL DEF Spec

-----------------------------------------------------------------------------
(* What is reported as a success was one. *)

StatusKnown ==
  /\ status = "running" => pc \in {"planner"} \cup Broken
  /\ status # "skipped"

\* A halted request says why and has an answer or a run to answer from; with
\* rows it waits for the user, and no agent is entered any more.
HaltStatus ==
  /\ halted => status \in Failures /\ (answer # None \/ Ran)
  /\ halted /\ sql = "rows" /\ pc # "end" => status = "needs_clarification" /\ answer # None
  /\ pc \in Agents /\ halted => sql # "rows"

\* Once the planned query has run, the status never says more than it did.
QueryStatus ==
  /\ sql = "rows" => active["text2sql"] \in {"succeeded", None}
  /\ "text2sql" \in plan.selected /\ sql # None =>
       status # "ready" /\ (status = "succeeded" => active["text2sql"] \in {"succeeded", None})

AnswerReady ==
  /\ pc \notin {"answer_supervisor", "end"} \cup Broken => grounding = None
  /\ pc = "answer_supervisor" =>
       /\ answer # None /\ status \in {"succeeded"} \cup Failures
       /\ status = "succeeded" => answer = "composed"
       /\ grounding = "rejected" => status = "failed"

Earned == StatusKnown /\ HaltStatus /\ QueryStatus /\ AnswerReady /\ SuccessEarned

\* A step that only routes a request.
LEMMA EarnedRouted ==
  ASSUME Earned, UNCHANGED <<plan, status, answer, sql, grounding, reflections>>,
         pc \notin {"answer_supervisor", "end"} \cup Broken,
         pc' \notin {"answer_supervisor", "end"},
         status = "running" => pc' \in {"planner"} \cup Broken,
         active'["text2sql"] \in {active["text2sql"], None},
         halted' = halted \/ ~halted',
         pc' \in Agents /\ halted' => sql # "rows"
  PROVE  Earned'
<1>1. StatusKnown' /\ HaltStatus'
  BY DEF Earned, StatusKnown, HaltStatus, Ran
<1>2. QueryStatus'
  BY DEF Earned, QueryStatus
<1>3. AnswerReady' /\ SuccessEarned'
  BY DEF Earned, AnswerReady, SuccessEarned, SqlFailureVisible, EndStatus
<1>4. QED
  BY <1>1, <1>2, <1>3 DEF Earned

\* A run of an agent other than the query, which did not turn a halted request
\* into a success.
LEMMA EarnedRun ==
  ASSUME TypeOK, Earned, NEW a \in Agents \ {"text2sql"}, NEW s, s # None, pc = a, Record(a, s),
         UNCHANGED <<plan, sql, grounding>>,
         status' \in AgentStatus \cup {"ready"}, status' # "skipped",
         status' \in {"ready", "succeeded"} => status' = status \/ (status' = "succeeded" /\ sql = "rows"),
         halted' => status' \in Failures,
         halted' /\ sql = "rows" => status' = "needs_clarification" /\ answer' # None
  PROVE  Earned'
<1>1. {a} \in SUBSET Agents /\ ~Goes("text2sql", {a})
  BY DEF Goes
<1>2. active'["text2sql"] = active["text2sql"] /\ pc' = "agent_supervisor" /\ reflections'[a] = s
  BY <1>1, RecordEffect DEF Record, Agents, TypeOK, ReviewType
<1>3. a \notin {"answer_supervisor", "end"} \cup Broken /\ "agent_supervisor" \notin Agents
  BY DEF Agents, Broken
<1>4. StatusKnown' /\ HaltStatus'
  BY <1>2, <1>3 DEF StatusKnown, HaltStatus, Ran, AgentStatus, Failures, NotReady
<1>5. QueryStatus'
  BY <1>2 DEF Earned, QueryStatus
<1>6. AnswerReady' /\ SuccessEarned'
  BY <1>2, <1>3 DEF Earned, AnswerReady, SuccessEarned, SqlFailureVisible, EndStatus
<1>7. QED
  BY <1>4, <1>5, <1>6 DEF Earned

\* A request starts running.
LEMMA EarnedInit == Init => Earned
  BY DEF Init, Earned, StatusKnown, HaltStatus, QueryStatus, AnswerReady, SuccessEarned,
     SqlFailureVisible, EndStatus, Agents, None, Broken

\* The statuses of plans, of agents and of requests.
LEMMA StatusNames ==
  /\ PlanStatuses \subseteq {"ready"} \cup NotReady
  /\ \A a \in Agents : Outcome[a] \subseteq AgentStatus
  /\ NotReady \subseteq Failures
  /\ {"running", "ready", "succeeded", "skipped", None} \cap Failures = {}
  /\ AgentStatus = {"succeeded", "skipped"} \cup Failures
  /\ None \notin AgentStatus
  BY PlanStatusesAssumption, OutcomeAssumption DEF AgentStatus, Failures, NotReady, None

\* A plan that is not ready fails the request; a ready one leaves nothing decided.
LEMMA EarnedPlan == TypeOK /\ Route /\ Earned /\ (Planner \/ Supervisor) => Earned'
<1> SUFFICES ASSUME TypeOK, Route, Earned, Planner \/ Supervisor PROVE Earned'
  OBVIOUS
<1>1. /\ pc' \in {"supervisor", "dispatcher"} /\ status' \in PlanStatuses
      /\ sql' = None /\ active'["text2sql"] = None /\ grounding' = None
      /\ halted' => status' # "ready" /\ answer' # None
  <2>1. CASE Planner
    <3>1. PICK type \in QueryTypes, s \in PlanStatuses : plan' \in PlansOf(type, s)
      BY <2>1 DEF Planner
    <3>2. type \in DOMAIN Required
      BY QueryTypesAssumption
    <3>3. plan'.status \in PlanStatuses
      BY <3>1, <3>2, PlansShape
    <3>4. QED
      BY <2>1, <3>3 DEF Planner, Step, Earned, AnswerReady, Broken, Agents
  <2>2. CASE Supervisor
    <3>1. pc = "supervisor" /\ plan.query_type \in DOMAIN Required /\ plan.status \in PlanStatuses
      BY <2>2 DEF Supervisor, Step, TypeOK, ControlType
    <3>2. PICK s \in Reviewed(plan) : plan' \in PlansOf(plan.query_type, s)
      BY <2>2 DEF Supervisor
    <3>3. s \in PlanStatuses /\ plan'.status = s
      BY <3>1, <3>2, PlansShape DEF Reviewed
    <3>4. active["text2sql"] = None /\ sql = None /\ grounding = None
      BY <3>1 DEF Route, CleanStart, Earned, AnswerReady, Broken, Agents
    <3>5. QED
      BY <2>2, <3>3, <3>4 DEF Supervisor, resultVars, finalVars, None
  <2>3. QED
    BY <2>1, <2>2
<1>2. status' \notin {"running", "skipped"} /\ (halted' => status' \in Failures)
  BY <1>1, StatusNames DEF NotReady
<1>3. pc' \notin {"answer_supervisor", "end"} \cup Broken \cup Agents
  BY <1>1 DEF Broken, Agents
<1>4. StatusKnown' /\ HaltStatus' /\ QueryStatus' /\ AnswerReady' /\ SuccessEarned'
  BY <1>1, <1>2, <1>3 DEF StatusKnown, HaltStatus, QueryStatus, AnswerReady, SuccessEarned,
     SqlFailureVisible, EndStatus, None
<1>5. QED
  BY <1>4 DEF Earned

\* The dispatcher moves a request on, whatever its status.
LEMMA EarnedDispatcher == TypeOK /\ Earned /\ Dispatcher => Earned'
<1> SUFFICES ASSUME TypeOK, Earned, Dispatcher PROVE Earned'
  OBVIOUS
<1> DEFINE Entered ==
             /\ pc = "dispatcher" /\ pc' \in Agents \cup {"reflection"} /\ (pc' \in Agents => ~halted)
             /\ UNCHANGED <<requestVars, resultVars, reviewVars, finalVars>>
<1>1. Entered
  <2>1. CASE DispatchHalted \/ DispatchDone
    BY <2>1 DEF DispatchHalted, DispatchDone, Step, Agents
  <2>2. CASE DispatchPending
    <3>1. pending \in Seq(Agents) /\ pending # <<>> /\ pc' = Head(pending)
      BY <2>2 DEF DispatchPending, TypeOK, RouteType
    <3>2. pc' \in Agents
      BY <3>1, TailQueue
    <3>3. QED
      BY <2>2, <3>2 DEF DispatchPending, Step
  <2>3. ASSUME NEW a \in Agents, DispatchStep(a) PROVE Entered
    BY <2>3 DEF DispatchStep, Step
  <2>4. QED
    BY <2>1, <2>2, <2>3 DEF Dispatcher
<1>2. status # "running" /\ pc' \notin {"answer_supervisor", "end"} \cup Broken
  BY <1>1 DEF Earned, StatusKnown, Broken, Agents
<1>3. QED
  BY <1>1, <1>2, EarnedRouted DEF requestVars, resultVars, reviewVars, finalVars, Broken

\* An agent after the query never turns a failure into a success.
LEMMA EarnedRunAgent == TypeOK /\ Route /\ Earned /\ RunAgent => Earned'
<1> SUFFICES ASSUME TypeOK, Route, Earned, RunAgent PROVE Earned'
  OBVIOUS
<1>1. CASE Text2sql
  <2>1. PICK s \in Outcome["text2sql"], r \in {"rows", "empty"} :
          /\ r = "rows" => s = "succeeded"
          /\ sql' = r /\ Record("text2sql", s)
          /\ halted' = (s \in Failures /\ IsRequired("text2sql"))
          /\ status' = s
    BY <1>1 DEF Text2sql
  <2>2. pc = "text2sql" /\ UNCHANGED <<plan, grounding>>
    BY <1>1 DEF Text2sql, Step, finalVars
  <2>3. s \in Failures \cup {"succeeded"} /\ s # None
    BY <2>1, OutcomeAssumption, StatusNames
  <2>4. /\ active'["text2sql"] = s /\ pc' = "agent_supervisor" /\ reflections'["text2sql"] = s
    BY <2>1, RecordEffect DEF Record, Agents, TypeOK, ReviewType
  <2>5. /\ grounding' = None /\ "agent_supervisor" \notin Agents /\ "text2sql" \in Agents
    BY <2>2 DEF Earned, AnswerReady, Agents, Broken
  <2>6. StatusKnown' /\ HaltStatus' /\ QueryStatus'
    BY <2>1, <2>3, <2>4, <2>5, StatusNames DEF StatusKnown, HaltStatus, QueryStatus, Ran
  <2>7. AnswerReady' /\ SuccessEarned'
    BY <2>4, <2>5 DEF AnswerReady, SuccessEarned, SqlFailureVisible, EndStatus
  <2>8. QED
    BY <2>6, <2>7 DEF Earned
<1>2. pc \in Agents => status # "running" /\ pc \notin {"answer_supervisor", "end"} \cup Broken
  BY DEF Earned, StatusKnown, Agents, Broken
<1>3. status \in AgentStatus \cup {"ready", "running"} /\ status # "skipped"
  BY DEF TypeOK, RequestType, Statuses, Earned, StatusKnown
<1>4. halted => status \in Failures /\ (sql = "rows" => pc \notin Agents)
  BY DEF Earned, HaltStatus
<1>5. CASE Rag
  <2>1. PICK s \in Outcome["rag"] :
          /\ Record("rag", s)
          /\ halted' = (s = "needs_clarification")
          /\ answer' = IF s = "needs_clarification" THEN "rag" ELSE answer
          /\ status' = IF s = "needs_clarification" \/ (plan.selected = {"rag"} /\ s # "succeeded")
                       THEN s ELSE status
    BY <1>5 DEF Rag
  <2>2. pc = "rag" /\ UNCHANGED <<plan, sql, grounding>>
    BY <1>5 DEF Rag, Step, finalVars
  <2>3. s \in {"succeeded"} \cup Failures /\ s # None
    BY <2>1, OutcomeAssumption, StatusNames DEF Failures, NotReady
  <2>4. /\ status' \in AgentStatus \cup {"ready"} /\ status' # "skipped"
        /\ status' \in {"ready", "succeeded"} => status' = status
        /\ halted' => status' = "needs_clarification" /\ answer' # None
    BY <1>2, <1>3, <2>1, <2>2, <2>3, StatusNames DEF Agents, None
  <2>5. "needs_clarification" \in Failures
    BY DEF Failures, NotReady
  <2>6. QED
    BY <2>1, <2>2, <2>3, <2>4, <2>5, EarnedRun DEF Agents
<1>6. CASE CaseSearch
  <2>1. PICK s \in Outcome["case_search"] : Record("case_search", s)
    BY <1>6 DEF CaseSearch
  <2>2. pc = "case_search" /\ UNCHANGED <<requestVars, sql, grounding>>
    BY <1>6 DEF CaseSearch, Step, finalVars
  <2>3. s # None
    BY <2>1, StatusNames DEF Agents
  <2>4. QED
    BY <1>2, <1>3, <1>4, <2>1, <2>2, <2>3, EarnedRun DEF Agents, requestVars
<1>7. CASE Impact
  <2>1. PICK s \in Outcome["impact"] : (s = "succeeded" => sql = "rows") /\ Record("impact", s) /\ status' = s
    BY <1>7 DEF Impact
  <2>2. pc = "impact" /\ UNCHANGED <<plan, halted, sql, grounding>>
    BY <1>7 DEF Impact, Step, finalVars
  <2>3. s \in {"succeeded", "data_unavailable"}
    BY <2>1, OutcomeAssumption
  <2>4. QED
    BY <1>2, <1>4, <2>1, <2>2, <2>3, EarnedRun, StatusNames DEF Agents, Failures, NotReady, None
<1>8. CASE Visualization
  <2>1. PICK s \in {"skipped"} \cup Outcome["visualization"] : Record("visualization", s)
    BY <1>8 DEF Visualization
  <2>2. pc = "visualization" /\ UNCHANGED <<requestVars, sql, grounding>>
    BY <1>8 DEF Visualization, Step, finalVars
  <2>3. s # None
    BY <2>1, StatusNames DEF Agents
  <2>4. QED
    BY <1>2, <1>3, <1>4, <2>1, <2>2, <2>3, EarnedRun DEF Agents, requestVars
<1>9. ASSUME NEW a \in Agents, Skip(a) PROVE Earned'
  <2>1. /\ pc = a /\ pc' \in {"agent_supervisor", "dispatcher"}
        /\ UNCHANGED <<requestVars, resultVars, reviewVars, finalVars>>
    BY <1>9 DEF Skip, Step
  <2>2. pc' \notin Agents /\ pc' \notin {"answer_supervisor", "end"}
    BY <2>1 DEF Agents
  <2>3. QED
    BY <1>2, <2>1, <2>2, EarnedRouted DEF requestVars, resultVars, reviewVars, finalVars
<1>10. QED
  BY <1>1, <1>5, <1>6, <1>7, <1>8, <1>9 DEF RunAgent

\* A decision of agent_supervisor leaves the status alone or stops the request.
LEMMA EarnedAgentSupervisor == TypeOK /\ Earned /\ AgentSupervisor => Earned'
<1> SUFFICES ASSUME TypeOK, Earned, NEW d \in Decisions,
                    \/ Continue(d) \/ Compose(d) \/ RetryAgents(d)
                    \/ RetrySame(d) \/ Replan(d) \/ Alternate(d)
             PROVE  Earned'
  BY DEF AgentSupervisor
<1>1. Permitted(d)
  BY DecisionsPermitted
<1>2. pc = "agent_supervisor" /\ current \in Agents
  BY DEF Continue, Compose, RetryAgents, RetrySame, Replan, Alternate, Decide, Step,
         TypeOK, ControlType
<1>3. pc \notin {"answer_supervisor", "end"} \cup Broken /\ status # "running"
  BY <1>2 DEF Earned, StatusKnown, Broken
<1>4. /\ UNCHANGED <<plan, status, answer, sql, grounding, reflections>>
      /\ active'["text2sql"] \in {active["text2sql"], None}
  <2>1. CASE Continue(d) \/ Compose(d) \/ Replan(d) \/ Alternate(d)
    BY <2>1 DEF Continue, Compose, Replan, Alternate, requestVars, resultVars, reviewVars, finalVars
  <2>2. CASE RetryAgents(d)
    <3>1. d.targets \in SUBSET Agents
      BY <1>1, <2>2 DEF Permitted, Recovery, RetryAgents, Decide
    <3>2. QED
      BY <2>2, <3>1, DropEffect DEF RetryAgents, Agents, reviewVars, finalVars
  <2>3. CASE RetrySame(d)
    <3>1. {current} \in SUBSET Agents
      BY <1>2
    <3>2. QED
      BY <2>3, <3>1, DropEffect DEF RetrySame, Agents, reviewVars, finalVars
  <2>4. QED
    BY <2>1, <2>2, <2>3
<1>5. /\ pc' \notin {"answer_supervisor", "end"} /\ (halted' = halted \/ ~halted')
      /\ pc' \in Agents => ~halted'
  <2>1. CASE Continue(d) \/ Compose(d) \/ Replan(d) \/ RetryAgents(d)
    BY <2>1 DEF Continue, Compose, Replan, RetryAgents, requestVars, Agents
  <2>2. CASE RetrySame(d)
    BY <1>2, <2>2 DEF RetrySame, Agents
  <2>3. CASE Alternate(d)
    <3>1. d.alternate \in {"rag", "case_search"}
      BY <1>1, <1>2, <2>3, AlternateAllowed DEF Permitted, Alternate, Decide
    <3>2. QED
      BY <2>3, <3>1 DEF Alternate
  <2>4. QED
    BY <2>1, <2>2, <2>3
<1>6. QED
  BY <1>3, <1>4, <1>5, EarnedRouted

\* The final reflection stops a request with its failure, or runs on.
LEMMA EarnedReflection == TypeOK /\ Route /\ Earned /\ Reflection => Earned'
<1> SUFFICES ASSUME TypeOK, Route, Earned, Reflection PROVE Earned'
  OBVIOUS
<1>1. pc = "reflection" /\ pc \notin {"answer_supervisor", "end"} \cup Broken \cup Agents
  BY DEF Reflection, ReflectStopped, ReflectGrounded, ReflectCompose, ReflectReplan, ReflectRetry,
         Reflecting, Step, Broken, Agents
<1>2. status # "running" /\ forced = None
  BY <1>1 DEF Earned, StatusKnown, Broken, Route, Forced, Nodes
<1>3. CASE ReflectStopped \/ ReflectGrounded \/ ReflectCompose \/ ReflectReplan
  <2>1. /\ UNCHANGED <<requestVars, resultVars, reviewVars, grounding>>
        /\ pc' \in {"planner", "composer"}
    BY <1>2, <1>3 DEF ReflectStopped, ReflectGrounded, ReflectCompose, ReflectReplan,
       AfterReflection, finalVars
  <2>2. QED
    BY <1>1, <1>2, <2>1, EarnedRouted DEF requestVars, resultVars, reviewVars, Agents
\* A request halted with rows is stopped here: it is not sent back to an agent.
<1>4. ASSUME NEW a \in Agents, ReflectRetry(a) PROVE Earned'
  <2>1. Invalidate({a}) /\ pc' = a /\ ~Stopped
        /\ UNCHANGED <<requestVars, reviewVars, grounding>> /\ {a} \in SUBSET Agents
    BY <1>4 DEF ReflectRetry, Reflecting
  <2>2. sql' = sql /\ active'["text2sql"] \in {active["text2sql"], None}
    BY <2>1, DropEffect DEF Agents
  <2>3. halted => sql # "rows"
    BY <1>1, <2>1 DEF Earned, HaltStatus, Stopped
  <2>4. a \notin {"answer_supervisor", "end"}
    BY DEF Agents
  <2>5. QED
    BY <1>1, <1>2, <2>1, <2>2, <2>3, <2>4, EarnedRouted DEF requestVars, reviewVars
<1>5. QED
  BY <1>3, <1>4 DEF Reflection

\* The composer and the review of its answer.
LEMMA EarnedAnswering == TypeOK /\ Route /\ Earned /\ Answering => Earned'
<1> SUFFICES ASSUME TypeOK, Route, Earned, Answering PROVE Earned'
  OBVIOUS
<1>1. /\ pc \in {"composer", "answer_supervisor"} /\ pc' \in {"answer_supervisor", "end"}
      /\ UNCHANGED <<plan, halted, resultVars, reviewVars>>
  BY DEF Answering, ComposerKeeps, Composer, ReviewGrounded, ReviewAnswer, Step, requestVars
<1>2. pc' \notin Agents \cup {"planner"} \cup Broken /\ pc \notin Agents \cup {"planner"} \cup Broken
  BY <1>1 DEF Agents, Broken
<1>3. /\ status \in {"ready", "succeeded"} \cup Failures
      /\ halted => status \in Failures /\ (answer # None \/ Ran)
  BY <1>2 DEF Earned, StatusKnown, HaltStatus, TypeOK, RequestType, Statuses, AgentStatus
\* The query of a plan that has it did run.
<1>4. /\ "text2sql" \in plan.selected => sql # None /\ active["text2sql"] # None /\ status # "ready"
      /\ "text2sql" \in plan.selected /\ status = "succeeded" => active["text2sql"] = "succeeded"
  <2>1. "text2sql" \in plan.selected => sql # None
    BY <1>1, <1>2 DEF Route, QueryFirst
  <2>2. sql # None => active["text2sql"] # None
    BY <1>1, <1>2 DEF Route, QueryDropped
  <2>3. QED
    BY <2>1, <2>2 DEF Earned, QueryStatus
<1>5. CASE ComposerKeeps
  <2>1. /\ Stopped /\ pc = "composer" /\ pc' = "answer_supervisor"
        /\ UNCHANGED <<requestVars, finalVars>>
    BY <1>5 DEF ComposerKeeps, Step
  <2>2. halted /\ answer # None /\ grounding = None
    BY <1>2, <1>3, <2>1 DEF Stopped, Earned, AnswerReady
  <2>3. StatusKnown' /\ HaltStatus' /\ QueryStatus'
    BY <1>1, <1>2, <2>1 DEF Earned, StatusKnown, HaltStatus, QueryStatus, Ran, requestVars, resultVars, reviewVars
  <2>4. AnswerReady' /\ SuccessEarned'
    BY <1>3, <2>1, <2>2, StatusNames DEF AnswerReady, SuccessEarned, SqlFailureVisible, EndStatus,
       requestVars, finalVars, None
  <2>5. QED
    BY <2>3, <2>4 DEF Earned
<1>6. CASE Composer
  <2>1. /\ ~Stopped /\ pc = "composer" /\ pc' = "answer_supervisor"
        /\ answer' = IF halted /\ answer # None THEN answer ELSE "composed"
        /\ grounding' \in Validations \cup {None}
        /\ status' = IF grounding' = "rejected" THEN "failed"
                     ELSE IF grounding' = "insufficient"
                     THEN IF status = "failed" THEN "failed" ELSE "data_unavailable"
                     ELSE IF status = "ready" THEN "succeeded" ELSE status
    BY <1>6 DEF Composer, Step, Validations
  <2>2. /\ answer' # None /\ "failed" \in Failures /\ "data_unavailable" \in Failures
        /\ status' \in {"succeeded"} \cup Failures
        /\ status' = "succeeded" => ~halted /\ status \in {"ready", "succeeded"}
        /\ halted => status' \in Failures
    BY <1>3, <2>1, StatusNames DEF Failures, NotReady, None
  <2>3. halted => sql # "rows"
    BY <1>1, <2>1 DEF Earned, HaltStatus, Stopped
  <2>4. StatusKnown' /\ HaltStatus'
    BY <1>1, <1>2, <2>1, <2>2, <2>3, StatusNames DEF StatusKnown, HaltStatus, resultVars
  <2>5. QueryStatus'
    BY <1>1, <1>4, <2>2, StatusNames DEF Earned, QueryStatus, resultVars
  <2>6. AnswerReady' /\ SuccessEarned'
    BY <2>1, <2>2 DEF AnswerReady, SuccessEarned, SqlFailureVisible, EndStatus
  <2>7. QED
    BY <2>4, <2>5, <2>6 DEF Earned
<1>7. CASE ReviewGrounded \/ ReviewAnswer
  <2>1. /\ pc = "answer_supervisor" /\ pc' = "end" /\ review' # None
        /\ answer # None => answer' # None
        /\ \/ UNCHANGED <<status, answer>> \/ status' = "failed"
        /\ status' = "succeeded" /\ grounding # "rejected" =>
             review' = "approved" /\ UNCHANGED <<status, answer>>
    BY <1>7, StatusNames DEF ReviewGrounded, ReviewAnswer, Step, requestVars, None, Failures
  <2>2. /\ answer # None /\ status \in {"succeeded"} \cup Failures
        /\ status = "succeeded" => answer = "composed" /\ grounding # "rejected"
    BY <2>1, StatusNames DEF Earned, AnswerReady
  <2>3. "failed" \in Failures /\ status' \in {"succeeded"} \cup Failures
        /\ (halted => status' \in Failures /\ answer' # None)
        /\ (status' = "succeeded" => review' = "approved" /\ answer' = "composed" /\ status = "succeeded")
    BY <1>3, <2>1, <2>2, StatusNames DEF Failures
  <2>4. StatusKnown' /\ HaltStatus'
    BY <1>2, <2>1, <2>3, StatusNames, <1>1 DEF StatusKnown, HaltStatus
  <2>5. QueryStatus'
    BY <1>1, <1>4, <2>3, StatusNames DEF Earned, QueryStatus, resultVars
  <2>6. AnswerReady' /\ SuccessEarned'
    BY <1>1, <1>4, <2>1, <2>2, <2>3 DEF AnswerReady, SuccessEarned, SqlFailureVisible, EndStatus, resultVars
  <2>7. QED
    BY <2>4, <2>5, <2>6 DEF Earned
<1>8. QED
  BY <1>5, <1>6, <1>7 DEF Answering

\* A request that breaks off reports nothing.
LEMMA EarnedStopped == Earned /\ (OutOfSteps \/ NodeRaises \/ UNCHANGED vars) => Earned'
<1> SUFFICES ASSUME Earned, OutOfSteps \/ NodeRaises \/ UNCHANGED vars PROVE Earned'
  OBVIOUS
<1>1. CASE UNCHANGED vars
  BY <1>1 DEF Earned, StatusKnown, HaltStatus, QueryStatus, AnswerReady, SuccessEarned,
     SqlFailureVisible, EndStatus, Ran, vars, requestVars, resultVars, reviewVars, finalVars
<1>2. CASE OutOfSteps \/ NodeRaises
  <2>1. pc \in Nodes /\ pc' \in Broken /\ UNCHANGED <<requestVars, resultVars, reviewVars, finalVars>>
    BY <1>2 DEF OutOfSteps, NodeRaises, CallsModel, Nodes, Broken
  <2>2. /\ pc # "end" /\ pc' \notin Agents \cup {"end", "answer_supervisor"}
    BY <2>1 DEF Nodes, Agents, Broken
  <2>3. QED
    BY <2>1, <2>2 DEF Earned, StatusKnown, HaltStatus, QueryStatus, AnswerReady, SuccessEarned,
       SqlFailureVisible, EndStatus, Ran, requestVars, resultVars, reviewVars, finalVars
<1>3. QED
  BY <1>1, <1>2

\* Every step keeps the reasons of a status.
LEMMA EarnedStep == TypeOK /\ Route /\ Earned /\ [Next]_vars => Earned'
<1>1. Ended => UNCHANGED vars
  BY DEF Ended
<1>2. QED
  BY <1>1, EarnedPlan, EarnedDispatcher, EarnedRunAgent, EarnedAgentSupervisor, EarnedReflection,
     EarnedAnswering, EarnedStopped DEF Next

\* A request reported as a success had a successful query, if its plan has one,
\* and an answer that was composed and approved: neither a later agent nor the
\* composer paints over a failure.
THEOREM SuccessAlwaysEarned == Spec => []SuccessEarned
<1>1. Earned => SuccessEarned
  BY DEF Earned
<1>2. QED
  BY <1>1, RouteKept, EarnedInit, EarnedStep, PTL DEF Spec

-----------------------------------------------------------------------------
(* Every planned step runs. *)

Working == Agents \cup {"dispatcher", "agent_supervisor", "reflection"}
Waiting == status = "needs_clarification" /\ answer # None
QueryLost == IsRequired("text2sql") /\ active["text2sql"] \in Failures

\* What was reviewed has a result; a request halted for the user stops.
Reviewing == pc = "agent_supervisor" /\ current \in plan.selected => active[current] # None
HaltEntered == pc \in Agents /\ halted => ~Waiting

\* Why a request with steps is halted, also with agents still in the queue.
HaltReason ==
  halted /\ plan.selected # {} /\ pc \in Working =>
    Waiting \/ QueryLost \/ (IsRequired("text2sql") /\ pc = "text2sql")
HaltedQueue ==
  halted /\ pending # <<>> /\ pc \in Working =>
    Waiting \/ (QueryLost /\ retries["text2sql"] = 1) \/ pc \in {"text2sql", "rag"}

\* A planned step has its result, lies ahead, waits in the queue or runs.
Accounted ==
  pc \in Working =>
    \A a \in plan.selected :
      active[a] # None \/ Rank[a] > cursor \/ Queued(a) \/ pc = a \/ QueryGivenUp

\* The document search is queued before the case search that reads it.
RagQueued ==
  "case_search" \in plan.selected =>
    /\ Queued("rag") => active["case_search"] = None /\ pc # "case_search"
    /\ ~Ahead(pending, "case_search", "rag")
    /\ pc = "rag" /\ active["rag"] # None => active["case_search"] = None \/ cursor < 3
RagTwice ==
  Queued("rag") /\ (pc = "rag" \/ (pc = "agent_supervisor" /\ current = "rag")) =>
    "rag" \in alternates

Account ==
  /\ Reviewing /\ HaltEntered /\ HaltReason /\ HaltedQueue
  /\ NoStepLost /\ Accounted /\ RagQueued /\ RagTwice

\* A node that leaves the results alone and only moves on.
LEMMA AccountRouted ==
  ASSUME TypeOK, Account, pc \in {"dispatcher", "agent_supervisor"} \/ pc \in Agents,
         pc' \in {"dispatcher", "agent_supervisor", "reflection"},
         pc' = "agent_supervisor" => current \notin plan.selected /\ pc = current,
         pc' = "reflection" => NoStepLost',
         pc \in Agents => pc \notin plan.selected /\ pc # "text2sql" /\ (halted /\ pending # <<>> => pc # "rag"),
         UNCHANGED <<requestVars, resultVars, pending, alternates, current, retries, reflection>>,
         cursor' = cursor
  PROVE  Account'
<1> USE DEF requestVars, resultVars
<1>1. pc' \in Working /\ pc \in Working /\ pc' \notin Agents /\ "reflection" \notin Agents
  BY DEF Working, Agents
<1>2. Reviewing' /\ HaltEntered'
  BY <1>1 DEF Reviewing, HaltEntered
<1>3. IsRequired("text2sql") => "text2sql" \in plan.selected
  BY DEF IsRequired
<1>4. HaltReason' /\ HaltedQueue'
  BY <1>1, <1>3 DEF Account, HaltReason, HaltedQueue, QueryLost, Waiting, IsRequired
<1>5. NoStepLost'
  BY DEF NoStepLost
<1>6. Accounted'
  <2>1. plan.selected \subseteq Agents /\ "dispatcher" \notin Agents /\ "agent_supervisor" \notin Agents
    BY DEF TypeOK, RequestType, Agents
  <2>2. QED
    BY <1>1, <2>1 DEF Account, Accounted, Queued, QueryGivenUp, IsRequired
<1>7. RagQueued' /\ RagTwice'
  BY <1>1 DEF Account, RagQueued, RagTwice, Queued, Agents
<1>8. QED
  BY <1>2, <1>4, <1>5, <1>6, <1>7 DEF Account

\* Outside a dropped query, the planned query has a result.
LEMMA QueryInUse ==
  ASSUME Route, pc \in {"agent_supervisor", "reflection"}, "text2sql" \in plan.selected
  PROVE  active["text2sql"] # None
<1>1. sql # None
  BY DEF Route, QueryFirst, Broken
<1>2. QED
  BY <1>1 DEF Route, QueryDropped, Broken

\* agent_supervisor drops the results of A and queues what depends on them.
LEMMA AccountRetried ==
  ASSUME TypeOK, Route, Account, NEW A \in SUBSET Agents, \A a \in A : retries[a] < 1,
         pc = "agent_supervisor", Invalidate(A), SpendRetries(A),
         pc' = "dispatcher" \/ (pc' = current /\ current \in Agents /\ A = {current}),
         NEW S, S = (Downstream(A) \cap ActiveAgents) \ {pc'}, pending' = Requeue(S),
         ~halted', UNCHANGED <<plan, cursor, alternates, reflection>>
  PROVE  Account'
<1>1. /\ \A x \in Agents : active'[x] = IF Goes(x, A) THEN None ELSE active[x]
      /\ \A x \in Agents : retries'[x] = IF x \in A THEN 1 ELSE retries[x]
  BY RetryEffect
<1>2. /\ S \in SUBSET Agents
      /\ \A x \in Agents : x \in S <=>
           /\ x # pc' /\ active[x] # None /\ x \in plan.selected
           /\ x \in A \/ "text2sql" \in A \/ (x = "case_search" /\ "rag" \in A)
  BY DownstreamAgents DEF ActiveAgents
<1>3. /\ \A x : Has(pending', x) <=> x \in S \/ Has(pending, x)
      /\ \A x, y : Ahead(pending', x, y) <=>
           \/ x \in S /\ y \in S /\ Rank[x] < Rank[y]
           \/ x \in S /\ y \notin S /\ Has(pending, y)
           \/ x \notin S /\ y \notin S /\ Ahead(pending, x, y)
  BY <1>2, RequeueQueue DEF Route, QueuePlanned, Queued, TypeOK, RouteType
<1>4. pc' \in {"dispatcher"} \cup Agents /\ pc' \notin {"agent_supervisor", "reflection"}
  BY DEF Agents
<1>5. Reviewing' /\ HaltEntered' /\ HaltReason' /\ HaltedQueue' /\ NoStepLost'
  BY <1>4 DEF Reviewing, HaltEntered, HaltReason, HaltedQueue, NoStepLost
<1>6. Accounted'
  <2> SUFFICES ASSUME NEW x \in plan.selected
               PROVE  active'[x] # None \/ Rank[x] > cursor \/ Has(pending', x) \/ pc' = x \/ QueryGivenUp'
    BY DEF Accounted, Queued
  <2>1. x \in Agents /\ x # pc
    BY DEF TypeOK, RequestType, Agents
  <2>2. CASE active[x] = None /\ ~QueryGivenUp
    <3>1. Rank[x] > cursor \/ Has(pending, x)
      BY <2>1, <2>2 DEF Account, Accounted, Queued, Working
    <3>2. QED
      BY <1>3, <3>1
  <2>3. CASE QueryGivenUp
    <3>1. "text2sql" \notin A
      BY <2>3 DEF QueryGivenUp
    <3>2. active'["text2sql"] = active["text2sql"] /\ retries'["text2sql"] = retries["text2sql"]
      BY <1>1, <3>1 DEF Goes, Agents
    <3>3. QED
      BY <2>3, <3>2 DEF QueryGivenUp, IsRequired
  <2>4. CASE active[x] # None /\ Goes(x, A) /\ x # pc'
    <3>1. x \in S
      BY <1>2, <2>1, <2>4 DEF Goes
    <3>2. QED
      BY <1>3, <3>1
  <2>5. CASE active[x] # None /\ ~Goes(x, A)
    BY <1>1, <2>1, <2>5
  <2>6. QED
    BY <2>2, <2>3, <2>4, <2>5
<1>7. RagQueued'
  <2> SUFFICES ASSUME "case_search" \in plan.selected
               PROVE  /\ Has(pending', "rag") => active'["case_search"] = None /\ pc' # "case_search"
                      /\ ~Ahead(pending', "case_search", "rag")
                      /\ pc' = "rag" => active'["rag"] = None
    BY DEF RagQueued, Queued
  <2>1. "text2sql" \in plan.selected /\ active["text2sql"] # None
    BY QueryInUse DEF Route, PlanShape
  <2>2. CASE "rag" \in S
    <3>1. active["rag"] # None /\ ("rag" \in A \/ "text2sql" \in A)
      BY <1>2, <2>2 DEF Agents
    <3>2. active'["case_search"] = None /\ pc' # "case_search"
      BY <1>1, <2>1, <3>1 DEF Goes, Agents
    <3>3. ~Ahead(pending', "case_search", "rag")
      <4>1. ~(Rank["case_search"] < Rank["rag"])
        BY DEF Rank
      <4>2. QED
        BY <1>3, <2>2, <4>1
    <3>4. pc' # "rag"
      BY <1>2, <2>2
    <3>5. QED
      BY <3>2, <3>3, <3>4
  <2>3. CASE "rag" \notin S
    <3>1. Has(pending, "rag") => active["case_search"] = None
      BY DEF Account, RagQueued, Queued
    <3>2. "case_search" \in S => active["case_search"] # None
      BY <1>2 DEF Agents
    <3>3. Has(pending', "rag") => active'["case_search"] = None
      BY <1>1, <1>3, <2>3, <3>1 DEF Agents
    <3>4. pc' = "case_search" => active["case_search"] # None
      BY DEF Account, Reviewing, Agents
    <3>5. ~Ahead(pending', "case_search", "rag")
      BY <1>3, <2>3, <3>1, <3>2 DEF Account, RagQueued
    <3>6. ASSUME pc' = "rag" PROVE active'["rag"] = None
      <4>1. A = {"rag"} /\ current = "rag" /\ retries["rag"] < 1
        BY <3>6
      <4>2. "rag" \in plan.selected
        BY <4>1 DEF Route, OutOfPlan, Alternates, PlanShape, Agents, Required
      <4>3. QED
        BY <1>1, <4>1, <4>2 DEF Goes, Agents
    <3>7. QED
      BY <1>3, <2>3, <3>1, <3>3, <3>4, <3>5, <3>6
  <2>4. QED
    BY <2>2, <2>3
<1>8. RagTwice'
  <2>1. ASSUME Has(pending', "rag"), pc' = "rag" PROVE "rag" \in alternates
    <3>1. Has(pending, "rag") /\ current = "rag"
      BY <1>2, <1>3, <2>1
    <3>2. QED
      BY <3>1 DEF Account, RagTwice, Queued
  <2>2. QED
    BY <1>4, <2>1 DEF RagTwice, Queued
<1>9. QED
  BY <1>5, <1>6, <1>7, <1>8 DEF Account

\* Where no step is due.
LEMMA AccountLeft ==
  ASSUME Account, pc' \notin Working, UNCHANGED <<plan, active, pending>>
  PROVE  Account'
<1>1. pc' \notin Agents \cup {"agent_supervisor", "reflection"}
  BY DEF Working
<1>2. Reviewing' /\ HaltEntered' /\ HaltReason' /\ HaltedQueue' /\ NoStepLost' /\ Accounted'
  BY <1>1 DEF Reviewing, HaltEntered, HaltReason, HaltedQueue, NoStepLost, Accounted
<1>3. RagQueued' /\ RagTwice'
  BY <1>1 DEF Account, RagQueued, RagTwice, Queued, Agents
<1>4. QED
  BY <1>2, <1>3 DEF Account

\* A run of an agent, which says why it halts the request.
LEMMA AccountRun ==
  ASSUME TypeOK, Route, Account, NEW a \in Agents, NEW s, s # None, pc = a, Record(a, s),
         UNCHANGED <<plan, pending, cursor, alternates, retries, reflection>>,
         halted' /\ plan.selected # {} => Waiting' \/ QueryLost',
         halted' /\ pending # <<>> => Waiting' \/ (QueryLost' /\ retries["text2sql"] = 1)
  PROVE  Account'
<1>1. /\ \A x \in Agents : active'[x] =
           IF x = a THEN s ELSE IF Goes(x, {a}) THEN None ELSE active[x]
      /\ current' = a /\ pc' = "agent_supervisor"
  BY RecordEffect
<1>2. "agent_supervisor" \notin Agents
  BY DEF Agents
<1>3. Reviewing' /\ HaltEntered' /\ HaltReason' /\ HaltedQueue' /\ NoStepLost'
  BY <1>1, <1>2 DEF Reviewing, HaltEntered, HaltReason, HaltedQueue, NoStepLost
<1>4. Accounted'
  <2> SUFFICES ASSUME NEW x \in plan.selected, active'[x] = None
               PROVE  Rank[x] > cursor \/ Has(pending, x) \/ QueryGivenUp'
    BY DEF Accounted, Queued
  <2>1. x \in Agents /\ x # a
    BY <1>1 DEF TypeOK, RequestType
  <2>2. CASE active[x] # None
    <3>1. Goes(x, {a})
      BY <1>1, <2>1, <2>2
    <3>2. a = "rag" /\ x = "case_search" /\ active["rag"] # None
      BY <2>1, <3>1 DEF Goes, Route, QueryRun
    <3>3. cursor < 3
      BY <2>2, <3>2 DEF Account, RagQueued
    <3>4. QED
      BY <3>2, <3>3 DEF Rank
  <2>3. CASE active[x] = None /\ QueryGivenUp
    <3>1. a # "text2sql"
      BY <2>3 DEF QueryGivenUp, Route, QueryRun, None, Failures, NotReady
    <3>2. active'["text2sql"] = active["text2sql"]
      BY <1>1, <3>1 DEF Goes, Agents
    <3>3. QED
      BY <2>3, <3>2 DEF QueryGivenUp, IsRequired
  <2>4. CASE active[x] = None /\ ~QueryGivenUp
    BY <2>1, <2>4 DEF Account, Accounted, Working, Queued
  <2>5. QED
    BY <2>2, <2>3, <2>4
<1>5. RagQueued'
  BY <1>1 DEF Account, RagQueued, Queued, Agents
<1>6. RagTwice'
  BY <1>1 DEF Account, RagTwice, Queued
<1>7. QED
  BY <1>3, <1>4, <1>5, <1>6 DEF Account

\* A run puts its result where the plan waits for it.
LEMMA AccountRunAgent == TypeOK /\ Route /\ Account /\ RunAgent => Account'
<1> SUFFICES ASSUME TypeOK, Route, Account, RunAgent PROVE Account'
  OBVIOUS
\* An agent that leaves the request as it is and does not touch the query.
<1>1. ASSUME NEW a \in Agents \ {"text2sql"}, NEW s, pc = a, Record(a, s),
             UNCHANGED <<plan, halted>>, UNCHANGED <<status, answer>> \/ ~Waiting
      PROVE  /\ halted' /\ plan.selected # {} => Waiting' \/ QueryLost'
             /\ halted' /\ pending # <<>> /\ a # "rag" =>
                  Waiting' \/ (QueryLost' /\ retries["text2sql"] = 1)
  <2>1. ~Goes("text2sql", {a})
    BY DEF Goes
  <2>2. active'["text2sql"] = active["text2sql"]
    BY <1>1, <2>1, RecordEffect DEF Agents
  <2>3. Waiting => Waiting' \/ ~halted
    BY <1>1 DEF Waiting, Account, HaltEntered
  <2>4. QED
    BY <1>1, <2>2, <2>3 DEF Account, HaltReason, HaltedQueue, QueryLost, IsRequired, Working
<1>2. CASE Text2sql
  <2>1. PICK s \in Outcome["text2sql"] :
          /\ Record("text2sql", s)
          /\ halted' = (s \in Failures /\ IsRequired("text2sql"))
    BY <1>2 DEF Text2sql
  <2>2. pc = "text2sql" /\ UNCHANGED <<plan, pending, cursor, alternates, retries, reflection>>
    BY <1>2 DEF Text2sql, Step, budgetVars, finalVars
  <2>3. s # None /\ "text2sql" \in Agents
    BY <2>1, StatusNames DEF Agents
  <2>4. active'["text2sql"] = s
    BY <2>1, <2>3, RecordEffect
  <2>5. halted' => QueryLost' /\ (pending # <<>> => retries["text2sql"] = 1)
    BY <2>1, <2>2, <2>4 DEF QueryLost, IsRequired, Route, QueryRun
  <2>6. QED
    BY <2>1, <2>2, <2>3, <2>5, AccountRun
<1>3. CASE Rag
  <2>1. PICK s \in Outcome["rag"] :
          /\ Record("rag", s) /\ halted' = (s = "needs_clarification")
          /\ answer' = IF s = "needs_clarification" THEN "rag" ELSE answer
          /\ status' = IF s = "needs_clarification" \/ (plan.selected = {"rag"} /\ s # "succeeded")
                       THEN s ELSE status
    BY <1>3 DEF Rag
  <2>2. pc = "rag" /\ UNCHANGED <<plan, pending, cursor, alternates, retries, reflection>>
    BY <1>3 DEF Rag, Step, budgetVars, finalVars
  <2>3. s # None /\ (halted' => Waiting')
    BY <2>1, StatusNames DEF Agents, Waiting, None
  <2>4. QED
    BY <2>1, <2>2, <2>3, AccountRun DEF Agents
<1>4. CASE CaseSearch
  <2>1. PICK s \in Outcome["case_search"] : Record("case_search", s)
    BY <1>4 DEF CaseSearch
  <2>2. /\ pc = "case_search"
        /\ UNCHANGED <<requestVars, pending, cursor, alternates, retries, reflection>>
    BY <1>4 DEF CaseSearch, Step, budgetVars, finalVars
  <2>3. s # None
    BY <2>1, StatusNames DEF Agents
  <2>4. /\ halted' /\ plan.selected # {} => Waiting' \/ QueryLost'
        /\ halted' /\ pending # <<>> => Waiting' \/ (QueryLost' /\ retries["text2sql"] = 1)
    BY <1>1, <2>1, <2>2 DEF Agents, requestVars
  <2>5. QED
    BY <2>1, <2>2, <2>3, <2>4, AccountRun DEF Agents, requestVars
<1>5. CASE Impact
  <2>1. PICK s \in Outcome["impact"] : Record("impact", s)
    BY <1>5 DEF Impact
  <2>2. /\ pc = "impact"
        /\ UNCHANGED <<plan, halted, pending, cursor, alternates, retries, reflection>>
    BY <1>5 DEF Impact, Step, budgetVars, finalVars
  <2>3. s # None /\ (halted => ~Waiting)
    BY <2>1, <2>2, StatusNames DEF Agents, Account, HaltEntered
  <2>4. /\ halted' /\ plan.selected # {} => Waiting' \/ QueryLost'
        /\ halted' /\ pending # <<>> => Waiting' \/ (QueryLost' /\ retries["text2sql"] = 1)
    BY <1>1, <2>1, <2>2, <2>3 DEF Agents
  <2>5. QED
    BY <2>1, <2>2, <2>3, <2>4, AccountRun DEF Agents
<1>6. CASE Visualization
  <2>1. PICK s \in {"skipped"} \cup Outcome["visualization"] : Record("visualization", s)
    BY <1>6 DEF Visualization
  <2>2. /\ pc = "visualization"
        /\ UNCHANGED <<requestVars, pending, cursor, alternates, retries, reflection>>
    BY <1>6 DEF Visualization, Step, budgetVars, finalVars
  <2>3. s # None
    BY <2>1, StatusNames DEF Agents
  <2>4. /\ halted' /\ plan.selected # {} => Waiting' \/ QueryLost'
        /\ halted' /\ pending # <<>> => Waiting' \/ (QueryLost' /\ retries["text2sql"] = 1)
    BY <1>1, <2>1, <2>2 DEF Agents, requestVars
  <2>5. QED
    BY <2>1, <2>2, <2>3, <2>4, AccountRun DEF Agents, requestVars
<1>7. ASSUME NEW a \in Agents, Skip(a) PROVE Account'
  <2>1. /\ pc = a /\ ~ShouldRun(a)
        /\ pc' = IF current = a THEN "agent_supervisor" ELSE "dispatcher"
        /\ UNCHANGED <<requestVars, resultVars, routeVars, reviewVars, budgetVars, finalVars>>
    BY <1>7 DEF Skip, Step
  <2>2. a \in alternates \ plan.selected /\ a # "text2sql" /\ plan.query_type = "diagnosis"
    BY <2>1 DEF Route, Forced, Alternates
  <2>3. pending # <<>> => Has(pending, Head(pending))
    BY TailQueue DEF TypeOK, RouteType
  <2>4. pending # <<>> => a # "rag"
    BY <2>2, <2>3 DEF Route, QueuePlanned, Queued, PlanShape, Required
  <2>5. QED
    BY <2>1, <2>2, <2>4, AccountRouted DEF routeVars, reviewVars, budgetVars, finalVars
<1>8. QED
  BY <1>2, <1>3, <1>4, <1>5, <1>6, <1>7 DEF RunAgent

\* The dispatcher takes the head of the queue or the next step, and skips none.
LEMMA AccountDispatcher == TypeOK /\ Route /\ Account /\ Dispatcher => Account'
<1> SUFFICES ASSUME TypeOK, Route, Account, Dispatcher PROVE Account'
  OBVIOUS
<1>1. pc = "dispatcher" /\ pc \notin Agents
  BY DEF Dispatcher, DispatchHalted, DispatchPending, DispatchStep, DispatchDone, Step, Agents
<1>2. \A x \in plan.selected :
        active[x] # None \/ Rank[x] > cursor \/ Has(pending, x) \/ QueryGivenUp
  BY <1>1 DEF Account, Accounted, Queued, Working, TypeOK, RequestType
<1>3. plan.selected \subseteq Agents
  BY DEF TypeOK, RequestType
<1>4. CASE DispatchHalted
  <2>1. /\ halted /\ pc' = "reflection"
        /\ UNCHANGED <<requestVars, resultVars, routeVars, reviewVars, budgetVars, finalVars>>
    BY <1>4 DEF DispatchHalted
  <2>2. NoStepLost'
    BY <2>1 DEF NoStepLost, requestVars
  <2>3. QED
    BY <1>1, <2>1, <2>2, AccountRouted DEF routeVars, reviewVars, budgetVars, finalVars
<1>5. CASE DispatchDone
  <2>1. /\ pending = <<>> /\ Remaining = {} /\ pc' = "reflection"
        /\ UNCHANGED <<requestVars, resultVars, routeVars, reviewVars, budgetVars, finalVars>>
    BY <1>5 DEF DispatchDone
  <2>2. NoStepLost'
    <3>1. \A x : ~Has(pending, x)
      BY <2>1, ShortQueue
    <3>2. \A x \in plan.selected : active[x] # None \/ QueryGivenUp
      BY <1>2, <2>1, <3>1 DEF Remaining
    <3>3. QED
      BY <2>1, <3>2 DEF NoStepLost, QueryGivenUp, IsRequired, requestVars, resultVars, routeVars,
         budgetVars, finalVars
  <2>3. QED
    BY <1>1, <2>1, <2>2, AccountRouted DEF routeVars, reviewVars, budgetVars, finalVars
<1>6. CASE DispatchPending
  <2> DEFINE h == Head(pending)
  <2>1. /\ ~halted /\ pc' = h /\ pending' = Tail(pending) /\ pending # <<>>
        /\ UNCHANGED <<requestVars, resultVars, cursor, alternates, reviewVars, budgetVars, finalVars>>
    BY <1>6 DEF DispatchPending
  <2>2. /\ h \in Agents
        /\ \A x : Has(pending, x) <=> x = h \/ Has(pending', x)
        /\ \A x, y : Ahead(pending, x, y) <=> (x = h /\ Has(pending', y)) \/ Ahead(pending', x, y)
    BY <2>1, TailQueue DEF TypeOK, RouteType
  <2> HIDE DEF h
  <2> USE DEF requestVars, resultVars, reviewVars, budgetVars, finalVars
  <2>3. h \notin {"agent_supervisor", "reflection"}
    BY <2>2 DEF Agents
  <2>4. Reviewing' /\ HaltEntered' /\ HaltReason' /\ HaltedQueue' /\ NoStepLost'
    BY <2>1, <2>3 DEF Reviewing, HaltEntered, HaltReason, HaltedQueue, NoStepLost
  <2>5. Accounted'
    BY <1>2, <2>1, <2>2 DEF Accounted, Queued, QueryGivenUp, IsRequired
  <2>6. RagQueued'
    BY <2>1, <2>2 DEF Account, RagQueued, Queued
  <2>7. RagTwice'
    BY <2>1, <2>2, <2>3 DEF RagTwice, Queued, Route, QueuePlanned
  <2>8. QED
    BY <2>4, <2>5, <2>6, <2>7 DEF Account
<1>7. ASSUME NEW a \in Agents, DispatchStep(a) PROVE Account'
  <2>1. /\ ~halted /\ pending = <<>> /\ a \in plan.selected
        /\ \A b \in Remaining : Rank[a] <= Rank[b]
        /\ cursor' = Rank[a] /\ pc' = a
        /\ UNCHANGED <<requestVars, resultVars, pending, alternates, reviewVars, budgetVars, finalVars>>
    BY <1>7 DEF DispatchStep, Remaining
  <2>2. \A x, y : ~Has(pending, x) /\ ~Ahead(pending, x, y)
    BY <2>1, ShortQueue
  <2> USE DEF requestVars, resultVars, reviewVars, budgetVars, finalVars
  <2>3. a \notin {"agent_supervisor", "reflection"}
    BY DEF Agents
  <2>4. Reviewing' /\ HaltEntered' /\ HaltReason' /\ HaltedQueue' /\ NoStepLost'
    BY <2>1, <2>3 DEF Reviewing, HaltEntered, HaltReason, HaltedQueue, NoStepLost
  <2>5. Accounted'
    <3> SUFFICES ASSUME NEW x \in plan.selected, active[x] = None, ~QueryGivenUp, x # a
                 PROVE  Rank[x] > Rank[a]
      BY <2>1 DEF Accounted, QueryGivenUp, IsRequired
    <3>1. x \in Remaining
      BY <1>2, <2>2 DEF Remaining
    <3>2. Rank[a] <= Rank[x] /\ x \in Agents
      BY <1>3, <2>1, <3>1
    <3>3. QED
      BY <3>2 DEF Rank, Agents
  <2>6. RagQueued' /\ RagTwice'
    BY <2>1, <2>2 DEF RagQueued, RagTwice, Queued, Rank
  <2>7. QED
    BY <2>4, <2>5, <2>6 DEF Account
<1>8. QED
  BY <1>4, <1>5, <1>6, <1>7 DEF Dispatcher

\* A decision queues every planned agent whose result it drops.
LEMMA AccountAgentSupervisor ==
  AlternateBudget <= 1 /\ TypeOK /\ Route /\ Account /\ AgentSupervisor => Account'
<1> SUFFICES ASSUME AlternateBudget <= 1, TypeOK, Route, Account, NEW d \in Decisions,
                    \/ Continue(d) \/ Compose(d) \/ RetryAgents(d)
                    \/ RetrySame(d) \/ Replan(d) \/ Alternate(d)
             PROVE  Account'
  BY DEF AgentSupervisor
<1>1. Permitted(d)
  BY DecisionsPermitted
<1>2. pc = "agent_supervisor" /\ current \in Agents /\ pc \notin Agents
  BY DEF Continue, Compose, RetryAgents, RetrySame, Replan, Alternate, Decide, Step,
         TypeOK, ControlType, Agents
<1>3. CASE Continue(d)
  BY <1>2, <1>3, AccountRouted DEF Continue, reviewVars, budgetVars, finalVars
<1>4. CASE Compose(d)
  <2>1. /\ pc' = "reflection" /\ pending' = <<>> /\ cursor' = 5 /\ AllSatisfied
        /\ UNCHANGED <<requestVars, resultVars, alternates, reviewVars, budgetVars, finalVars>>
    BY <1>1, <1>4 DEF Compose, Rank, Decide, Permitted
  <2>2. \A x, y : ~Has(pending', x) /\ ~Ahead(pending', x, y)
    BY <2>1, ShortQueue
  <2>3. \A x \in plan.selected : active[x] # None
    BY <2>1 DEF AllSatisfied, None
  <2> USE DEF requestVars, resultVars, reviewVars, budgetVars, finalVars
  <2>4. Reviewing' /\ HaltEntered' /\ HaltedQueue' /\ NoStepLost' /\ Accounted'
    BY <2>1, <2>3 DEF Reviewing, HaltEntered, HaltedQueue, NoStepLost, Accounted, Agents
  <2>5. HaltReason'
    BY <1>2, <2>1 DEF Account, HaltReason, Working, QueryLost, Waiting, IsRequired
  <2>6. RagQueued' /\ RagTwice'
    BY <2>1, <2>2 DEF RagQueued, RagTwice, Queued
  <2>7. QED
    BY <2>4, <2>5, <2>6 DEF Account
<1>5. CASE RetryAgents(d)
  <2> DEFINE S == Downstream(d.targets) \cap ActiveAgents
  <2>1. /\ d.targets \in SUBSET Agents /\ \A a \in d.targets : retries[a] < 1
    BY <1>1, <1>5 DEF Permitted, Recovery, RetryAgents, Decide, RetryAgentsAllowed, Retryable
  <2>2. /\ Invalidate(d.targets) /\ SpendRetries(d.targets) /\ pending' = Requeue(S)
        /\ ~halted' /\ pc' = "dispatcher" /\ UNCHANGED <<plan, cursor, alternates, reflection>>
    BY <1>5 DEF RetryAgents, finalVars
  <2>3. S = S \ {pc'}
    BY <2>2 DEF ActiveAgents, Agents
  <2>4. QED
    BY <1>2, <2>1, <2>2, <2>3, AccountRetried
<1>6. CASE RetrySame(d)
  <2> DEFINE S == (Downstream({current}) \cap ActiveAgents) \ {current}
  <2>1. {current} \in SUBSET Agents /\ \A a \in {current} : retries[a] < 1
    BY <1>1, <1>2, <1>6 DEF Permitted, RetrySame, Decide, RetrySameAllowed
  <2>2. /\ Invalidate({current}) /\ SpendRetries({current}) /\ pending' = Requeue(S)
        /\ ~halted' /\ pc' = current /\ UNCHANGED <<plan, cursor, alternates, reflection>>
    BY <1>6 DEF RetrySame, finalVars
  <2>3. S = (Downstream({current}) \cap ActiveAgents) \ {pc'}
    BY <2>2
  <2> HIDE DEF S
  <2>4. QED
    BY <1>2, <2>1, <2>2, <2>3, AccountRetried
<1>7. CASE Replan(d)
  <2>1. pc' = "planner" /\ UNCHANGED <<plan, active, pending>>
    BY <1>7 DEF Replan, resultVars
  <2>2. QED
    BY <2>1, AccountLeft DEF Working, Agents
<1>8. CASE Alternate(d)
  <2> DEFINE a == d.alternate
  <2>1. /\ budget.alternate > 0 /\ a \in {"rag", "case_search"}
        /\ a = "case_search" => current = "rag"
        /\ active[a] = None
    BY <1>1, <1>2, <1>8, AlternateAllowed DEF Permitted, Alternate, Decide, Agents
  <2>2. /\ pc' = a /\ alternates' = alternates \cup {a} /\ ~halted'
        /\ UNCHANGED <<plan, resultVars, pending, cursor, reviewVars, retries, finalVars>>
    BY <1>8 DEF Alternate
  <2> HIDE DEF a
  <2>3. alternates = {}
    BY <2>1 DEF Route, Alternates, TypeOK, BudgetType
  <2>4. ~(Has(pending, "rag") /\ current = "rag")
    BY <1>2, <2>3 DEF Account, RagTwice, Queued
  <2> USE DEF resultVars, reviewVars, finalVars
  <2>5. Reviewing' /\ HaltEntered' /\ HaltReason' /\ HaltedQueue' /\ NoStepLost'
    BY <2>1, <2>2 DEF Reviewing, HaltEntered, HaltReason, HaltedQueue, NoStepLost
  <2>6. Accounted'
    <3>1. \A x \in plan.selected : x # pc
      BY <1>2 DEF TypeOK, RequestType
    <3>2. QED
      BY <1>2, <2>2, <3>1 DEF Account, Accounted, Queued, QueryGivenUp, IsRequired, Working
  <2>7. RagQueued'
    BY <1>2, <2>1, <2>2, <2>4 DEF Account, RagQueued, Queued
  <2>8. RagTwice'
    BY <2>1, <2>2 DEF RagTwice
  <2>9. QED
    BY <2>5, <2>6, <2>7, <2>8 DEF Account
<1>9. QED
  BY <1>3, <1>4, <1>5, <1>6, <1>7, <1>8

\* The final reflection replaces the queue and leaves halted as it is: a queue
\* it throws away belonged to a query that failed twice.
LEMMA AccountReflectRetry ==
  ASSUME TypeOK, Route, Account, NEW a \in Agents, ReflectRetry(a)
  PROVE  Account'
<1> DEFINE S == (Downstream({a}) \cap ActiveAgents) \ {a}
<1>1. /\ pc = "reflection" /\ ~Stopped /\ retries[a] < 1
      /\ Invalidate({a}) /\ SpendRetries({a}) /\ pending' = InOrder(S)
      /\ pc' = a /\ reflection' = "retry_target"
      /\ UNCHANGED <<requestVars, cursor, alternates, reviewVars>>
  BY DEF ReflectRetry, Reflecting, Step, RetryTargetAllowed
<1> USE DEF requestVars, reviewVars
<1>2. {a} \in SUBSET Agents /\ \A b \in {a} : retries[b] < 1
  BY <1>1
<1>3. /\ \A x \in Agents : active'[x] = IF Goes(x, {a}) THEN None ELSE active[x]
      /\ \A x \in Agents : retries'[x] = IF x \in {a} THEN 1 ELSE retries[x]
  BY <1>1, <1>2, RetryEffect
<1>4. /\ S \in SUBSET Agents
      /\ \A x \in Agents : x \in S <=>
           /\ x # a /\ active[x] # None /\ x \in plan.selected
           /\ a = "text2sql" \/ (x = "case_search" /\ a = "rag")
  BY <1>2, DownstreamAgents DEF ActiveAgents
<1>5. /\ pending' \in Seq(Agents)
      /\ \A x : Has(pending', x) <=> x \in S
      /\ \A x, y : Ahead(pending', x, y) <=> x \in S /\ y \in S /\ Rank[x] < Rank[y]
  BY <1>1, <1>4, InOrderQueue DEF Orders
<1> HIDE DEF S
<1>6. a \notin {"agent_supervisor", "reflection", "dispatcher"} /\ pc \notin Agents /\ pc \in Working
  BY <1>1 DEF Agents, Working
<1>7. a # "text2sql" => active'["text2sql"] = active["text2sql"]
  BY <1>3 DEF Goes, Agents
<1>8. halted => ~Waiting
  BY <1>1 DEF Stopped, Waiting
<1>9. Reviewing' /\ HaltEntered' /\ NoStepLost'
  BY <1>1, <1>6, <1>8 DEF Reviewing, HaltEntered, Waiting, NoStepLost
<1>10. HaltReason'
  <2>1. halted /\ plan.selected # {} => QueryLost
    BY <1>1, <1>6, <1>8 DEF Account, HaltReason
  <2>2. QED
    BY <1>1, <1>7, <2>1 DEF HaltReason, QueryLost, IsRequired
<1>11. HaltedQueue'
  <2>1. pending' # <<>> => Has(pending', Head(pending')) /\ Head(pending') \in Agents
    BY <1>5, TailQueue
  <2>2. pending' # <<>> => a \in {"text2sql", "rag"}
    BY <1>4, <1>5, <2>1
  <2>3. QED
    BY <1>1, <2>2 DEF HaltedQueue
<1>12. Accounted'
  <2> SUFFICES ASSUME NEW x \in plan.selected, active'[x] = None, x # a, ~Has(pending', x)
               PROVE  Rank[x] > cursor \/ QueryGivenUp'
    BY <1>1 DEF Accounted, Queued
  <2>1. x \in Agents /\ x # pc
    BY <1>6 DEF TypeOK, RequestType
  <2>2. active[x] = None
    <3>1. active[x] # None => Goes(x, {a})
      BY <1>3, <2>1
    <3>2. active[x] # None => x \in S
      BY <1>4, <2>1, <3>1 DEF Goes
    <3>3. QED
      BY <1>5, <3>2
  <2>3. ASSUME QueryLost, retries["text2sql"] = 1 PROVE QueryGivenUp'
    <3>1. a # "text2sql"
      BY <1>1, <2>3
    <3>2. retries'["text2sql"] = 1
      BY <1>3, <2>3, <3>1 DEF Agents
    <3>3. QED
      BY <1>1, <1>7, <2>3, <3>1, <3>2 DEF QueryGivenUp, QueryLost, IsRequired
  <2>4. QueryGivenUp => QueryGivenUp'
    BY <2>3 DEF QueryGivenUp, QueryLost
  <2>5. CASE ~halted
    BY <1>1, <2>2, <2>4, <2>5 DEF Account, NoStepLost
  <2>6. CASE halted
    <3>1. Rank[x] > cursor \/ Has(pending, x) \/ QueryGivenUp
      BY <1>6, <2>1, <2>2 DEF Account, Accounted, Queued
    <3>2. Has(pending, x) => pending # <<>>
      BY ShortQueue
    <3>3. Has(pending, x) => QueryLost /\ retries["text2sql"] = 1
      BY <1>1, <1>6, <1>8, <2>6, <3>2 DEF Account, HaltedQueue
    <3>4. QED
      BY <2>3, <2>4, <3>1, <3>3
  <2>7. QED
    BY <2>5, <2>6
<1>13. RagQueued'
  <2> SUFFICES ASSUME "case_search" \in plan.selected
               PROVE  /\ "rag" \in S => active'["case_search"] = None /\ a # "case_search"
                      /\ a = "rag" => active'["rag"] = None
    BY <1>1, <1>5 DEF RagQueued, Queued, Rank
  <2>1. "text2sql" \in plan.selected /\ active["text2sql"] # None
    BY <1>1, QueryInUse DEF Route, PlanShape
  <2>2. "rag" \in S => a = "text2sql"
    BY <1>4 DEF Agents
  <2>3. "rag" \in S => active'["case_search"] = None
    BY <1>3, <2>1, <2>2 DEF Goes, Agents
  <2>4. a = "rag" /\ active["rag"] # None => "rag" \in plan.selected
    BY <1>1 DEF Route, OutOfPlan, Alternates, PlanShape, Required
  <2>5. a = "rag" => active'["rag"] = None
    BY <1>3, <2>4 DEF Goes
  <2>6. QED
    BY <2>2, <2>3, <2>5
<1>14. RagTwice'
  BY <1>1, <1>4, <1>5, <1>6 DEF RagTwice, Queued, Agents
<1>15. QED
  BY <1>9, <1>10, <1>11, <1>12, <1>13, <1>14 DEF Account

\* The final reflection queues what it drops, or stops for a reason.
LEMMA AccountReflection == TypeOK /\ Route /\ Account /\ Reflection => Account'
<1> SUFFICES ASSUME TypeOK, Route, Account, Reflection PROVE Account'
  OBVIOUS
<1>1. CASE ReflectStopped \/ ReflectGrounded \/ ReflectCompose \/ ReflectReplan
  <2>1. pc = "reflection"
    BY <1>1 DEF ReflectStopped, ReflectGrounded, ReflectCompose, ReflectReplan, Reflecting, Step
  <2>2. forced = None
    BY <2>1 DEF Route, Forced, Nodes, Agents
  <2>3. UNCHANGED <<plan, active, pending>> /\ pc' \in {"planner", "composer"}
    BY <1>1, <2>2 DEF ReflectStopped, ReflectGrounded, ReflectCompose, ReflectReplan,
       AfterReflection, requestVars, resultVars, routeVars
  <2>4. QED
    BY <2>3, AccountLeft DEF Working, Agents
<1>2. QED
  BY <1>1, AccountReflectRetry DEF Reflection

\* Before the first plan nothing is due.
LEMMA AccountInit == Init => Account
<1> SUFFICES ASSUME Init PROVE Account
  OBVIOUS
<1>1. pc = "planner" /\ pending = <<>> /\ plan.selected = {}
  BY DEF Init
<1>2. QED
  BY <1>1 DEF Account, Reviewing, HaltEntered, HaltReason, HaltedQueue, NoStepLost, Accounted,
     RagQueued, RagTwice, Working, Agents

\* All steps of a new plan lie ahead.
LEMMA AccountPlan == TypeOK /\ Route /\ Account /\ (Planner \/ Supervisor) => Account'
<1> SUFFICES ASSUME TypeOK, Route, Account, Planner \/ Supervisor PROVE Account'
  OBVIOUS
<1>1. /\ pc' \in {"supervisor", "dispatcher"} /\ pending' = <<>> /\ cursor' = 0
      /\ halted' => plan'.selected = {}
      /\ plan'.selected \subseteq Agents
  <2>1. CASE Planner
    <3>1. PICK type \in QueryTypes, s \in PlanStatuses : plan' \in PlansOf(type, s)
      BY <2>1 DEF Planner
    <3>2. TypeOK'
      BY <2>1, StepType DEF Next
    <3>3. QED
      BY <2>1, <3>2 DEF Planner, TypeOK, RequestType
  <2>2. CASE Supervisor
    <3>1. pc = "supervisor" /\ plan.query_type \in DOMAIN Required
      BY <2>2 DEF Supervisor, Step, TypeOK, ControlType
    <3>2. PICK s \in Reviewed(plan) : plan' \in PlansOf(plan.query_type, s)
      BY <2>2 DEF Supervisor
    <3>3. plan'.selected # {} => plan'.status = "ready"
      BY <3>1, <3>2, PlansShape
    <3>4. pending = <<>> /\ cursor = 0
      BY <3>1 DEF Route, CleanStart
    <3>5. TypeOK'
      BY <2>2, StepType DEF Next
    <3>6. QED
      BY <2>2, <3>3, <3>4, <3>5 DEF Supervisor, routeVars, TypeOK, RequestType
  <2>3. QED
    BY <2>1, <2>2
<1>2. \A x, y : ~Has(pending', x) /\ ~Ahead(pending', x, y)
  BY <1>1, ShortQueue
<1>3. \A x \in plan'.selected : Rank[x] > cursor'
  BY <1>1 DEF Rank, Agents
<1>4. pc' \notin Agents \cup {"agent_supervisor", "reflection"}
  BY <1>1 DEF Agents
<1>5. Reviewing' /\ HaltEntered' /\ HaltReason' /\ HaltedQueue' /\ NoStepLost'
  BY <1>1, <1>4 DEF Reviewing, HaltEntered, HaltReason, HaltedQueue, NoStepLost
<1>6. Accounted' /\ RagQueued' /\ RagTwice'
  BY <1>2, <1>3, <1>4 DEF Accounted, RagQueued, RagTwice, Queued, Agents
<1>7. QED
  BY <1>5, <1>6 DEF Account

\* Every step accounts for the steps of the plan.
LEMMA AccountStep ==
  AlternateBudget <= 1 /\ TypeOK /\ Route /\ Account /\ [Next]_vars => Account'
<1> SUFFICES ASSUME AlternateBudget <= 1, TypeOK, Route, Account, [Next]_vars PROVE Account'
  OBVIOUS
<1>1. CASE Answering \/ OutOfSteps \/ NodeRaises
  <2>1. pc' \notin Working /\ UNCHANGED <<plan, active, pending>>
    BY <1>1 DEF Answering, ComposerKeeps, Composer, ReviewGrounded, ReviewAnswer, OutOfSteps,
       NodeRaises, requestVars, resultVars, routeVars, Working, Agents
  <2>2. QED
    BY <2>1, AccountLeft
<1>2. CASE Ended \/ UNCHANGED vars
  BY <1>2 DEF Ended, vars, requestVars, resultVars, routeVars, reviewVars, budgetVars, finalVars,
     Account, Reviewing, HaltEntered, HaltReason, HaltedQueue, NoStepLost, Accounted, RagQueued,
     RagTwice, Queued, QueryLost, Waiting, QueryGivenUp, IsRequired
<1>3. QED
  BY <1>1, <1>2, AccountPlan, AccountDispatcher, AccountRunAgent, AccountAgentSupervisor,
     AccountReflection DEF Next

\* With the one alternate the code allows, a planned step runs whenever it is
\* entered, and no request leaves its plan with a step neither done nor given up
\* with its query, in whatever order re-runs and alternates were queued.
THEOREM EveryStepAlwaysRuns ==
  ASSUME AlternateBudget <= 1
  PROVE  Spec => []EveryStepRuns
<1>1. TypeOK /\ Route /\ Account => EveryStepRuns
  <2> SUFFICES ASSUME TypeOK, Route, Account PROVE EveryStepRuns
    OBVIOUS
  <2>1. pc \in plan.selected => pc \in Agents
    BY DEF TypeOK, RequestType
  <2>2. NoSkip
    BY <2>1 DEF Route, Forced, NoSkip
  <2>3. QED
    BY <2>2 DEF Account, EveryStepRuns
<1>2. TypeOK /\ Route /\ Account /\ [Next]_vars => Account'
  BY AccountStep
<1>3. QED
  BY <1>1, <1>2, RouteKept, AccountInit, PTL DEF Spec

-----------------------------------------------------------------------------
(* Nothing in use is older than what it was computed from. *)

\* The results a diagnosis is synthesised from.
Diagnosed == {"text2sql", "rag", "case_search"}

Synthesis ==
  evidence["synthesis"] # None =>
    /\ plan.query_type = "diagnosis"
    /\ plan.selected # {} =>
         basis["synthesis"] = Diagnosed /\ \A a \in Diagnosed : active[a] # None

\* A plan with a document search and a query that failed has nothing else: it
\* ends with the documents or has no retry left.
NothingUsable == \A x \in Sources \ {"rag"} : evidence[x] # "usable"
QueryFailed ==
  "rag" \in plan.selected /\ QueryLost /\ pc \in Working =>
    /\ halted /\ pc \notin Agents
    /\ NothingUsable \/ budget.retry = 0
    /\ \A c \in plan.selected \ {"text2sql"} : active[c] = None

\* The case search runs after the document search it reads.
RagFirst ==
  {"rag", "case_search"} \subseteq plan.selected =>
    /\ pc = "case_search" => active["rag"] # None
    /\ Queued("case_search") =>
         \/ active["rag"] # None \/ pc \in Broken \cup {"rag"}
         \/ Ahead(pending, "rag", "case_search")

Recomputed == Fresh /\ Synthesis /\ QueryFailed /\ RagFirst

\* A diagnosis that stays was computed from results that all stay.
LEMMA SynthesisDropped ==
  ASSUME TypeOK, NEW A \in SUBSET Agents, Invalidate(A), evidence'["synthesis"] # None
  PROVE  /\ evidence["synthesis"] # None /\ basis'["synthesis"] = basis["synthesis"]
         /\ \A x \in Diagnosed : ~Goes(x, A)
<1>1. \A x : x \in Obsolete(A) <=> Goes(x, A)
  BY ObsoleteAgents
<1>2. "synthesis" \in Sources /\ "synthesis" \notin Agents /\ Obsolete(A) \subseteq Agents
  BY ObsoleteAgents DEF Sources, Agents
<1>3. evidence["synthesis"] # None /\ ~DropsSynthesis(Obsolete(A))
  BY <1>2 DEF Invalidate, EvidenceWithout
<1>4. basis'["synthesis"] = basis["synthesis"]
  BY <1>2, <1>3 DEF Invalidate, BasisWithout
<1>5. QED
  BY <1>1, <1>3, <1>4 DEF DropsSynthesis, Diagnosed

\* After a run a synthesis is new, or it was there and the run touched nothing
\* it was made from.
LEMMA SynthesisRun ==
  ASSUME TypeOK, NEW a \in Agents, NEW s, Record(a, s), NEW e,
         AddEvidence(a, e) \/ (UNCHANGED evidence /\ a = "visualization"),
         evidence'["synthesis"] # None
  PROVE  \/ Diagnosing(a) /\ basis'["synthesis"] = {p \in Diagnosed : active'[p] # None}
         \/ /\ evidence["synthesis"] # None
            /\ basis'["synthesis"] = basis["synthesis"] \ {a}
            /\ \A x \in Diagnosed : ~Goes(x, {a})
<1>1. \A x : x \in Obsolete({a}) <=> Goes(x, {a})
  BY ObsoleteAgents
<1>2. "synthesis" \in Sources /\ "synthesis" \notin Agents /\ Obsolete({a}) \subseteq Agents
  BY ObsoleteAgents DEF Sources, Agents
<1> DEFINE B == BasisWithout(Obsolete({a}))
<1>3. basis' = [x \in Sources |->
                  IF x = a THEN Inputs(a)
                  ELSE IF x = "synthesis" /\ Diagnosing(a)
                       THEN {p \in Diagnosed : active'[p] # None}
                       ELSE B[x] \ {a}]
  BY DEF Record, Diagnosed
<1>4. ~DropsSynthesis(Obsolete({a})) => B["synthesis"] = basis["synthesis"]
  BY <1>2 DEF BasisWithout
<1> HIDE DEF B
<1>5. basis'["synthesis"] = IF Diagnosing(a) THEN {p \in Diagnosed : active'[p] # None}
                            ELSE B["synthesis"] \ {a}
  BY <1>2, <1>3
<1>6. CASE Diagnosing(a)
  BY <1>5, <1>6
<1>7. CASE ~Diagnosing(a)
  <2>1. evidence["synthesis"] # None /\ ~DropsSynthesis(Obsolete({a}))
    <3>1. CASE AddEvidence(a, e)
      <4> DEFINE E == EvidenceWithout(Obsolete({a}))
      <4>1. E \in [Sources -> {None, "failed", "usable"}]
        BY WithoutType
      <4>2. E["synthesis"] # None => evidence["synthesis"] # None /\ ~DropsSynthesis(Obsolete({a}))
        BY <1>2 DEF EvidenceWithout
      <4> HIDE DEF E
      <4>3. evidence' = [E EXCEPT ![a] = e, !["synthesis"] = @]
        BY <1>7, <3>1 DEF AddEvidence, E
      <4>4. evidence'["synthesis"] = E["synthesis"]
        BY <1>2, <4>1, <4>3
      <4>5. QED
        BY <4>2, <4>4
    <3>2. CASE UNCHANGED evidence /\ a = "visualization"
      BY <1>1, <3>2 DEF Goes, DropsSynthesis
    <3>3. QED
      BY <3>1, <3>2
  <2>2. QED
    BY <1>1, <1>4, <1>5, <1>7, <2>1 DEF DropsSynthesis, Diagnosed
<1>8. QED
  BY <1>6, <1>7

\* Whose result a consumer reads.
LEMMA ConsumerOf ==
  \A p, c : p \in Agents /\ c \in Consumers(p) =>
    \/ p = "text2sql" /\ c \in {"rag", "case_search", "impact", "visualization"}
    \/ p = "rag" /\ c = "case_search"
  BY DEF Consumers, Agents

\* Dropping agents to run them again drops what was computed from them.
LEMMA FreshDropped ==
  ASSUME TypeOK, Fresh, Synthesis, NEW A \in SUBSET Agents, Invalidate(A), plan' = plan
  PROVE  Fresh' /\ Synthesis'
<1>1. /\ \A x \in Agents : active'[x] = IF Goes(x, A) THEN None ELSE active[x]
      /\ \A x \in Agents : basis'[x] = IF Goes(x, A) THEN {} ELSE basis[x]
  BY DropEffect
<1>2. plan.selected \subseteq Agents
  BY DEF TypeOK, RequestType
<1>3. Fresh'
  <2> SUFFICES ASSUME NEW p \in plan.selected, NEW c \in plan.selected, active'[c] # None,
                      c \in Consumers(p)
               PROVE  active'[p] # None /\ p \in basis'[c]
    BY DEF Fresh, ActiveAgents
  <2>1. p \in Agents /\ c \in Agents /\ ~Goes(c, A) /\ active[c] # None
    BY <1>1, <1>2
  <2>2. active[p] # None /\ p \in basis[c]
    BY <2>1 DEF Fresh, ActiveAgents
  <2>3. ~Goes(p, A)
    BY <2>1, <2>2, ConsumerOf DEF Goes
  <2>4. QED
    BY <1>1, <2>1, <2>2, <2>3
<1>4. Synthesis'
  <2> SUFFICES ASSUME evidence'["synthesis"] # None
               PROVE  /\ plan.query_type = "diagnosis"
                      /\ plan.selected # {} =>
                           basis'["synthesis"] = Diagnosed /\ \A a \in Diagnosed : active'[a] # None
    BY DEF Synthesis
  <2>1. /\ evidence["synthesis"] # None /\ basis'["synthesis"] = basis["synthesis"]
        /\ \A x \in Diagnosed : ~Goes(x, A)
    BY SynthesisDropped
  <2>2. QED
    BY <1>1, <2>1 DEF Synthesis, Diagnosed, Agents
<1>5. QED
  BY <1>3, <1>4

\* A run reads the results in use of its producers.
LEMMA FreshRun ==
  ASSUME TypeOK, Route, Recomputed, NEW a \in Agents, NEW s, s # None, pc = a, Record(a, s),
         NEW e, AddEvidence(a, e) \/ (UNCHANGED evidence /\ a = "visualization"), plan' = plan
  PROVE  Fresh' /\ Synthesis'
<1>1. /\ \A x \in Agents : active'[x] =
           IF x = a THEN s ELSE IF Goes(x, {a}) THEN None ELSE active[x]
      /\ basis'[a] = Inputs(a)
      /\ \A x \in Agents \ {a} : basis'[x] = IF Goes(x, {a}) THEN {} ELSE basis[x] \ {a}
  BY RecordEffect
<1>2. plan.selected \subseteq Agents
  BY DEF TypeOK, RequestType
<1>3. a # "text2sql" /\ "text2sql" \in plan.selected => active["text2sql"] # None
  BY DEF Route, QueryFirst, QueryDropped, Broken, Agents, Queued
<1>4. a = "text2sql" => active["text2sql"] = None
  BY DEF Route, QueryRun
<1>5. a = "case_search" /\ {"rag", "case_search"} \subseteq plan.selected => active["rag"] # None
  BY DEF Recomputed, RagFirst
<1>6. Fresh'
  <2> SUFFICES ASSUME NEW p \in plan.selected, NEW c \in plan.selected, active'[c] # None,
                      c \in Consumers(p)
               PROVE  active'[p] # None /\ p \in basis'[c]
    BY DEF Fresh, ActiveAgents
  <2>1. p \in Agents /\ c \in Agents /\ p # c
    BY <1>2, ConsumerOf
  <2>2. CASE c = a
    <3>1. active[p] # None /\ ~Goes(p, {a})
      BY <1>2, <1>3, <1>5, <2>1, <2>2, ConsumerOf DEF Goes
    <3>2. p \in Inputs(a)
      BY <2>1, <2>2, <3>1 DEF Inputs, ActiveAgents
    <3>3. QED
      BY <1>1, <2>1, <2>2, <3>1, <3>2
  <2>3. CASE c # a
    <3>1. ~Goes(c, {a}) /\ active[c] # None
      BY <1>1, <2>1, <2>3
    <3>2. active[p] # None /\ p \in basis[c]
      BY <2>1, <3>1 DEF Recomputed, Fresh, ActiveAgents
    <3>3. p # a /\ ~Goes(p, {a})
      BY <1>4, <2>1, <3>1, <3>2, ConsumerOf DEF Goes
    <3>4. QED
      BY <1>1, <2>1, <2>3, <3>1, <3>2, <3>3
  <2>4. QED
    BY <2>2, <2>3
<1>7. Synthesis'
  <2> SUFFICES ASSUME evidence'["synthesis"] # None
               PROVE  /\ plan.query_type = "diagnosis"
                      /\ plan.selected # {} =>
                           basis'["synthesis"] = Diagnosed /\ \A x \in Diagnosed : active'[x] # None
    BY DEF Synthesis
  <2>1. CASE Diagnosing(a) /\ basis'["synthesis"] = {p \in Diagnosed : active'[p] # None}
    <3>1. a = "case_search" /\ plan.query_type = "diagnosis"
      BY <2>1 DEF Diagnosing
    <3>2. plan.selected # {} => Diagnosed \subseteq plan.selected
      BY <3>1 DEF Route, PlanShape, Required, Diagnosed
    <3>3. plan.selected # {} => active["text2sql"] # None /\ active["rag"] # None
      BY <1>3, <1>5, <3>1, <3>2 DEF Diagnosed
    <3>4. ~Goes("text2sql", {a}) /\ ~Goes("rag", {a})
      BY <3>1 DEF Goes
    <3>5. plan.selected # {} => \A x \in Diagnosed : active'[x] # None
      BY <1>1, <3>1, <3>3, <3>4 DEF Diagnosed, Agents
    <3>6. QED
      BY <2>1, <3>1, <3>5
  <2>2. CASE /\ evidence["synthesis"] # None /\ basis'["synthesis"] = basis["synthesis"] \ {a}
             /\ \A x \in Diagnosed : ~Goes(x, {a})
    <3>1. plan.query_type = "diagnosis"
          /\ (plan.selected # {} => basis["synthesis"] = Diagnosed
                                    /\ \A x \in Diagnosed : active[x] # None)
      BY <2>2 DEF Recomputed, Synthesis
    <3>2. plan.selected # {} => Diagnosed \subseteq plan.selected
      BY <3>1 DEF Route, PlanShape, Required, Diagnosed
    <3>3. plan.selected # {} => a \notin Diagnosed
      BY <2>2, <3>1, <3>2 DEF Goes
    <3>4. QED
      BY <1>1, <2>2, <3>1, <3>3 DEF Diagnosed, Agents
  <2>3. QED
    BY <2>1, <2>2, SynthesisRun
<1>8. QED
  BY <1>6, <1>7

\* Two agents that were retried have used up a budget of two.
LEMMA TwoRetries ==
  ASSUME TypeOK, BudgetsKept, RetryBudget <= 2, NEW a \in Agents, NEW b \in Agents, a # b,
         retries[a] = 1, retries[b] = 1
  PROVE  budget.retry = 0
<1> DEFINE Spent == {x \in Agents : retries[x] = 1}
<1>1. IsFiniteSet(Spent) /\ Cardinality(Spent) \in Nat
  BY AgentsFinite, FS_Subset, FS_CardinalityType
<1>2. IsFiniteSet({a, b}) /\ Cardinality({a, b}) = 2
  <2>1. IsFiniteSet({a}) /\ Cardinality({a}) = 1
    BY FS_Singleton
  <2>2. {a, b} = {a} \cup {b}
    OBVIOUS
  <2>3. QED
    BY <2>1, <2>2, FS_AddElement
<1>3. {a, b} \in SUBSET Spent
  OBVIOUS
<1>4. Cardinality(Spent) + budget.retry = RetryBudget
  BY DEF BudgetsKept
<1> HIDE DEF Spent
<1>5. Cardinality({a, b}) <= Cardinality(Spent)
  BY <1>1, <1>3, FS_Subset
<1>6. QED
  BY <1>1, <1>2, <1>4, <1>5, BudgetAssumption DEF TypeOK, BudgetType

\* A lost query is not that of a diagnosis.
LEMMA LostNoDiagnosis ==
  ASSUME IsRequired("text2sql")
  PROVE  "text2sql" \in plan.selected /\ plan.query_type # "diagnosis"
  BY DEF IsRequired, Required

\* A query that failed for a plan with a document search.
LEMMA QueryFailedRun ==
  ASSUME RetryBudget <= 2, TypeOK, Route, BudgetsKept, Recomputed, Places', Synthesis',
         Text2sql
  PROVE  QueryFailed'
<1> SUFFICES ASSUME "rag" \in plan.selected, QueryLost'
             PROVE  /\ halted' /\ pc' \notin Agents
                    /\ NothingUsable' \/ budget'.retry = 0
                    /\ \A c \in plan.selected \ {"text2sql"} : active'[c] = None
  BY DEF QueryFailed, Text2sql
<1>1. PICK s \in Outcome["text2sql"] :
        /\ Record("text2sql", s)
        /\ AddEvidence("text2sql", IF s = "succeeded" THEN "usable" ELSE "failed")
        /\ halted' = (s \in Failures /\ IsRequired("text2sql"))
  BY DEF Text2sql
<1>2. pc = "text2sql" /\ UNCHANGED <<plan, alternates, retries, budget>> /\ "text2sql" \in Agents
  BY DEF Text2sql, Step, budgetVars, Agents
<1>3. /\ \A x \in Agents : active'[x] =
           IF x = "text2sql" THEN s ELSE IF Goes(x, {"text2sql"}) THEN None ELSE active[x]
      /\ pc' = "agent_supervisor"
  BY <1>1, <1>2, RecordEffect
<1>4. s \in Failures /\ IsRequired("text2sql") /\ s # "succeeded"
  BY <1>2, <1>3, StatusNames DEF QueryLost, IsRequired
<1>5. "text2sql" \in plan.selected /\ plan.query_type # "diagnosis" /\ plan.selected \subseteq Agents
  BY <1>4, LostNoDiagnosis DEF TypeOK, RequestType
<1>6. active["text2sql"] = None
  BY <1>2 DEF Route, QueryRun
<1>7. \A c \in plan.selected \ {"text2sql"} : active[c] = None
  BY <1>5, <1>6 DEF Recomputed, Fresh, ActiveAgents, Consumers, Agents
<1>8. \A c \in plan.selected \ {"text2sql"} : active'[c] = None
  BY <1>3, <1>5, <1>7
<1>9. ASSUME NEW x \in Sources \ {"rag"}, evidence'[x] = "usable" PROVE budget'.retry = 0
  <2>1. x # "synthesis"
    BY <1>2, <1>5, <1>9 DEF Synthesis, None
  <2>2. x # "text2sql"
    BY <1>1, <1>2, <1>4, <1>9, EvidenceEffect
  <2>3. x \in Agents \ {"text2sql"} /\ active'[x] # None
    BY <1>9, <2>1, <2>2 DEF Sources, Places, EvidenceCurrent, None
  <2>4. active[x] # None /\ x \notin plan.selected
    BY <1>3, <1>7, <2>3
  <2>5. retries[x] = 1
    BY <1>5, <2>3, <2>4 DEF Route, OutOfPlan, Alternates
  <2>6. retries["text2sql"] = 1
    BY <1>2, <1>5, <2>3, <2>4 DEF Route, QueryRun, QueryFirst, Broken
  <2>7. QED
    BY <1>2, <2>3, <2>5, <2>6, TwoRetries
<1>10. QED
  BY <1>1, <1>3, <1>4, <1>8, <1>9 DEF NothingUsable, Agents

\* The run of an agent drops what was computed from its earlier result.
LEMMA RecomputedRun ==
  ASSUME TypeOK, Route, Recomputed, NEW a \in Agents, NEW s, s # None, pc = a, Record(a, s),
         NEW e, AddEvidence(a, e) \/ (UNCHANGED evidence /\ a = "visualization"),
         UNCHANGED <<plan, pending>>, a = "text2sql" => QueryFailed'
  PROVE  Recomputed'
<1>1. Fresh' /\ Synthesis'
  BY FreshRun
<1>2. /\ \A x \in Agents : active'[x] =
           IF x = a THEN s ELSE IF Goes(x, {a}) THEN None ELSE active[x]
      /\ pc' = "agent_supervisor"
  BY RecordEffect
<1>3. QueryFailed'
  <2>1. CASE a # "text2sql"
    <3>1. active'["text2sql"] = active["text2sql"]
      BY <1>2, <2>1 DEF Goes, Agents
    <3>2. ~("rag" \in plan.selected /\ QueryLost)
      BY DEF Recomputed, QueryFailed, Working
    <3>3. QED
      BY <3>1, <3>2 DEF QueryFailed, QueryLost, IsRequired
  <2>2. QED
    BY <2>1
<1>4. RagFirst'
  <2>1. active["rag"] # None => active'["rag"] # None
    BY <1>2 DEF Goes, Agents, Route, QueryRun
  <2>2. a = "rag" => active'["rag"] # None
    BY <1>2
  <2>3. a \notin Broken
    BY DEF Agents, Broken
  <2>4. QED
    BY <1>2, <2>1, <2>2, <2>3 DEF Recomputed, RagFirst, Queued
<1>5. QED
  BY <1>1, <1>3, <1>4 DEF Recomputed

\* Every agent's run, with two retries at most.
LEMMA RecomputedRunAgent ==
  RetryBudget <= 2 /\ TypeOK /\ Route /\ BudgetsKept /\ Places /\ Recomputed /\ RunAgent => Recomputed'
<1> SUFFICES ASSUME RetryBudget <= 2, TypeOK, Route, BudgetsKept, Places, Recomputed, RunAgent
             PROVE  Recomputed'
  OBVIOUS
<1>1. CASE Text2sql
  <2>1. PICK s \in Outcome["text2sql"] :
          /\ Record("text2sql", s)
          /\ AddEvidence("text2sql", IF s = "succeeded" THEN "usable" ELSE "failed")
    BY <1>1 DEF Text2sql
  <2>2. pc = "text2sql" /\ UNCHANGED <<plan, pending>> /\ s # None /\ "text2sql" \in Agents
    BY <1>1, <2>1, StatusNames DEF Text2sql, Step, Agents
  <2>3. Synthesis'
    BY <2>1, <2>2, FreshRun
  <2>4. Places'
    BY PlacesRunAgent
  <2>5. QueryFailed'
    BY <1>1, <2>3, <2>4, QueryFailedRun
  <2>6. QED
    BY <2>1, <2>2, <2>5, RecomputedRun
<1>2. CASE Rag
  <2>1. PICK s \in Outcome["rag"] :
          Record("rag", s) /\ AddEvidence("rag", IF s = "succeeded" THEN "usable" ELSE None)
    BY <1>2 DEF Rag
  <2>2. pc = "rag" /\ UNCHANGED <<plan, pending>> /\ s # None /\ "rag" \in Agents
    BY <1>2, <2>1, StatusNames DEF Rag, Step, Agents
  <2>3. QED
    BY <2>1, <2>2, RecomputedRun
<1>3. CASE CaseSearch
  <2>1. PICK s \in Outcome["case_search"] :
          /\ Record("case_search", s)
          /\ AddEvidence("case_search", IF s = "succeeded" THEN "usable" ELSE None)
    BY <1>3 DEF CaseSearch
  <2>2. pc = "case_search" /\ UNCHANGED <<plan, pending>> /\ s # None /\ "case_search" \in Agents
    BY <1>3, <2>1, StatusNames DEF CaseSearch, Step, Agents, requestVars
  <2>3. QED
    BY <2>1, <2>2, RecomputedRun
<1>4. CASE Impact
  <2>1. PICK s \in Outcome["impact"] : Record("impact", s) /\ AddEvidence("impact", "usable")
    BY <1>4 DEF Impact
  <2>2. pc = "impact" /\ UNCHANGED <<plan, pending>> /\ s # None /\ "impact" \in Agents
    BY <1>4, <2>1, StatusNames DEF Impact, Step, Agents
  <2>3. QED
    BY <2>1, <2>2, RecomputedRun
<1>5. CASE Visualization
  <2>1. PICK s \in {"skipped"} \cup Outcome["visualization"] :
          /\ Record("visualization", s)
          /\ AddEvidence("visualization", "usable") \/ UNCHANGED evidence
    BY <1>5 DEF Visualization
  <2>2. /\ pc = "visualization" /\ UNCHANGED <<plan, pending>> /\ s # None
        /\ "visualization" \in Agents
    BY <1>5, <2>1, StatusNames DEF Visualization, Step, Agents, requestVars
  <2>3. QED
    BY <2>1, <2>2, RecomputedRun
<1>6. ASSUME NEW a \in Agents, Skip(a) PROVE Recomputed'
  <2>1. /\ pc = a /\ ~ShouldRun(a) /\ pc' \in {"agent_supervisor", "dispatcher"}
        /\ UNCHANGED <<requestVars, resultVars, routeVars, reviewVars, budgetVars>>
    BY <1>6 DEF Skip, Step
  <2>2. a \notin plan.selected
    BY <2>1 DEF Route, Forced
  <2> USE DEF requestVars, resultVars, routeVars, budgetVars
  <2>3. Fresh' /\ Synthesis'
    BY <2>1 DEF Recomputed, Fresh, Synthesis, ActiveAgents
  <2>4. QueryFailed' /\ RagFirst'
    BY <2>1, <2>2 DEF Recomputed, QueryFailed, QueryLost, IsRequired, NothingUsable, RagFirst,
       Queued, Working, Broken, Agents
  <2>5. QED
    BY <2>3, <2>4 DEF Recomputed
<1>7. QED
  BY <1>1, <1>2, <1>3, <1>4, <1>5, <1>6 DEF RunAgent

\* The dispatcher enters a consumer after its producers.
LEMMA RecomputedDispatcher == TypeOK /\ Route /\ Account /\ Recomputed /\ Dispatcher => Recomputed'
<1> SUFFICES ASSUME TypeOK, Route, Account, Recomputed, Dispatcher PROVE Recomputed'
  OBVIOUS
<1>1. pc = "dispatcher" /\ pc \notin Agents /\ pc \in Working /\ pc \notin Broken
      /\ UNCHANGED <<plan, halted, resultVars, budget>>
  BY DEF Dispatcher, DispatchHalted, DispatchPending, DispatchStep, DispatchDone, Step, Agents,
     Working, Broken, requestVars, budgetVars
<1>2. Fresh' /\ Synthesis'
  BY <1>1 DEF Recomputed, Fresh, Synthesis, ActiveAgents, resultVars
\* A lost query goes to the final reflection.
<1>3. "rag" \in plan.selected /\ QueryLost => halted
  BY <1>1 DEF Recomputed, QueryFailed
<1>4. QueryFailed'
  <2>1. halted => pc' = "reflection"
    BY DEF Dispatcher, DispatchHalted, DispatchPending, DispatchStep, DispatchDone
  <2>2. QED
    BY <1>1, <1>3, <2>1 DEF Recomputed, QueryFailed, QueryLost, IsRequired, NothingUsable,
       resultVars, Agents
<1>5. RagFirst'
  <2> SUFFICES ASSUME "rag" \in plan.selected, "case_search" \in plan.selected
               PROVE  /\ pc' = "case_search" => active["rag"] # None
                      /\ Has(pending', "case_search") =>
                           active["rag"] # None \/ pc' = "rag" \/ Ahead(pending', "rag", "case_search")
    BY <1>1 DEF RagFirst, Queued, resultVars
  <2>1. Has(pending, "case_search") =>
          active["rag"] # None \/ Ahead(pending, "rag", "case_search")
    BY <1>1 DEF Recomputed, RagFirst, Queued
  <2>2. CASE DispatchHalted \/ DispatchDone
    BY <2>1, <2>2 DEF DispatchHalted, DispatchDone, routeVars
  <2>3. CASE DispatchPending
    <3> DEFINE h == Head(pending)
    <3>1. pc' = h /\ pending' = Tail(pending) /\ pending # <<>>
      BY <2>3 DEF DispatchPending
    <3>2. /\ \A x : Has(pending, x) <=> x = h \/ Has(pending', x)
          /\ \A x, y : Ahead(pending, x, y) <=> (x = h /\ Has(pending', y)) \/ Ahead(pending', x, y)
      BY <3>1, TailQueue DEF TypeOK, RouteType
    <3> HIDE DEF h
    <3>3. h = "case_search" => ~Has(pending', "case_search")
      BY <3>2 DEF Route, QueuePlanned
    <3>4. Ahead(pending', "rag", "case_search") => Has(pending', "case_search")
      BY DEF Ahead, Has
    <3>5. QED
      BY <2>1, <3>1, <3>2, <3>3, <3>4
  <2>4. ASSUME NEW a \in Agents, DispatchStep(a)
        PROVE  (a = "case_search" => active["rag"] # None) /\ pending' = <<>> /\ pc' = a
    <3>1. /\ ~halted /\ pending = <<>> /\ a \in Remaining
          /\ \A b \in Remaining : Rank[a] <= Rank[b] /\ pending' = pending /\ pc' = a
      BY <2>4 DEF DispatchStep
    <3>2. a = "case_search" => "rag" \notin Remaining
      BY <3>1 DEF Rank
    <3>3. a = "case_search" => Rank["rag"] <= cursor \/ active["rag"] # None
      BY <3>2 DEF Remaining, Rank, TypeOK, RouteType
    <3>4. ~QueryGivenUp
      BY <1>3, <3>1 DEF QueryGivenUp, QueryLost
    <3>5. ~Has(pending, "rag")
      BY <3>1, ShortQueue
    <3>6. active["rag"] # None \/ Rank["rag"] > cursor
      BY <1>1, <3>4, <3>5 DEF Account, Accounted, Queued
    <3>7. QED
      BY <3>1, <3>3, <3>6 DEF Rank, TypeOK, RouteType
  <2>5. QED
    BY <2>2, <2>3, <2>4, ShortQueue DEF Dispatcher
<1>6. QED
  BY <1>2, <1>4, <1>5 DEF Recomputed

\* agent_supervisor drops the results of A and queues what depends on them.
LEMMA RecomputedRetried ==
  ASSUME TypeOK, Route, Account, Recomputed,
         NEW A \in SUBSET Agents, A # {}, \A a \in A : retries[a] < 1 /\ active[a] # None,
         pc = "agent_supervisor", Invalidate(A), SpendRetries(A),
         pc' = "dispatcher" \/ (pc' = current /\ current \in Agents /\ A = {current}),
         NEW S, S = (Downstream(A) \cap ActiveAgents) \ {pc'}, pending' = Requeue(S),
         plan' = plan
  PROVE  Recomputed'
<1>1. \A x \in Agents : active'[x] = IF Goes(x, A) THEN None ELSE active[x]
  BY RetryEffect
<1>2. /\ S \in SUBSET Agents
      /\ \A x \in Agents : x \in S <=>
           /\ x # pc' /\ active[x] # None /\ x \in plan.selected
           /\ x \in A \/ "text2sql" \in A \/ (x = "case_search" /\ "rag" \in A)
  BY DownstreamAgents DEF ActiveAgents
<1>3. /\ \A x : Has(pending', x) <=> x \in S \/ Has(pending, x)
      /\ \A x, y : Ahead(pending', x, y) <=>
           \/ x \in S /\ y \in S /\ Rank[x] < Rank[y]
           \/ x \in S /\ y \notin S /\ Has(pending, y)
           \/ x \notin S /\ y \notin S /\ Ahead(pending, x, y)
  BY <1>2, RequeueQueue DEF Route, QueuePlanned, Queued, TypeOK, RouteType
<1>4. Fresh' /\ Synthesis'
  BY FreshDropped DEF Recomputed
\* A lost query is among A: nothing else of its plan has a result.
<1>5. QueryFailed'
  <2> SUFFICES ASSUME "rag" \in plan.selected, QueryLost' PROVE FALSE
    BY DEF QueryFailed
  <2>1. "text2sql" \in plan.selected /\ plan.query_type # "diagnosis" /\ "text2sql" \in Agents
    BY LostNoDiagnosis DEF QueryLost, IsRequired, Agents
  <2>2. active'["text2sql"] # None
    BY StatusNames DEF QueryLost
  <2>3. active'["text2sql"] = active["text2sql"] /\ "text2sql" \notin A
    BY <1>1, <2>1, <2>2 DEF Goes
  <2>4. QueryLost
    BY <2>3 DEF QueryLost, IsRequired
  <2>5. \A c \in plan.selected \ {"text2sql"} : active[c] = None
    BY <2>4 DEF Recomputed, QueryFailed, Working
  <2>6. PICK a \in A : a \notin plan.selected /\ active[a] # None /\ retries[a] < 1
    BY <2>3, <2>5
  <2>7. QED
    BY <2>1, <2>6 DEF Route, OutOfPlan, Alternates
<1>6. RagFirst'
  <2> SUFFICES ASSUME "rag" \in plan.selected, "case_search" \in plan.selected
               PROVE  /\ pc' = "case_search" => active'["rag"] # None
                      /\ Has(pending', "case_search") =>
                           \/ active'["rag"] # None \/ pc' = "rag"
                           \/ Ahead(pending', "rag", "case_search")
    BY DEF RagFirst, Queued
  <2>1. active["case_search"] # None => active["rag"] # None
    BY DEF Recomputed, Fresh, ActiveAgents, Consumers, Agents
  <2>2. pc' = "case_search" => active'["rag"] # None
    BY <1>1, <2>1 DEF Goes, Agents
  <2>3. active["rag"] # None /\ active'["rag"] = None => "rag" \in S \/ pc' = "rag"
    BY <1>1, <1>2 DEF Goes, Agents
  <2>4. "rag" \in S /\ Has(pending', "case_search") => Ahead(pending', "rag", "case_search")
    BY <1>3 DEF Rank
  <2>5. "case_search" \in S => active["rag"] # None
    BY <1>2, <2>1 DEF Agents
  <2>6. Has(pending, "case_search") =>
          active["rag"] # None \/ Ahead(pending, "rag", "case_search")
    BY DEF Recomputed, RagFirst, Queued, Broken
  <2>7. QED
    BY <1>3, <2>2, <2>3, <2>4, <2>5, <2>6
<1>7. QED
  BY <1>4, <1>5, <1>6 DEF Recomputed

\* A decision drops the results of consumers with those of their producers.
LEMMA RecomputedAgentSupervisor ==
  TypeOK /\ Route /\ Account /\ Recomputed /\ AgentSupervisor => Recomputed'
<1> SUFFICES ASSUME TypeOK, Route, Account, Recomputed, NEW d \in Decisions,
                    \/ Continue(d) \/ Compose(d) \/ RetryAgents(d)
                    \/ RetrySame(d) \/ Replan(d) \/ Alternate(d)
             PROVE  Recomputed'
  BY DEF AgentSupervisor
<1>1. Permitted(d)
  BY DecisionsPermitted
<1>2. pc = "agent_supervisor" /\ current \in Agents /\ pc \notin Agents /\ pc \in Working
      /\ pc \notin Broken
  BY DEF Continue, Compose, RetryAgents, RetrySame, Replan, Alternate, Decide, Step,
         TypeOK, ControlType, Agents, Working, Broken
<1>3. CASE Continue(d) \/ Compose(d) \/ Replan(d)
  <2>1. /\ pc' \in {"dispatcher", "reflection", "planner"} /\ pc' \notin Agents
        /\ UNCHANGED <<plan, resultVars>>
        /\ pending' = pending \/ pending' = <<>>
        /\ pc' # "planner" => UNCHANGED <<halted, budget>>
    BY <1>3 DEF Continue, Compose, Replan, requestVars, budgetVars, Agents
  <2> USE DEF resultVars
  <2>2. Fresh' /\ Synthesis'
    BY <2>1 DEF Recomputed, Fresh, Synthesis, ActiveAgents
  <2>3. QueryFailed'
    BY <1>2, <2>1 DEF Recomputed, QueryFailed, QueryLost, IsRequired, NothingUsable, Working
  <2>4. RagFirst'
    BY <1>2, <2>1, ShortQueue DEF Recomputed, RagFirst, Queued, Agents
  <2>5. QED
    BY <2>2, <2>3, <2>4 DEF Recomputed
<1>4. CASE RetryAgents(d)
  <2> DEFINE S == Downstream(d.targets) \cap ActiveAgents
  <2>1. /\ d.targets \in SUBSET Agents /\ d.targets # {}
        /\ \A a \in d.targets : retries[a] < 1 /\ active[a] # None
    BY <1>1, <1>4 DEF Permitted, Recovery, RetryAgents, Decide, RetryAgentsAllowed, Retryable,
       ActiveAgents
  <2>2. /\ Invalidate(d.targets) /\ SpendRetries(d.targets) /\ pending' = Requeue(S)
        /\ pc' = "dispatcher" /\ plan' = plan
    BY <1>4 DEF RetryAgents
  <2>3. S = S \ {pc'}
    BY <2>2 DEF ActiveAgents, Agents
  <2>4. QED
    BY <1>2, <2>1, <2>2, <2>3, RecomputedRetried
<1>5. CASE RetrySame(d)
  <2> DEFINE S == (Downstream({current}) \cap ActiveAgents) \ {current}
  <2>1. {current} \in SUBSET Agents /\ {current} # {} /\ retries[current] < 1
    BY <1>1, <1>2, <1>5 DEF Permitted, RetrySame, Decide, RetrySameAllowed
  <2>2. /\ Invalidate({current}) /\ SpendRetries({current}) /\ pending' = Requeue(S)
        /\ pc' = current /\ plan' = plan
    BY <1>5 DEF RetrySame
  <2>3. S = (Downstream({current}) \cap ActiveAgents) \ {pc'}
    BY <2>2
  <2> HIDE DEF S
  <2>4. CASE active[current] # None
    <3>1. \A a \in {current} : retries[a] < 1 /\ active[a] # None
      BY <2>1, <2>4
    <3>2. QED
      BY <1>2, <2>1, <2>2, <2>3, <3>1, RecomputedRetried
\* Only an alternate outside its plan is reviewed without a result.
  <2>5. CASE active[current] = None
    <3>1. current \notin plan.selected
      BY <1>2, <2>5 DEF Account, Reviewing
    <3>2. current \in alternates
      BY <1>2, <2>1, <3>1 DEF Route, OutOfPlan
    <3>3. plan.query_type = "diagnosis" /\ current \in Diagnosed /\ plan.selected = {}
      BY <3>1, <3>2 DEF Route, Alternates, PlanShape, Required, Diagnosed
    <3>4. Fresh' /\ Synthesis'
      BY <2>1, <2>2, FreshDropped DEF Recomputed
    <3>5. QueryFailed' /\ RagFirst'
      BY <2>2, <3>3 DEF QueryFailed, RagFirst
    <3>6. QED
      BY <3>4, <3>5 DEF Recomputed
  <2>6. QED
    BY <2>4, <2>5
<1>6. CASE Alternate(d)
  <2> DEFINE a == d.alternate
  <2>1. /\ a \in {"rag", "case_search"} /\ plan.query_type = "diagnosis"
        /\ a = "case_search" => current = "rag"
    BY <1>1, <1>2, <1>6, AlternateAllowed DEF Permitted, Alternate, Decide
  <2>2. pc' = a /\ UNCHANGED <<plan, resultVars, pending>>
    BY <1>6 DEF Alternate
  <2> HIDE DEF a
  <2> USE DEF resultVars
  <2>3. Fresh' /\ Synthesis'
    BY <2>2 DEF Recomputed, Fresh, Synthesis, ActiveAgents
  <2>4. QueryFailed'
    BY <2>1, <2>2, LostNoDiagnosis DEF QueryFailed, QueryLost, IsRequired
  <2>5. RagFirst'
    BY <1>2, <2>1, <2>2 DEF Recomputed, RagFirst, Queued, Account, Reviewing
  <2>6. QED
    BY <2>3, <2>4, <2>5 DEF Recomputed
<1>7. QED
  BY <1>3, <1>4, <1>5, <1>6

\* Where no step is due.
LEMMA RecomputedLeft ==
  ASSUME Recomputed, pc' \notin Working, pc \notin Broken \cup {"rag"} \/ pc' \in Broken,
         UNCHANGED <<plan, pending, active, evidence, basis>>
  PROVE  Recomputed'
<1>1. Fresh' /\ Synthesis'
  BY DEF Recomputed, Fresh, Synthesis, ActiveAgents
<1>2. QueryFailed' /\ RagFirst'
  BY DEF Recomputed, QueryFailed, RagFirst, Queued, Working, Agents
<1>3. QED
  BY <1>1, <1>2 DEF Recomputed

\* The final reflection replaces the queue.
LEMMA RecomputedReflectRetry ==
  ASSUME TypeOK, Route, Account, Recomputed, NEW a \in Agents, ReflectRetry(a)
  PROVE  Recomputed'
<1> DEFINE S == (Downstream({a}) \cap ActiveAgents) \ {a}
<1>1. /\ pc = "reflection" /\ ~Stopped /\ ~DocumentGrounding /\ retries[a] < 1 /\ budget.retry > 0
      /\ Invalidate({a}) /\ SpendRetries({a}) /\ pending' = InOrder(S)
      /\ pc' = a /\ UNCHANGED requestVars
  BY DEF ReflectRetry, Reflecting, Step, RetryTargetAllowed
<1> USE DEF requestVars
<1>2. {a} \in SUBSET Agents /\ \A b \in {a} : retries[b] < 1
  BY <1>1
<1>3. \A x \in Agents : active'[x] = IF Goes(x, {a}) THEN None ELSE active[x]
  BY <1>1, <1>2, RetryEffect
<1>4. /\ S \in SUBSET Agents
      /\ \A x \in Agents : x \in S <=>
           /\ x # a /\ active[x] # None /\ x \in plan.selected
           /\ a = "text2sql" \/ (x = "case_search" /\ a = "rag")
  BY <1>2, DownstreamAgents DEF ActiveAgents
<1>5. /\ \A x : Has(pending', x) <=> x \in S
      /\ \A x, y : Ahead(pending', x, y) <=> x \in S /\ y \in S /\ Rank[x] < Rank[y]
  BY <1>1, <1>4, InOrderQueue DEF Orders
<1> HIDE DEF S
<1>6. pc \in Working /\ Fresh' /\ Synthesis'
  BY <1>1, <1>2, FreshDropped DEF Recomputed, Working
\* A lost query does not come here: its plan answers from the documents, or no
\* retry is left.
<1>7. "rag" \in plan.selected => ~QueryLost
  <2>1. "rag" \in plan.selected /\ QueryLost => NothingUsable \/ budget.retry = 0
    BY <1>6 DEF Recomputed, QueryFailed
  <2>2. "rag" \in plan.selected /\ NothingUsable => DocumentGrounding
    BY DEF NothingUsable, DocumentGrounding
  <2>3. QED
    BY <1>1, <2>1, <2>2 DEF TypeOK, BudgetType
<1>8. QueryFailed'
  <2>1. QueryLost' => QueryLost
    BY <1>1, <1>3, StatusNames DEF QueryLost, IsRequired, Agents
  <2>2. QED
    BY <1>1, <1>7, <2>1 DEF QueryFailed
<1>9. RagFirst'
  <2> SUFFICES ASSUME "rag" \in plan.selected, "case_search" \in plan.selected
               PROVE  /\ a = "case_search" => active'["rag"] # None
                      /\ "case_search" \in S =>
                           active'["rag"] # None \/ a = "rag" \/ Ahead(pending', "rag", "case_search")
    BY <1>1, <1>5 DEF RagFirst, Queued
  <2>1. active["case_search"] # None => active["rag"] # None
    BY DEF Recomputed, Fresh, ActiveAgents, Consumers, Agents
  <2>2. active["rag"] # None
    <3>1. ~halted => active["rag"] # None
      BY <1>1, <1>7 DEF Account, NoStepLost, QueryGivenUp, QueryLost
    <3>2. ~halted
      BY <1>1, <1>6, <1>7 DEF Account, HaltReason, Waiting, Stopped
    <3>3. QED
      BY <3>1, <3>2
  <2>3. a = "case_search" => active'["rag"] # None
    BY <1>3, <2>2 DEF Goes, Agents
  <2>4. active'["rag"] = None => "rag" \in S \/ a = "rag"
    BY <1>3, <1>4, <2>2 DEF Goes, Agents
  <2>5. "rag" \in S /\ "case_search" \in S => Ahead(pending', "rag", "case_search")
    BY <1>5 DEF Rank
  <2>6. QED
    BY <2>3, <2>4, <2>5
<1>10. QED
  BY <1>6, <1>8, <1>9 DEF Recomputed

\* So does the final reflection.
LEMMA RecomputedReflection == TypeOK /\ Route /\ Account /\ Recomputed /\ Reflection => Recomputed'
<1> SUFFICES ASSUME TypeOK, Route, Account, Recomputed, Reflection PROVE Recomputed'
  OBVIOUS
<1>1. CASE ReflectStopped \/ ReflectGrounded \/ ReflectCompose \/ ReflectReplan
  <2>1. pc = "reflection"
    BY <1>1 DEF ReflectStopped, ReflectGrounded, ReflectCompose, ReflectReplan, Reflecting, Step
  <2>2. forced = None
    BY <2>1 DEF Route, Forced, Nodes, Agents
  <2>3. UNCHANGED <<plan, pending, active, evidence, basis>> /\ pc' \in {"planner", "composer"}
    BY <1>1, <2>2 DEF ReflectStopped, ReflectGrounded, ReflectCompose, ReflectReplan,
       AfterReflection, requestVars, resultVars, routeVars
  <2>4. QED
    BY <2>1, <2>3, RecomputedLeft DEF Working, Agents, Broken
<1>2. QED
  BY <1>1, RecomputedReflectRetry DEF Reflection

\* Where there is no result nothing is stale.
LEMMA NothingRecomputed ==
  ASSUME active = [x \in Agents |-> None], evidence = [x \in Sources |-> None], pending = <<>>,
         pc # "case_search"
  PROVE  Recomputed
<1>1. \A x : ~Has(pending, x)
  BY ShortQueue
<1>2. evidence["synthesis"] = None /\ active["text2sql"] = None
  BY DEF Sources, Agents
<1>3. QED
  BY <1>1, <1>2, StatusNames DEF Recomputed, Fresh, Synthesis, QueryFailed, QueryLost, RagFirst,
     Queued, ActiveAgents

\* Before the first plan there is no result.
LEMMA RecomputedInit == Init => Recomputed
<1>1. Init => /\ active = [x \in Agents |-> None] /\ evidence = [x \in Sources |-> None]
              /\ pending = <<>> /\ pc # "case_search"
  BY DEF Init
<1>2. QED
  BY <1>1, NothingRecomputed

\* A new plan starts from no result.
LEMMA RecomputedPlan == TypeOK /\ Route /\ (Planner \/ Supervisor) => Recomputed'
<1> SUFFICES ASSUME TypeOK, Route, Planner \/ Supervisor PROVE Recomputed'
  OBVIOUS
<1>1. /\ active' = [x \in Agents |-> None] /\ evidence' = [x \in Sources |-> None]
      /\ pending' = <<>> /\ pc' # "case_search"
  BY DEF Planner, Supervisor, Step, Route, CleanStart, resultVars, routeVars
<1>2. \A x : ~Has(pending', x)
  BY <1>1, ShortQueue
<1>3. evidence'["synthesis"] = None /\ active'["text2sql"] = None
  BY <1>1 DEF Sources, Agents
<1>4. QED
  BY <1>1, <1>2, <1>3, StatusNames DEF Recomputed, Fresh, Synthesis, QueryFailed, QueryLost,
     RagFirst, Queued, ActiveAgents

\* Every step keeps what is in use in step with what it was computed from.
LEMMA RecomputedStep ==
  /\ RetryBudget <= 2 /\ TypeOK /\ Route /\ BudgetsKept /\ Places /\ Account /\ Recomputed
  /\ [Next]_vars
  => Recomputed'
<1> SUFFICES ASSUME RetryBudget <= 2, TypeOK, Route, BudgetsKept, Places, Account, Recomputed,
                    [Next]_vars
             PROVE  Recomputed'
  OBVIOUS
<1>1. CASE Answering \/ OutOfSteps \/ NodeRaises
  <2>1. /\ pc' \notin Working /\ UNCHANGED <<plan, pending, active, evidence, basis>>
        /\ pc \in {"composer", "answer_supervisor"} \/ pc' \in Broken
    BY <1>1 DEF Answering, ComposerKeeps, Composer, ReviewGrounded, ReviewAnswer, OutOfSteps,
       NodeRaises, Step, requestVars, resultVars, routeVars, Working, Agents, Broken
  <2>2. QED
    BY <2>1, RecomputedLeft DEF Broken
<1>2. CASE Ended \/ UNCHANGED vars
  BY <1>2 DEF Ended, vars, requestVars, resultVars, routeVars, budgetVars, Recomputed, Fresh,
     Synthesis, QueryFailed, RagFirst, ActiveAgents, NothingUsable, Queued, QueryLost, IsRequired
<1>3. QED
  BY <1>1, <1>2, RecomputedPlan, RecomputedDispatcher, RecomputedRunAgent,
     RecomputedAgentSupervisor, RecomputedReflection DEF Next

\* With the two retries and the one alternate the code allows, no result of a
\* planned agent and no diagnosis outlives a result it was computed from: the
\* queue brings every consumer back after its producers, whatever is retried.
THEOREM NothingEverStale ==
  ASSUME RetryBudget <= 2, AlternateBudget <= 1
  PROVE  Spec => []NothingStale
<1>1. Recomputed /\ Parts => NothingStale
  BY DEF Recomputed, Parts, NothingStale, SynthesisFresh, Synthesis, Diagnosed, ActiveAgents, Agents
<1>2. TypeOK /\ Route /\ Account /\ [Next]_vars => Account'
  BY AccountStep
<1>3. TypeOK /\ Route /\ BudgetsKept /\ Places /\ Account /\ Recomputed /\ [Next]_vars => Recomputed'
  BY RecomputedStep
<1>4. QED
  BY <1>1, <1>2, <1>3, RouteKept, BudgetsAreKept, PlacesInit, PlacesStep, PartsInit,
     PartsStep, AccountInit, RecomputedInit, PTL DEF Spec

=============================================================================
