# Verification of the FAB assistant

TLA+ models of the assistant in `src/apps/assistant`, of the web workspace in
`src/apps/web` and of the jobs that simulate the process data, model-checked with TLC and
proved about with TLAPS. Paths below are relative to `src/apps/assistant/src/app` unless
they start with `src/`.

`PROJECT.json` holds the same information for tools: components, runs, the source lines
behind every definition (`map`), the faults each property catches (`mutants`), the
hazards, the findings and the theorems.

1. [Inventory](#1-inventory)
2. [The agent workflow graph](#2-the-agent-workflow-graph-agentgraph)
3. [The feedback store](#3-the-feedback-store-feedbackstore)
4. [The chat session](#4-the-chat-session-chatsession)
5. [The scope of a conversation](#5-the-scope-of-a-conversation-conversationscope)
6. [The model calls of a request](#6-the-model-calls-of-a-request-modeltransport)
7. [A data question](#7-a-data-question-text2sql-and-querypromise)
8. [Documents and their search](#8-documents-and-their-search-ragindex-ragsearch-documentsearch)
9. [From evidence to answer](#9-from-evidence-to-answer-answerpipeline)
10. [The simulated process data](#10-the-simulated-process-data-fabsimulation)
11. [What is proved, checked and left out](#11-what-is-proved-checked-and-left-out)
12. [Promises the code does not keep](#12-promises-the-code-does-not-keep)
13. [What is left](#13-what-is-left)

To repeat everything, in this directory: `tlc -config <cfg> <module>` for each run of
`PROJECT.json`, `tlapm <X>_proofs.tla` for the proofs. The `MC` modules hold the instances: small sets,
the questions that are asked, what tools and models may return, and symmetry. In the
modules, an operator whose comment begins "A fault:" is a plausible mistake in the
definition after it; it is used by nothing but the mutants, which show that the property
named there notices it.

## 1. Inventory

A question of an operator about a semiconductor FAB goes from the browser
(`src/apps/web/src/workspace.jsx`) over `/chat/stream` (`api/routes.py`) to a LangGraph
workflow (`agents/graph.py`): a planner chooses a route and agents, the agents query
PostgreSQL (`sub_agent/text2sql.py`), search documents and earlier cases (`rag/`),
estimate an impact and draw charts; a supervisor reviews each result and may retry,
replan, or add an agent, all under budgets; the answer is composed, reviewed, stored in
SQLite (`services/state_store.py`) and sent back as the last event of the stream. Users
vote on answers; reviewers approve liked answers as few-shot examples for later plans.

### Components that keep state

| component | state | operations | interacts with | what is hard | what makes it correct |
| --- | --- | --- | --- | --- | --- |
| agent workflow graph (`agents/graph.py`, `supervisor.py`, `planner.py`, `execution.py`) | `AgentState`: plan, results in five places, queue of re-runs, cursor, budgets | one node per step, routers between them | the agents (calls), the model (calls), the recursion limit of `api/routes.py` | long legal sequences of retry, replan and alternate; a result dropped from one place and not another; a reflection left from an earlier pass | no result outlives what it was computed from; no planned step lost; budgets charged exactly; every request that is planned within its budget ends |
| feedback store (`services/state_store.py`, `feedback_service.py`, `feedback_repair.py`, `src/apps/assistant/scripts/manage_feedback_examples.py`) | SQLite: turns with votes, feedback, relinks, examples, audit | store an exchange, vote (three ways to name the answer), repair an old vote, inspect, approve, reject | API threads, the reviewer's command line, the repair tool: three processes on one file | transactions of several processes in any order, votes late, twice or ambiguous | a vote lands where it was meant; only liked, successful answers are approved; the audit explains the state |
| conversation memory (`services/conversation_memory.py`, `chat_service.py`) | bounded turns per conversation, which are loaded | load, append, refresh after a vote | store (under the memory's lock), API | restart, a vote refreshed while a stream appends | the memory equals the newest turns of the store |
| chat API and event stream (`api/routes.py`) | the streams under way | start, finish, fail, disconnect | graph, memory, browser | the browser leaves or the server stops between storing and sending | what the page shows is stored, once |
| web chat client (`src/apps/web/src/workspace.jsx`, `chat-model.js`) | messages, one open stream, a saved copy | ask, retry, stop, vote, save, reload | API, IndexedDB | late events, retries with old payloads, reloads of old copies | answers of one page belong to one conversation; a vote shown was heard as saved |
| model calls of a request (`agents/model_transport.py`, `usage.py`) | a pool of HTTP clients with leases, broken endpoints, a cancelled flag | lease, release, cancel | worker threads and the event loop | cancellation between two locked sections | no client closed under a call, none left open, no call after cancellation |
| document index (`rag/ingest.py`, `manifest.py`, `milvus_store.py`, `src/apps/assistant/scripts/build_rag_index.py`) | corpus file, vector collection, manifest | build in batches, publish, search | build script and servers | a build that fails or is repeated while servers search | a search never mixes versions |
| FAB simulation (`src/apps/assistant/scripts/simulate_fab_raw_events.py`, `project_fab_raw_events_daily.py`, `insert_fab_live_process_snapshot.py`) | raw events, simulator state, incidents, snapshots | run an interval, project a day | a timer, PostgreSQL | repeated, skipped and overlapping runs; the edges of a day | one open incident; the two asked tables agree; a projected day stays |
| workspace storage (`src/apps/web/src/workspace-storage.js`) | the list of conversations in IndexedDB | save, merge, delete | several tabs | two tabs save the whole list | a tab does not lose another's conversation |

### Components without state of their own

| component | role | what makes it correct |
| --- | --- | --- |
| Text2SQL (`sub_agent/text2sql.py`, `semantic_plan.py`, `semantic_sql.py`, templates) | a question to a validated, read-only query, two candidates at most | what runs was validated in the same attempt; a failure is never told as an absence |
| database access (`db/`) | catalog of a FAB, read-only transactions | only tables of the catalog, only SELECT |
| document search (`rag/search.py`, `query.py`, `rerank.py`, `sub_agent/rag.py`) | channels, fusion, rerank, selection under a budget | the evidence fits the question; a failed channel and a missing topic are told |
| request intent and scope (`agents/intent.py`, `conversation_memory.py`) | which FAB, areas, period and entity a follow-up inherits | the scope is the last one stated and not set free |
| case search and diagnosis (`sub_agent/case_search.py`, `diagnosis.py`) | similar cases, ranked causes | a strong cause rests on a verified case and a document |
| impact, visualization (`sub_agent/impact.py`, `visualization.py`) | a what-if estimate, a chart and its facts | arithmetic on observations only; every place of an axis accounted for |
| reflection and review (`sub_agent/reflection.py`, `supervisor.py`, `rag/grounding.py`) | the checks of a composed answer, up to three reviews, claims with quotes | what is shown is what was checked and judged |
| prompts and encodings (`agents/prompts.py`, `prompt_context.py`, ...) | text in, text out | - |
| result delivery and facts, few-shot examples, presentation, settings, readiness | sampling, reading, layout, wiring | - |
| charts, tables, reports of the web client, the Streamlit client | drawing | - |
| staging loads, migrations, evaluation scripts | started once by an operator | - |

### How the modules compose

```
AgentGraph        the whole request; tools and models answer anything
ChatSession       browser, stream, store, memory, votes;    FeedbackStore     the tables behind the votes
                  implements DurableConversation
ConversationScope what the memory makes of a follow-up      ModelTransport    the clients of a request
Text2Sql          one data question, implements QueryPromise
DocumentSearch    EXTENDS RagIndex (builds), RagSearch (the pipeline as operators)
AnswerPipeline    EXTENDS AnswerChecks (EXTENDS CaseDiagnosis, ImpactEstimate, ChartFacts), GroundedAnswer
Ordering          sorted and filtered lists, for CaseDiagnosis, AnswerChecks, ConversationScope,
                  RagIndex and RagSearch
FabSimulation     the three jobs that write the tables Text2Sql asks
```

`AgentGraph` takes the outcome of a tool and of a review as given; `Text2Sql`,
`DocumentSearch` and `AnswerPipeline` are the insides of those steps.

## 2. The agent workflow graph: `AgentGraph`

**What it models.** `agents/graph.py` as a whole: every node, every router, the
state `AgentState` as far as control depends on it, with the policy of
`agents/supervisor.py`, the routes of `agents/planner.py` and the dependency table
of `agents/execution.py`.

| variable | in the code |
| --- | --- |
| `pc` | the node LangGraph runs next; the conditional edges are folded into it |
| `plan`, `status`, `halted`, `answer` | the same keys of `AgentState` |
| `active` | `active_results`, status per agent |
| `evidence` | the `evidence` list, per source: none, failed, usable |
| `parts` | `answer_parts`, each with the status of the run that wrote it |
| `chart`, `sql` | `chart`, `text2sql_result` (no result, rows, no rows) |
| `pending`, `cursor`, `alternates`, `forced` | `pending_agents`, `execution_cursor`, `completed_alternates`, `forced_agent` |
| `current`, `reflections` | `current_agent`; the latest entry of `agent_reflections` per agent |
| `retries`, `budget`, `replans` | `retry_counts`, the three `*_budget_remaining`, `replan_count` |
| `reflection`, `termination`, `grounding`, `review` | the fields of those dictionaries the routers and `_answer_supervisor_node` read |
| `steps` | LangGraph super-steps |
| `basis`, `plannings` | history variables, read by properties only |

Each node is an action, or several when it has several outcomes. What the model
answers (plan, plan review, recovery decision, final reflection, answer review) and
what a tool ends with are chosen with `\E` from everything the code lets through:
a recovery decision is any output of the schema put through `enforce_recovery_policy`
twice, as `review_agent_result` and the node do. Left out: texts, limitations,
reasoning entries, stream events. `_skipped` (graph.py:1428), what every agent node does that
is entered outside the plan, after a halt or without its producers, is the action `Skip`.

**Abstractions.** A plan is its type, status and set of agents: the order is always
`AGENT_EXECUTION_ORDER`. The one correction and second review inside
`review_final_answer` are one step with two outcomes. `sql` keeps only whether there
are rows. Exceptions of the model client are `NodeRaises`; nodes that catch them
have a failed status instead.

**Runs.** `QueryTypes` and `ExtraAgents` say what is asked and which agents a plan may add
to the route's own; the code's budgets are 2 retries, 1 replan, 1 alternate, its limit is
100 super-steps.

| run | instance | shows |
| --- | --- | --- |
| `agent_graph_diagnosis` | diagnosis route, three dependent agents, plans that ask back or are unsupported, a document search that may fail, the code's budgets, a limit of 56 steps; 883,729 states | `BudgetsKept`, `NothingStale`, `EveryStepRuns`, `Terminates` |
| `agent_graph_impact` | impact and document questions, RAG and chart optional, every agent may fail, plans that are not ready, one retry, a limit of 40 steps; 899,023 states | `PlacesAgree`, `SuccessEarned` |

`NothingStale`: no result, and no synthesis of a plan with steps, is used that was computed
from something replaced since. `EveryStepRuns`: no planned agent is entered and skipped
(`NoSkip`), and when the plan is left for the composer every planned step has a result, unless
the request waits for the user or its query failed for good (`NoStepLost`, `QueryGivenUp`).
`PlacesAgree`: active results, evidence and answer parts say the same of an agent
(`EvidenceCurrent`, `PartsAgree`), and the chart is of the rows in use. One place is outside of it
because the code keeps it there: the summary of a *failed* document search (`PartsCurrent`,
section 12). The part of a diagnosis goes with the diagnosis (`DiagnosisPart` of `NothingStale`).
`SuccessEarned`: a failed query is not answered as a success, and a request ends in a status its
path allows. `BudgetsKept`: an agent is retried once at most and every retry and replan is charged.
`Terminates`: a request ends, with an answer or a
model error, unless it is planned more often than the replan budget allows. That exception is
real: a plan that asks back stops the request, and the stale final reflection of a stopped request
(`ReplanOnce` below) plans it again at nobody's expense, as often as the model says so, until
LangGraph's limit. Every other request ends within 56 super-steps, which is the limit the run
sets (the code's is 100): one that used them all would be in `OutOfSteps`, which is no end here.

One agent retried twice, or an agent outside these routes, would not add a new
interaction: the longest dependency chain of the table (`text2sql` -> `rag` ->
`case_search`) is in the diagnosis run, and the queue, an alternate and a replan can
all be in use at once in it. In it the query always has rows, so that no request is cut
short: the reviews may still ask for everything they can ask for. The limit of 40 in
`agent_graph_impact` is there so that `OutOfSteps` happens.

**Fairness.** `WF_vars(Next)`: the graph is one asyncio task (`chat_stream`) or one
call (`Supervisor.run`); model and database clients have timeouts, so a node that
was started returns or raises. Nothing is assumed about which answer a model gives.

**Disagreement.** `agent_graph_replan_once` (`ReplanOnce`, a run that finds a violation):
`_reflection_node` returns early for a stopped request and leaves the reflection of an
earlier pass in the state; its `replan` is routed on again, unbudgeted.
`src/docs/architecture.md:21` promises one replan at most. Section 12 has five more.

**Proofs** (`AgentGraph_proofs`). `TypeCorrect` proves `TypeOK` for every value of the
constants that satisfies the module's assumptions; `BudgetsAreKept` proves `BudgetsKept`
from it. The interesting conjunct of the type is `budget \in [... : Nat]`: it needs
that every decision that spends a budget was permitted on the very state it is
applied in. `EnforcePermits` shows this for one application of the policy to any
output, `DecisionsPermitted` for the two applications the code makes. The queue of
re-runs is a concatenation of at most ten one-element sequences (`QueueType`). For
the budgets the argument is a conservation law: an agent's counter goes from 0 to 1
exactly when the retry budget falls by one (`RetriesConserved`), for sets of agents
by their cardinality, and a replan is counted exactly when it is charged
(`ReplansConserved`). `TypeOK /\ BudgetsKept` is inductive as it stands.

None of the other four properties is. They rest on `Route`, which says where a request is in its
plan: the query comes before everything that reads it and is never queued (`QueryFirst`,
`QueryQueued`), a result that was dropped is due or running (`QueryDropped`, `QueryRun`), only
planned agents are queued and none twice (`QueuePlanned`), an agent outside the plan has no
planned result (`OutOfPlan`), and an alternate was forced by a diagnosis (`Alternates`,
`Forced`). The lemmas about the queue (`InOrderQueue`, `RequeueQueue`) say which agents `InOrder`
and `Requeue` leave in it and which is ahead of which (`Has`, `Ahead`), once; nothing else looks
into a sequence. `DropEffect`, `RecordEffect` and `EvidenceEffect` say agent by agent
what a retry and a run leave in use (`Goes`). On top of `Route`, each with one lemma per node:

| invariant | theorem | why it is needed |
| --- | --- | --- |
| `Places`, `Parts` | `PlacesAlwaysAgree`, `NothingEverStale` | a chart that is not drawn again keeps the evidence of the one before (`ChartRows`), so the node must not be entered with one; a document search outside the plan must be entered only once (`RagOnce`), or the part of its first run would stay |
| `Earned` | `SuccessAlwaysEarned` | a status only improves with rows in use (`QueryStatus`), and a halted request has a reason (`HaltStatus`) until its answer is reviewed (`AnswerReady`) |
| `Account` | `EveryStepAlwaysRuns` | a planned agent without a result lies ahead of the cursor, waits in the queue or runs (`Accounted`); a halt with agents queued is for the user or a query that failed twice (`HaltedQueue`); the document search is never queued behind its consumer (`RagQueued`, `RagTwice`) |
| `Recomputed` | `NothingEverStale` | a consumer in use was computed from all its producers in use (`Fresh`), a diagnosis from all three (`Synthesis`), and a case search is only entered with the documents it reads (`RagFirst`) |

`EveryStepAlwaysRuns` assumes `AlternateBudget <= 1` and `NothingEverStale` also
`RetryBudget <= 2`: the budgets are constants of the model, and these are the code's own values
(`graph.py:1618`). The first is used where an alternate has been forced and no other may follow
(`Alternates`, `RagTwice`), the second where a query and the document search have both been
retried and nothing may be retried again (`TwoRetries`, `QueryFailed`). All other
constants are arbitrary: which plans are asked for, which agents they add, what each tool ends
with, the replans and the limit of steps. Not proved: `Terminates`.

## 3. The feedback store: `FeedbackStore`

**What it models.** The tables of `services/state_store.py` and everyone who writes them:
the server (`append_exchange`, `record_answer_feedback` behind
`feedback_service.record_feedback`), the reviewer's command line
(`inspect`, `approve`, `reject` of `manage_feedback_examples.py`) and the repair of votes
that an older browser client attached to the wrong answer (`feedback_repair.py`).

| variable | in the code |
| --- | --- |
| `turn` | row id of an answer in `conversation_turns`; the question is the row before it |
| `votes` | the `user_feedback` lists in the metadata of the turns; `at` is the order of writing, `linked` that the entry names its row |
| `feedback` | table `feedback`, one immutable row per vote; `ends` is the last turn of its snapshot |
| `relinks`, `examples`, `audit` | tables `feedback_relinks`, `feedback_examples`, `feedback_example_audit` |
| `inspected` | what the reviewer last saw of an answer's example |

SQLite runs one `with self._connect()` block as one transaction, so each block is one
action; blocks of the three processes interleave. A vote is an action with no
precondition but that the answer is stored: requests that are late, doubled or reordered
are all behaviours. `meant` is a ghost field of a row: the answer the voter looked at.
For an old vote it is the browser message its trace id names.

**Instance.** Three answers: a question answered twice in the same words, once without
evidence, and an answer that failed, the first and last of them older than message ids,
with one vote of the old client on the wrong answer; three rows of feedback, three
reviews. Ambiguity by texts, ambiguity by conversation, a revoked approval, a repair
before or after other votes, and vote - approve - opposite vote - approve all fit.
391,200 states. `CHECK_DEADLOCK FALSE`: the bounds stop the behaviour.

**Properties.** `ReviewsRestOnVotes`: no sequence of votes, repairs and reviews leaves a
disliked or failed answer approved, and a review never outlives the vote it reviewed.
`VotesKept`: a vote lands on the answer looked at or is refused (`VoteAsMeant`), and turns
and table hold the same votes, none lost or doubled by a repair. `AuditExplains`: each
example is what its last audit entry says.

**Proofs** (`FeedbackStore_proofs`): every property above, for any
answers, votes, texts and bounds. The properties are not inductive alone. `IInv` adds
`TurnsOrdered` (row ids differ and count the stored answers, so that `Latest` is defined
and a snapshot ends with its own answer), `OnlyOldRelinked` and `PlacesBelow` (every
entry's place is below the next one, so a new vote is the last), `VotesDistinct`,
`RowsVoted`, `Sourced` (an example's row, or its relink, leads to the answer) and
`UsesLastVote`. One lemma per action shows that it preserves `IInv`. `AuditExplains` is shown
in a second induction over it: `AuditTold` says of each answer that its last audit entry
explains its example, and that an answer without an entry was never reviewed. A new entry is
the last one of its answer and moves no other's (`EntryAppended`).

## 4. The chat session: `ChatSession` and `DurableConversation`

**What it models.** One conversation from the browser to the store and back:
`send` (with `requestForAttempt` and the stop button), `feedback`, the
IndexedDB copy and reloads of `workspace.jsx` and `chat-model.js`; the stream of `routes.py`
(`prepare_request`, the first event, errors, disconnects, `append_exchange` and the final
event); the memory of `conversation_memory.py`; votes of `feedback_service.py` with the
refresh that follows.

| variable | in the code |
| --- | --- |
| `messages`, `backendId`, `busy` | the page's assistant messages with their `requestPayload`, the server's conversation id, the running stream |
| `saved` | the copy IndexedDB holds |
| `attempts` | one record per request: payload, conversation, the history it works with, how far it is, the events not read yet |
| `store` | durable exchanges per conversation |
| `loaded`, `turns` | `_loaded`, `_turns` of the memory |
| `votes` | votes on their way, and what the browser heard of them |

**Abstractions.** A message that failed and one that was cancelled are both `failed`:
either can be retried and nothing else tells them apart. A conversation the server opens is
named after the attempt that opened it. Of the votes on an answer the last opinion is
kept (`FeedbackStore` has the rest). Events a browser will never read are dropped from
the record when it stops reading.

**Instance.** Two questions, three requests, a memory of one exchange, and two incidents
(votes, restarts, reloads together): enough for a retry that overtakes its first attempt,
an exchange the memory has dropped, a vote refreshed while another stream appends, two
votes that overtake each other, and a restart or reload in between. 1,223,181 states. The two
opinions are symmetric. `CHECK_DEADLOCK FALSE`: a session ends when the bounds are used up.

**Properties.** `AnswersKept`: an answer shown as complete is stored, exactly once, in
its conversation (`AnswerDurable`), and all answers of the page belong to the conversation
that goes on, whatever was retried (`OneConversation`). `SeesEarlierAnswers`: a run works with the newest
answers stored when it began. `MemoryFollowsStore`: a loaded memory equals the newest
stored exchanges, but for a vote whose refresh is still due. `ShownVoteStored`: a vote the page
shows was heard as saved for that answer, and the store holds the last vote heard as saved, or
one the page gave up (after ten seconds, or by a reload) that was written all the same. That is
as much as the code keeps: a vote given up may overtake a later one in the store, and then the
page shows one and the store has the other; a vote heard earlier never stands over one heard
later, because a message has one vote under way at a time.

**The promise.** `DurableConversation` is what all this is for, with five actions (`Begin`,
`Answer`, `GiveUp`, `Vote`, `Show`) and no memory, events, saved copy or retries: a run is given the
newest answers its conversation *has* when it begins, its answer is kept once, in that
conversation, or not at all, a vote changes the opinion of one kept answer, and the page shows
kept answers of one conversation. `ChatSession` implements it (`ConversationDurable`) under the
mapping `store`, `RunsOf` (a request is a run between `prepare_request` and its exchange) and
`Shown`. A memory that was read from the wrong end of the store, which `MemoryFollowsStore`
would not notice, breaks it. The promise tells no opinion from another, so the symmetry of the
run is sound for it.

**Proofs** (`ChatSession_proofs`): `TypeOK` and the five properties, for any
opinions, size of the memory, questions, requests and incidents. That an answer is stored once is
not inductive: it rests on what is still on its way. The notion the invariant is built
from is a *settled* attempt: it has ended, has a conversation, and exactly one exchange of
that conversation is its own. `EventsSound` says that a final event still in a stream
belongs to a settled attempt, `StoreSound` that an exchange belongs to a run that is
no longer running, `PageSound` that the complete answers of a page are settled, in one
conversation, in which every later question was asked; it is stated of the page and of the
saved copy alike, so that a reload keeps it. `BusyLast` ties the open stream to the last
message. `Goes` says that what is settled stays so, and each step is shown to keep it: then
page, saved copy and votes stay sound by one lemma (`Together`). `MemoryFollowsStore` is
shown in a second induction over that invariant; its arithmetic is `RecentAppend`: cutting a
list to the window, appending, and cutting again is appending and cutting once.

Two more inductions over `IInv` give the rest. For `ShownVoteStored` (`VInv`) the page shows the
vote it waits for as pending (`WaitingShown`), waits for the last vote on an answer only
(`OneWaiting`), and heard "yes" of accepted ones only (`HeardAccepted`). Of an answer with recorded
votes one *stands* (`Stands`, `StoreSays`): the store says it, and if it was heard as saved then no
later vote on the answer has been recorded. A vote that is recorded stands from then on, as it was
not heard yet; when it is heard it is the last one sent, because it waits. What the page shows was
heard (`PageVoted`, of the page and the saved copy, so that a reload keeps it), and so was what it
shows again after a vote is given up (`BeforeHeard`). For `SeesEarlierAnswers` (`GInv`) the
history of a run is a cut of the store at some earlier length `d`: every complete answer the page
shows lies in the first `d` exchanges (`GivenOf`). As answers are stored once (`Distinct`) and
a loaded memory has the answers of the newest exchanges (`MemoryHas`), the
answers among them that the run was not given are the ones the memory had dropped.

`ImplementsDurable` shows the refinement step by step, over `IInv` and `GInv`: a beginning run
reads its history from the memory, which has the newest answers of the store also while a vote
is under way (`MemoryHas`, `NewestIs`); a recorded vote reaches exactly one exchange because its
answer is settled (`RecordDurable`); what the page shows, also after a reload, is settled in one
conversation (`ShownIsKept`); all other steps are stutters.

## 5. The scope of a conversation: `ConversationScope`

**What it models.** What a question is about. `prepare_request` of
`services/conversation_memory.py` completes a question from the page's panel and from the
exchanges the memory holds (`_infer_context`), `agents/intent.py` and `sub_agent/text2sql.py`
resolve "both", "those processes", "then" and "now" from the same exchanges, and
`append_exchange` stores what the next question can inherit. Two requests of a conversation
may be under way (a stopped stream that goes on, two pages): each works with the exchanges
there were when it began and is stored when it ends.

| variable | in the code |
| --- | --- |
| `runs` | one record per request: question, panel, what it has seen of the conversation, and the FAB, FABs compared, keys, areas and period it works with |
| `told` | the stored exchanges: the run they are of, the status, the areas and the period extracted from the question, the FAB and areas of the typed result |

Actions: a request begins (`Ask`), is answered (`Answer`), asks back (`AskBack`), or is given up
(`Abandon`).

**Abstractions.** A question is what the parsers recognise in it. `product` stands for
product and route, which the code treats alike. The date basis, the inherited list of
metrics and its aggregations, negated FABs and "the three processes" are left out.

**Properties.** `ScopeAsMeant`: `FabAsMeant` and `ScopeCarried` compare the code's search
through the memory with a definition by recursion over the whole conversation: the FAB
last named or newly chosen in the panel, a key last said and not set free since, the period
the follow-ups go back to, areas named together or of one typed result. The definition
knows no window, so the runs show that nothing of the scope is lost with the exchanges the
memory drops.

**Instance.** Two FABs with data and one without, two areas, eleven questions (one for each way
to name, leave out or refer), two panels, a memory of two exchanges, two requests under way,
three questions, and conversations of two of the questions up to four, so that the memory
drops exchanges. 1,246,442 states. `CHECK_DEADLOCK FALSE`: a conversation ends.

**Proofs** (`Question_proofs`): `ScopeAsMeant`, for any FABs, areas, questions, panels, periods,
any length of the conversation and any memory, as long as no more requests are under way at once
than the memory holds exchanges (`ScopeBounds`; the server keeps twelve). `ScopeIInv` says

* `Records`: how runs and exchanges hang together (an exchange is of one run, which began
  before it);
* `FewBeside`: beside an exchange, fewer than `MaxOpen` runs were under way that are still running or
  were stored later;
* `RunSound`: what a run works with is what the exchanges it has seen last gave, *as those runs
  had it*, with no recursion (`FabNext`, `KeyNext`, `PeriodUpTo`, `AreasFrom`, `FabEarned`);
* `ToldSound`: the same of the areas, period and FABs stored with an exchange.

Why it is inductive is why the window loses nothing. Of the exchanges stored after one that the
memory dropped there are at least `Window`, and fewer than `MaxOpen` of their runs had begun
before it was stored, so one began with it in sight (`SomeSaw`) and has inherited from it or said
something newer. So looking through the memory finds what looking through all exchanges would
(`FabKept`, `KeyKept`, `InferredIs`). The assumption is needed: with a memory of one exchange and
two requests under way TLC finds a run about another FAB than the conversation last gave. The FABs
of a comparison are a fold over the memory and the period is in its newest exchange (`FoundIs`,
`PeriodIs`). What was said stays said, because `told` only grows (`SaysStay`, `RunStays`,
`ToldStays`). The last step, from runs one by one to the meaning over the whole conversation, is
that the recursions `FabMeant` and `KeyMeant` have one solution: they go from a run to one that
began before it, and the values the runs have are a solution (`SoundIsMeant`).

## 6. The model calls of a request: `ModelTransport`

**What it models.** `usage.py` and `model_transport.py`: the two checks a call makes, the
lease and its refusals, the outcomes of a call, giving back the lease, and `cancel()`.
Every locked section is one action; clients are closed outside the lock, in actions of
their own. The pool has one client per timeout, which names it: once closed the pool makes
no client again.

**Instance.** Two threads, two endpoints, two timeouts, three calls: one lease can be
given back while another runs, at an endpoint that works or not, with the cancellation
anywhere. 117,468 states. Threads that are done and a request that needs no cancellation
may stop, so deadlock is not checked.

**Fairness.** Each thread goes on (`WF` of `Proceed`) because httpx calls time out;
`cancel()` goes on once called. No call has to be started and nobody has to cancel.

**Properties.** `NoneClosedInUse`: no client is closed under a running call.
`BrokenNotCalled`: an endpoint that broke is left alone for the rest of the request.
`SilentAfterCancel` (an action property): no lease is granted after `cancel()` returned.
`ClosedInTheEnd`: after a cancellation all clients are closed in the end.

**Proofs** (`ModelTransport_proofs`): all but the liveness, for any finite set of threads,
and the safety behind it (`NoneLeftOpen`: with no lease left, nothing is open).
`IInv` adds to the type `LeasesCounted` (`_active` is the number of threads that hold a
lease: what makes "the last one" well defined), `CallsNamed`, `ClientsOwned` (each open
client is in the pool, or was taken by a thread or the canceller that will close
it), `EmptyWhenClosed` (a closed pool without leases is empty), `BrokenMarked` and
`BrokenNotCalled`.

## 7. A data question: `Text2Sql` and `QueryPromise`

**What it models.** One call of `answer_question` by the `text2sql` node: the single step
`AgentGraph` sees only the outcome of. The catalogs of the FABs asked for are read one
after the other (`db/metadata_catalog.py`), `plan_text2sql` declines, answers from a
template or lets the model try twice, and the SQL that passed is run
(`db/read_only.py`); the node then checks whose rows came back (`_result_scope_issues`).

| variable | in the code |
| --- | --- |
| `question` | what the text, the slots and the request say: FABs compared, the FAB resolved, the query type, and which of the patterns the planner looks for occur (`words`) |
| `loading`, `catalog` | the loop over the FABs and `database_catalog` |
| `attempt`, `schema`, `plan` | the loop of `plan_text2sql`, `schema_context["tables"]`, `validated_semantic_plan` |
| `candidate` | the planned result: status, SQL text, the plan attached, and the attempt it is of |
| `result`, `ran` | the `Text2SQLResult` the node gets; the tables read for it |
| `outage` | whether an access found no database |
| `db`, `changes` | the tables there are, and how often a loader or a migration changed them |

The early returns of `plan_text2sql` are the fields of `Early`, taken in the order
`Order`; each action says which return it is. Of an SQL text the model keeps its tables
and whether it only reads, has the periods asked for and does what the plan says: what
the four checks of `_result_from_llm_output` look at. The model may write anything.

**The promise.** `QueryPromise` is what a data question may be answered with, with five
variables and no call: rows come from tables that were looked up and are still there;
"missing" needs a table that was looked up and is gone; a request that met an
unreachable database has failed. `Text2Sql` implements it (`KeepsPromise`) under the
mapping `known <- catalog`, `used <- ran`, `told <- Told`. One outcome of the promise is
there because the code has it: an error with "does not exist" in its text is told as
missing data also when it is an operator or a function that does not exist
(`_looks_like_missing_relation_error`), `"called_missing"`.

**Instance.** Two FABs with four possible tables of three families, one per kind the code
treats differently; 23 kinds of question: each pattern alone, those that meet, no FAB, and
comparisons, one of them with a FAB that does not exist and one without the pattern the
snapshot query needs. Questions without a FAB and with a foreign one reach the function
from scripts that call it directly. `Written` lets the model write on any set of tables,
`MaxChanges` is 1: a table that disappears between the catalog and the query is one
change, and no property compares two changes. 198,506 states. `CHECK_DEADLOCK FALSE`: the
call ends.

**Fairness.** `WF_vars(Call)`: the call is one thread, and the model client, the
connection and the statement have timeouts. No table has to change.

**Properties.** `CheckedInItsAttempt`: what is executed passed all checks in the attempt
that wrote it, and the plan a result shows is that of its own attempt, though the second
starts from the context of the first. `RowsInScope`: rows passed on
are of the FABs asked for, of each of them in a comparison. `Terminates`, `KeepsPromise`.

**Proofs** (`Question_proofs`, with those of `ConversationScope`): all but `Terminates`, for any FABs, families, tables,
questions and number of changes. `IInv` adds to `TypeOK` and `RowsInScope`:
`CatalogAsked` (what is loaded and to be loaded is of the FABs asked for, without which
rows of a single-FAB query could be of another one), `SchemaOwned`, `AttemptsNumbered`
(plan, candidate and result carry the number of their attempt, at every step between), and
`CandidateChecked` (a candidate that succeeded has passed, and a second attempt starts
only after one that did not). The lemmas `EndKeeps`, `PlansKeeps` and `ProposesKeeps` say
once what the actions share; `Implements` maps the actions one by one.

**Left out.** What the patterns, slots and templates are made of (inputs here), the scores
tables are ranked by, the grounding record (one dictionary for both attempts, so its label of the generation
mode survives from the first into the second; nothing is decided by it), and planning
without a database.

## 8. Documents and their search: `RagIndex`, `RagSearch`, `DocumentSearch`

**What they model.** `RagIndex`: documents cut into chunks (`rag/ingest.py`), builds that
embed and insert a version batch by batch and publish it with a manifest
(`src/apps/assistant/scripts/build_rag_index.py`, `rag/milvus_store.py`, `rag/manifest.py`), that
fail between batches, crash, are repeated or overlap, an ingestion that replaces the
corpus, and a collection that is dropped and made anew. `RagSearch`: the pipeline as
operators in the order of the code: plan (`rag/query.py`), eligibility, lexical and dense
channels, reciprocal rank fusion, rerank with its fallback, the choice of evidence under
the budget (`rag/search.py`) and the alignment with the issue asked about
(`sub_agent/rag.py`). `DocumentSearch`: a request that runs this pipeline step by step
while the index changes under it.

| variable | in the code |
| --- | --- |
| `corpus` | the edition the chunk file holds |
| `rows`, `stored`, `intact` | the rows of the Milvus collection, its embedding configuration, and whether it was never dropped since something was published |
| `manifest` | the published version |
| `builder` | each run of the build script: how far it is, and what it was told was inserted |
| `request` | the retrieval in progress: plan, candidates, vectors found, mode, what is told |

**Abstractions.** A text is the sequence of the pieces of paragraphs it is made of, a term a
model value. A score is an integer multiple of a unit that all ranks and weights that occur
divide, so that no rounding is involved. BM25 is left with the frequency of terms. The vector
search returns any candidates of the right number in any order; the model's grades are any.

**Properties.** `PublishedWhole`: every chunk of a published version has its row, whatever
builds failed, crashed, were repeated or overlapped. `DocumentsWhole`: the chunks lose no
character of a document and none exceeds the target. `HybridWhole`: a search that is called
hybrid searched the vectors of all the chunks it read; with a corpus replaced before its
index is published it is called degraded and says so. `EvidenceSound`: no text twice, within
the limits, none of another FAB or a withdrawn document, each topic without a passage is told, and
each procedure without one when the question is a list of procedures. Of a procedure named beside
a topic the code tells nothing (section 12), and nothing is claimed of it.

**Instance.** Two builds, two editions of a corpus of up to three chunks of several cuts, two
embedding configurations, batches of two, and six questions: two topics with a negated one,
another way of asking, two lists of procedures, a procedure beside a topic, and a FAB the text
contradicts. 604,812 states. Deadlock
is checked.

**Proofs** (`DocumentSearch_proofs`): the types and all four properties, for any documents,
limits, batch size, embeddings, builds, questions, vector hits and grades.

*The index.* `IndexIInv` adds to the types and `PublishedWhole` the parts `BuildsCounted` and
`ToldIsWritten`: a build that was told of every row it handed in has them in the collection,
which is what `Publish` checks. `SearchKnown` is the search's part, from which `HybridWhole`
follows.

*The chunks.* `SplitText` is a fold over the paragraphs. Its accumulator always is `Small` (no
chunk and no collected text is longer than the target) and `Holds` every character of each
paragraph taken so far; `TakenKeeps` shows both for one paragraph, including the windows of a
long one (`WindowsFit`), and `FoldHolds` carries them through the list. A file and an edition are
joined lists (`FlattenIs`, `JoinedHas`), which turns what holds of every text into
`DocumentsWhole`.

*The evidence.* The invariant of a request in progress is `SearchPlanned`: its plan is that of
its question, its candidates are the admitted chunks of the edition it read, its dense rankings
are lists of those. `Rank` is then followed through the pipeline: channels are lists of
candidates (`ChannelsAre`), a fusion score is a whole number (`FusionIs`), so `Leads` is a strict
total order on the fused list and sorting keeps exactly its elements (`ByScoreIs`, from
`FewerBefore` and `EachPlaceTaken`), whatever the grades (`OutcomesAre`). The choice is again a fold:
`Picks` says that what is chosen are candidates of different texts within the limits, that
no topic counts as covered without a passage on it, so that none that lacks one goes untold;
`TakeKeeps` and `ChosenKeeps` keep it, and `LookUps` is its counterpart for a list of ids.
`SearchPlanned` is needed because `Rank` starts from a state that several vector searches and any
number of builds and ingestions have gone through since the plan was made.

The assumptions are `ChunkAssumption` (the `ValueError`s of `_split_text`), `LimitAssumption` (the
settings of the search), `DocumentAssumption` (no
empty paragraph, which `_split_text` filters), `QuestionAssumption` (finitely many words, an id in
a list of ids) and `GradeAssumption` (grades are whole numbers, which `validate_relevance` checks).

## 9. From evidence to answer: `AnswerPipeline`

**What it models.** The second half of a request: what the query, the document search and the
case store returned becomes a diagnosis (`CaseDiagnosis`: `sub_agent/case_search.py`,
`diagnosis.py`), an estimate (`ImpactEstimate`: `sub_agent/impact.py`) and a chart with its
facts (`ChartFacts`: `sub_agent/visualization.py`); the text a model composes of them is
checked (`AnswerChecks`: `verify_response` of `sub_agent/reflection.py`), judged by another
model, corrected and judged again up to three times (`review_final_answer` of
`agents/supervisor.py`). An answer from documents alone is generated as claims with quotes,
validated, judged claim by claim, and what is left of it is rendered (`GroundedAnswer`:
`rag/grounding.py`). `AnswerPipeline` has one action per step of this; the other modules
are its operators.

| variable | in the code |
| --- | --- |
| `request`, `todo`, `phase` | the question and its plan; the agents that have not run; the part of the graph |
| `evidence` | `evidence`, `limitations`, `chart` of the state: rows as cells, documents, cases, synthesis, estimate, chart |
| `named`, `candidate`, `rounds` | the issues the composed answer names, the text under review, the reviews so far |
| `output`, `review`, `shown` | the model's selection of documents, how the answer was approved, the answer of the response |

**Abstractions.** A text is what the code's patterns find in it: statements of numbers, with
target, time, form, unit and direction, the digits inside names and dates, and notes, which stand for
names, disclosures and turns of phrase. Numbers are hundredths. What stands "near" a name in the
text (a segment, or 40 characters) is what the statement's target and time say. What a model may compose is any choice of up to two statements
and notes that differ by one from a complete set; a correction differs by one edit.

**Properties.** `ReviewedText`: a composed text is shown only without a blocking warning and
with every flagged topic examined, also when it is a correction of a correction.
`NumbersHold`: its numbers come from the question or the evidence (documents and cases in a
diagnosis only), rounded only where the text announces it, and neither a percentage of a line's
series nor an estimate is told in the opposite direction. It asks what the code checks and no more:
an "about" or a band counts wherever in the answer it announces the same number
(`reflection.py:2110`), the directions of compared bars are not looked at (`reflection.py:1106`),
and without a result row only numbers with a unit are refused (`reflection.py:794`).
`AskedAnswered`: each target, verified case, estimate and gap that was asked for is in it; digits
of a name that read like the value count as it, as in `_value_appears_in_text`. It
says what the code promises and no more: verified cases have to be cited in a diagnosis only,
and an estimate be told only where `_question_requests_impact` finds one asked for, which is
less than what makes the planner add the agent (`planner.py:57`, `planner.py:293`).
`CandidatesEarned`: a strong cause rests on a document and a documented, verified case of its
FAB and time, and a cause of simulated sources alone is not ranked before one with such a case.
The cases are the ones the diagnosis was drawn from: `synthesize_diagnosis` takes the first
three (`DrawnFrom`), and a verified case the search found behind them counts for nothing.
`ImpactBounded`: an estimate is of one target and period, of the only change of its metric,
in its direction. `AxisAccounted`: each place of an axis is observed, filled or told as a gap,
and only one of these. `NoUnverifiedClaim`: a document claim is shown only as it was quoted and
judged. `AnswerGiven`: every request is answered or told that it is not.

**Fairness.** `WF_vars(Next)`: the graph runs its next node, and every model call is bounded
in time.

**Instance.** Twelve questions of every kind, from one target to several, with missing rows,
failed queries, contradicting signs, documents and cases simulated or verified; 57,370
states. Reviews are limited to three and generations to two, as in the code. What a question,
a query, a store and a text may hold is given by constants; `InputAssumption`,
`OutputAssumption` and the assumptions of `CaseDiagnosis` say of which kind: finite, whole
numbers, lists, an issue named once.

**Proofs** (`AnswerPipeline_proofs`): all but `AnswerGiven`, for any questions, evidence, texts,
models and rounds. `PathDecided`: a request is reviewed as a composed or judged as a grounded
answer, never both; `ReviewedText` rests on it. The state is simple; what has to be proved is
what the operators compute. So the invariants say only that a result in the state is still the
operator's value for the inputs in the state, and lemmas about the operators do the rest:

| invariant | says | with the lemmas | theorem |
| --- | --- | --- | --- |
| `EvidenceInv` | chart and estimate are those of the cells that are kept | what an axis is split into; `EstimateOutputDelta` | `AxisToldOnce`, `ImpactInBounds` |
| `DiagnosisInv` | a diagnosis is that of the rows, documents and cases that are kept | what a score is a sum of: at most 3 + 2 + 2 + 4 from simulated sources when a case tells of another cause, at least 12 with a verified case (`CandidatesAreEarned`) | `CandidatesAreEarned` |
| `GroundedInv` | what is judged could be rendered, what is shown is what its review left | `ApplyReview` keeps claims and quotes | `ClaimsVerified` |
| `TextInv` | what is reviewed is a text a model may write | each kind of warning, empty, means its conjunct | `NumbersAreKnown`, `AskedIsAnswered` |

Two notions carry the lemmas. A list is *ordered* by a relation (`InOrder`, in `Ordering`); a
finite set has such a list if the relation is total on it: an element's place is counted from
those ahead of it, and each place is taken once (`EachPlaceTaken`, `Ordered`). And a fold over a
list keeps what each of its steps keeps (`FoldExists`, `FoldRelates`, `FoldHolds`, `SumHolds`),
from which the sums of the code's loops get their bounds.

The proof of `ImpactInBounds` did not go through at first: the model lacked the guard of
`impact.py:198`, which estimates no completed lots from a negative count. The change of a
negative count would have the direction opposite to the one asked about; TLC had not met the
case, as no row of the instance has one.

## 10. The simulated process data: `FabSimulation`

**What it models.** The tables of one FAB that questions are asked of, and the three jobs
that write them: the simulator of raw events
(`src/apps/assistant/scripts/simulate_fab_raw_events.py`), the daily projection
(`project_fab_raw_events_daily.py`) and the writer of two-hour snapshots
(`insert_fab_live_process_snapshot.py`).

| variable | in the code |
| --- | --- |
| `raw`, `incidents`, `state` | `fab_process_raw_events`, `fab_incidents`, the row of `fab_simulation_state` |
| `shots`, `projected`, `detailed` | `live_process_snapshots`; rows of `live_process_events` by who wrote them |
| `marker` | `event_rows` of `fab_projection_runs` |
| `job`, `projector` | the runs under way: what they have read, and the rows their DELETEs have met |
| `runs`, `renewed`, `met` | history: whether runs overlapped or went back; whether the day after was projected later; the days whose projections were deleting at the same time |

Time is counted in intervals of the schedule. Of the numbers of an interval only the
count of intervals the state has taken in is kept. The FABs are independent and are committed
together.

**Transactions.** Each job is one transaction at READ COMMITTED and nothing keeps two jobs
apart, so what another job commits between two statements is seen by the second; each job may
fail instead. The steps of a run are therefore the statements that *meet* committed rows:

* simulator: the two reads (`LoadState`, `ActiveIncident`), then its upserts with the commit
  (`Simulate`), which read nothing and become visible together;
* projection: the SELECT of raw rows (`LoadRawRows`), the DELETE of snapshots (`ClearSnapshots`,
  `project_fab_raw_events_daily.py:269`), the DELETE of events (`ClearEvents`, line 273), and the
  INSERTs with the commit (`ReplaceProjection`). A DELETE removes what was committed when it began;
  it waits for a row that another transaction has deleted and finds it gone after the commit
  (`Ended`). The INSERTs are plain, so a row that was not deleted ends the run (`Insertable`,
  `ProjectionFails`);
* snapshot writer: two upserts with the commit (`InsertLiveSnapshot`). They wait for a projection
  that has deleted their row. Of what the writer reads before them only the weights of the event it
  draws depend, which no property tells apart.

Any number of runs of each job may be under way, two projections of the same day among them.

**Properties.** `StateNamesOpen`: as long as runs do not overlap, however they are repeated,
skipped, filled in later or failed, at most one incident is open and the state names it.
`LifecycleForward`: runs in order take an incident forward only. `LedgerInOrder`: the ledger
tells one story, and the state has taken in each interval once. (Runs that overlap do open two
incidents and lose each other's count: nothing in the code keeps them apart, so the first and the
last are stated of runs that do not.) `EventsExplained`: detail rows
have their snapshot, and a projected snapshot is an incident iff a row of it is, in every order of
the statements of the three jobs. Two projections that are deleting at the same time can leave a
snapshot without its rows, in an interval both clear: the midnight of two adjacent days, or one
day twice; they cannot leave it with some of them. `ProjectionKept`: the rows of a projected day
stay, as many as its marker says, until the day after is projected, also beside the projection of
another day; two projections of the same day at once can leave rows of both.

**Instances.** `fab_simulation`: three runs of the simulator and two of the projection over four
days of one interval, one type of incident that lasts one interval and recovers in one: an incident
starts, ends and recovers, with repeated and skipped runs, and is followed by another in a late one. The
constraint `TwoBesideTables` bounds what happens beside the jobs that write the asked tables: two
runs of the simulator one after the other, the first two days (which share a midnight, where the snapshot writer writes
too) and the shortest incidents; without a projection or a snapshot nothing is bounded but by the
constants. 989,116 states, deadlock is checked.

**Finding** (`fab_projection`, `ProjectedDayKept`): projecting a day deletes the last interval
of the day before, because `replace_projection` clears `interval_end` between the ends of the
day, both included, and `load_raw_rows` selects by `event_time`: the rows of the interval that
ends at midnight are deleted and not written again, while `fab_projection_runs` still counts
them.

**Proofs** (`FabSimulation_proofs`): the types, `StateNamesOpen`, `EventsExplained`,
`ProjectionKept`, `LifecycleForward` and `LedgerInOrder`, for any number of runs of the simulator and
the projection, intervals, types, durations and any length of a day. `IInv` adds `ReadsOK` and `AloneReads` (a run no other has overlapped
has read what still is), `OrderKept` (in order, what is open started before the last interval,
and what recovers was to be over), `RowsOfOneDay`, `FiniteTables`, and `DeletesOK`, which relates
what a projection has met to the tables as they are by now: it is still there and of the cleared
range (`OwnRange`), no two runs delete the same snapshot (`MetApart`), with a snapshot all its rows
are deleted and with a row its whole interval (`RowsWithShots`), and nothing of the day has come up
behind a run but by one it met (`NothingNew`). `LedgerInOrder` is a second
induction over it with `LedgerPast`: in order, the ledger has no interval after the last one,
so the interval a run adds is new and the count of distinct intervals grows with the counter.

## 11. What is proved, checked and left out

| module | proved by TLAPS for all constants | only model-checked |
| --- | --- | --- |
| `AgentGraph` | `TypeOK`, `BudgetsKept`, `PlacesAgree`, `SuccessEarned`, `EveryStepRuns` (one alternate), `NothingStale` (one alternate, two retries) | `Terminates` |
| `FeedbackStore` | `TypeOK`, `ReviewsRestOnVotes`, `VotesKept`, `AuditExplains` | - |
| `ChatSession` | `TypeOK`, `AnswersKept`, `MemoryFollowsStore`, `SeesEarlierAnswers`, `ShownVoteStored`, `ConversationDurable` | - |
| `ConversationScope` | `ScopeAsMeant` | - |
| `ModelTransport` | `TypeOK`, `NoneClosedInUse`, `NoneLeftOpen`, `BrokenNotCalled`, `SilentAfterCancel` | `ClosedInTheEnd` |
| `Text2Sql` | `TypeOK`, `CheckedInItsAttempt`, `RowsInScope`, `KeepsPromise` | `Terminates` |
| `RagIndex`, `DocumentSearch` | `IndexTypeOK`, `PublishedWhole`, `DocumentsWhole`, `HybridWhole`, `EvidenceSound` | - |
| `AnswerPipeline` | `ReviewedText`, `PathDecided`, `NumbersHold`, `AskedAnswered`, `CandidatesEarned`, `ImpactBounded`, `AxisAccounted`, `NoUnverifiedClaim` | `AnswerGiven` |
| `FabSimulation` | `TypeOK`, `StateNamesOpen`, `EventsExplained`, `ProjectionKept`, `LifecycleForward`, `LedgerInOrder` | - |

The type invariants of modules with a proof are proved, which says more than a run, and are in
no configuration; that of `ConversationScope` is part of `ScopeAsMeant`. Two modules share
`Question_proofs`: what a data question is about and how it is answered.

The proofs assume what the modules' `ASSUME`s say and nothing else; TLC evaluates those on
every run. No module with a theorem reaches a `RECURSIVE` operator.

Out of the prover's reach, and left to TLC: liveness under fairness and `ENABLED`
(`Terminates`, `ClosedInTheEnd`, `AnswerGiven`). No safety property that a run checks is left
to TLC alone. Of induction over data the part about *lists* is within reach: a fold
of the community modules is a function on the natural numbers defined by recursion, whose
existence and values follow from the least number principle, which needs no operator as a
parameter (`Least`, `Climb`, `FoldExists`, `FoldHolds` in `AnswerPipeline_proofs`,
`DocumentSearch_proofs` and `Question_proofs`). So is a recursive function over runs that says
what a property means (`FabMeant`, `KeyMeant`): where a solution exists it is the only one. `SelectSeq` and
`SortSeq` are opaque to the provers; where a proof needs them the models say what they mean
with `Filtered` and `InOrder` (`Ordering`), definitions by what the list is. One trap of the
tools: `tlapm` reads `UNION S \cup T` as `UNION (S \cup T)` and TLC as `(UNION S) \cup T`, so
the models write the parentheses. Another is a `CASE` whose conditions overlap: TLC takes the
first arm, the logic any; where the order of the code's tests matters the models write `IF`.

Not modelled, with the reason:

* **Workspace storage across tabs** (`src/apps/web/src/workspace-storage.js`). A save reads,
  merges and writes the list of conversations in one transaction of the browser. Of two stale
  copies of a conversation the later `updatedAt` wins with all its messages, by design, so an
  edit in a stale tab hides an answer another tab received later; the answer is still on the
  server. A model would state this rule and nothing else. The saved copy of one page is in
  `ChatSession`.
* **Result delivery and facts**, **answer presentation**, **few-shot examples**: computed
  once from rows or examples that are final; no state. Which examples may be approved is in
  `FeedbackStore`.
* **Application, settings, readiness**: wiring; the probe is one read-only transaction.
* **Charts, tables and reports of the web client; the Streamlit client**: drawing; the
  latter uses the same API, one request at a time.
* **Staging loads and migrations, evaluation and audit tools**: started once by an
  operator, each in one transaction; not part of the running system.

Inside the modelled components: trace events and token counts, which no control depends on;
several conversations in one page; `clear` and `attach_feedback`, which only tests and the
configuration without a store reach; clients the garbage collector releases; the patterns
that recognise something in a text (what they recognise is an input); the composer's early
returns for a request that needs clarification, in `AnswerPipeline` (they are in
`AgentGraph`).

## 12. Promises the code does not keep

Two runs are expected to find a violation: `agent_graph_replan_once` (section 2) and
`fab_projection` (section 10). The properties below state what a document, a comment or the
interface says and the code does otherwise. They are in no configuration; each fails when it
is added to the configuration of its module as an `INVARIANT`.

| property | what is said | what the code does |
| --- | --- | --- |
| `PartsCurrent` (`AgentGraph`) | `src/docs/planner_supervisor_hackathon_20260908.md`: nothing of an earlier attempt is in the answer | the summary of a failed document search stays in `answer_parts` when the search is repeated |
| `ConsumersRecomputed` (`AgentGraph`) | the same document: consumers of a renewed result are computed again | the final reflection re-runs a document search of the plan and queues its case search (`agents/graph.py:1084`); a `compose` after that run empties the queue (`agents/graph.py:1221`) |
| `RetryRuns` (`AgentGraph`) | `src/docs/agent_handover_2026-09-07.md:460`: `retry_same_agent` runs the agent again | the retry of an agent outside the plan is charged (`agents/graph.py:1222`), entered and skipped (`agents/graph.py:1428`) |
| `StepsKept` (`AgentGraph`) | `src/docs/development_todo.md:562`: after a retry consumers are computed again and no step goes missing | the final reflection of a query that failed re-runs an agent with a new queue (`agents/graph.py:1084`); its run clears `halted` (`agents/graph.py:528`), and the steps behind the query never run |
| `SynthesisCurrent` (`AgentGraph`) | `src/docs/planner_supervisor_hackathon_20260908.md:44`: consumers of a renewed result are computed again | a diagnosis plan that is not ready has no steps; the final reflection may still run its agents one by one, and a diagnosis made on the way stays when a later result is added |
| `ApprovedAsInspected` (`FeedbackStore`) | `src/docs/feedback_few_shot.md:85`: the reviewer checks the vote's comment first | `review_example` (`services/state_store.py:236`) gets the message id alone; a comment that arrives between `inspect` and `approve` is approved unseen |
| `RetryInSameConversation` (`ChatSession`) | `src/docs/frontend_adv_review.md:97`: the retry keeps the conversation id | `src/apps/web/src/chat-model.js:89` repeats the payload of the first sending, which had none, although the page has learnt the id since |
| `SameContext` (`ConversationScope`) | `agents/intent.py:253`: the same grounded context drives tools and the next turn | `append_exchange` (`conversation_memory.py:155`) extracts areas and period from the question again, without the run's FAB |
| `VerifiedReachesDiagnosis` (`AnswerPipeline`) | `src/docs/architecture.md:341`: a verified case of equal relevance does not disappear from the diagnosis | the case search reserves the slot, `synthesize_diagnosis` then takes the first three cases |
| `NoNewHypothesis` (`AnswerPipeline`) | `agents/supervisor.py:469`: a reviewer adds no hypothesis | the checks after a correction (`agents/supervisor.py:390`) do not look for one |

Met on the way and stated nowhere else: the document search applies eligibility before the
lexical selection, as a comment in `rag/search.py` says, but filters the dense candidates after
the collection's limit has cut them; `_exact_lookup` tells an id as missing when the passage
that has it was already chosen for another id; a procedure named beside a topic is not told
when it has no passage (`rag/search.py:311`); two projections of adjacent
days that overlap leave the midnight snapshot without its event rows, and two of one day may
leave it so for any interval (section 10); a vote the browser gave up may overtake a later one
(section 4). The checks of an answer compare a stated direction with the trend only for the
percentage exactly as printed, and with the bars of a chart not at all; an "about" frees the same
number everywhere in the answer, and the digits of a name count as a value under it
(`sub_agent/reflection.py:2222`).

Hazards without a property because the code has no state to state it of: the stream's `except`
(`api/routes.py:222`) does not list `sqlite3.Error`, so a store that fails ends the stream
without a final event (an ending `ChatSession` has: `BreakOff`); conversations are never
dropped from the memory, only their turns are bounded (`conversation_memory.py:84`); the
repair of votes runs in a process of its own and a running server keeps the links it read
(`feedback_repair.py:13`).

## 13. What is left

1. `ConversationScope`: the inherited metrics and the date basis.
2. Several conversations and several tabs of one browser, if the storage gets a rule of its
   own for them.
