---------------------------- MODULE MCAgentGraph ----------------------------
(***************************************************************************)
(* Values of the constants of AgentGraph for TLC: which statuses the runs  *)
(* of the five agents may end with.                                        *)
(***************************************************************************)
EXTENDS AgentGraph

\* Every agent may succeed or not; visualization may refuse its chart.
SucceedOrFail ==
  [text2sql |-> {"succeeded", "failed"}, rag |-> {"succeeded", "failed"},
   case_search |-> {"succeeded", "failed"}, impact |-> {"succeeded", "data_unavailable"},
   visualization |-> {"succeeded", "data_unavailable"}]

\* The query succeeds and the document search may fail; the reviews may still
\* ask for retries, replans and alternates at every point, which is what makes
\* a request long.
SearchMayFail ==
  [text2sql |-> {"succeeded"}, rag |-> {"succeeded", "failed"}, case_search |-> {"succeeded"},
   impact |-> {"succeeded", "data_unavailable"}, visualization |-> {"succeeded"}]

=============================================================================
