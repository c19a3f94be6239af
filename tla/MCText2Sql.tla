----------------------------- MODULE MCText2Sql -----------------------------
(***************************************************************************)
(* Instance of Text2Sql for TLC.                                           *)
(***************************************************************************)
EXTENDS Text2Sql

\* One family of each kind the code treats differently.
ThreeFamilies == {"live_process_snapshots", "autosched_perf", "toolgroups"}

KindOf == [x \in ThreeFamilies |->
  CASE x = "live_process_snapshots" -> "simulation_snapshot"
    [] x = "autosched_perf" -> "operational_report"
    [] OTHER -> "model_master"]

\* One FAB, named by the question, the request or an earlier question.
OneFab(type, words) ==
  [compared |-> << >>, fab |-> "fab10", type |-> type, words |-> words]

Compare(fabs, words) ==
  [compared |-> fabs, fab |-> "none", type |-> "status", words |-> words]

\* Each pattern by itself and those that meet, no FAB, and comparisons.
Asked ==
  {OneFab("status", w) : w \in {{"change"}, {"unclear"}, {"product"}, {"stock_total"}, {"line"},
                                {"snapshot"}, {"queue"}, {"queue", "simulation"}, {"record"},
                                {"table"}, {}}}
  \cup {OneFab("trend", w) : w \in {{"periods"}, {"aggregate", "periods"}, {"snapshot"}}}
  \cup {OneFab("master_data_lookup", w) : w \in {{"counts"}, {}, {"aggregate"}}}
  \cup {OneFab("unsupported", {}), [OneFab("status", {}) EXCEPT !.fab = "none"]}
  \cup {Compare(<<"fab10", "fab11">>, w) : w \in {{"snapshot"}, {"snapshot", "record"}, {"periods"}}}
  \cup {Compare(<<"fab10", "fab99">>, {"snapshot"})}

\* fab10 may have all of them, fab11 the one that is compared.
FourTables == {"fab10"} \X ThreeFamilies \cup {<<"fab11", "live_process_snapshots">>}


AnyTables == SUBSET FourTables

=============================================================================
