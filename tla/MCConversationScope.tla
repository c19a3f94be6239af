-------------------------- MODULE MCConversationScope --------------------------
(***************************************************************************)
(* Instance of ConversationScope for TLC: two FABs with data and one       *)
(* without, two areas, and one question for each way to name, to leave out *)
(* or to refer to a part of the scope.                                     *)
(***************************************************************************)
EXTENDS ConversationScope

CONSTANTS f1, f2, f9, etch, photo, line1, line2, product1, tool1, week1

BothFabs == {f1, f2}
BothAreas == {etch, photo}

Nothing ==
  [fabs |-> <<>>, compares |-> FALSE, areas |-> {}, those |-> "none",
   whole |-> FALSE, byArea |-> FALSE, likewise |-> FALSE, continues |-> FALSE, now |-> FALSE,
   period |-> None, line |-> None, product |-> None, equipment |-> None]

InFull ==
  [Nothing EXCEPT !.fabs = <<f2>>, !.areas = {etch}, !.period = week1,
                  !.line = line2, !.product = product1, !.equipment = tool1]

\* "Then" keeps areas and period, "the same" the areas only.
FollowUp == [Nothing EXCEPT !.likewise = TRUE, !.continues = TRUE]

AskedQuestions ==
  {InFull,
   FollowUp,
   [Nothing EXCEPT !.likewise = TRUE],
   [Nothing EXCEPT !.fabs = <<f9>>],
   [Nothing EXCEPT !.fabs = <<f1, f2>>],
   [Nothing EXCEPT !.compares = TRUE],
   [Nothing EXCEPT !.areas = {etch, photo}, !.period = week1],
   [Nothing EXCEPT !.continues = TRUE, !.now = TRUE, !.byArea = TRUE, !.equipment = tool1],
   [Nothing EXCEPT !.whole = TRUE, !.fabs = <<f2>>],
   [Nothing EXCEPT !.those = "one"],
   [Nothing EXCEPT !.those = "all"]}

\* A conversation longer than the memory: one question in full, then follow-ups.
FollowedQuestions == {InFull, FollowUp}

PagePanels ==
  {[fab |-> f1, line |-> line1, process |-> None],
   [fab |-> None, line |-> None, process |-> photo]}

=============================================================================
