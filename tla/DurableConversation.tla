------------------------- MODULE DurableConversation -------------------------
(***************************************************************************)
(* What conversations with the assistant promise, with neither the server's*)
(* memory nor the browser's retries in between: a run is given the newest  *)
(* answers its conversation has when it begins, its answer is kept once, in*)
(* that conversation, or not at all, a vote changes a kept answer's opinion*)
(* and nothing else, and a page shows kept answers of one conversation.    *)
(* ChatSession implements it.                                              *)
(***************************************************************************)
EXTENDS Naturals, Sequences

CONSTANTS
  Answers,        \* runs, and the answer each may give
  Conversations,
  Opinions,       \* what a vote can say
  Window          \* answers a run is given

VARIABLES
  kept,   \* the answers of each conversation with their opinions, oldest first
  runs,   \* what each run does
  shown   \* answers the page shows as complete

vars == <<kept, runs, shown>>

\* The newest answers, as many as a run is given.
Newest(answers) ==
  LET older == IF Len(answers) > Window THEN Len(answers) - Window ELSE 0
  IN  [k \in 1..(Len(answers) - older) |-> answers[older + k].answer]

Init ==
  /\ kept = [c \in Conversations |-> <<>>]
  /\ runs = [i \in Answers |-> [state |-> "idle"]]
  /\ shown = {}

Begin(i) ==
  /\ runs[i].state = "idle"
  /\ \E c \in Conversations :
       runs' = [runs EXCEPT ![i] = [state |-> "working", conversation |-> c, given |-> Newest(kept[c])]]
  /\ UNCHANGED <<kept, shown>>

Answer(i) ==
  /\ runs[i].state = "working"
  /\ kept' = [kept EXCEPT ![runs[i].conversation] = Append(@, [answer |-> i, opinion |-> "none"])]
  /\ runs' = [runs EXCEPT ![i] = [state |-> "over"]]
  /\ UNCHANGED shown

\* Some runs end without an answer: one fails, or the server stops.
GiveUp ==
  /\ \E some \in SUBSET Answers :
       runs' = [i \in Answers |-> IF i \in some THEN [state |-> "over"] ELSE runs[i]]
  /\ UNCHANGED <<kept, shown>>

Vote ==
  /\ \E c \in Conversations : \E n \in DOMAIN kept[c], opinion \in Opinions :
       kept' = [kept EXCEPT ![c][n].opinion = opinion]
  /\ UNCHANGED <<runs, shown>>

\* The page shows other answers than before: a new one, or those of a saved copy.
Show ==
  /\ \E c \in Conversations : shown' \subseteq {kept[c][n].answer : n \in DOMAIN kept[c]}
  /\ UNCHANGED <<kept, runs>>

Next == (\E i \in Answers : Begin(i) \/ Answer(i)) \/ GiveUp \/ Vote \/ Show

Spec == Init /\ [][Next]_vars

=============================================================================
