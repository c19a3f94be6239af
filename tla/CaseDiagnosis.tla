--------------------------- MODULE CaseDiagnosis ---------------------------
(***************************************************************************)
(* Past incidents and the diagnosis drawn from them, as operators: the     *)
(* search of the case store (sub_agent/case_search.py) and the synthesis   *)
(* of observations, documents and cases (sub_agent/diagnosis.py).          *)
(*                                                                         *)
(* A case has a number match for the terms its text shares with the        *)
(* question, a document the score of its retrieval.  Scores are integers:  *)
(* fifths in the case search, quarters in the synthesis.                   *)
(***************************************************************************)
EXTENDS Integers, FiniteSets, SequencesExt, Ordering

CONSTANTS
  IssueOrder,   \* the diagnostic issue types, in the order of their names
  Covers,       \* Covers[i]: the issue types of cases a question about i is about
  Marks,        \* Marks[i]: the result columns that show issue i
  CaseLimit,    \* top_k: the cases searched for
  CauseLimit    \* how many documents and how many cases a diagnosis takes

\* 5 and 3 in the code.  A verified case outweighs what is simulated as long as
\* no more than three documents and three cases are summed.
ASSUME CaseAssumption == CaseLimit \in Nat \ {0} /\ CauseLimit \in 1..3

\* Each issue has its place.
ASSUME IssueAssumption == IssueOrder \in Seq(ToSet(IssueOrder)) /\ IsInjective(IssueOrder)

None == "none"
Issues == ToSet(IssueOrder)
Place(issue) == CHOOSE k \in DOMAIN IssueOrder : IssueOrder[k] = issue
Cut(seq, n) == SubSeq(seq, 1, IF Len(seq) < n THEN Len(seq) ELSE n)

-----------------------------------------------------------------------------
(* The case store and its search. *)

\* _validate_case_record, for the whole store: one record that may not be
\* trusted, and none is.
StoreValid(store) ==
  /\ store # << >>
  /\ \A m, n \in DOMAIN store : store[m].id = store[n].id => m = n
  /\ \A n \in DOMAIN store : store[n].verified => store[n].documented

\* An issue is negated when every mention of it is.
NegatedIssues(q) == {m[1] : m \in q.mentions} \ {m[1] : m \in {x \in q.mentions : x[2]}}
QueryIssues(q) == {m[1] : m \in q.mentions} \ NegatedIssues(q)
IssueMatches(intents, issue) == \E i \in intents : issue \in Covers[i]

\* A fault: the FAB is not compared.
TargetMatchesAnyFab(q, case) ==
  /\ None \in {q.equipment, case.equipment} \/ q.equipment = case.equipment
  /\ None \in {q.process, case.process} \/ q.process = case.process

\* What both the question and the case name has to be the same.
TargetMatches(q, case) ==
  /\ None \in {q.fab, case.fab} \/ q.fab = case.fab
  /\ None \in {q.equipment, case.equipment} \/ q.equipment = case.equipment
  /\ None \in {q.process, case.process} \/ q.process = case.process

TemporalAlignment(q, case) ==
  IF q.days = {} \/ case.day = None THEN "unspecified"
  ELSE IF case.day \in q.days THEN "aligned" ELSE "historical"

\* _score_case: zero for a case about something else or sharing no sign of an
\* incident; a case of another time counts four fifths.
AboutOther(q, case) ==
  \/ ~TargetMatches(q, case)
  \/ QueryIssues(q) # {} /\ case.issue # None /\ ~IssueMatches(QueryIssues(q), case.issue)
CaseScore(q, case) ==
  IF AboutOther(q, case) THEN 0
  ELSE (IF TemporalAlignment(q, case) = "historical" THEN 4 ELSE 5)
       * (case.match + IF IssueMatches(QueryIssues(q), case.issue) THEN 5 ELSE 0)

\* Best first, of equals the one verified last, then the order of the store.
Ahead(q, store, m, n) ==
  \/ CaseScore(q, store[m]) > CaseScore(q, store[n])
  \/ /\ CaseScore(q, store[m]) = CaseScore(q, store[n])
     /\ \/ store[m].stamp > store[n].stamp
        \/ store[m].stamp = store[n].stamp /\ m < n
RankedCases(q, store) ==
  InOrder({n \in DOMAIN store : CaseScore(q, store[n]) > 0}, LAMBDA m, n : Ahead(q, store, m, n))

\* _select_ranked_cases: the best verified case that is three quarters as good
\* as the last one chosen takes its place if there is no verified one.
Replaces(q, store, chosen, verified) ==
  /\ chosen # << >> /\ verified # << >>
  /\ \A n \in ToSet(chosen) : ~store[n].verified
  /\ 4 * CaseScore(q, store[verified[1]]) >= 3 * CaseScore(q, store[Last(chosen)])
WithVerified(q, store, chosen, verified) ==
  IF Replaces(q, store, chosen, verified) THEN Append(Front(chosen), verified[1]) ELSE chosen
SelectRanked(q, store, ranked) ==
  WithVerified(q, store, Cut(ranked, CaseLimit), Filtered(ranked, LAMBDA n : store[n].verified))
CasesAt(store, chosen) == [k \in DOMAIN chosen |-> store[chosen[k]]]

-----------------------------------------------------------------------------
(* The synthesis. *)

\* _diagnostic_issue_type: the issue a name stands for, if it is one.
Diagnostic(issue) == {IF issue = "station_down" THEN "equipment_down" ELSE issue} \cap Issues

\* What a document counts for: the issues of the question it matched, else
\* those it declares.
DocumentIssues(doc) == UNION {Diagnostic(i) : i \in IF doc.asked THEN doc.matched ELSE doc.declared}
KnowledgeReliability(doc) == IF doc.simulated THEN "simulation_reference" ELSE "guidance_only"

\* A fault: the time of a verified case is not looked at.
ReliabilityAnyTime(q, case) == IF case.verified THEN "verified_analogy" ELSE "simulation_only"

\* _case_reliability, of a case of a valid store.
CaseReliability(q, case) ==
  IF ~case.verified THEN "simulation_only"
  ELSE IF TemporalAlignment(q, case) = "historical" THEN "verified_historical_analogy"
  ELSE "verified_analogy"
Verified == {"verified_analogy", "verified_historical_analogy"}

\* A fault: simulated cases and documents weigh as much as unverified ones.
WeightDoubled(reliability) ==
  CASE reliability = "verified_analogy" -> 12 [] reliability = "verified_historical_analogy" -> 6
    [] reliability = "guidance_only" -> 4 [] OTHER -> 2
Weight(reliability) ==
  CASE reliability = "verified_analogy" -> 12 [] reliability = "verified_historical_analogy" -> 6
    [] reliability = "guidance_only" -> 4 [] OTHER -> 1

\* The documents that may name causes, and the cases of a diagnostic issue.
Causes(docs) ==
  LET named == Filtered(docs, LAMBDA d : DocumentIssues(d) # {} /\ d.aligned)
  IN  Cut([k \in DOMAIN named |->
             [issues |-> DocumentIssues(named[k]), reliability |-> KnowledgeReliability(named[k]),
              score |-> named[k].score]], CauseLimit)
SimilarCases(q, found) ==
  LET fit == Filtered(found, LAMBDA c : Diagnostic(c.issue) # {})
  IN  Cut([k \in DOMAIN fit |->
             [id |-> fit[k].id, issues |-> Diagnostic(fit[k].issue), cause |-> fit[k].cause,
              reliability |-> CaseReliability(q, fit[k]), score |-> CaseScore(q, fit[k])]], CauseLimit)

\* Verified cases of one issue that tell different causes.
VerifiedOf(cases, issue) ==
  {c \in ToSet(cases) : issue \in c.issues /\ c.reliability \in Verified}
Conflicts(cases) == {i \in Issues : Cardinality({c.cause : c \in VerifiedOf(cases, i)}) > 1}

Of(seq, issue) == Filtered(seq, LAMBDA item : issue \in item.issues)
Total(seq) == FoldLeft(LAMBDA sum, item : sum + Weight(item.reliability), 0, seq)
TopScore(seq) == FoldLeft(LAMBDA top, item : IF item.score > top THEN item.score ELSE top, 0, seq)

\* One candidate of _rank_candidates; both are the documents and cases for it.
Level(issue, shown, docs, cases, conflicts) ==
  LET verified == \E c \in ToSet(cases) : c.reliability = "verified_analogy"
  IN  IF issue \in conflicts THEN "conflicting_candidate"
      ELSE IF verified /\ docs # << >> THEN "strong_candidate"
      ELSE IF verified \/ shown THEN "moderate_candidate" ELSE "weak_candidate"
Candidate(issue, shown, docs, cases, conflicts) ==
  [issue |-> issue,
   score |-> Total(docs) + Total(cases) + (IF shown THEN 2 ELSE 0)
             + (IF docs # << >> /\ cases # << >> THEN 4 ELSE 0),
   top |-> TopScore(docs \o cases),
   sources |-> (IF docs # << >> THEN {"document"} ELSE {}) \cup (IF cases # << >> THEN {"case"} ELSE {}),
   level |-> Level(issue, shown, docs, cases, conflicts)]
Outranks(a, b) ==
  \/ a.score > b.score
  \/ a.score = b.score /\ (a.top > b.top \/ (a.top = b.top /\ Place(a.issue) < Place(b.issue)))
Rankings(columns, causes, cases) ==
  InOrder({Candidate(i, Marks[i] \cap columns # {}, Of(causes, i), Of(cases, i), Conflicts(cases)) :
             i \in {x \in Issues : Of(causes, x) # << >> \/ Of(cases, x) # << >>}},
          Outranks)

EvidenceConsistency(rankings) ==
  LET both == {k \in DOMAIN rankings : Cardinality(rankings[k].sources) > 1}
  IN  IF rankings = << >> THEN "insufficient"
      ELSE IF \E c \in ToSet(rankings) : c.level = "conflicting_candidate" THEN "verified_case_conflict"
      ELSE IF Len(rankings) = 1 THEN IF both # {} THEN "aligned" ELSE "single_hypothesis"
      ELSE IF both # {} THEN "partially_aligned" ELSE "competing_hypotheses"

\* synthesize_diagnosis, with the columns of the rows that were returned.
Synthesis(columns, causes, cases) ==
  [causes |-> causes, cases |-> cases, conflicts |-> Conflicts(cases),
   rankings |-> Rankings(columns, causes, cases),
   consistency |-> EvidenceConsistency(Rankings(columns, causes, cases)),
   missing |-> (IF columns = {} THEN {"observation"} ELSE {})
               \cup (IF causes = << >> THEN {"document"} ELSE {})
               \cup (IF cases = << >> THEN {"case"} ELSE {})]

=============================================================================
