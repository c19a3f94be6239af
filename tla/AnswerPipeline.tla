--------------------------- MODULE AnswerPipeline ---------------------------
(***************************************************************************)
(* From the evidence of a request to the answer that is shown              *)
(* (agents/graph.py from _text2sql_node to _answer_supervisor_node,        *)
(* review_final_answer in agents/supervisor.py, compose_grounded in        *)
(* rag/grounding.py).                                                      *)
(*                                                                         *)
(* The agents of the plan add to the evidence in their order.  Of          *)
(* documents alone a grounded answer is generated and judged claim by      *)
(* claim.  Any other answer is composed by a model, checked by             *)
(* AnswerChecks and judged by another model, which may also correct it:    *)
(* a correction that is clean is shown, any other is reviewed in its turn. *)
(***************************************************************************)
EXTENDS AnswerChecks, GroundedAnswer

CONSTANTS
  Questions,      \* the requests that are asked
  Results(_),     \* what a query for a request may return
  Retrieved(_),   \* what the document search for it may return
  Stores(_),      \* what the case store may hold
  Answers(_),     \* the texts a model may compose for a request
  Revisions(_, _), \* the corrections it may write of one of them
  Outputs,        \* what a model may select of documents
  Reviews,        \* the reviews of such a selection
  MaxReviews,     \* 3: of one answer
  MaxGenerations, \* 2: of one grounded answer
  Withheld,       \* shown: the notice that no answer passed its review
  Rejected        \* shown: the notice that the documents were not quoted soundly

ASSUME PipelineAssumption == MaxReviews \in Nat \ {0} /\ MaxGenerations \in Nat \ {0}

\* Numbers are whole hundredths; what a question, a query and a text hold is
\* finite, a change is written without its sign, a store, the documents of a
\* search and what counts in them are lists with numbers to be ordered by, and
\* the claims of a selection are a list.
PhraseType(phrase) ==
  /\ phrase.value \in Nat /\ phrase.sign \in {-1, 0, 1} /\ phrase.words \subseteq {-1, 1}
  /\ IsFiniteSet(phrase.metrics)
CellsType(cells) == IsFiniteSet(cells) /\ \A c \in cells : c.value \in Int /\ c.at \in Int
DocsType(docs) == IsList(docs) /\ \A k \in DOMAIN docs : docs[k].score \in Int
StoreType(store) ==
  IsList(store) /\ \A n \in DOMAIN store :
                     store[n].match \in Nat /\ store[n].stamp \in Int /\ store[n].numbers \subseteq Int
TextType(text) == (\A s \in text.says : s.value \in Int) /\ \A d \in text.digits : d.value \in Int
ASSUME InputAssumption ==
  \A r \in Questions :
    /\ \A k \in DOMAIN r.phrases : PhraseType(r.phrases[k])
    /\ r.numbers \subseteq Int /\ IsFiniteSet(r.expected) /\ r.expected \subseteq Int
    /\ \A result \in Results(r) :
         CellsType(result.cells) /\ result.summary \subseteq Int /\ result.compared \subseteq Int
    /\ \A found \in Retrieved(r) : DocsType(found.docs) /\ found.numbers \subseteq Int
    /\ \A store \in Stores(r) : StoreType(store)
    /\ \A text \in Answers(r) : TextType(text) /\ Revisions(r, text) \subseteq Answers(r)
ASSUME OutputAssumption == \A o \in Outputs : IsList(o.claims)

VARIABLES
  request,    \* the question and its plan
  evidence,   \* evidence, limitations and chart of the state
  todo,       \* the agents of the plan that have not run
  phase,      \* "tools", "compose", "review", "generate", "judge" or "done"
  named,      \* the issues the composed answer names
  candidate,  \* the text under review
  rounds,     \* reviews, or generations of a grounded answer
  output,     \* what the model selected of the documents
  review,     \* how the answer was approved, with the topics examined for it
  shown       \* the answer of the response
vars == <<request, evidence, todo, phase, named, candidate, rounds, output, review, shown>>

-----------------------------------------------------------------------------
(* The evidence. *)

NoEvidence ==
  [sql |-> "none", cells |-> {}, summary |-> {}, compared |-> {}, noted |-> {},
   limited |-> FALSE, unavailable |-> {}, master |-> FALSE,
   bases |-> {}, sources |-> {}, docs |-> << >>, cases |-> << >>, topics |-> {}, limitations |-> FALSE,
   synthesis |-> Absent, impact |-> Absent, chart |-> Refused]

\* The agents take their turns in the order of the graph.
Order == <<"text2sql", "rag", "case_search", "impact", "visualization">>
Turn(agent) ==
  /\ phase = "tools" /\ agent \in todo
  /\ \A k, n \in DOMAIN Order : (Order[n] = agent /\ k < n) => Order[k] \notin todo

\* The rows come with a summary of their metrics and a comparison of two FABs, of
\* which the numbers count here.  A query that failed stops the plan, except of
\* a diagnosis.
RunText2Sql ==
  /\ Turn("text2sql")
  /\ \E result \in Results(request) :
       /\ evidence' = [evidence EXCEPT !.sql = result.sql, !.cells = result.cells,
            !.summary = result.summary, !.compared = result.compared, !.limited = result.limited, !.unavailable = result.unavailable, !.master = result.master,
            !.limitations = @ \/ result.sql = "failed" \/ result.unavailable # {}]
       /\ todo' = IF result.sql = "failed" /\ request.kind # "diagnosis" THEN {} ELSE todo \ {"text2sql"}
  /\ UNCHANGED <<request, phase, named, candidate, rounds, output, review, shown>>

\* _rag_node: no document is a limitation, and so is a simulated one and, in a
\* diagnosis, a playbook.
RunRag ==
  /\ Turn("rag")
  /\ \E found \in Retrieved(request) :
       evidence' = [evidence EXCEPT !.docs = found.docs, !.sources = found.sources, !.bases = found.bases,
         !.topics = @ \cup found.topics, !.noted = @ \cup found.numbers,
         !.limitations = \/ @ \/ found.sources = {}
                         \/ \E d \in ToSet(found.docs) : d.simulated
                         \/ request.kind = "diagnosis" /\ "incident_playbook" \in found.bases]
  /\ todo' = todo \ {"rag"}
  /\ UNCHANGED <<request, phase, named, candidate, rounds, output, review, shown>>

\* _case_search_node: a store that may not be trusted gives no case, and the
\* diagnosis is drawn from what there is.
Ranked(q, store) == IF StoreValid(store) THEN RankedCases(q, store) ELSE << >>
Columns == {c.metric : c \in evidence.cells}
RunCaseSearch ==
  /\ Turn("case_search")
  /\ \E q \in {request.q}, store \in Stores(request), causes \in {Causes(evidence.docs)} :
     \E ranked \in {Ranked(q, store)} :
     \E found \in {CasesAt(store, SelectRanked(q, store, ranked))} :
     \E cases \in {SimilarCases(q, found)} :
       evidence' = [evidence EXCEPT
         !.cases = found,
         !.synthesis = Synthesis(Columns, causes, cases),
         !.topics = @ \cup {c.issue : c \in ToSet(found)},
         !.noted = @ \cup UNION {c.numbers : c \in ToSet(found)},
         !.limitations = @ \/ found = << >>]
  /\ todo' = todo \ {"case_search"}
  /\ UNCHANGED <<request, phase, named, candidate, rounds, output, review, shown>>

\* _impact_node: what is not calculated is a limitation.
NotCalculated(impact) ==
  \/ impact.estimates = {} \/ impact.mixed # {}
  \/ \E k \in DOMAIN impact.changes : impact.changes[k].metric # "utilization" \/ k \notin Calculable(impact.changes)
RunImpact ==
  /\ Turn("impact")
  /\ evidence' = [evidence EXCEPT !.impact = EstimateOutputDelta(request.phrases, evidence.cells),
       !.limitations = @ \/ NotCalculated(EstimateOutputDelta(request.phrases, evidence.cells))]
  /\ todo' = todo \ {"impact"}
  /\ UNCHANGED <<request, phase, named, candidate, rounds, output, review, shown>>

\* _visualization_node: nothing is drawn without rows; a refused chart, a gap
\* and a series with too few points are limitations.
ChartRows == {[at |-> c.at, series |-> <<c.target, c.metric>>, value |-> c.value] : c \in evidence.cells}
Drawn == IF request.chart = "line" THEN Line(ChartRows, request.expected, request.zeroFill) ELSE Bars(ChartRows)
ChartLimited(chart) ==
  \/ chart = Refused
  \/ "gaps" \in DOMAIN chart /\ chart.gaps # {}
  \/ "coverage" \in DOMAIN chart /\ \E c \in chart.coverage : c.assessment = "insufficient"
RunVisualization ==
  /\ Turn("visualization")
  /\ evidence' = IF evidence.cells = {} THEN evidence
                 ELSE [evidence EXCEPT !.chart = Drawn, !.limitations = @ \/ ChartLimited(Drawn)]
  /\ todo' = todo \ {"visualization"}
  /\ UNCHANGED <<request, phase, named, candidate, rounds, output, review, shown>>

-----------------------------------------------------------------------------
(* The composed answer and its review. *)

\* uses_document_grounding: no other tool has given a fact.
UsesDocuments ==
  /\ request.kind = "knowledge_lookup" \/ "rag" \in request.agents
  /\ evidence.sql # "succeeded" /\ evidence.synthesis = Absent
  /\ evidence.impact = Absent /\ evidence.chart = Refused

\* _composer_node, compose_with_llm.
Compose ==
  /\ phase = "tools" /\ todo = {} /\ ~UsesDocuments
  /\ \E text \in Answers(request) : candidate' = text /\ named' = text.notes \cap Issues
  /\ phase' = "review"
  /\ UNCHANGED <<request, evidence, todo, rounds, output, review, shown>>

BlockingOf(text) == Blocking(request, evidence, text)
TopicsOf(text) == Semantic(request, evidence, text)

\* _ungrounded_correction_topics: issues neither the corrected text nor the
\* evidence names.
NovelTopics(text, corrected) == (text.notes \cap Issues) \ (corrected.notes \cup evidence.topics)

\* A fault: topics that were not examined do not count.
JudgedSoundPartly(judgement, topics) == judgement.approves /\ judgement.violated = {}

\* What the reviewer says: approval counts when every flagged topic has been
\* examined and none is violated.
JudgedSound(judgement, topics) ==
  judgement.approves /\ judgement.examined = topics /\ judgement.violated = {}

\* A fault: a correction is held against the numbers only.
CleanCorrectionNumbers(text, corrected) == UnsupportedClaims(request, evidence, text) = {}
CleanCorrection(text, corrected) ==
  /\ BlockingOf(text) = {} /\ TopicsOf(text) = {}
  /\ request.kind = "diagnosis" => NovelTopics(text, corrected) = {}

ByModel(topics) == [by |-> "model", examined |-> topics]
ByCheck == [by |-> "check", examined |-> {}]
Show(text, how) ==
  /\ shown' = text /\ review' = how /\ phase' = "done"
  /\ UNCHANGED <<request, evidence, todo, named, output>>

\* _review_final_answer_once: the text is approved as it is, ...
Judgements(topics) ==
  {[approves |-> TRUE, examined |-> x, violated |-> v] : x \in {topics, {}}, v \in {topics, {}}}
ApproveAnswer ==
  /\ phase = "review" /\ BlockingOf(candidate) = {}
  /\ \E j \in Judgements(TopicsOf(candidate)) :
       JudgedSound(j, TopicsOf(candidate)) /\ Show(candidate, ByModel(j.examined))
  /\ UNCHANGED <<candidate, rounds>>

\* ... or a clean correction of it is, ...
CorrectAnswer ==
  /\ phase = "review"
  /\ \E text \in Revisions(request, candidate) : CleanCorrection(text, candidate) /\ Show(text, ByCheck)
  /\ UNCHANGED <<candidate, rounds>>

\* A fault: a round that ends without an approval is not counted.
NextRoundUncounted(n) == n
NextRound(n) == n + 1

\* ... or the correction is reviewed in the next round, ...
ReviewAgain ==
  /\ phase = "review" /\ rounds + 1 < MaxReviews
  /\ \E text \in Revisions(request, candidate) \ {candidate} :
       ~CleanCorrection(text, candidate) /\ candidate' = text
  /\ rounds' = NextRound(rounds)
  /\ UNCHANGED <<request, evidence, todo, phase, named, output, review, shown>>

\* ... or the answer is withheld: without another text, or after the last round.
Withhold ==
  /\ phase = "review"
  /\ Show(Withheld, [by |-> "none", examined |-> {}])
  /\ UNCHANGED <<candidate, rounds>>

-----------------------------------------------------------------------------
(* compose_grounded. *)

StartGrounded ==
  /\ phase = "tools" /\ todo = {} /\ UsesDocuments
  /\ phase' = IF evidence.sources = {} THEN "done" ELSE "generate"
  /\ shown' = IF evidence.sources = {} THEN NoClaims ELSE shown
  /\ UNCHANGED <<request, evidence, todo, named, candidate, rounds, output, review>>

\* A selection that cannot be rendered is asked for once more; one that tells
\* the evidence is insufficient is shown without a review.
Generate ==
  /\ phase = "generate" /\ rounds < MaxGenerations
  /\ \E o \in Outputs :
       LET valid == Renderable(o, evidence.sources)
       IN  /\ output' = IF valid THEN o ELSE output
           /\ phase' = IF valid THEN IF o.status = "insufficient" THEN "done" ELSE "judge"
                       ELSE IF rounds + 1 < MaxGenerations THEN "generate" ELSE "done"
           /\ shown' = IF phase' # "done" THEN shown ELSE IF valid THEN NoClaims ELSE Rejected
  /\ rounds' = rounds + 1
  /\ UNCHANGED <<request, evidence, todo, named, candidate, review>>

\* A review that is not about every claim rejects the answer.
Judge ==
  /\ phase = "judge"
  /\ \E judgement \in Reviews :
       /\ shown' = IF ValidReview(judgement, output.claims) THEN ApplyReview(output, judgement) ELSE Rejected
       /\ review' = judgement
  /\ phase' = "done"
  /\ UNCHANGED <<request, evidence, todo, named, candidate, rounds, output>>

\* A model that cannot be reached rejects it too, at either call.
ModelFails ==
  /\ phase \in {"generate", "judge"}
  /\ shown' = Rejected /\ phase' = "done"
  /\ UNCHANGED <<request, evidence, todo, named, candidate, rounds, output, review>>

-----------------------------------------------------------------------------
Init ==
  /\ request \in Questions
  /\ evidence = NoEvidence /\ todo = request.agents /\ phase = "tools"
  /\ named = {} /\ candidate = Absent /\ rounds = 0 /\ output = Absent
  /\ review = ByCheck /\ shown = Absent

Next ==
  \/ RunText2Sql \/ RunRag \/ RunCaseSearch \/ RunImpact \/ RunVisualization
  \/ Compose \/ ApproveAnswer \/ CorrectAnswer \/ ReviewAgain \/ Withhold
  \/ StartGrounded \/ Generate \/ Judge \/ ModelFails

\* The graph runs its next node, and every call of a model is bounded in time.
Spec == Init /\ [][Next]_vars /\ WF_vars(Next)

-----------------------------------------------------------------------------
(* Properties. *)

Composed == phase = "done" /\ ~UsesDocuments /\ shown # Withheld

\* The text that is shown has no blocking warning, and every topic flagged in
\* it was examined in the review of this very text, whichever round and
\* whichever of the two models it is from (review_final_answer).
ReviewedText == Composed => BlockingOf(shown) = {} /\ review.examined = TopicsOf(shown)

\* How far the number of a statement may be from one that is known: "the range
\* of" and "about" count for the number wherever in the text they announce it.
Tolerance(s) ==
  IF Announced(s, "band", shown.says) THEN 99
  ELSE IF s.form = "decimal" THEN 5
  ELSE IF Announced(s, "about", shown.says) THEN 50 ELSE 0
Near(s, n) == Abs(n - s.value) <= Tolerance(s)
KnownNumbers ==
  request.numbers \cup CellValues(evidence) \cup ComparisonValues(evidence)
  \cup Sizes(evidence.summary) \cup Sizes(SummaryNumbers(evidence))
  \cup CoverageValues(evidence) \cup ImpactValues(evidence) \cup SynthesisValues(evidence)
  \cup {100 * Cardinality(Rows(evidence))}
  \cup (IF request.kind = "diagnosis" THEN evidence.noted ELSE {})

\* Every number of an answer about operations is one of the question or of the
\* evidence (of documents and cases only in a diagnosis), up to the last place
\* it is printed with; and where the query returned no row there is none with a
\* unit, but for the number of rows.
NumbersTraceable ==
  (Composed /\ request.kind \in Operational) =>
    \A s \in shown.says :
      (\E n \in KnownNumbers : Near(s, n)) /\ (HasSqlEvidence(evidence) \/ s.unit = "none" \/ s.form = "rows")

\* The parts of a question whose evidence has to be told.
TargetsTold ==
  \A t \in request.targets, m \in request.metrics : ValuesFor(evidence, t, m) # {} =>
    \E n \in ValuesFor(evidence, t, m) :
      \/ \E s \in shown.says : s.target = t /\ (Near(s, n) \/ s.value = -n)
      \/ \E d \in shown.digits : d.target = t /\ d.value = n
VerifiedCited ==
  \A c \in ToSet(evidence.cases) : (\E x \in ToSet(evidence.synthesis.cases) : x.id = c.id /\ c.verified)
                                    => c.id \in shown.notes
EstimateTold ==
  evidence.impact.estimates # {} => \E s \in shown.says, x \in evidence.impact.estimates : Abs(s.value) = Abs(x.value)
GapsTold ==
  (evidence.chart # Refused /\ request.chart = "line") =>
    /\ evidence.chart.gaps # {} => "gap" \in shown.notes
    /\ evidence.chart.imputed # {} => "zero filled" \in shown.notes

\* What was asked is answered: each target of a status question has one of its
\* own values next to its name, or digits there that read like it, every verified
\* case of a diagnosis is cited, an impact that is asked for and calculated is
\* told, and places without an observation or filled with zero are told as such.
AskedAnswered ==
  Composed =>
    /\ request.kind = "status" => TargetsTold
    /\ request.kind = "diagnosis" /\ evidence.synthesis # Absent => VerifiedCited
    /\ ImpactRequested(request) /\ evidence.impact # Absent => EstimateTold
    /\ request.kind = "trend" => GapsTold

\* The same change told in the other direction.
Opposite(s, n) == n # 0 /\ Abs(s.value) = Abs(n) /\ s.says = OppositeOf(n)

\* No change is told in the opposite direction: neither the percentage of a
\* series of a line, under its name, nor an estimate.  The code compares no
\* direction with the bars of a chart.
DirectionsHold ==
  Composed =>
    \A s \in shown.says :
      /\ request.kind = "trend" =>
           \A f \in Summaries(evidence) : \A n \in f.percent :
             ~(Opposite(s, n) /\ s.unit = "percent" /\ s.target = f.series[1])
      /\ request.kind = "impact" =>
           \A x \in Estimates(evidence) : x.directional => ~Opposite(s, x.value)

\* What is told in numbers is known from somewhere, and in its own direction.
NumbersHold == NumbersTraceable /\ DirectionsHold

\* A verified, documented case that fits the question and is one of those the
\* diagnosis is drawn from, and candidates without any verified one.
FitVerified(c) ==
  /\ c.verified /\ c.documented
  /\ c.fab \in {request.q.fab, None} \/ request.q.fab = None
  /\ request.q.days = {} \/ c.day \in request.q.days \cup {None}
DrawnFrom(c) == \E x \in ToSet(evidence.synthesis.cases) : x.id = c.id
Earned(issue) ==
  \E c \in ToSet(evidence.cases) : FitVerified(c) /\ issue \in Diagnostic(c.issue) /\ DrawnFrom(c)
OnlySimulated(issue) ==
  /\ \A d \in ToSet(evidence.docs) : issue \in DocumentIssues(d) => d.simulated
  /\ \A c \in ToSet(evidence.cases) : issue \in Diagnostic(c.issue) => ~c.verified

\* A strong candidate rests on a document and on a documented, verified case of
\* its FAB and of the time that was asked, undisputed; and a candidate of
\* simulated sources alone is never ranked before one with such a case.
CandidatesEarned ==
  evidence.synthesis # Absent =>
    \A k \in DOMAIN evidence.synthesis.rankings :
      LET at == evidence.synthesis.rankings[k]
      IN  /\ at.level = "strong_candidate" =>
               Earned(at.issue) /\ "document" \in at.sources /\ at.issue \notin evidence.synthesis.conflicts
          /\ OnlySimulated(at.issue) =>
               \A n \in (k + 1)..Len(evidence.synthesis.rankings) : ~Earned(evidence.synthesis.rankings[n].issue)

\* What the query returned and what the question changes.
Baselines == {<<c.target, c.at>> : c \in evidence.cells}
ChangesOf(metric) == {k \in DOMAIN request.phrases : request.phrases[k].metrics = {metric}}
Along(phrase, value) ==
  \E d \in {-1, 1} : /\ phrase.sign \in {0, d} /\ (phrase.words = {d} \/ (phrase.sign = d /\ phrase.words # {-d}))
                      /\ d * value >= 0

\* An estimate is made from one target and one period, of the only change of
\* its metric, in the direction of its sign and its words, and a utilization
\* stays between nothing and all.
ImpactBounded ==
  evidence.impact # Absent =>
    \A x \in evidence.impact.estimates :
      /\ Cardinality(Baselines) = 1
      /\ Cardinality(ChangesOf(x.of)) = 1
      /\ x.key = "projected_util_percent" => x.value \in 0..Whole
      /\ x.directional => \A k \in ChangesOf(x.of) : Along(request.phrases[k], x.value)

\* Each place of the axis of a line is, for each series, exactly one of
\* observed, filled with zero or told as a gap.
PlacesFilled(series) == Places(Of1(evidence.chart.imputed, series))
PlacesMissing(series) == UNION {g.missing : g \in {x \in evidence.chart.gaps : x.series = series}}
AxisAccounted ==
  (evidence.chart # Refused /\ request.chart = "line") =>
    \A s \in SeriesOf(ChartRows) : \A x \in evidence.chart.axis :
      Cardinality({p \in {Places(Of1(ChartRows, s)), PlacesFilled(s), PlacesMissing(s)} : x \in p}) = 1

\* A claim from documents is shown only with quotes of documents that were
\* retrieved, which hold its numbers, and with the verdict that they support
\* it; "supported" tells that none was refused.
Quoted(claim) ==
  /\ claim.quotes # {} /\ \A q \in claim.quotes : Spans[q].source \in evidence.sources
  /\ claim.numbers \subseteq UNION {Spans[q].numbers : q \in claim.quotes}
NoUnverifiedClaim ==
  (phase = "done" /\ UsesDocuments /\ shown # Rejected /\ shown.claims # << >>) =>
    /\ \A n \in DOMAIN shown.claims :
         /\ Quoted(shown.claims[n])
         /\ \E k \in DOMAIN output.claims : output.claims[k] = shown.claims[n] /\ review.verdicts[k]
    /\ shown.status = "supported" =>
         review.complete /\ review.coverage = {TRUE} /\ \A k \in DOMAIN output.claims : review.verdicts[k]

\* Every request is answered, or told that it is not.
AnswerGiven == <>(phase = "done")

\* "A reviewer may repair wording, but may not add new domain hypotheses"
\* (supervisor.py:469): the issues of the shown diagnosis are in the composed
\* answer or in the evidence.
NoNewHypothesis ==
  (Composed /\ request.kind = "diagnosis") => shown.notes \cap Issues \subseteq named \cup evidence.topics

\* "prevents a verified case from disappearing from Diagnosis"
\* (docs/architecture.md:341): one the search returned is among those the
\* diagnosis is drawn from.
VerifiedReachesDiagnosis ==
  evidence.synthesis # Absent =>
    \A c \in ToSet(evidence.cases) : (c.verified /\ Diagnostic(c.issue) # {}) =>
      c.id \in {x.id : x \in ToSet(evidence.synthesis.cases)}

=============================================================================
