--------------------------- MODULE MCAnswerPipeline ---------------------------
(* A few questions of each kind for the model checker. *)
EXTENDS AnswerPipeline, FiniteSetsExt

MCIssueOrder == <<"material_shortage", "queue_time">>
MCCovers == [material_shortage |-> {"material_shortage"}, queue_time |-> {"queue_time"}]
MCMarks == [material_shortage |-> {}, queue_time |-> {"wait"}]
MCSpans == [s1 |-> [source |-> "c1", numbers |-> {3000}],
            s2 |-> [source |-> "c2", numbers |-> {4500}],
            s3 |-> [source |-> "c3", numbers |-> {}]]
MCReliability == [c1 |-> "guidance_only", c2 |-> "simulation_reference", c3 |-> "guidance_only"]

-----------------------------------------------------------------------------
(* Questions. *)

Basic ==
  [kind |-> "status", agents |-> {"text2sql"}, metrics |-> {}, targets |-> {}, asks |-> {},
   numbers |-> {}, phrases |-> << >>, chart |-> "none", expected |-> {}, zeroFill |-> FALSE,
   q |-> [fab |-> "fab1", equipment |-> None, process |-> None, mentions |-> {<<"queue_time", TRUE>>}, days |-> {"d2"}]]
Phrase(metric, value, sign, words) ==
  [metrics |-> {metric}, unit |-> IF metric = "utilization" THEN "point" ELSE "percent",
   value |-> value, sign |-> sign, words |-> words]
Raise == Phrase("utilization", 500, 0, {1})

Status == [Basic EXCEPT !.metrics = {"util"}, !.targets = {"t1", "t2"}, !.asks = {"threshold"}, !.numbers = {9000}]
Lines(fill) ==
  [Basic EXCEPT !.kind = "trend", !.agents = {"text2sql", "visualization"}, !.metrics = {"lots"},
     !.targets = {"t1", "t2"}, !.asks = {"trend", "chart"}, !.chart = "line", !.expected = 1..3, !.zeroFill = fill]
Compared ==
  [Basic EXCEPT !.kind = "trend", !.agents = {"text2sql", "visualization"}, !.metrics = {"lots"},
     !.asks = {"comparison"}, !.chart = "bar"]
Impact(phrases) ==
  [Basic EXCEPT !.kind = "impact", !.agents = {"text2sql", "impact"}, !.metrics = {"util"},
     !.asks = {"impact", "capacity", "cycle"}, !.phrases = phrases, !.numbers = {phrases[1].value}]
Diagnosis ==
  [Basic EXCEPT !.kind = "diagnosis", !.agents = {"text2sql", "rag", "case_search"}]
Either == [Diagnosis EXCEPT !.q.mentions = @ \cup {<<"material_shortage", TRUE>>}]
Lookup(agents) == [Basic EXCEPT !.kind = "knowledge_lookup", !.agents = agents]

MCQuestions ==
  {Status, Lines(TRUE), Lines(FALSE), Compared, Diagnosis, Either, Lookup({"rag"}), Lookup({"rag", "text2sql"}),
   Impact(<<Raise>>), Impact(<<Raise, Phrase("cycle_time", 1000, -1, {})>>),
   Impact(<<Phrase("utilization", 500, 1, {-1})>>), Impact(<<Raise, Phrase("utilization", 100, 1, {})>>)}

-----------------------------------------------------------------------------
(* What the tools return. *)

Cell(target, metric, at, value) == [target |-> target, metric |-> metric, at |-> at, value |-> value]
Result(cells) ==
  [sql |-> "succeeded", cells |-> cells, summary |-> {}, compared |-> {}, limited |-> FALSE, unavailable |-> {}, master |-> FALSE]
Failed == [Result({}) EXCEPT !.sql = "failed"]
Nothing == [Result({}) EXCEPT !.unavailable = {"setter"}]
First == Cell("t1", "util", 1, 9512)
Points == {Cell("t1", "lots", 1, 10000), Cell("t1", "lots", 2, 12000), Cell("t1", "lots", 3, 9000)}
Baseline(util) == {Cell("t1", "util", 1, util), Cell("t1", "lots", 1, 1000), Cell("t1", "cycle", 1, 2000)}

MCResults(r) ==
  CASE r.kind = "status" ->
         {Result({First, Cell("t2", "util", 1, 8800)}), [Result({First}) EXCEPT !.limited = TRUE], Nothing, Failed}
    [] r.kind = "trend" ->
         {[Result(Points) EXCEPT !.summary = {9000, 12000, -1000}], Result(Points \cup {Cell("t2", "lots", 1, 5000), Cell("t2", "lots", 3, 6000)}),
          Result({Cell("t1", "lots", 2, 5000)}), Result(Points \cup {Cell("t1", "lots", 2, 1)}), Failed}
    [] r.kind = "impact" ->
         {Result(Baseline(9000)), Result(Baseline(9700)), Result(Baseline(9000) \cup {Cell("t2", "util", 1, 5000)}), Failed}
    [] r.kind = "diagnosis" -> {Result({Cell("t1", "wait", 1, 3000)}), Failed}
    [] OTHER -> {Failed, Result({First})}

Doc(issue, simulated) ==
  [asked |-> FALSE, matched |-> {}, declared |-> {issue}, aligned |-> TRUE, simulated |-> simulated, score |-> 5]
Docs(docs) == [docs |-> docs, sources |-> {"c1", "c2"}, bases |-> {"incident_playbook"}, topics |-> {"queue_time"},
               numbers |-> {4500}]
MCRetrieved(r) ==
  {[docs |-> << >>, sources |-> {}, bases |-> {}, topics |-> {}, numbers |-> {}], Docs(<<Doc("queue_time", TRUE)>>)}
  \cup IF r.kind = "diagnosis" THEN {Docs([k \in 1..3 |-> Doc("queue_time", TRUE)])} ELSE {}

Case(id, verified, issue, day, cause) ==
  [id |-> id, verified |-> verified, documented |-> verified, fab |-> "fab1", equipment |-> None, process |-> None,
   issue |-> issue, day |-> day, stamp |-> 1, cause |-> cause, match |-> 1, numbers |-> {}]
Aligned == Case("i1", TRUE, "queue_time", "d2", "x")
Earlier == Case("i1", TRUE, "queue_time", "d1", "x")
Simulation(id, issue) == [Case(id, FALSE, issue, "d2", "y") EXCEPT !.match = 2]
MCStores(r) ==
  IF r = Diagnosis
  THEN {<<[Aligned EXCEPT !.documented = FALSE]>>, <<[Aligned EXCEPT !.fab = "fab2"]>>,
        <<Aligned, Simulation("i2", "material_shortage")>>,
        <<Earlier, Case("i3", TRUE, "queue_time", "d2", "z")>>, <<Earlier, Simulation("i2", "queue_time")>>}
  ELSE {<<Case("i1", TRUE, "material_shortage", "d2", "x"), Simulation("i2", "queue_time"), Simulation("i4", "queue_time")>>,
        <<Aligned, Simulation("i2", "material_shortage"), Simulation("i4", "material_shortage"),
          Simulation("i5", "material_shortage"), Simulation("i6", "queue_time"), Simulation("i7", "queue_time")>>}

-----------------------------------------------------------------------------
(* What the models write. *)

Says(target, at, value, form, unit, says) ==
  [target |-> target, at |-> at, value |-> value, form |-> form, unit |-> unit, says |-> says]
Plain(target, value) == Says(target, 1, value, "plain", "percent", "none")
Told(value, says) == Says("t1", 1, value, "plain", "percent", says)
Bare(value) == Says("t1", 1, value, "plain", "none", "none")

\* "About 9500" beside a plain 9500, the threshold told with and without a unit,
\* and a value of one target told under the other.
Statements(r) ==
  CASE r.kind = "status" ->
         {Plain("t1", 9512), Says("t1", 1, 9500, "about", "percent", "none"), Plain("t1", 9500), Bare(9000),
          Plain("t2", 9500), Plain("t2", 8800), Plain("t1", 8800)}
    [] r.kind = "trend" ->
         {Told(1000, "down"), Told(1000, "up"), Says("t2", 3, 2000, "plain", "percent", "up"),
          Says("t2", 3, 2000, "plain", "percent", "down"), Says("t2", 3, 2000, "plain", "none", "down")}
    [] r.kind = "impact" ->
         {Told(9500, "none"), Told(555, "up"), Told(555, "down"), Told(1000, "down"), Told(510, "up")}
    [] r.kind = "diagnosis" -> {Told(3000, "up"), Told(4500, "none")}
    [] OTHER -> {Plain("t1", 9512)}

\* The digits of a name like "lot 88" under the second target.
Digits(r) == IF r.kind = "status" THEN {{}, {[target |-> "t2", at |-> 1, value |-> 8800]}} ELSE {{}}

\* The notes of an answer that leaves nothing out, and those it should not have.
Notes(r) ==
  CASE r.kind = "status" -> {"util", "threshold", "row limit", "limitation"}
    [] r.kind = "trend" -> {"lots", "trend", "gap", "zero filled", "coverage", "limitation", "no chart"}
    [] r.kind = "impact" -> {"util", "impact", "boundary", "limitation", "target", "separately"}
    [] r.kind = "diagnosis" ->
         {"candidate", "simulation", "historical", "conflict", "no candidate", "limitation", "queue_time", "i1", "i3"}
    [] OTHER -> {"limitation"}
Slips(r) ==
  CASE r.kind = "status" -> {"never existed"}
    [] r.kind = "trend" -> {"steady", "no change"}
    [] r.kind = "diagnosis" -> {"material_shortage", "new cause"}
    [] OTHER -> {}

\* The texts: at most two statements, and at most one note left out or slipped in.
MCAnswers(r) ==
  {[says |-> s, notes |-> n, digits |-> d] :
     d \in Digits(r), s \in UNION {kSubset(k, Statements(r)) : k \in 0..2},
     n \in {Notes(r)} \cup {Notes(r) \ {x} : x \in Notes(r)} \cup {Notes(r) \cup {x} : x \in Slips(r)}}

\* A correction changes a statement or a note.
Change(s, t) == Cardinality((s \ t) \cup (t \ s))
MCRevisions(r, text) ==
  {t \in MCAnswers(r) : t.digits = text.digits /\ Change(t.says, text.says) + Change(t.notes, text.notes) <= 1}

Claim(numbers, quotes) == [numbers |-> numbers, quotes |-> quotes, reference |-> FALSE]
MCOutputs ==
  {[status |-> s, claims |-> c] :
     s \in {"supported", "partial", "insufficient"},
     c \in {<< >>, <<Claim({3000}, {"s1"}), Claim({4500}, {"s2"})>>, <<Claim({4500}, {"s1"})>>, <<Claim({}, {"s3"})>>}}
MCReviews ==
  {[complete |-> b, coverage |-> c, verdicts |-> v] :
     b \in BOOLEAN, c \in {{}, {TRUE}, {TRUE, FALSE}},
     v \in [1..2 -> BOOLEAN] \cup [1..1 -> BOOLEAN]}
=============================================================================
