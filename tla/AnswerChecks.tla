---------------------------- MODULE AnswerChecks ----------------------------
(***************************************************************************)
(* The deterministic checks of a composed answer (verify_response and its  *)
(* helpers in sub_agent/reflection.py), as operators.                      *)
(*                                                                         *)
(* An answer is what the patterns of the code find in its text: statements *)
(* of numbers, each with the target and the time it stands under, the form *)
(* and the unit it is printed with and the direction told next to it; the  *)
(* digits within names and dates, which are no statements; and notes,      *)
(* which stand for names, disclosures and turns of phrase.  Numbers are    *)
(* hundredths.  A question r and the evidence e are records.               *)
(***************************************************************************)
EXTENDS CaseDiagnosis, ImpactEstimate, ChartFacts

CONSTANT Absent  \* no synthesis, no calculation

Abs(n) == IF n < 0 THEN -n ELSE n
Warn(condition, warning) == IF condition THEN {warning} ELSE {}
Operational == {"status", "diagnosis", "impact", "trend"}

-----------------------------------------------------------------------------
(* Numbers. *)

\* The unit of the last place printed.
Printed(s) == IF s.form = "decimal" THEN 10 ELSE 100
Rounded(n, unit) ==
  (IF n < 0 THEN -1 ELSE 1) * ((2 * Abs(n) + unit) \div (2 * unit)) * unit

\* The same number is printed as "about" or as "the range of", here or elsewhere
\* in the statements.
Announced(s, form, says) == s.form # "decimal" /\ \E t \in says : t.form = form /\ t.value = s.value
InRange(s, allowed) == \E n \in allowed : s.value <= n /\ n < s.value + 100
IsRounded(s, allowed) == \E n \in allowed : Rounded(n, Printed(s)) = s.value

\* A fault: a plain whole number is taken for a rounded one.
GroundedRounding(s, allowed, says) ==
  s.value \in allowed \/ (IF Announced(s, "band", says) THEN InRange(s, allowed) ELSE IsRounded(s, allowed))

\* _grounded_numeric_claim: the number itself, one of the "range of" it, or one
\* rounded to it when decimals or an "about" say so.
Grounded(s, allowed, says) ==
  \/ s.value \in allowed
  \/ IF Announced(s, "band", says) THEN InRange(s, allowed)
     ELSE (s.form = "decimal" \/ Announced(s, "about", says)) /\ IsRounded(s, allowed)

\* _value_appears_in_text: its digits stand somewhere in the text, also in a
\* name or behind a minus sign, or a statement is grounded in it.
Appears(n, text) ==
  \/ \E d \in text.digits : d.value = n
  \/ \E s \in text.says : (n > 0 /\ s.value = -n) \/ Grounded(s, {n}, text.says)
AnyAppears(numbers, text) == \E n \in numbers : Appears(n, text)

\* The numbers of the evidence.
Sizes(numbers) == numbers \cup {Abs(n) : n \in numbers}
CellValues(e) == IF e.sql = "succeeded" THEN {c.value : c \in e.cells} ELSE {}

\* The summaries of a line and the comparisons of bars.
Summaries(e) == IF e.chart # Refused /\ "trend" \in DOMAIN e.chart THEN e.chart.trend ELSE {}
Comparisons(e) == IF e.chart # Refused /\ "comparison" \in DOMAIN e.chart THEN e.chart.comparison ELSE {}
FactNumbers(f) == {f.start, f.end, f.delta} \cup f.percent
SummaryNumbers(e) == UNION {FactNumbers(f) : f \in Summaries(e)}
ComparisonValues(e) ==
  (UNION {FactNumbers(f) \cup {Abs(f.delta)} \cup {Abs(p) : p \in f.percent} : f \in Comparisons(e)})
  \cup Sizes(e.compared)

\* The coverage of a line, the share of its axis at its printed precision, and
\* the points filled with zero.
Share(c, whole) == (2 * whole * c.points + c.axis) \div (2 * c.axis)
CoverageNumbers(e) ==
  IF e.chart = Refused \/ "coverage" \notin DOMAIN e.chart THEN {}
  ELSE (UNION {{100 * c.points, 100 * c.axis, Share(c, 100)} : c \in e.chart.coverage})
       \cup {p.value : p \in e.chart.imputed}
CoverageValues(e) ==
  IF CoverageNumbers(e) = {} THEN {}
  ELSE CoverageNumbers(e) \cup {Share(c, 10000) : c \in e.chart.coverage}
       \cup {100 * Cardinality(points) : points \in {e.chart.imputed} \ {{}}}
Estimates(e) == IF e.impact = Absent THEN {} ELSE e.impact.estimates
ImpactValues(e) ==
  IF e.impact = Absent THEN {}
  ELSE Sizes({x.value : x \in Estimates(e)} \cup {e.impact.changes[k].value : k \in DOMAIN e.impact.changes})
SynthesisValues(e) ==
  IF e.synthesis = Absent THEN {}
  ELSE {100 * Len(e.synthesis.causes), 100 * Len(e.synthesis.cases)}

\* _without_grounded_result_counts: the number of rows, told as such.
Rows(e) == {<<c.target, c.at>> : c \in e.cells}
RowCount(s, e) == s.form = "rows" /\ e.sql = "succeeded" /\ s.value = 100 * Cardinality(Rows(e))

\* A diagnosis may also tell any number that stands in its evidence, the text of
\* documents and cases included.
StatusNumbers(r, e) == r.numbers \cup ComparisonValues(e) \cup CellValues(e)
ImpactNumbers(r, e) == r.numbers \cup CellValues(e) \cup ImpactValues(e)
DiagnosisNumbers(r, e) ==
  StatusNumbers(r, e) \cup e.summary \cup e.noted \cup SynthesisValues(e) \cup ImpactValues(e)
  \cup SummaryNumbers(e) \cup CoverageNumbers(e)
TrendNumbers(r, e) ==
  StatusNumbers(r, e) \cup Sizes(e.summary) \cup Sizes(SummaryNumbers(e)) \cup CoverageValues(e)

Ungrounded(a, allowed) == {s \in a.says : ~Grounded(s, allowed, a.says)}
Counts(e, a) == {s \in a.says : RowCount(s, e)}
StatusClaims(r, e, a) == Ungrounded(a, StatusNumbers(r, e)) \ Counts(e, a)
ImpactClaims(r, e, a) == Ungrounded(a, ImpactNumbers(r, e))
DiagnosisClaims(r, e, a) == Ungrounded(a, DiagnosisNumbers(r, e))
TrendClaims(r, e, a) == Ungrounded(a, TrendNumbers(r, e)) \ Counts(e, a)
ImpactRequested(r) == r.kind = "impact" \/ "impact" \in r.asks
UnsupportedClaims(r, e, a) ==
  IF r.kind = "status" THEN StatusClaims(r, e, a)
  ELSE IF ImpactRequested(r) THEN ImpactClaims(r, e, a)
  ELSE IF r.kind = "diagnosis" THEN DiagnosisClaims(r, e, a)
  ELSE IF r.kind = "trend" THEN TrendClaims(r, e, a) ELSE {}

-----------------------------------------------------------------------------
(* What the question asks and the answer has to name. *)

Unnamed(r, a, kinds) == {x \in r.asks \cap kinds : x \notin a.notes}
MissingIdentifiers(r, a) == Unnamed(r, a, {"fab", "equipment"})
MissingMetrics(r, a) == r.metrics \ a.notes
MissingDates(r, a) == Unnamed(r, a, {"date"})
MissingFacets(r, a) == Unnamed(r, a, {"trend", "impact"})
MissingConstraints(r, a) == IF r.kind = "status" THEN Unnamed(r, a, {"threshold", "top"}) ELSE {}
QuestionWarnings(r, a) ==
  MissingIdentifiers(r, a) \cup MissingMetrics(r, a) \cup MissingDates(r, a) \cup MissingFacets(r, a)
  \cup MissingConstraints(r, a)

\* What stands under a target (_target_answer_segments) and with a period.
Under(a, target) ==
  [says |-> {s \in a.says : s.target = target}, digits |-> {d \in a.digits : d.target = target}]
During(a, at) == [says |-> {s \in a.says : s.at = at}, digits |-> {d \in a.digits : d.at = at}]
ValuesOf(e, metric) == {c.value : c \in {x \in e.cells : e.sql = "succeeded" /\ x.metric = metric}}
ValuesFor(e, target, metric) ==
  {c.value : c \in {x \in e.cells : e.sql = "succeeded" /\ x.metric = metric /\ x.target = target}}

\* _missing_requested_metric_values: one value of each metric, anywhere.
MissingMetricValues(r, e, a) ==
  {m \in r.metrics : ValuesOf(e, m) # {} /\ ~AnyAppears(ValuesOf(e, m), a)}

\* A fault: the value of one target passes for that of another.
MissingTargetAnywhere(r, e, a) ==
  {x \in r.targets \X r.metrics :
     ValuesFor(e, x[1], x[2]) # {} /\ ~AnyAppears(ValuesFor(e, x[1], x[2]), a)}

\* _missing_requested_target_values: for each target one of its own values,
\* told under its name.
MissingTargetValues(r, e, a) ==
  {x \in r.targets \X r.metrics :
     ValuesFor(e, x[1], x[2]) # {} /\ ~AnyAppears(ValuesFor(e, x[1], x[2]), Under(a, x[1]))}

\* _missing_requested_trend_series_values: with several targets, a fact of each
\* series under its target.
MissingSeriesValues(r, e, a) ==
  IF Cardinality(r.targets) < 2 THEN {}
  ELSE {f.series : f \in {x \in Summaries(e) :
          /\ x.series[1] \in r.targets /\ x.series[2] \in r.metrics
          /\ ~AnyAppears(Sizes(FactNumbers(x)), Under(a, x.series[1]))}}

\* _missing_comparison_period_values: of periods that are compared, each row has
\* its value told under its period.
MissingPeriodValues(r, e, a) ==
  IF "comparison" \notin r.asks \/ Cardinality(Rows(e)) < 2 THEN {}
  ELSE {c \in {x \in e.cells : x.metric \in r.metrics} :
          ~Appears(c.value, During(a, c.at))}

-----------------------------------------------------------------------------
(* Impact. *)

\* _impact_estimate_appears: the exact number, or the size of a decrease when
\* one is told with it; a minus sign before a positive number is not seen.
EstimateAppears(x, a) ==
  \E s \in a.says : \/ s.value = x.value \/ (x.value > 0 /\ s.value = -x.value)
                    \/ x.value < 0 /\ x.directional /\ s.value = -x.value /\ s.says = "down"
Groups == <<{"capacity_delta_percent"}, {"projected_cycle_time"}, {"estimated_lotcomps_delta"}>>
GroupName == <<"capacity", "cycle", "lots">>

\* _missing_requested_impact_estimates: of a compound change, each estimate
\* that was asked for and calculated.
MissingEstimates(r, e, a) ==
  {GroupName[k] : k \in {n \in DOMAIN Groups :
     /\ e.impact # Absent /\ Len(e.impact.changes) >= 2 /\ GroupName[n] \in r.asks
     /\ \E x \in Estimates(e) : x.key \in Groups[n]
     /\ ~\E x \in Estimates(e) : x.key \in Groups[n] /\ EstimateAppears(x, a)}}

\* _impact_direction_conflicts.
OppositeOf(value) == IF value > 0 THEN "down" ELSE "up"
ImpactConflicts(e, a) ==
  {x \in Estimates(e) : x.directional /\ x.value # 0
     /\ \E s \in a.says : Abs(s.value) = Abs(x.value) /\ s.says = OppositeOf(x.value)}

\* _missing_mixed_impact_dimension_disclosures.
UndisclosedMixed(e, a) ==
  IF e.impact = Absent THEN {}
  ELSE e.impact.mixed \ (IF "separately" \in a.notes THEN a.notes ELSE {})

ImpactWarnings(r, e, a) ==
  IF ~ImpactRequested(r) THEN {}
  ELSE Warn(UndisclosedMixed(e, a) # {}, "mixed_dimensions")
       \cup Warn(Estimates(e) # {} /\ ~\E x \in Estimates(e) : EstimateAppears(x, a), "no_estimate")
       \cup Warn(MissingEstimates(r, e, a) # {}, "missing_estimate")
       \cup Warn(ImpactConflicts(e, a) # {}, "impact_direction")

-----------------------------------------------------------------------------
(* Trend. *)

\* A percentage with the opposite direction.
Reversed(s, f) ==
  s.unit = "percent" /\ \E p \in f.percent : p # 0 /\ Abs(s.value) = Abs(p) /\ s.says = OppositeOf(p)

\* A fault: a direction is compared only for the only series of a chart.
TrendConflictsSingle(e, a) ==
  {f \in Summaries(e) : Cardinality(Summaries(e)) = 1 /\ \E s \in a.says : Reversed(s, f)}

\* _trend_direction_conflicts: the percentage of a series of a line with the
\* opposite direction, near the name of the series if there are several.
TrendConflicts(e, a) ==
  {f \in Summaries(e) :
     \E s \in a.says : Reversed(s, f) /\ (Cardinality(Summaries(e)) = 1 \/ s.target = f.series[1])}

\* _monotonic_claim_conflicts: a steady movement told of a series that goes up
\* and down.
MonotonicConflicts(e, a) == {f \in Summaries(e) : "steady" \in a.notes /\ f.movement = "fluctuating"}

\* _undisclosed_series_gaps, _undisclosed_insufficient_trends,
\* _undisclosed_imputed_points.
UndisclosedGaps(e, a) == {g \in e.chart.gaps : "gap" \notin a.notes}
UndisclosedInsufficient(e, a) ==
  {c \in e.chart.coverage : c.assessment = "insufficient"
                            /\ ("coverage" \notin a.notes \/ "no change" \in a.notes)}
UndisclosedImputed(e, a) == {p \in e.chart.imputed : "zero filled" \notin a.notes}
LineWarnings(e, a) ==
  IF e.chart = Refused \/ "coverage" \notin DOMAIN e.chart THEN {}
  ELSE Warn(UndisclosedGaps(e, a) # {}, "gaps")
       \cup Warn(UndisclosedInsufficient(e, a) # {}, "insufficient")
       \cup Warn(UndisclosedImputed(e, a) # {}, "imputed")
TrendWarnings(r, e, a) ==
  IF r.kind # "trend" THEN {}
  ELSE Warn(TrendConflicts(e, a) # {} \/ MonotonicConflicts(e, a) # {}, "trend_direction")
       \cup Warn(MissingSeriesValues(r, e, a) # {}, "series_values")
       \cup Warn(MissingPeriodValues(r, e, a) # {}, "period_values")
       \cup LineWarnings(e, a)

-----------------------------------------------------------------------------
(* Diagnosis. *)

CitedCases(e) ==
  {c.id : c \in {x \in ToSet(e.synthesis.cases) : x.reliability \in Verified}}
NoCandidate(e) == e.synthesis.causes = << >> /\ e.synthesis.cases = << >>
Simulated(e) ==
  \/ \E c \in ToSet(e.synthesis.cases) : c.reliability = "simulation_only"
  \/ \E d \in ToSet(e.synthesis.causes) : d.reliability = "simulation_reference"
Historical(e) == \E c \in ToSet(e.synthesis.cases) : c.reliability = "verified_historical_analogy"
OmitsTop(e, a) == Len(e.synthesis.rankings) >= 2 /\ e.synthesis.rankings[1].issue \notin a.notes

DiagnosisWarnings(r, e, a) ==
  IF r.kind # "diagnosis" THEN {}
  ELSE IF e.synthesis = Absent THEN {"no_synthesis"}
  ELSE Warn(CitedCases(e) \ a.notes # {}, "verified_case_not_cited")

\* The turns a model is asked to judge.
DiagnosisTopics(r, e, a) ==
  IF r.kind # "diagnosis" THEN {}
  ELSE Warn("candidate" \notin a.notes, "uncertainty")
       \cup (IF e.synthesis = Absent THEN {}
             ELSE Warn(NoCandidate(e) /\ "no candidate" \notin a.notes, "no_candidate")
                  \cup Warn(NoCandidate(e) /\ "new cause" \in a.notes, "new_candidate")
                  \cup Warn(Simulated(e) /\ "simulation" \notin a.notes, "simulation")
                  \cup Warn(OmitsTop(e, a), "top_candidate")
                  \cup Warn(e.synthesis.conflicts # {} /\ "conflict" \notin a.notes, "conflict")
                  \cup Warn(Historical(e) /\ "historical" \notin a.notes, "historical"))

-----------------------------------------------------------------------------
(* verify_response. *)

\* _has_sql_evidence.
HasSqlEvidence(e) == e.sql = "succeeded" /\ e.cells # {}

\* Fields the query could not answer are neither denied nor guessed.
FieldWarnings(e, a) ==
  Warn(e.unavailable # {} /\ e.sql = "succeeded" /\ e.cells = {} /\ "never existed" \in a.notes, "never_existed")
  \cup Warn("setter" \in e.unavailable /\ "setter from role" \in a.notes, "setter_from_role")
  \cup Warn("reason" \in e.unavailable /\ "reason from text" \in a.notes, "reason_from_text")

ScopeWarnings(r, e, a) ==
  Warn(a.says = {} /\ a.notes = {}, "empty")
  \cup Warn(r.kind \in Operational /\ e.sql = "none" /\ e.sources = {} /\ e.synthesis = Absent /\ e.impact = Absent, "no_evidence")
  \cup Warn(~HasSqlEvidence(e) /\ (\E s \in a.says \ Counts(e, a) : s.unit # "none"), "numbers_without_sql")
  \cup Warn(e.limited /\ "row limit" \notin a.notes, "row_limit")
  \cup Warn("chart" \in r.asks /\ e.chart = Refused /\ "no chart" \notin a.notes, "chart")
  \cup Warn(r.kind \in Operational /\ ~e.limitations /\ e.sql # "succeeded", "incomplete")
StatusWarnings(r, e, a) ==
  IF r.kind # "status" THEN {}
  ELSE Warn(MissingMetricValues(r, e, a) # {} \/ MissingTargetValues(r, e, a) # {}, "result_values")

\* blocking_warnings.
Blocking(r, e, a) ==
  ScopeWarnings(r, e, a) \cup FieldWarnings(e, a) \cup QuestionWarnings(r, a)
  \cup StatusWarnings(r, e, a) \cup ImpactWarnings(r, e, a) \cup TrendWarnings(r, e, a)
  \cup DiagnosisWarnings(r, e, a)
  \cup Warn(UnsupportedClaims(r, e, a) # {}, "unsupported_numbers")

\* semantic_warnings: each is a topic for the review of the model.
Semantic(r, e, a) ==
  DiagnosisTopics(r, e, a)
  \cup Warn(e.unavailable # {}, "unavailable_fields")
  \cup Warn(e.master /\ "live" \in a.notes, "live_state")
  \cup Warn("incident_playbook" \in e.bases /\ "action" \in a.notes, "direct_action")
  \cup Warn("process_basics" \in e.bases /\ "dispatch" \in a.notes, "operational_action")
  \cup Warn(ImpactRequested(r) /\ "boundary" \notin a.notes, "calculation_boundary")
  \cup Warn(r.kind \in Operational /\ e.limitations /\ "limitation" \notin a.notes, "limitations")

=============================================================================
