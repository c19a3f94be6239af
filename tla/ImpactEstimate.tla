--------------------------- MODULE ImpactEstimate ---------------------------
(***************************************************************************)
(* The what-if calculation (sub_agent/impact.py) as operators: the changes *)
(* a question names, the baseline the query returned and the estimates.    *)
(*                                                                         *)
(* Numbers are hundredths.  A phrase of the question is a change with the  *)
(* sign it is written with, the directions and the metrics whose words are *)
(* nearest to it (several, when they are equally near).  A cell of a       *)
(* result is the value of one metric for one target at one time.           *)
(***************************************************************************)
EXTENDS Integers, FiniteSets, SequencesExt

Whole == 10000  \* one hundred percent

-----------------------------------------------------------------------------
(* The question. *)

\* _nearest_direction, _nearest_change_metric: a tie tells nothing.
Nearest(found, otherwise) == IF Cardinality(found) = 1 THEN CHOOSE x \in found : TRUE ELSE otherwise

\* A fault: a sign and a word that contradict each other go by the sign.
DirectionBySign(phrase) == IF phrase.sign # 0 THEN phrase.sign ELSE Nearest(phrase.words, 0)

\* The direction of a change, 0 when it is not told or told both ways.
Direction(phrase) ==
  LET word == Nearest(phrase.words, 0)
  IN  IF phrase.sign # 0 /\ word # 0 /\ phrase.sign # word THEN 0
      ELSE IF phrase.sign # 0 THEN phrase.sign ELSE word

\* _parse_changes.
ParseChanges(phrases) ==
  [k \in DOMAIN phrases |->
     [metric |-> Nearest(phrases[k].metrics, "unknown"), unit |-> phrases[k].unit,
      value |-> phrases[k].value, direction |-> Direction(phrases[k])]]

-----------------------------------------------------------------------------
(* The baseline. *)

\* _mixed_baseline_dimensions.
MixedDimensions(cells) ==
  (IF Cardinality({c.target : c \in cells}) > 1 THEN {"target"} ELSE {})
  \cup (IF Cardinality({c.at : c \in cells}) > 1 THEN {"period"} ELSE {})

\* _numeric_means: the mean of each metric that has a value.
Mean(cells, metric) ==
  LET of == {c \in cells : c.metric = metric}
  IN  FoldLeft(LAMBDA sum, c : sum + c.value, 0, SetToSeq(of)) \div Cardinality(of)
Known(cells, metric) == \E c \in cells : c.metric = metric

-----------------------------------------------------------------------------
(* The estimates: a set of records, each with the metric it changes. *)

Estimate(key, value, of, directional) ==
  [key |-> key, value |-> value, of |-> of, directional |-> directional]

\* A fault: the projected utilization is not held against its range.
ProjectedAnyhow(change, current) ==
  IF change.unit = "point" THEN {current + change.direction * change.value}
  ELSE {(current * (Whole + change.direction * change.value)) \div Whole}

\* The utilization after the change, when it is physically possible.
ProjectedUtilization(change, current) ==
  LET signed == change.direction * change.value
  IN  {p \in {IF change.unit = "point" THEN current + signed
              ELSE (current * (Whole + signed)) \div Whole} : p \in 0..Whole}

\* _estimate_utilization_change.
CapacityDelta(projected, current) == (projected * Whole) \div current - Whole
LotEstimates(lots, projected, current) ==
  {Estimate("estimated_lotcomps_delta", (lots * CapacityDelta(projected, current)) \div Whole, "utilization", TRUE),
   Estimate("projected_lotcomps", (lots * projected) \div current, "utilization", FALSE)}
UtilizationEstimates(change, cells) ==
  UNION {{Estimate("projected_util_percent", p, "utilization", FALSE),
          Estimate("capacity_delta_percent", CapacityDelta(p, Mean(cells, "util")), "utilization", TRUE)}
         \cup (IF Known(cells, "lots") /\ Mean(cells, "lots") >= 0
             THEN LotEstimates(Mean(cells, "lots"), p, Mean(cells, "util")) ELSE {}) :
         p \in IF Known(cells, "util") /\ Mean(cells, "util") \in 1..Whole
               THEN ProjectedUtilization(change, Mean(cells, "util")) ELSE {}}

\* _estimate_cycle_time_change.
CycleEstimates(change, cells) ==
  UNION {{Estimate("projected_cycle_time", p, "cycle_time", FALSE),
          Estimate("cycle_time_change_percent", change.direction * change.value, "cycle_time", TRUE)} :
         p \in IF Known(cells, "cycle") /\ Mean(cells, "cycle") > 0
               THEN {p \in {(Mean(cells, "cycle") * (Whole + change.direction * change.value)) \div Whole} : p > 0}
               ELSE {}}

\* A fault: of several changes of a metric each is calculated by itself.
CalculableRepeated(changes) == {k \in DOMAIN changes : changes[k].direction # 0}

\* A change is calculated when it is the only one of its metric and its
\* direction is known.
Calculable(changes) ==
  {k \in DOMAIN changes :
     /\ changes[k].direction # 0
     /\ \A n \in DOMAIN changes : changes[n].metric = changes[k].metric => n = k}

EstimatesOf(change, cells) ==
  IF change.metric = "utilization" /\ change.unit \in {"point", "percent"}
  THEN UtilizationEstimates(change, cells)
  ELSE IF change.metric = "cycle_time" /\ change.unit = "percent" THEN CycleEstimates(change, cells)
  ELSE {}

\* estimate_output_delta: nothing is estimated from a baseline of several
\* targets or periods.
EstimateOutputDelta(phrases, cells) ==
  LET changes == ParseChanges(phrases)
      mixed == MixedDimensions(cells)
      estimates == IF mixed # {} THEN {} ELSE
                   UNION {EstimatesOf(changes[k], cells) : k \in Calculable(changes)}
  IN  [changes |-> changes, mixed |-> mixed, estimates |-> estimates,
       status |-> IF estimates = {} THEN "data_unavailable" ELSE "succeeded"]

=============================================================================
