----------------------------- MODULE ChartFacts -----------------------------
(***************************************************************************)
(* What a chart states about its rows (sub_agent/visualization.py), as     *)
(* operators: the points of its series, zero-filled where the query counts *)
(* and the range is known, gaps, coverage, trend and comparison.           *)
(*                                                                         *)
(* A row is [at, series, value]; the places at of a line are numbers, in   *)
(* the order of time.  A chart that is not drawn is Refused.               *)
(***************************************************************************)
EXTENDS Integers, FiniteSets, SequencesExt, Ordering

CONSTANT Refused

SeriesOf(rows) == {r.series : r \in rows}
Of1(rows, series) == {r \in rows : r.series = series}
Places(rows) == {r.at : r \in rows}

\* _validate_line_keys, _validate_categorical_keys: one value in a place.
UniqueKeys(rows) == \A r, s \in rows : (r.at = s.at /\ r.series = s.series) => r = s

\* _fill_zero_rows: the points without a row in the expected range.
Filled(rows, expected) ==
  {r \in [at : expected, series : SeriesOf(rows), value : {0}] :
     \A s \in rows : s.at # r.at \/ s.series # r.series}

-----------------------------------------------------------------------------
(* Facts of a line, with all its rows and the whole axis. *)

\* _trend_coverage_assessment.
Assessment(points, axis) ==
  IF points < 2 \/ 2 * points < axis THEN "insufficient"
  ELSE IF points < axis THEN "sparse" ELSE "complete"
Coverage(rows, axis) ==
  {[series |-> s, points |-> Cardinality(Of1(rows, s)), axis |-> Cardinality(axis),
    assessment |-> Assessment(Cardinality(Of1(rows, s)), Cardinality(axis))] : s \in SeriesOf(rows)}

\* A fault: a gap is a place between two points only.
GapsInside(rows, axis) ==
  {g \in {[series |-> s,
           missing |-> {x \in axis \ Places(Of1(rows, s)) : \E y, z \in Places(Of1(rows, s)) : y < x /\ x < z}] :
          s \in SeriesOf(rows)} : g.missing # {}}

\* _build_series_gaps.
Gaps(rows, axis) ==
  {g \in {[series |-> s, missing |-> axis \ Places(Of1(rows, s))] : s \in SeriesOf(rows)} :
     g.missing # {}}

\* _build_trend_summary, of the series that are covered well enough.
InTime(points) == InOrder(points, LAMBDA p, r : p.at < r.at)
Movement(line) ==
  LET rises == \E k \in 2..Len(line) : line[k].value > line[k - 1].value
      falls == \E k \in 2..Len(line) : line[k].value < line[k - 1].value
  IN  IF rises /\ falls THEN "fluctuating"
      ELSE IF rises THEN "increasing" ELSE IF falls THEN "decreasing" ELSE "constant"
Percent(delta, start) ==
  IF start = 0 THEN {} ELSE {IF start > 0 THEN (delta * 10000) \div start ELSE (-delta * 10000) \div (-start)}
Trend(series, line) ==
  [series |-> series, start |-> Head(line).value, end |-> Last(line).value,
   delta |-> Last(line).value - Head(line).value,
   percent |-> Percent(Last(line).value - Head(line).value, Head(line).value),
   movement |-> Movement(line)]
TrendSummary(rows, axis) ==
  {Trend(s, InTime(Of1(rows, s))) :
     s \in {c.series : c \in {x \in Coverage(rows, axis) : x.assessment # "insufficient"}}}

\* build_chart_spec for a line over the expected places, filled with zeros or
\* not.
Line(rows, expected, zeroFill) ==
  IF rows = {} \/ ~UniqueKeys(rows) THEN Refused
  ELSE LET imputed == IF zeroFill THEN Filled(rows, expected) ELSE {}
           axis == expected \cup Places(rows)
       IN  [rows |-> rows, imputed |-> imputed, axis |-> axis,
            trend |-> TrendSummary(rows \cup imputed, axis),
            gaps |-> Gaps(rows \cup imputed, axis),
            coverage |-> Coverage(rows \cup imputed, axis)]

\* _add_comparison_facts: the difference between the two places of a bar
\* chart, for the series that have both.
Difference(series, before, after) ==
  [series |-> series, start |-> before, end |-> after, delta |-> after - before,
   percent |-> Percent(after - before, before)]
Bars(rows) ==
  IF rows = {} \/ ~UniqueKeys(rows) THEN Refused
  ELSE [rows |-> rows,
        comparison |->
          {Difference(pair[1].series, pair[1].value, pair[2].value) :
             pair \in {x \in rows \X rows : /\ Cardinality(Places(rows)) = 2
                                           /\ x[1].series = x[2].series /\ x[1].at < x[2].at}}]

=============================================================================
