--------------------------- MODULE GroundedAnswer ---------------------------
(***************************************************************************)
(* Answers from documents alone (rag/grounding.py), as operators: what the *)
(* model may select, what is rendered of it and what a review leaves.      *)
(*                                                                         *)
(* A source is a chunk with its reliability; a span is a piece of a source *)
(* with the numbers in it.  What the model returns is a record             *)
(* [status, claims]; a claim has the numbers of its text, the spans it     *)
(* names and whether it holds references or links of its own.              *)
(***************************************************************************)
EXTENDS Integers, FiniteSets, SequencesExt, Ordering

CONSTANTS
  Spans,      \* Spans[q]: the source and the numbers of span q
  Reliability \* Reliability[c]: of source c

MaxClaims == 8
MaxQuotes == 3

\* document_sources and source_spans: the spans of the chunks in the evidence.
Selectable(sources) == {q \in DOMAIN Spans : Spans[q].source \in sources}

\* A fault: a number need only be in one of the sources, not in the quotes.
ValidClaimAnySource(claim, sources) ==
  /\ claim.quotes # {} /\ Cardinality(claim.quotes) <= MaxQuotes
  /\ claim.quotes \subseteq Selectable(sources)
  /\ claim.numbers \subseteq UNION {Spans[q].numbers : q \in Selectable(sources)}
  /\ ~claim.reference

\* The checks of resolve_quotes and render_grounded on a claim.
ValidClaim(claim, sources) ==
  /\ claim.quotes # {} /\ Cardinality(claim.quotes) <= MaxQuotes
  /\ claim.quotes \subseteq Selectable(sources)
  /\ claim.numbers \subseteq UNION {Spans[q].numbers : q \in claim.quotes}
  /\ ~claim.reference

\* render_grounded accepts it.
Renderable(output, sources) ==
  IF output.status = "insufficient" THEN output.claims = << >>
  ELSE /\ Len(output.claims) \in 1..MaxClaims
       /\ \A k \in DOMAIN output.claims : ValidClaim(output.claims[k], sources)

\* The answer: its claims, the sources cited and the notices they call for.
Cited(claims) == {Spans[q].source : q \in UNION {claims[k].quotes : k \in DOMAIN claims}}
Rendered(status, claims) ==
  [status |-> status, claims |-> claims, cited |-> Cited(claims),
   notices |-> {Reliability[c] : c \in Cited(claims)} \cap {"simulation_reference", "reference_summary"}]
NoClaims == Rendered("insufficient", << >>)

\* apply_review refuses a review that is not about every claim once.
ValidReview(review, claims) ==
  /\ review.coverage # {}
  /\ DOMAIN review.verdicts = DOMAIN claims

\* A fault: with one claim refused the answer may still be complete.
ReviewStatusLenient(output, review, retained) ==
  IF review.complete /\ review.coverage = {TRUE} /\ output.status = "supported" /\ retained # << >> THEN "supported"
  ELSE IF retained # << >> THEN "partial" ELSE "insufficient"

\* What the answer is called after the review.
ReviewStatus(output, review, retained) ==
  IF /\ review.complete /\ review.coverage = {TRUE}
     /\ Len(retained) = Len(output.claims) /\ output.status = "supported"
  THEN "supported"
  ELSE IF retained # << >> THEN "partial" ELSE "insufficient"

\* apply_review: the claims the review supports are rendered again.
Retained(output, review) ==
  LET kept == InOrder({k \in DOMAIN output.claims : review.verdicts[k]}, <)
  IN  [n \in DOMAIN kept |-> output.claims[kept[n]]]
ApplyReview(output, review) ==
  Rendered(ReviewStatus(output, review, Retained(output, review)), Retained(output, review))

=============================================================================
