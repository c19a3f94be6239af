------------------------------ MODULE RagSearch ------------------------------
(***************************************************************************)
(* The retrieval pipeline as operators: the plan of a question             *)
(* (rag/query.py), the channels, their fusion, the rerank and the choice   *)
(* of evidence (rag/search.py) and the alignment with the issue asked      *)
(* about (sub_agent/rag.py).                                               *)
(*                                                                         *)
(* Chunks are places in a corpus C, which is also the order of their ids.  *)
(* A score is an integer: multiples of Unit, which all the ranks, weights  *)
(* and shares that occur divide.  BM25 is left with the frequency of the   *)
(* terms; how rare they are and how long the text is are left out.         *)
(***************************************************************************)
EXTENDS Integers, FiniteSets, SequencesExt, Ordering

CONSTANTS
  IncidentConcepts,  \* INCIDENT_CONCEPTS: concepts the playbook is about
  Narrower,          \* pairs of issue types: the second's name goes on after the first's
  RankConstant,      \* k of reciprocal rank fusion
  CandidateLimit,    \* candidates of a channel and of the fusion
  RerankLimit,       \* candidates the model grades
  TopK,              \* passages asked for
  ContextChars       \* characters of evidence

ASSUME LimitAssumption ==
  /\ RankConstant \in Nat \ {0} /\ CandidateLimit \in Nat \ {0} /\ RerankLimit \in Nat \ {0}
  /\ TopK \in Nat /\ ContextChars \in Nat \ {0}

Playbook == "incident_playbook"
Basics == "process_basics"

Unit == 600 * FoldLeft(LAMBDA product, rank : product * (RankConstant + rank), 1,
                       [rank \in 1..CandidateLimit |-> rank])

-----------------------------------------------------------------------------
(* analyze_query.  A question mentions concepts and issues, affirmed or    *)
(* negated; its words are those of the phrases the code looks for.         *)

Affirmed(q) == {c \in {mention[1] : mention \in q.mentions} : <<c, TRUE>> \in q.mentions}
Negated(q) == {mention[1] : mention \in q.mentions} \ Affirmed(q)

KnowledgeBases(q) ==
  LET incident == Affirmed(q) \cap IncidentConcepts # {} IN
  IF q.base # "any" THEN <<q.base>>
  ELSE IF "model_reference" \in q.words
  THEN IF "manual" \in q.words /\ (incident \/ q.ids # << >>) THEN <<Playbook, Basics>> ELSE <<Basics>>
  ELSE IF q.ids # << >> \/ incident \/ "response" \in q.words
  THEN IF "principle" \in q.words THEN <<Playbook, Basics>> ELSE <<Playbook>>
  ELSE <<Basics>>

\* The original question and, when it has several incident topics, each of
\* them; at most four.
Subqueries(q) ==
  LET topics == SetToSeq(Affirmed(q) \cap IncidentConcepts) IN
  IF Len(topics) > 1 THEN SubSeq(topics, 1, IF Len(topics) > 3 THEN 3 ELSE Len(topics)) ELSE << >>

Plan(q) ==
  [bases |-> KnowledgeBases(q), concepts |-> Affirmed(q), excluded |-> Negated(q), ids |-> q.ids,
   terms |-> Affirmed(q) \cup q.terms, fabs |-> q.fabs, topics |-> Subqueries(q),
   verified |-> "verified_sop" \in q.words]

\* apply_fab_scope: the FAB of the request against the one the question names.
ScopeConflict(q) == q.fab # "none" /\ q.fabs \notin {{}, {q.fab}}
ScopedPlan(q) == IF q.fab = "none" THEN Plan(q) ELSE [Plan(q) EXCEPT !.fabs = {q.fab}]

\* _query_issue_intents and negated_issue_types, with the concepts of the plan.
\* q.signals are the issues whose words the question has, not negated.
Intents(q) ==
  (IF "pm" \in q.signals THEN q.signals \ {"equipment_down", "breakdown"} ELSE q.signals)
  \cup Affirmed(q)

-----------------------------------------------------------------------------
(* Which chunks may be found. *)

Eligible(chunk, plan) ==
  /\ chunk.base \in ToSet(plan.bases)
  /\ plan.verified => chunk.reliability = "verified_sop"
  /\ plan.fabs = {} \/ chunk.fabs = {} \/ plan.fabs \cap chunk.fabs # {}
  /\ chunk.status \notin {"withdrawn", "superseded", "retired"}

\* _issue_alignment, _issue_type_matches.
Aligned(chunk, intents) ==
  \/ intents = {} \/ chunk.issues \subseteq {"all"}
  \/ \E intent \in intents, issue \in chunk.issues \ {"all"} :
       issue = intent \/ <<intent, issue>> \in Narrower

\* candidate_filter.
Admitted(chunk, plan, intents) == plan.ids # << >> \/ chunk.base # Playbook \/ Aligned(chunk, intents)

Candidates(C, plan, intents) == {n \in DOMAIN C : Eligible(C[n], plan) /\ Admitted(C[n], plan, intents)}

Tokens(chunk) == chunk.concepts \cup UNION Range(chunk.words)

\* Sorted by score, then by id.
Ranked(score) ==
  InOrder(DOMAIN score, LAMBDA m, n : score[m] > score[n] \/ (score[m] = score[n] /\ m < n))
Cut(ranking, limit) == SubSeq(ranking, 1, IF Len(ranking) < limit THEN Len(ranking) ELSE limit)

\* BM25Index.search.
Lexical(C, places, terms) ==
  Cut(Ranked([n \in {n \in places : terms \cap Tokens(C[n]) # {}} |->
                Cardinality({x \in terms \X DOMAIN C[n].text : x[1] \in C[n].words[x[2]]})]),
      CandidateLimit)

-----------------------------------------------------------------------------
(* Fusion and rerank. *)

PlaceIn(ranking, n) == CHOOSE r \in DOMAIN ranking : ranking[r] = n

\* rrf: a channel is a ranking with twice its weight.
FusionScore(channels, n) ==
  FoldLeft(LAMBDA sum, channel :
             IF n \in ToSet(channel.ranking)
             THEN sum + (channel.weight * Unit) \div (2 * (RankConstant + PlaceIn(channel.ranking, n)))
             ELSE sum, 0, channels)
Fused(channels) ==
  Cut(Ranked([n \in UNION {ToSet(channels[c].ranking) : c \in DOMAIN channels} |->
                FusionScore(channels, n)]),
      CandidateLimit)

\* _rerank: the features of a candidate.  An excluded topic and a table of
\* contents count against it.
Overlap(chunk, plan) == plan.terms \cap Tokens(chunk)
Matched(chunk, plan) == plan.concepts \cap chunk.concepts
Focus(chunk, plan) == plan.concepts \cap (chunk.title \cup chunk.issue)
Exact(chunk, plan) == chunk.ids \cap ToSet(plan.ids) # {}
Share(part, whole) == (Unit * Cardinality(part)) \div (IF whole = {} THEN 1 ELSE Cardinality(whole))
Acceptable(chunk, plan) ==
  /\ Overlap(chunk, plan) # {}
  /\ plan.ids = << >> \/ Exact(chunk, plan)
  /\ plan.concepts = {} /\ ~Exact(chunk, plan) => 100 * Share(Overlap(chunk, plan), plan.terms) >= 35 * Unit
  /\ plan.concepts # {} /\ ~Exact(chunk, plan) => Matched(chunk, plan) # {}
FeatureScore(chunk, plan, fusion) ==
  IF ~Acceptable(chunk, plan) THEN -Unit
  ELSE fusion + Share(Overlap(chunk, plan), plan.terms)
       + Share(plan.terms \cap chunk.title, plan.terms) \div 2
       + (Unit \div 5) * Cardinality(Matched(chunk, plan))
       + ((2 * Unit) \div 5) * Cardinality(Focus(chunk, plan))
       + (IF Exact(chunk, plan) THEN 3 * Unit ELSE 0)
       - ((2 * Unit) \div 5) * Cardinality(plan.excluded \cap chunk.concepts)
       - (IF chunk.noise THEN (7 * Unit) \div 10 ELSE 0)

\* Candidates with their scores, best first; equal ones keep the order of the
\* fusion.
Leads(a, b) == a.score > b.score \/ (a.score = b.score /\ a.fused < b.fused)
ByScore(items) ==
  LET order == InOrder(DOMAIN items, LAMBDA m, n : Leads(items[m], items[n]))
  IN  [k \in DOMAIN order |-> items[order[k]]]
FeaturesOf(C, plan, channels, fused) ==
  [k \in DOMAIN fused |->
     [at |-> fused[k], fused |-> k, score |-> FeatureScore(C[fused[k]], plan, FusionScore(channels, fused[k]))]]
Scored(C, plan, channels) == ByScore(FeaturesOf(C, plan, channels, Fused(channels)))

\* Without the model: what the features accept.
ByFeatures(scored) == Filtered(scored, LAMBDA item : item.score > 0)

\* With the grades of the model for the first candidates: what it finds
\* relevant, the features break ties.
WithGrades(judged, grades) ==
  [k \in DOMAIN judged |->
     [judged[k] EXCEPT !.score = grades[judged[k].at] * Unit + (IF @ > 0 THEN @ \div 10 ELSE 0)]]
Graded(scored, grades) ==
  ByScore(WithGrades(Filtered(Cut(scored, RerankLimit), LAMBDA item : grades[item.at] >= 2), grades))

-----------------------------------------------------------------------------
(* The choice of the passages. *)

\* The loop of search: the best candidate counts .35 for every topic it adds;
\* repeated texts and texts that do not fit are passed over.
TopicsOf(chunk, plan) == IF Focus(chunk, plan) # {} THEN Focus(chunk, plan) ELSE Matched(chunk, plan)
FirstBest(value) ==
  CHOOSE k \in DOMAIN value :
    \A n \in DOMAIN value : value[n] < value[k] \/ (value[n] = value[k] /\ k <= n)
Best(C, plan, acc) ==
  FirstBest([k \in DOMAIN acc.left |->
    acc.left[k].score
    + ((7 * Unit) \div 20) * Cardinality(TopicsOf(C[acc.left[k].at], plan) \ acc.covered)])
\* A fault: a text that is there already is taken again.
TakeRepeated(C, plan, rest, n) ==
  IF rest.used + C[n].chars > ContextChars THEN [rest EXCEPT !.dropped = TRUE]
  ELSE [rest EXCEPT !.chosen = Append(@, n), !.used = @ + C[n].chars,
                    !.covered = @ \cup Matched(C[n], plan)]
\* A fault: the topics are counted before the text is found too long.
TakeCounting(C, plan, rest, n) ==
  IF \E m \in ToSet(rest.chosen) : C[m].text = C[n].text THEN rest
  ELSE IF rest.used + C[n].chars > ContextChars
  THEN [rest EXCEPT !.dropped = TRUE, !.covered = @ \cup Matched(C[n], plan)]
  ELSE [rest EXCEPT !.chosen = Append(@, n), !.used = @ + C[n].chars,
                    !.covered = @ \cup Matched(C[n], plan)]
Take(C, plan, rest, n) ==
  IF \E m \in ToSet(rest.chosen) : C[m].text = C[n].text THEN rest
  ELSE IF rest.used + C[n].chars > ContextChars THEN [rest EXCEPT !.dropped = TRUE]
  ELSE [rest EXCEPT !.chosen = Append(@, n), !.used = @ + C[n].chars,
                    !.covered = @ \cup Matched(C[n], plan)]
TakeAt(C, plan, acc, k) == Take(C, plan, [acc EXCEPT !.left = RemoveAt(@, k)], acc.left[k].at)
Chosen(C, plan, acc) ==
  IF acc.left = << >> \/ Len(acc.chosen) >= TopK THEN acc ELSE TakeAt(C, plan, acc, Best(C, plan, acc))
Select(C, plan, ranked) ==
  FoldLeft(LAMBDA acc, round : Chosen(C, plan, acc),
           [left |-> ranked, chosen |-> << >>, used |-> 0, covered |-> {}, dropped |-> FALSE],
           ranked)

\* A fault: a passage that mentions a procedure is taken for its description.
LookUpMentioned(C, places, acc, id, n) ==
  IF /\ n \in places /\ id \in C[n].ids /\ n \notin ToSet(acc.chosen)
     /\ Len(acc.chosen) < TopK /\ acc.used + C[n].chars <= ContextChars
  THEN [chosen |-> Append(acc.chosen, n), used |-> acc.used + C[n].chars, found |-> acc.found \cup {id}]
  ELSE acc
\* _exact_lookup: a question that is only a list of procedure ids is answered
\* from the places where they are described.
LookUp(C, places, acc, id, n) ==
  IF /\ n \in places /\ id \in C[n].primary /\ n \notin ToSet(acc.chosen)
     /\ Len(acc.chosen) < TopK /\ acc.used + C[n].chars <= ContextChars
  THEN [chosen |-> Append(acc.chosen, n), used |-> acc.used + C[n].chars, found |-> acc.found \cup {id}]
  ELSE acc
ExactLookup(C, plan, places) ==
  FoldLeft(LAMBDA acc, pair : LookUp(C, places, acc, pair[1], pair[2]),
           [chosen |-> << >>, used |-> 0, found |-> {}],
           FlattenSeq([i \in DOMAIN plan.ids |-> [n \in DOMAIN C |-> <<plan.ids[i], n>>]]))

=============================================================================
