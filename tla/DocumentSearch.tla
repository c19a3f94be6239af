---------------------------- MODULE DocumentSearch ----------------------------
(***************************************************************************)
(* A request that searches the documents (sub_agent/rag.py) while the      *)
(* corpus is replaced and the index is built beside it: the chunk store is *)
(* read once, then every knowledge base is searched in the collection, if  *)
(* the manifest published at that moment is the one of the chunks read,    *)
(* and the channels are fused, reranked and cut to the evidence.           *)
(***************************************************************************)
EXTENDS RagIndex, RagSearch

CONSTANTS
  Questions,   \* questions that are asked
  Serving,     \* the embedding configuration the server is started with
  Grades       \* grades of the reranking model

ASSUME ServingAssumption == Serving \in Embeddings

\* A question has finitely many words; one that is a list of ids has an id.
ASSUME QuestionAssumption ==
  \A q \in Questions :
    /\ IsFiniteSet(q.mentions) /\ IsFiniteSet(q.terms) /\ IsList(q.ids)
    /\ q.idsOnly => q.ids # << >>
ASSUME GradeAssumption == Grades \subseteq Int

VARIABLE request   \* the retrieval in progress

docVars == <<indexVars, request>>

NoQuestion == [none |-> TRUE]
Idle == [pc |-> "idle", q |-> NoQuestion, edition |-> "none", plan |-> NoQuestion,
         available |-> {}, dense |-> << >>, mode |-> "none", whole |-> TRUE, evidence |-> << >>, told |-> {}]

C == Corpus[request.edition]

Refused(q) == [Idle EXCEPT !.pc = "found", !.q = q, !.edition = corpus, !.mode = "refused"]
LookedUp(start, found) ==
  [start EXCEPT !.pc = "found", !.mode = "exact_id", !.evidence = found.chosen,
                !.told = IF ToSet(start.plan.ids) \subseteq found.found THEN {} ELSE {"missing_ids"}]
Started(q, plan, available) ==
  [Idle EXCEPT !.pc = "search", !.q = q, !.edition = corpus, !.plan = plan,
               !.available = available, !.mode = "hybrid"]

\* retrieve_with_trace and the head of search: the local chunks are read; a
\* FAB the question contradicts is refused; a list of procedure ids is looked up.
Retrieve(q) ==
  LET start == Started(q, ScopedPlan(q), Candidates(Corpus[corpus], ScopedPlan(q), Intents(q))) IN
  /\ request.pc = "idle"
  /\ request' = IF ScopeConflict(q) THEN Refused(q)
                ELSE IF q.idsOnly
                THEN LookedUp(start, ExactLookup(Corpus[corpus], start.plan, start.available))
                ELSE start
  /\ UNCHANGED indexVars

\* A fault: the manifest is loaded and not compared.
IndexMatchesAny == manifest # NoVersion
\* verify_manifest.
IndexMatches == manifest = VersionOf(request.edition, Serving)

RowsOfBase(chunks, base) == {n \in DOMAIN chunks : chunks[n].base = base}

\* What a vector search may return: the nearest of the rows there are, whatever
\* their order, at most CandidateLimit; a row must be a chunk that is admitted.
Nearest(there) ==
  {Filtered(hits, LAMBDA n : n \in request.available) :
     hits \in UNION {SetToSeqs(s) : s \in
       {s \in SUBSET there : Cardinality(s) = IF Cardinality(there) < CandidateLimit
                                             THEN Cardinality(there) ELSE CandidateLimit}}}
SearchRows(all) ==
  \E hits \in Nearest({n \in all : Row(manifest, n) \in rows}) :
    request' = [request EXCEPT !.dense = Append(@, hits),
                               !.whole = @ /\ (intact => \A n \in all : Row(manifest, n) \in rows)]

\* A knowledge base of the plan is searched, if the index is the one of the
\* chunks read.  Any failure leaves the other channels.
SearchBase ==
  /\ request.pc = "search" /\ Len(request.dense) < Len(request.plan.bases)
  /\ \/ /\ IndexMatches
        /\ SearchRows(RowsOfBase(C, request.plan.bases[Len(request.dense) + 1]))
     \/ request' = [request EXCEPT !.dense = Append(@, << >>), !.mode = "hybrid_degraded",
                                   !.told = @ \cup {"keywords_only"}]
  /\ UNCHANGED indexVars

Channels(chunks, plan) ==
  <<[weight |-> 2, ranking |-> Lexical(chunks, request.available, plan.terms)]>>
  \o [t \in DOMAIN plan.topics |->
        [weight |-> 1, ranking |-> Lexical(chunks, request.available, {plan.topics[t]})]]
  \o [d \in DOMAIN request.dense |-> [weight |-> 2, ranking |-> request.dense[d]]]

\* The model grades the first candidates, or its call fails.
Outcomes(scored) ==
  {[ranked |-> Graded(scored, grades), told |-> {}] :
     grades \in [{scored[k].at : k \in DOMAIN Cut(scored, RerankLimit)} -> Grades]}
  \cup (IF scored = << >> THEN {} ELSE {[ranked |-> ByFeatures(scored), told |-> {"rules_only"}]})

WithEvidence(choice, told) ==
  [request EXCEPT
     !.pc = "found", !.dense = << >>, !.evidence = choice.chosen,
     !.told = @ \cup told \cup (IF choice.chosen = << >> THEN {"nothing_found"} ELSE {})
                \cup (IF choice.dropped THEN {"too_long"} ELSE {})
                \cup (IF request.plan.concepts \subseteq choice.covered THEN {} ELSE {"topics_missing"})]

\* The rest of search and of retrieve_evidence: fusion, rerank, the choice, and
\* what the limitations say of it.
RankIn(chunks, plan) ==
  \E outcome \in Outcomes(Scored(chunks, plan, Channels(chunks, plan))) :
    request' = WithEvidence(Select(chunks, plan, outcome.ranked), outcome.told)
Rank ==
  /\ request.pc = "search" /\ Len(request.dense) = Len(request.plan.bases)
  /\ RankIn(C, request.plan)
  /\ UNCHANGED indexVars

Answered == request.pc = "found" /\ request' = Idle /\ UNCHANGED indexVars

Init == IndexInit /\ request = Idle

Next ==
  \/ IndexNext /\ UNCHANGED request
  \/ \E q \in Questions : Retrieve(q)
  \/ SearchBase \/ Rank \/ Answered

Spec == Init /\ [][Next]_docVars

-----------------------------------------------------------------------------
(* Properties. *)

Found == request.pc = "found" /\ request.mode # "refused"

\* A search is called hybrid only if the vectors of all the chunks it read were
\* searched: with a corpus replaced before the new index is published, a build
\* that failed between two batches or another embedding configuration, it is
\* called degraded and says so; only dropping the collection escapes this.
HybridWhole ==
  /\ request.pc # "idle" /\ request.mode = "hybrid" => request.whole
  /\ request.mode = "hybrid_degraded" => "keywords_only" \in request.told

CharsIn(chunks, chosen) == FoldLeft(LAMBDA sum, n : sum + chunks[n].chars, 0, chosen)
Fit(chunks, plan, chosen) ==
  /\ Len(chosen) <= TopK /\ CharsIn(chunks, chosen) <= ContextChars
  /\ \A k, l \in DOMAIN chosen :
       chunks[chosen[k]].text = chunks[chosen[l]].text => k = l \/ request.mode = "exact_id"
  /\ \A n \in ToSet(chosen) :
       /\ chunks[n].base \in ToSet(plan.bases) /\ chunks[n].status # "withdrawn"
       /\ request.q.fab # "none" => chunks[n].fabs = {} \/ request.q.fab \in chunks[n].fabs
       /\ plan.ids = << >> /\ chunks[n].base = Playbook => Aligned(chunks[n], Intents(request.q))
\* What the answer is written from: no text twice, within the limits, none of
\* another FAB, of a withdrawn document or, for a playbook, of another issue
\* unless its id was asked for.
EvidenceFit == Found => Fit(C, request.plan, request.evidence)

Told(chunks, plan, chosen) ==
  /\ request.mode # "exact_id"
     /\ (\E topic \in plan.concepts : \A n \in chosen : topic \notin chunks[n].concepts) =>
       "topics_missing" \in request.told
  /\ request.mode = "exact_id"
     /\ (\E id \in ToSet(plan.ids) : \A n \in chosen : id \notin chunks[n].primary) =>
       "missing_ids" \in request.told
  /\ chosen = {} => request.told \cap {"nothing_found", "missing_ids"} # {}
\* No gap of the evidence is passed over in silence: a topic of the question
\* that no passage is about is told; of a question that is a list of procedures,
\* each one no passage describes is told; and so is an answer without evidence.
\* A procedure named beside a topic is ranked for, not looked up, and its lack
\* is not told.
GapsTold == Found => Told(C, request.plan, ToSet(request.evidence))

\* An answer may be written from the evidence: it fits, and what it lacks is told.
EvidenceSound == EvidenceFit /\ GapsTold

=============================================================================
