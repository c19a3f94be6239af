--------------------------- MODULE ConversationScope ---------------------------
(***************************************************************************)
(* What the questions of one conversation are about.  A question names some*)
(* of its scope; prepare_request (conversation_memory.py) completes it from*)
(* the page's panel and from the exchanges the memory still holds, the     *)
(* intent analysis (intent.py, text2sql.py) resolves "both", "those        *)
(* processes" and "then" from the same exchanges, and append_exchange      *)
(* stores what the next question can inherit.                              *)
(*                                                                         *)
(* Two requests of a conversation may be under way (a stopped stream, two  *)
(* pages, the plain and the streamed endpoint): each works with the        *)
(* exchanges there were when it began and is stored when it ends.  A       *)
(* question is given by what the parsers recognise in it.                  *)
(***************************************************************************)
EXTENDS Naturals, Sequences, SequencesExt, FiniteSets, FiniteSetsExt, Ordering

CONSTANTS
  Supported,     \* the FABs there are data for (ALLOWED_FABS)
  Areas,         \* process areas
  Recognised,    \* what the parsers may recognise in a question
  Panels,        \* what the page's panel may say: FAB, line, process
  Periods,       \* time ranges a question can name
  None,          \* nothing said
  Window,        \* exchanges the memory keeps (max_turns)
  MaxOpen,       \* bound: requests under way at once
  MaxQuestions,  \* bound: questions of a conversation
  LongQuestions, \* bound: a conversation of these questions only
  MaxLong        \*   may have as many

\* The part of the scope that is carried key by key.  product stands for
\* product and route, which are treated alike.
Keys == {"line", "process", "product", "equipment"}

References == {"none", "one", "two", "all"}  \* that process, the two, those processes

ASSUME ScopeAssumption ==
  /\ None \notin Supported \cup Areas \cup Periods /\ IsFiniteSet(Areas)
  /\ \A q \in Recognised :
       /\ IsList(q.fabs) /\ None \notin Range(q.fabs)
       /\ q.areas \subseteq Areas
       /\ q.those \in References
       /\ q.period \in Periods \cup {None}
       /\ {q.compares, q.whole, q.byArea, q.likewise, q.continues, q.now} \subseteq BOOLEAN
  /\ \A p \in Panels :
       /\ p.fab \in Supported \cup {None}
       /\ p.process \in Areas \cup {None}

ASSUME ScopeBounds ==
  /\ Window \in Nat \ {0}
  /\ MaxQuestions \in Nat
  /\ MaxLong \in Nat
  /\ MaxOpen \in 1..Window

VARIABLES
  runs,   \* the requests, in the order they began
  told    \* the stored exchanges, oldest first

scopeVars == <<runs, told>>

NoTypedResult == [fab |-> None, areas |-> {}]

\* A run reads its conversation once, when it begins.
ScopeTypeOK ==
  /\ \A i \in DOMAIN runs :
       /\ runs[i].question \in Recognised
       /\ runs[i].panel \in Panels
       /\ runs[i].seen \in 0..Len(told)
       /\ runs[i].pc \in {"running", "stored", "failed"}
       /\ runs[i].areas \subseteq Areas
       /\ runs[i].period \in Periods \cup {None}
  /\ \A n \in DOMAIN told :
       /\ runs[told[n].of].pc = "stored"
       /\ runs[told[n].of].seen < n
       /\ told[n].queryAreas \subseteq Areas
       /\ told[n].queryPeriod \in Periods \cup {None}
       /\ told[n].status \in {"succeeded", "needs_clarification", "failed"}
       /\ told[n].result = NoTypedResult \/ told[n].result.fab \in Supported

\* Bound: a question may still be asked.  What happens after the last one is
\* of no consequence for any other.
MoreToAsk ==
  Len(runs) < IF \A i \in DOMAIN runs : runs[i].question \in LongQuestions
                THEN MaxLong ELSE MaxQuestions

-----------------------------------------------------------------------------
(* What the memory holds *)

\* The exchanges of the conversation that are still in the memory.
History(exchanges) ==
  IF Len(exchanges) <= Window
    THEN exchanges
    ELSE SubSeq(exchanges, Len(exchanges) - Window + 1, Len(exchanges))

Asked(exchange) == runs[exchange.of].question

\* The keys a question sets free: a question about a whole FAB, about several
\* areas, or area by area is about no process or equipment of before.
Resets(question) ==
  CASE question.whole -> Keys
    [] ~question.whole /\ Cardinality(question.areas) > 1 -> {"process", "equipment"}
    [] ~question.whole /\ question.byArea /\ question.areas = {} -> {"process", "equipment"}
    [] OTHER -> {}

\* A fault: a question that sets the key free is looked through.
InferredThrough(h, key) ==
  LET says == {n \in DOMAIN h : runs[h[n].of].keys[key] # None}
  IN IF says = {} THEN None ELSE runs[h[Max(says)].of].keys[key]

\* The newest exchange of h that says something of the key: its value, unless
\* its question set the key free.
Inferred(h, key) ==
  LET says == {n \in DOMAIN h : runs[h[n].of].keys[key] # None \/ key \in Resets(Asked(h[n]))}
  IN IF says = {} \/ key \in Resets(Asked(h[Max(says)]))
       THEN None ELSE runs[h[Max(says)].of].keys[key]

InferredFab(h) ==
  LET says == {n \in DOMAIN h : runs[h[n].of].fab # None}
  IN IF says = {} THEN None ELSE runs[h[Max(says)].of].fab

-----------------------------------------------------------------------------
(* FABs *)

\* The one supported FAB a question names.
ParsedFab(question) ==
  IF Len(question.fabs) = 1 /\ question.fabs[1] \in Supported
    THEN question.fabs[1] ELSE None

\* A fault: the FAB in the panel undoes the one named before.
SuppliedFabOnly(h, panel) == panel.fab

\* A FAB left as it is in the panel does not undo the one named before.
SuppliedFab(h, panel) ==
  IF h # <<>> /\ panel.fab = runs[Last(h).of].panel.fab /\ InferredFab(h) # None
    THEN InferredFab(h) ELSE panel.fab

PreparedFab(h, question, panel) ==
  CASE ParsedFab(question) # None -> ParsedFab(question)
    [] ParsedFab(question) = None /\ SuppliedFab(h, panel) # None -> SuppliedFab(h, panel)
    [] OTHER -> InferredFab(h)

\* The FABs an exchange can give to a comparison.
Candidates(exchange) ==
  CASE exchange.fabIds # <<>> -> exchange.fabIds
    [] exchange.fabIds = <<>> /\ Asked(exchange).fabs # <<>> -> Asked(exchange).fabs
    [] OTHER -> <<runs[exchange.of].fab>>

\* The supported FABs of the succeeded exchanges of h, from the newest back
\* until two are found.
WithFab(found, fab) ==
  IF fab \in Supported /\ fab \notin Range(found) THEN <<fab>> \o found ELSE found
Visited(found, exchange) ==
  IF Len(found) >= 2 \/ exchange.status # "succeeded"
    THEN found ELSE FoldLeft(WithFab, found, Reverse(Candidates(exchange)))
Found(h) == FoldLeft(Visited, <<>>, Reverse(h))

\* comparison_fabs: the FABs a question compares, named or asked before.
ComparedFabs(h, question) ==
  CASE question.fabs # <<>> -> IF Len(question.fabs) > 1 THEN question.fabs ELSE <<>>
    [] question.fabs = <<>> /\ question.compares ->
         IF Len(Found(h)) >= 2 THEN Found(h) ELSE <<>>
    [] OTHER -> <<>>

\* The FABs a run works with, when the question names or compares some.
RunFabs(h, question) ==
  IF ComparedFabs(h, question) # <<>> THEN ComparedFabs(h, question) ELSE question.fabs

\* The FAB the exchanges of h were last about, None when that is no single
\* supported one.  (The code looks at six exchanges; each states its FAB.)
LastFab(h) ==
  LET says == {n \in DOMAIN h : runs[h[n].of].fab # None}
      fab == CASE says = {} -> None
               [] says # {} /\ Asked(h[Max(says)]).fabs # <<>> -> ParsedFab(Asked(h[Max(says)]))
               [] OTHER -> runs[h[Max(says)].of].fab
  IN IF fab \in Supported THEN fab ELSE None

\* resolve_fab: the FAB a question names, or that of the request, or the last one.
ResolvedFab(h, question, fab) ==
  CASE question.fabs # <<>> -> ParsedFab(question)
    [] question.fabs = <<>> /\ fab \in Supported -> fab
    [] OTHER -> LastFab(h)

-----------------------------------------------------------------------------
(* Areas and periods *)

\* Several areas of the last question are kept by a question that says "then",
\* "the same" or "those processes".
FollowedAreas(h, question) ==
  CASE Cardinality(question.areas) > 1 -> question.areas
    [] /\ question.areas = {} /\ ~question.whole /\ ~question.byArea
       /\ question.likewise \/ question.those # "none"
       /\ h # <<>>
       /\ Cardinality(Last(h).queryAreas) > 1 -> Last(h).queryAreas
    [] OTHER -> {}

\* The typed result "those processes" speak of: the last one, questions that
\* were only asked back not counted.
ReferredResult(h) ==
  LET counts == {n \in DOMAIN h :
                   h[n].result # NoTypedResult \/ h[n].status # "needs_clarification"}
  IN IF counts = {} THEN NoTypedResult ELSE h[Max(counts)].result

\* That result is of the FAB in question.
OfTheFab(h, question, fab) ==
  /\ question.those # "none" /\ question.areas = {}
  /\ ReferredResult(h).areas # {}
  /\ ReferredResult(h).fab = ResolvedFab(h, question, fab)

\* The words fit the number of areas in the result.
Fits(question, areas) ==
  /\ Cardinality(areas) > 1 => question.those \in {"two", "all"}
  /\ question.those = "two" => Cardinality(areas) = 2

\* The areas a question is about: more than one, one, or none in particular.
\* The reference stays unresolved when its words do not fit the result.
AreaScope(h, question, fab) ==
  LET referred == ReferredResult(h).areas
  IN IF OfTheFab(h, question, fab)
       THEN IF Fits(question, referred)
              THEN [areas |-> referred, unresolved |-> FALSE]
              ELSE [areas |-> {}, unresolved |-> TRUE]
       ELSE [areas |-> FollowedAreas(h, question), unresolved |-> FALSE]

\* A fault: the newest exchange that has a period gives it.
PeriodScopeLatest(h, question) ==
  LET timed == {n \in DOMAIN h : h[n].queryPeriod # None}
  IN IF question.continues /\ question.period = None /\ ~question.now /\ timed # {}
       THEN h[Max(timed)].queryPeriod ELSE question.period

\* inherit_followup_period: a question that goes on ("then", "again", "the same
\* period") keeps the last period.  Its words are not those of FollowedAreas.
PeriodScope(h, question) ==
  IF question.continues /\ question.period = None /\ ~question.now /\ h # <<>>
    THEN Last(h).queryPeriod ELSE question.period

-----------------------------------------------------------------------------
(* The key-by-key scope of a run *)

NamedKey(question, key) ==
  CASE key = "process" -> IF Cardinality(question.areas) = 1
                            THEN CHOOSE area \in question.areas : TRUE ELSE None
    [] OTHER -> question[key]

PanelKey(panel, key) == IF key \in {"line", "process"} THEN panel[key] ELSE None

\* prepare_request: what the question names, or, unless it sets the key free,
\* what the panel says, or what the conversation was about.
PreparedKey(h, question, panel, key) ==
  CASE NamedKey(question, key) # None -> NamedKey(question, key)
    [] NamedKey(question, key) = None /\ key \in Resets(question) -> None
    [] NamedKey(question, key) = None /\ key \notin Resets(question) ->
         IF PanelKey(panel, key) # None THEN PanelKey(panel, key) ELSE Inferred(h, key)

\* resolved_request_context: "that process" names the one area of the result.
ResolvedKey(h, question, panel, fab, key) ==
  LET areas == AreaScope(h, question, fab).areas
  IN IF key = "process" /\ Cardinality(areas) = 1
       THEN CHOOSE area \in areas : TRUE
       ELSE PreparedKey(h, question, panel, key)

-----------------------------------------------------------------------------

ScopeInit ==
  /\ runs = <<>>
  /\ told = <<>>

Running == {i \in DOMAIN runs : runs[i].pc = "running"}

\* A question arrives: its scope is completed from the conversation as it is.
Ask(question, panel) ==
  /\ MoreToAsk
  /\ Len(runs) < MaxQuestions \/ question \in LongQuestions
  /\ Cardinality(Running) < MaxOpen
  /\ LET h == History(told)
         prepared == PreparedFab(h, question, panel)
         fabs == RunFabs(h, question)
         scope == AreaScope(h, question, prepared)
     IN runs' = Append(runs,
          [question |-> question, panel |-> panel, seen |-> Len(told), pc |-> "running",
           fab |-> IF fabs # <<>> THEN fabs[1] ELSE prepared,
           fabs |-> fabs,
           keys |-> [key \in Keys |-> ResolvedKey(h, question, panel, prepared, key)],
           areas |-> scope.areas,
           period |-> PeriodScope(h, question),
           unclear |-> scope.unresolved \/ ~(Range(fabs) \subseteq Supported)])
  /\ UNCHANGED told

\* What the rows of a complete result say of its areas: those asked about, if
\* any were, each with at least one row.
Results(run) ==
  LET about == IF run.areas # {} THEN run.areas
               ELSE IF run.keys["process"] # None THEN {run.keys["process"]} ELSE Areas
  IN IF run.fab \in Supported /\ Len(run.fabs) < 2
       THEN [fab : {run.fab}, areas : (SUBSET about) \ {{}}] ELSE {}

\* append_exchange: the run ends and its exchange is stored, with what it says
\* of areas and period read from the conversation as it is then, and without
\* the FAB of the run.
Store(i, status, result) ==
  /\ MoreToAsk
  /\ LET h == History(told)
         question == runs[i].question
         scope == AreaScope(h, question, None)
     IN told' = Append(told,
          [of |-> i, status |-> status, result |-> result,
           fabIds |-> ComparedFabs(h, question),
           queryAreas |-> IF Cardinality(scope.areas) > 1 THEN scope.areas ELSE {},
           queryPeriod |-> PeriodScope(h, question)])
  /\ runs' = [runs EXCEPT ![i].pc = "stored"]

Answer(i) ==
  /\ runs[i].pc = "running"
  /\ ~runs[i].unclear
  /\ \/ \E result \in Results(runs[i]) \cup {NoTypedResult} : Store(i, "succeeded", result)
     \/ Store(i, "failed", NoTypedResult)

\* The question is asked back: always, when its FAB or its areas are not clear.
AskBack(i) ==
  /\ runs[i].pc = "running"
  /\ Store(i, "needs_clarification", NoTypedResult)

\* The run is stopped or fails, and nothing of it is stored.
Abandon(i) ==
  /\ MoreToAsk
  /\ runs[i].pc = "running"
  /\ runs' = [runs EXCEPT ![i].pc = "failed"]
  /\ UNCHANGED told

ScopeNext ==
  \/ \E question \in Recognised, panel \in Panels : Ask(question, panel)
  \/ \E i \in DOMAIN runs : Answer(i) \/ AskBack(i) \/ Abandon(i)

ScopeSpec == ScopeInit /\ [][ScopeNext]_scopeVars

-----------------------------------------------------------------------------
(* Properties *)

\* The FAB a run should be about: the one its question names or compares, a
\* FAB newly chosen in the panel, or the one the conversation was last about.
FabMeant[i \in DOMAIN runs] ==
  LET run == runs[i]
      said == {n \in 1..run.seen : FabMeant[told[n].of] # None}
      chosen == /\ run.panel.fab # None
                /\ run.seen = 0 \/ run.panel.fab # runs[told[run.seen].of].panel.fab
  IN CASE run.question.fabs # <<>> -> run.question.fabs[1]
       [] run.question.fabs = <<>> /\ run.fabs # <<>> -> run.fabs[1]
       [] run.question.fabs = <<>> /\ run.fabs = <<>> ->
            IF chosen \/ said = {} THEN run.panel.fab ELSE FabMeant[told[Max(said)].of]

\* "Both" are supported FABs that succeeded exchanges were about.
ComparisonEarned(run) ==
  run.question.fabs = <<>> /\ run.fabs # <<>> =>
    /\ Len(run.fabs) >= 2 /\ IsInjective(run.fabs)
    /\ \A fab \in Range(run.fabs) :
         /\ fab \in Supported
         /\ \E n \in 1..run.seen :
              /\ told[n].status = "succeeded"
              /\ fab \in {runs[told[n].of].fab} \cup Range(runs[told[n].of].fabs)

\* A follow-up keeps the FAB of the conversation, a FAB named in it wins over
\* the panel, and one newly chosen in the panel takes effect (workspace.jsx:225
\* says so to the user), however many exchanges the memory has dropped and
\* whatever was answered meanwhile.
FabAsMeant ==
  \A i \in DOMAIN runs : runs[i].fab = FabMeant[i] /\ ComparisonEarned(runs[i])

\* The keys a question makes the conversation forget.
Frees(question, key) ==
  \/ question.whole
  \/ /\ key \in {"process", "equipment"}
     /\ \/ Cardinality(question.areas) > 1
        \/ question.byArea /\ question.areas = {}

\* What a run should take a key to be: named, else free, else the panel's,
\* else what the conversation last said, if it was not set free since.
KeyMeant[p \in (DOMAIN runs) \X Keys] ==
  LET run == runs[p[1]]
      key == p[2]
      says == {n \in 1..run.seen :
                 KeyMeant[<<told[n].of, key>>] # None \/ Frees(Asked(told[n]), key)}
  IN IF key = "process" /\ Cardinality(run.areas) = 1 THEN CHOOSE a \in run.areas : TRUE
     ELSE IF NamedKey(run.question, key) # None THEN NamedKey(run.question, key)
     ELSE IF Frees(run.question, key) THEN None
     ELSE IF PanelKey(run.panel, key) # None THEN PanelKey(run.panel, key)
     ELSE IF says = {} \/ Frees(Asked(told[Max(says)]), key) THEN None
     ELSE KeyMeant[<<told[Max(says)].of, key>>]

\* The period a run should work with: its own, or that of the exchange the
\* follow-ups go back to.
GoesOn(question) == question.continues /\ question.period = None /\ ~question.now

PeriodMeant(run) ==
  LET begins == {n \in 1..run.seen : ~GoesOn(Asked(told[n]))}
  IN IF ~GoesOn(run.question) THEN run.question.period
     ELSE IF begins = {} THEN None ELSE Asked(told[Max(begins)]).period

\* Areas nobody named in the question were named together in an earlier one, or
\* are those of one complete typed result: never of an answer's prose, and
\* never put together from two.
AreasEarned(run) ==
  run.areas \in {{}, run.question.areas} \/
    \E n \in 1..run.seen :
      run.areas \in {Asked(told[n]).areas, told[n].result.areas}

\* Each part of a run's scope is what the conversation last said of it: nothing
\* survives the question that set it free, nothing is lost with the exchanges
\* the memory drops, and a follow-up keeps the period it follows.
ScopeCarried ==
  \A i \in DOMAIN runs :
    /\ \A key \in Keys : runs[i].keys[key] = KeyMeant[<<i, key>>]
    /\ runs[i].period = PeriodMeant(runs[i])
    /\ AreasEarned(runs[i])

\* A run is about what its question and the conversation before it say, also
\* when exchanges were stored in another order than they were asked.
ScopeAsMeant == ScopeTypeOK /\ FabAsMeant /\ ScopeCarried

\* intent.py:253 says of the resolved scope: "The same grounded context must
\* drive tools and the next conversation turn."  What is stored of a run's
\* areas and period is what the run worked with.
SameContext ==
  \A n \in DOMAIN told :
    LET run == runs[told[n].of]
    IN /\ told[n].queryAreas = (IF Cardinality(run.areas) > 1 THEN run.areas ELSE {})
       /\ told[n].queryPeriod = run.period

=============================================================================
