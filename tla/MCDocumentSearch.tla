--------------------------- MODULE MCDocumentSearch ---------------------------
(* A small corpus in two editions for the model checker. *)
EXTENDS DocumentSearch

Par(chars, concepts, issues, about, ids, primary, fabs) ==
  [chars |-> chars, concepts |-> concepts, words |-> {}, issues |-> issues, about |-> about,
   ids |-> ids, primary |-> primary, fabs |-> fabs]

\* Paragraphs: one longer than a chunk, a short one and a wide one of one FAB.
MCParagraphs ==
  [long  |-> Par(9, {"queue_time"}, <<"queue_time_lot">>, {"queue_time"}, {}, {}, << >>),
   short |-> Par(4, {"queue_time"}, << >>, {"queue_time", "wip"}, {"pb1", "pb2"}, {"pb1"}, << >>),
   wide  |-> Par(8, {"wip"}, << >>, {"wip"}, {"pb1"}, {}, <<"fab2">>)]

File(name, base, status, title, paragraphs) ==
  [name |-> name, base |-> base, fabs |-> {}, reliability |-> "unverified", status |-> status,
   units |-> <<[title |-> title, noise |-> FALSE, paragraphs |-> paragraphs]>>]

\* The first edition has a text twice; in the second, one document is left,
\* withdrawn.
MCDocuments ==
  [e1 |-> <<File("guide", Playbook, "active", {}, <<"short", "wide">>),
            File("sheet", Basics, "active", {}, <<"short">>)>>,
   e2 |-> <<File("guide", Playbook, "withdrawn", {}, <<"long">>)>>]

Ask(mentions, ids, words, fab, fabs) ==
  [base |-> "any", mentions |-> mentions, signals |-> {}, ids |-> ids,
   idsOnly |-> ids # << >> /\ mentions = {}, words |-> words,
   terms |-> {}, fab |-> fab, fabs |-> fabs]

MCQuestions ==
  {Ask({<<"queue_time", TRUE>>, <<"wip", TRUE>>, <<"setup", FALSE>>}, << >>, {}, "fab1", {}),
   Ask({<<"queue_time", TRUE>>, <<"wip", TRUE>>}, << >>, {"principle"}, "none", {}),
   Ask({}, <<"pb1", "pb2">>, {}, "none", {}), Ask({}, <<"pb2">>, {}, "none", {}),
   Ask({<<"queue_time", TRUE>>}, <<"pb2">>, {}, "none", {}),
   Ask({<<"wip", TRUE>>}, << >>, {}, "fab1", {"fab2"})}

MCSymmetry == Permutations(Builders)
MCIssueOrder == <<"queue_time", "wip">>
MCNarrower == {<<"queue_time", "queue_time_lot">>}
MCIncidentConcepts == {"queue_time", "wip"}
MCDimension == [v1 |-> 2, v2 |-> 3]
=============================================================================
