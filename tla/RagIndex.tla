------------------------------- MODULE RagIndex -------------------------------
(***************************************************************************)
(* The corpus of documents and its vector index: how documents are cut     *)
(* into chunks (rag/ingest.py), how a build writes the rows of a version   *)
(* batch by batch and publishes it with a manifest                         *)
(* (scripts/build_rag_index.py, rag/milvus_store.py, rag/manifest.py), and *)
(* what happens when builds fail, crash, are repeated or overlap.          *)
(*                                                                         *)
(* A text is the sequence of the pieces of paragraphs it is made of; an    *)
(* edition of the corpus stands for the digest of its chunks.  Rows that   *)
(* scripts/ingest_rag_documents.py writes carry no version and are never   *)
(* searched, so they are left out.                                         *)
(***************************************************************************)
EXTENDS Integers, FiniteSets, SequencesExt, Ordering

CONSTANTS
  Editions,      \* editions of the documents that may be ingested
  Documents,     \* the files of an edition, in the order they are read
  Paragraphs,    \* what is in a paragraph: chars, concepts, words, issues, ids, ...
  IssueOrder,    \* _ISSUE_METADATA_TERMS: issue types in the order they are tried
  TargetChars, OverlapChars, MaxContent,   \* limits of a chunk
  BatchSize,     \* chunks embedded and written at once
  Embeddings,    \* embedding configurations: model, revision and dimension
  Dimension,     \* the dimension of a configuration
  Builders       \* runs of build_rag_index, one after the other or overlapping

ASSUME ChunkAssumption ==
  /\ TargetChars \in Nat /\ OverlapChars \in Nat /\ OverlapChars < TargetChars
  /\ BatchSize \in Nat \ {0}
\* A document is a list of units, and a unit one of paragraphs, none empty.
ASSUME DocumentAssumption ==
  /\ \A p \in DOMAIN Paragraphs : Paragraphs[p].chars \in Nat \ {0}
  /\ \A e \in Editions :
       /\ IsList(Documents[e])
       /\ \A file \in ToSet(Documents[e]) :
            /\ IsList(file.units)
            /\ \A unit \in ToSet(file.units) :
                 IsList(unit.paragraphs) /\ ToSet(unit.paragraphs) \subseteq DOMAIN Paragraphs
ASSUME DimensionAssumption == Dimension \in [Embeddings -> Nat \ {0}]

-----------------------------------------------------------------------------
(* From documents to chunks. *)

Piece(p, from, to) == [par |-> p, from |-> from, to |-> to]
Whole(p) == Piece(p, 0, Paragraphs[p].chars)

\* Paragraphs of a chunk are joined by an empty line.
CharsOf(text) ==
  FoldLeft(LAMBDA n, piece : n + (piece.to - piece.from), 0, text)
  + (IF text = << >> THEN 0 ELSE 2 * (Len(text) - 1))

\* _split_text: paragraphs are collected up to the target; a longer one is cut
\* into windows that overlap, and the last window collects what follows.
Stride == TargetChars - OverlapChars
Windows(chars) == IF chars <= TargetChars THEN 0 ELSE (chars - TargetChars - 1) \div Stride + 1
CutAt(acc, p, windows) ==
  [chunks  |-> (IF acc.current = << >> THEN acc.chunks ELSE Append(acc.chunks, acc.current))
               \o [k \in 1..windows |-> <<Piece(p, (k - 1) * Stride, (k - 1) * Stride + TargetChars)>>],
   current |-> <<Piece(p, windows * Stride, Paragraphs[p].chars)>>]
Closed(acc) == IF acc.current = << >> THEN acc.chunks ELSE Append(acc.chunks, acc.current)
Taken(acc, p) ==
  IF CharsOf(Append(acc.current, Whole(p))) <= TargetChars
  THEN [acc EXCEPT !.current = Append(@, Whole(p))]
  ELSE CutAt(acc, p, Windows(Paragraphs[p].chars))
Collected(paragraphs) == FoldLeft(Taken, [chunks |-> << >>, current |-> << >>], paragraphs)
\* A fault: what is left when the paragraphs end is not kept.
SplitDropping(paragraphs) == Collected(paragraphs).chunks
SplitText(paragraphs) == Closed(Collected(paragraphs))

In(text, field) == UNION {Paragraphs[text[k].par][field] : k \in DOMAIN text}

FirstOf(seq) == {seq[k] : k \in DOMAIN seq \cap {1}}
InTurn(text, field) == FlattenSeq([k \in DOMAIN text |-> Paragraphs[text[k].par][field]])
\* _infer_metadata: the issue types the text declares, in turn, else the first
\* in the order of the table of the types it is about; the first FAB it names.
Declared(text) ==
  IF InTurn(text, "issues") # << >> THEN InTurn(text, "issues")
  ELSE SelectSeq(IssueOrder, LAMBDA issue : issue \in In(text, "about"))
IssuesIn(text) ==
  IF InTurn(text, "issues") # << >> THEN ToSet(InTurn(text, "issues"))
  ELSE FirstOf(Declared(text))
FabIn(text) == FirstOf(InTurn(text, "fabs"))

\* _chunks_for_file: the scope of the document goes before one FAB its text
\* names; the base, the name, the place and the text of a chunk make its id.
\* A text mentions procedures, and is the place where some are described.
ChunkOf(file, unit, text, index) ==
  [id |-> <<file.base, file.name, index, text>>, base |-> file.base, text |-> text, chars |-> CharsOf(text),
   title |-> unit.title, concepts |-> unit.title \cup In(text, "concepts"),
   words |-> [k \in DOMAIN text |-> unit.title \cup In(<<text[k]>>, "words") \cup In(<<text[k]>>, "concepts")],
   issues |-> IssuesIn(text), issue |-> FirstOf(Declared(text)), noise |-> unit.noise,
   ids |-> In(text, "ids"), primary |-> In(text, "primary"),
   fabs |-> IF file.fabs # {} THEN file.fabs ELSE FabIn(text),
   reliability |-> file.reliability, status |-> file.status]

TextsOf(unit) ==
  LET texts == SplitText(unit.paragraphs) IN [k \in DOMAIN texts |-> [unit |-> unit, text |-> texts[k]]]
ChunksOfFile(file) ==
  LET texts == FlattenSeq([u \in DOMAIN file.units |-> TextsOf(file.units[u])])
  IN  [k \in DOMAIN texts |-> ChunkOf(file, texts[k].unit, texts[k].text, k)]

\* build_chunks_for_paths, and the chunk store load_chunks reads.
Corpus ==
  [e \in Editions |-> FlattenSeq([f \in DOMAIN Documents[e] |-> ChunksOfFile(Documents[e][f])])]

\* validate_chunks, and the check of insert_chunks.
Valid(chunks) ==
  /\ \A m, n \in DOMAIN chunks : chunks[m].id = chunks[n].id => m = n
  /\ \A n \in DOMAIN chunks : chunks[n].chars > 0
Storable(chunks) == \A n \in DOMAIN chunks : chunks[n].chars <= MaxContent

-----------------------------------------------------------------------------
VARIABLES
  corpus,      \* the edition in the local chunk store
  rows,        \* rows of the collection: <<version, place in the corpus>>
  stored,      \* dimension of the collection, 0 while it does not exist
  manifest,    \* the published version
  intact,      \* history: the collection was not recreated under the manifest's build
  builder      \* the runs of build_rag_index

indexVars == <<corpus, rows, stored, manifest, intact, builder>>

\* make_manifest: an index version is named by the digest of the corpus and by
\* the embedding configuration, and counts the chunks.
VersionOf(e, embedding) == [edition |-> e, embedding |-> embedding, count |-> Len(Corpus[e])]
Versions == {VersionOf(e, embedding) : e \in Editions, embedding \in Embeddings}
NoVersion == [edition |-> "none", embedding |-> "none", count |-> 0]
Row(version, n) == <<version, n>>

Builder(pc) == [pc |-> pc, version |-> NoVersion, next |-> 0, inserted |-> 0, clean |-> TRUE]

IndexInit ==
  /\ corpus \in Editions /\ rows = {} /\ stored = 0 /\ manifest = NoVersion /\ intact = TRUE
  /\ builder = [b \in Builders |-> Builder("ready")]

\* ingest_rag_documents: the chunk store is replaced in one step; the
\* collection may be created on the way.
Ingest(e, embedding) ==
  /\ corpus' = e
  /\ stored' \in {stored, IF stored = 0 /\ Storable(Corpus[e]) THEN Dimension[embedding] ELSE stored}
  /\ UNCHANGED <<rows, manifest, intact, builder>>

\* build_rag_index: load_chunks and make_manifest.
StartBuild(b, embedding) ==
  /\ builder[b].pc = "ready" /\ Valid(Corpus[corpus])
  /\ builder' = [builder EXCEPT ![b] = [pc |-> "loaded", next |-> 0, inserted |-> 0, clean |-> TRUE,
                                        version |-> VersionOf(corpus, embedding)]]
  /\ UNCHANGED <<corpus, rows, stored, manifest, intact>>

\* A run ends, by its last line, an error or a crash; a retry is another run.
Ends(b) == builder' = [builder EXCEPT ![b] = Builder("done")]

\* insert_chunks up to its loop: ensure_collection.
EnsureCollection(b) ==
  LET dim == Dimension[builder[b].version.embedding] IN
  /\ builder[b].pc = "loaded"
  /\ IF Storable(Corpus[builder[b].version.edition]) /\ stored \in {0, dim}
     THEN /\ stored' = dim
          /\ builder' = [builder EXCEPT ![b].pc = "writing"]
     ELSE Ends(b) /\ UNCHANGED stored
  /\ UNCHANGED <<corpus, rows, manifest, intact>>

BatchOf(b) ==
  {n \in 1..builder[b].version.count : builder[b].next < n /\ n <= builder[b].next + BatchSize}

\* One batch is embedded and upserted: all its rows, or, when the call fails or
\* reports fewer, some of them.  Rows of a version that exist are replaced.
WriteBatch(b) ==
  /\ builder[b].pc = "writing" /\ BatchOf(b) # {}
  /\ \E written \in SUBSET BatchOf(b), told \in BOOLEAN :
       /\ stored # Dimension[builder[b].version.embedding] => written = {} /\ ~told
       /\ rows' = rows \cup {Row(builder[b].version, n) : n \in written}
       /\ IF told
          THEN builder' = [builder EXCEPT ![b].next = @ + Cardinality(BatchOf(b)),
                                          ![b].inserted = @ + Cardinality(written)]
          ELSE Ends(b)
  /\ UNCHANGED <<corpus, stored, manifest, intact>>

\* A fault: a build is published whatever was reported.
PublishAnyway(b) ==
  /\ builder[b].pc = "writing" /\ BatchOf(b) = {}
  /\ manifest' = builder[b].version /\ intact' = builder[b].clean
  /\ Ends(b)
  /\ UNCHANGED <<corpus, rows, stored>>

\* The end of main: the manifest is replaced in one step, and only if every
\* chunk was reported as written.
Publish(b) ==
  /\ builder[b].pc = "writing" /\ BatchOf(b) = {}
  /\ IF builder[b].inserted = builder[b].version.count
     THEN manifest' = builder[b].version /\ intact' = builder[b].clean
     ELSE UNCHANGED <<manifest, intact>>
  /\ Ends(b)
  /\ UNCHANGED <<corpus, rows, stored>>

Crash(b) ==
  /\ builder[b].pc \in {"loaded", "writing"} /\ Ends(b)
  /\ UNCHANGED <<corpus, rows, stored, manifest, intact>>

\* ensure_milvus_collection --recreate: dropped and created empty.
Recreate(embedding) ==
  /\ stored' = Dimension[embedding] /\ rows' = {} /\ intact' = FALSE
  /\ builder' = [b \in Builders |-> [builder[b] EXCEPT !.clean = FALSE]]
  /\ UNCHANGED <<corpus, manifest>>

IndexNext ==
  \/ \E e \in Editions, embedding \in Embeddings : Ingest(e, embedding)
  \/ \E b \in Builders :
       \/ \E embedding \in Embeddings : StartBuild(b, embedding)
       \/ EnsureCollection(b) \/ WriteBatch(b) \/ Publish(b) \/ Crash(b)
  \/ \E embedding \in Embeddings : Recreate(embedding)

-----------------------------------------------------------------------------
(* Properties. *)

IndexTypeOK ==
  /\ corpus \in Editions /\ stored \in Nat /\ manifest \in Versions \cup {NoVersion} /\ intact \in BOOLEAN
  /\ \A row \in rows : row[1] \in Versions /\ row[2] \in 1..row[1].count
  /\ builder \in [Builders -> [pc : {"ready", "loaded", "writing", "done"}, version : Versions \cup {NoVersion},
                               next : Nat, inserted : Nat, clean : BOOLEAN]]

\* A manifest is the promise that its version can be searched: every chunk of
\* the corpus it was made of has its row, whatever builds failed between two
\* batches, crashed, were repeated, overlapped or were told of fewer rows, and
\* however the corpus was replaced meanwhile, unless the collection was dropped.
PublishedWhole ==
  manifest # NoVersion /\ intact => \A n \in 1..manifest.count : Row(manifest, n) \in rows

Kept(chunks, p, char) ==
  \E n \in DOMAIN chunks : \E k \in DOMAIN chunks[n].text :
    chunks[n].text[k].par = p /\ chunks[n].text[k].from <= char /\ char < chunks[n].text[k].to
AllKept(chunks, files) ==
  /\ \A n \in DOMAIN chunks : chunks[n].chars <= TargetChars
  /\ \A f \in DOMAIN files : \A u \in DOMAIN files[f].units :
       \A p \in ToSet(files[f].units[u].paragraphs) : \A char \in 0..(Paragraphs[p].chars - 1) :
         Kept(chunks, p, char)
\* The chunk store loses nothing of a document: no chunk is longer than the
\* target, and every character of every paragraph is in a chunk.
DocumentsWhole == AllKept(Corpus[corpus], Documents[corpus])

=============================================================================
