\* Retrieval beside two index builds, two editions of the documents.
SPECIFICATION Spec
CONSTANTS
  Editions = {"e1", "e2"}
  Documents <- MCDocuments
  Paragraphs <- MCParagraphs
  IssueOrder <- MCIssueOrder
  TargetChars = 8
  OverlapChars = 1
  MaxContent = 10
  BatchSize = 2
  Embeddings = {"v1", "v2"}
  Dimension <- MCDimension
  Builders = {b1, b2}
  IncidentConcepts <- MCIncidentConcepts
  Narrower <- MCNarrower
  RankConstant = 2
  CandidateLimit = 3
  RerankLimit = 2
  TopK = 2
  ContextChars = 9
  Questions <- MCQuestions
  Serving = "v1"
  Grades = {1, 3}
SYMMETRY MCSymmetry
INVARIANTS
  PublishedWhole
  DocumentsWhole
  HybridWhole
  EvidenceSound
