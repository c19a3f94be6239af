\* Questions of every kind from their evidence to the answer shown.
SPECIFICATION Spec
CONSTANTS
  IssueOrder <- MCIssueOrder
  Covers <- MCCovers
  Marks <- MCMarks
  CaseLimit = 5
  CauseLimit = 3
  Spans <- MCSpans
  Reliability <- MCReliability
  Questions <- MCQuestions
  Results <- MCResults
  Retrieved <- MCRetrieved
  Stores <- MCStores
  Answers <- MCAnswers
  Revisions <- MCRevisions
  Outputs <- MCOutputs
  Reviews <- MCReviews
  MaxReviews = 3
  MaxGenerations = 2
  Absent = Absent
  Refused = Refused
  Withheld = Withheld
  Rejected = Rejected
INVARIANTS
  ReviewedText
  NumbersHold
  AskedAnswered
  CandidatesEarned
  ImpactBounded
  AxisAccounted
  NoUnverifiedClaim
PROPERTIES
  AnswerGiven
CHECK_DEADLOCK FALSE
