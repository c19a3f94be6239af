SPECIFICATION ScopeSpec
CONSTANTS
  f1 = f1
  f2 = f2
  f9 = f9
  etch = etch
  photo = photo
  line1 = line1
  line2 = line2
  product1 = product1
  tool1 = tool1
  week1 = week1
  None = None
  Supported <- BothFabs
  Areas <- BothAreas
  Recognised <- AskedQuestions
  Panels <- PagePanels
  Periods = {week1}
  Window = 2
  MaxQuestions = 3
  MaxLong = 4
  LongQuestions <- FollowedQuestions
  MaxOpen = 2
INVARIANTS
  ScopeAsMeant
CHECK_DEADLOCK FALSE
