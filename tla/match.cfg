SPECIFICATION Spec
CONSTANTS
  Users = {u1, u2}
  NoUser = NoUser
  Galleries <- MCGalleries
  BestMin = 2
INVARIANTS TypeOK VerdictIsExpected NobodyElseScoredBetter
CHECK_DEADLOCK FALSE
