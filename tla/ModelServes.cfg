SPECIFICATION FairSpec
CONSTANTS
  Workers = {w1, w2}
  Calls = {1, 2}
  Requests <- MCRequests
  NCtx = 10
  Scores = {1, 2}
CHECK_DEADLOCK FALSE
INVARIANTS
  TypeOK
  BatchClean
  SequencesFit
  AnswersOwnTexts
  RanksOrdered
PROPERTIES
  RequestsAnswered
