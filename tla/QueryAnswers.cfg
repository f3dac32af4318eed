CONSTANTS
  Workspaces = {"a", "b"}
  Docs = {1, 2, 3}
  Texts <- SomeTexts
  Before <- TwoDocs
  Requests <- SomeRequests
  BruteForceMax = 2
  MaxWrites = 2
SPECIFICATION Spec
INVARIANTS
  PartsInPlace
  AnswersWereLive
  QuietExact
