\* A candidate who keeps answering; only the summary may fail.
SPECIFICATION FairSpec
CONSTANTS
  MaxQuestions <- OnePerPhase
  Slots = {s1}
  Kinds = {"question", "answer", "code", "problem"}
  Level = "intermediate"
  AnswerScores = {5, 9}
  MaxFollowUps = 1
  SummaryWindow = 2
  MaxResponses = 7
  Naming = "page"
  Faults = {"summary"}
INVARIANTS
  EveryTurnAdvancesOrFollowsUp
  MainQuestionsWithinPhase
PROPERTIES
  SummaryLosesOldestOrAll
  DecisiveCandidateFinishes
CHECK_DEADLOCK FALSE
