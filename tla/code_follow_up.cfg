\* A serial interview in which a spoken follow-up precedes a code submission.
SPECIFICATION Spec
CONSTANTS
  MaxQuestions <- OnePerPhase
  Slots = {s1}
  Kinds = {"question", "answer", "code"}
  Level = "intermediate"
  AnswerScores = {5, 9}
  MaxFollowUps = 1
  SummaryWindow = 2
  MaxResponses = 7
  Naming = "page"
  Faults = {}
INVARIANTS
  OnlyMainAnswersAdvance
CHECK_DEADLOCK FALSE
