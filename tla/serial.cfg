\* One request at a time, failing models, restarts: the whole interview.
SPECIFICATION Spec
CONSTANTS
  MaxQuestions <- OnePerPhase
  Slots = {s1}
  Kinds = {"question", "answer", "skip", "code", "complete"}
  Level = "intermediate"
  AnswerScores = {5, 9}
  MaxFollowUps = 1
  SummaryWindow = 2
  MaxResponses = 6
  Naming = "page"
  Faults = {"llm", "crash"}
INVARIANTS
  TypeOK
  AtMostOnePending
  ScoresAgreeWithEvaluations
  FinalScoreIsFinal
  NumbersFollowAsking
  CompletionFiredOnce
PROPERTIES
  ImplementsPlan
