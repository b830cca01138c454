\* Overlapping requests of the voice loop, naming any question.
SPECIFICATION Spec
CONSTANTS
  MaxQuestions <- OnePerPhase
  Slots = {s1, s2}
  Kinds = {"question", "answer", "skip", "hint", "complete"}
  Level = "intermediate"
  AnswerScores = {5, 9}
  MaxFollowUps = 1
  SummaryWindow = 2
  MaxResponses = 3
  Naming = "any"
  Faults = {}
SYMMETRY SlotSymmetry
INVARIANTS
  FollowUpsCapped
  OneOutcomePerAnswer
