\* Voice, text and code submissions of one interview at the same time.
SPECIFICATION Spec
CONSTANTS
  MaxQuestions <- OnePerPhase
  Slots = {s1, s2}
  Kinds = {"generate", "respond", "followup", "code", "answer", "complete"}
  Level = "intermediate"
  AnswerScores = {5, 9}
  MaxFollowUps = 1
  SummaryWindow = 2
  MaxResponses = 2
  Naming = "any"
  Faults = {}
SYMMETRY SlotSymmetry
INVARIANTS
  EvaluationsAreOfAnswers
  FollowUpsHaveAnsweredParents
PROPERTIES
  OneAdvancePerEvaluation
