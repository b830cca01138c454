\* The whole plan with the real maxima, all levels and every score.
SPECIFICATION FairSpec
CONSTANTS
  MaxQuestions <- ProgramMaxima
  MaxLostFinishes = 2
INVARIANTS
  TypeOK
  EveryAnswerCounted
  PhaseNeverOverfull
PROPERTIES
  WeakAnswerNeverHarder
  InterviewConcludes
CHECK_DEADLOCK FALSE
