\* Two questions of the plan and one more, three programs and a reload.
SPECIFICATION Spec
CONSTANTS
  PhaseQuestions = 2
  MaxQuestions = 3
  MaxEdits = 3
  MaxReloads = 1
  Faults = {"refused", "unfetched", "lost", "hasty"}
INVARIANTS
  NeverAheadOfReviews
  ReviewOnScreenIsKept
  SubmissionNamesAQuestion
CHECK_DEADLOCK FALSE
