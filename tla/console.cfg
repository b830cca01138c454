\* One interview at the start and one more, of one response each; the tab is
\* opened and the user does two things.
SPECIFICATION FairSpec
CONSTANTS
  Existing = 1
  MaxInterviews = 2
  MaxResponses = 1
  MaxMoves = 3
INVARIANTS
  OutcomeOnlyOfCompleted
  ListsLeadToResults
PROPERTIES
  FailuresAreTold
  PagesLoad
CHECK_DEADLOCK FALSE
