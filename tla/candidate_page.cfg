\* Four buttons in any order and a reload, with a slow network.
SPECIFICATION FairSpec
CONSTANTS
  MaxPresses = 4
  MaxReloads = 1
INVARIANTS
  ProcessingHasARequest
  SubmitLockedWhileReviewing
  LeavesOnlyWhenOver
PROPERTIES
  NoScreenIsForever
CHECK_DEADLOCK FALSE
