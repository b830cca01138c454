\* One interview that is completed by two overlapping requests.
SPECIFICATION Spec
CONSTANTS
  Identities <- MCIdentities
  Limit <- MCLimit
  Window = 1
  MaxTime = 1
  Partners = {p1}
  Practices = {}
  NoPractice = NoPractice
  Slots = {s1, s2}
  Handlers = {s1, s2}
  LaunchTTL = 1
  SessionTTL = 1
  MaxInterviews = 1
  MaxTokens = 2
  Interviews = {1}
  Callback = {1}
  Backoffs = 2
  MaxAnswers = 0
  MaxRequests = 4
  MaxRestarts = 0
  Faults = {}
INVARIANTS
  ThreePostsPerCompletion
SYMMETRY SlotSymmetry
CHECK_DEADLOCK FALSE
