\* One partner, two requests at a time; the second interview has a callback.
SPECIFICATION Spec
CONSTANTS
  Identities <- MCIdentities
  Limit <- MCLimit
  Window = 1
  MaxTime = 3
  Partners = {p1}
  Practices = {q1}
  NoPractice = NoPractice
  Slots = {s1, s2}
  Handlers = {s1, s2}
  LaunchTTL = 1
  SessionTTL = 1
  MaxInterviews = 2
  MaxTokens = 2
  Interviews = {1, 2}
  Callback = {2}
  Backoffs = 2
  MaxAnswers = 1
  MaxRequests = 4
  MaxRestarts = 1
  Faults = {"db", "crash"}
INVARIANTS
  BoundedCallsPerWindow
  OneSessionPerToken
  OneInterviewPerPractice
  ReportsAgree
  AnnouncedMeansReadable
  DeliveriesAreDisciplined
SYMMETRY SlotSymmetry
CHECK_DEADLOCK FALSE
