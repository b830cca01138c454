\* A reload in the middle of a partner's interview.
SPECIFICATION Spec
CONSTANTS
  MaxPresses = 3
  MaxReloads = 1
INVARIANTS
  ReturnsToPartner
CHECK_DEADLOCK FALSE
