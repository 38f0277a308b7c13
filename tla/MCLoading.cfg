SPECIFICATION Spec
CONSTANTS
  Unreadable <- MCUnreadable
  Projects <- MCProjects
INVARIANTS
  TypeOK
  SilentIsFaithful
  StrictIsWhole
PROPERTY
  FailureLeavesTheRest
CHECK_DEADLOCK FALSE
