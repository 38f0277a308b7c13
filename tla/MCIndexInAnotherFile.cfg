SPECIFICATION Spec
CONSTANTS
  Unreadable <- MCUnreadable
  Projects <- MCIndexInAnotherFile
INVARIANT
  CrossFileResolved
CHECK_DEADLOCK FALSE
