SPECIFICATION Spec
CONSTANTS
  Requests <- MCRequests
  MaxOps = 1
PROPERTIES
  InterruptEnds
