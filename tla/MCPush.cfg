SPECIFICATION Spec
CONSTANTS
  Requests <- MCRequests
  MaxOps = 2
INVARIANTS
  TypeOK
  Inv
  CommittedWhole
  DestructiveNeedsFlag
  NoTransactionLeft
  UnsafeValidationHonest
PROPERTIES
  NoCommitAfterInterrupt
  RefinesAtomicPush
  Ends
