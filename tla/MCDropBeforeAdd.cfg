SPECIFICATION PushSpec
CONSTANTS
  Names <- MCNames
  Requests <- MCRequests
  Builtin <- MCBuiltin
  Collatable <- MCCollatable
  Casts <- MCCasts
  Fits <- MCFits
  Nextval <- MCNextval
INVARIANTS
  DropBeforeAdd
