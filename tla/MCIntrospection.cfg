SPECIFICATION LiveSpec
CONSTANTS
  Names <- MCNames
  Requests <- MCLiveRequests
  MaxChanges <- MCMaxChanges
  Builtin <- MCBuiltin
  Collatable <- MCCollatable
  Casts <- MCCasts
  Fits <- MCFits
  Nextval <- MCNextval
INVARIANTS
  ReadsWhatWasThere
  KeepsWhatOthersMade
  OnlyTouchedDiffers
