SPECIFICATION PushSpec
CONSTANTS
  Names <- MCNames
  Requests <- MCRequests
  Builtin <- MCBuiltin
  Collatable <- MCCollatable
  Casts <- MCCasts
  Fits <- MCFits
  Nextval <- MCNextval
INVARIANTS
  TypeOK
  PlanWholeOrEmpty
  ReferencedTablesFirst
  SchemaBeforeObjects
  ColumnsFirst
  CycleMeansMutualReferences
  OnlyTheOrder
  OnlyKnownFaults
  PushSettles
  KeepsData
PROPERTIES
  Returns
