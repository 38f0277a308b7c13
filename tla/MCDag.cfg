SPECIFICATION Spec
CONSTANTS
  Operation <- MCOperation
  ObjectKey <- MCObjectKey
  Inputs <- MCInputs
  MaxOps = 4
INVARIANTS
  TypeOK
  Inv
  OrderRespectsNeeds
  VerdictExact
  RootsFirst
  DropFirst
PROPERTIES
  RefinesTopoOrder
  Terminates
