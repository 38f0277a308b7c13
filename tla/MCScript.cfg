SPECIFICATION Spec
CONSTANTS
  Unreadable <- MCUnreadable
  Menus <- MCMenus
  MaxColumns = 5
INVARIANTS
  TypeOK
  ListMapIndexAgree
  ColumnsFaithful
  PartsFaithful
  LegalIsAccepted
CHECK_DEADLOCK FALSE
