SPECIFICATION Spec
CONSTANTS
  Unreadable <- MCUnreadable
  Menus <- MCRenameDrop
  MaxColumns = 5
INVARIANT
  ColumnsFaithful
CHECK_DEADLOCK FALSE
