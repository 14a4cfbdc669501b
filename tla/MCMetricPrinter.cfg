\* Every capture of up to five bindings.
CONSTANTS
  Objects <- MCObjects
  Tables <- MCTables
  NoTable = "none"
  NoParent = "orphan"
  TableOf <- MCTableOf
  IndexOf <- MCIndexOf
  Strings <- MCStrings
  NotFound = "nothing"
  VarBinds <- MCVarBinds
  MaxInput = 5
SPECIFICATION Spec
INVARIANTS PrinterInv NothingLost
CHECK_DEADLOCK FALSE
