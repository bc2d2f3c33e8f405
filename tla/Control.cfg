\* Every injector, with and without --no-control.
SPECIFICATION Spec
CONSTANTS
  Keys = {"s", "enter"}
  MaxActs = 5
  MaxCells = 2
INVARIANTS
  TypeOK
  NothingStuck
PROPERTY InputInOrder
CHECK_DEADLOCK FALSE
