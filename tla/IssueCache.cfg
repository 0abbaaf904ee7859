SPECIFICATION Spec
CONSTANTS
  Issues = {1, 2, 3}
  Initial = {1, 2}
  Columns <- Board
  Hidden = {"cancelled"}
  Viewed = 1
  PageSize = 1
  Ops = {o1, o2}
  Kinds = {"create", "update", "batch", "delete", "more"}
  Faults = {"drop", "reject"}
SYMMETRY Symmetry
CHECK_DEADLOCK FALSE
INVARIANTS TypeOK BoardConverges 
