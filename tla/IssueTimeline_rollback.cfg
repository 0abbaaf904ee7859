SPECIFICATION Spec
CONSTANTS
  root = root
  reply = reply
  deep = deep
  late = late
  None = None
  Comments = {root, reply, deep, late}
  Initial = {root, reply}
  Parent <- Thread
  Ops = {1, 2}
  Kinds = {"create", "edit", "resolve", "delete", "react"}
  Leaves = TRUE
  Faults = {"drop", "reject", "badfetch"}
CHECK_DEADLOCK FALSE
INVARIANTS TypeOK 
