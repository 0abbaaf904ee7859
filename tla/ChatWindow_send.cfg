SPECIFICATION Spec
CONSTANTS
  Agents = {a1, a2}
  Sessions = {s1}
  Sends = {n1}
  Upload = file
  None = None
  MaxWire = 2
  Faults = {"drop", "reject", "badfetch", "park"}
SYMMETRY Symmetry
CHECK_DEADLOCK FALSE
INVARIANTS TypeOK ShownOnce MessagesConverge 
PROPERTY BurstShares
