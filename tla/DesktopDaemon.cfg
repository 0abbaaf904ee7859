SPECIFICATION Spec
CONSTANTS
  Slots = {1, 2}
  None = None
  MaxCommands = 2
  MaxTasks = 1
  Faults = {"lost", "stop", "crash", "stillborn"}
INVARIANTS TypeOK GuardHeld
PROPERTIES ShowsTruth DeferredFires BroughtBack
