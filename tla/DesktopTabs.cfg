SPECIFICATION Spec
CONSTANTS
  w1 = w1
  w2 = w2
  None = None
  Slugs = {w1, w2}
  Paths <- ThreePages
  Ids = {i1, i2, i3}
  Background = TRUE
SYMMETRY IdSymmetry
INVARIANTS TypeOK GroupsSound PinnedFirstAlways RestartKeeps PushArrives
