\* Two requests at a time, for any page, with failures.
SPECIFICATION Spec
SYMMETRY Symmetry
CONSTANTS
  Asked = {"board", "group", "list"}
  Life <- MCLife
  RefreshLife = 3
  RefreshEvery = 3
  Slots = {s1, s2}
  MaxService = 1
  MaxTime = 8
  MaxFaults = 1
INVARIANTS BoardReadsRecent GroupIsRecent PagesAreRecent
CHECK_DEADLOCK FALSE
