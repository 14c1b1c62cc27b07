\* One operation and one run in one container.
SPECIFICATION Spec
CONSTANTS
  Conns = {c1}
  Sessions = {s1}
  NoWork = NoWork
  MaxLapses = 1
  MaxDeaths = 1
  MaxCrashes = 1
INVARIANTS RemovedHasNoContainer
PROPERTIES WorkIsProtected
