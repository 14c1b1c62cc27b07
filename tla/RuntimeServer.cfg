CONSTANTS
  Sessions = {s1, s2}
  MaxSessions = 1
  MaxRuns = 2
SPECIFICATION Spec
INVARIANTS TypeOK OverMeansOver
PROPERTIES ImplementsSlots EvictsOnlyIdle HangUpEndsRun
CHECK_DEADLOCK FALSE
