\* One manager whose executions may lose their lease once while they are alive.
SPECIFICATION Spec
CONSTANTS
  Requests = {r1, r2}
  Executions = {e1, e2}
  Managers = {m1}
  NoReq = NoReq
  NoExec = NoExec
  NoMgr = NoMgr
  MaxLapses = 1
  MaxCrashes = 0
SYMMETRY Symmetry
INVARIANTS OpenIffRunning ClosedOnlyAfterExit
PROPERTIES TerminatesOwnRun
