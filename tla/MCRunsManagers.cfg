\* Two managers, one of which may crash at any step.
SPECIFICATION Spec
CONSTANTS
  Requests = {r1, r2}
  Executions = {e1, e2}
  Managers = {m1, m2}
  NoReq = NoReq
  NoExec = NoExec
  NoMgr = NoMgr
  MaxLapses = 0
  MaxCrashes = 1
SYMMETRY Symmetry
INVARIANTS AtMostOnce RevokedIsRevoked
PROPERTIES ImplementsLedger
