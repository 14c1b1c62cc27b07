\* One message and three attempts, one of which may be cut off by a crash.
SPECIFICATION FairSpec
CONSTANTS
  Requests = {r1}
  Executions = {e1, e2, e3}
  Managers = {m1}
  NoReq = NoReq
  NoExec = NoExec
  NoMgr = NoMgr
  MaxLapses = 0
  MaxCrashes = 1
PROPERTIES QueuedIsDecided OrphanIsClosed
