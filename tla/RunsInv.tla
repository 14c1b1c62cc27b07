------------------------------ MODULE RunsInv ------------------------------
(***************************************************************************)
(* The inductive invariant behind the safety properties of Runs, in named  *)
(* parts.  None of the properties is inductive alone: that a run is        *)
(* dispatched once needs that a receipt keeps its runId, which needs that  *)
(* the control lock's holder and the executions agree on who claims.       *)
(***************************************************************************)
EXTENDS Runs

\* A receipt carries a runId from its claim on, the runId of an execution of
\* that very message.
ReceiptInv ==
  \A r \in Requests :
    /\ reqStatus[r] \in {"absent", "queued"} => reqRun[r] = NoExec
    /\ reqStatus[r] = "running" => reqRun[r] # NoExec
    /\ reqRun[r] # NoExec => exReq[reqRun[r]] = r

\* Before its claim commits an execution has no runId anywhere.
Unclaimed == {"unused", "reserved", "prepare", "grant", "issue", "claim", "claiming"}

ExecutionInv ==
  \A e \in Executions :
    /\ pc[e] = "unused" => exMgr[e] = NoMgr
    /\ pc[e] # "unused" => exReq[e] \in Requests /\ exMgr[e] \in Managers
    /\ pc[e] \in Executing => reqStatus[exReq[e]] # "absent"
    /\ pc[e] \in Unclaimed =>
         flags[e] \cap {"started"} = {} /\ \A r \in Requests : reqRun[r] # e
    /\ "started" \in flags[e] => reqRun[exReq[e]] = e
    /\ pc[e] = "dispatch" =>
         "started" \in flags[e] /\ reqStatus[exReq[e]] = "running" /\ e \notin invoked
    /\ pc[e] = "stream" => "started" \in flags[e]
    /\ pc[e] = "finish" => outcome[e] \in {"idle", "error"}
    /\ pc[e] = "finally" => outcome[e] \in {"idle", "error"}

ManagerInv ==
  \A m \in Managers : active[m] # NoExec =>
    pc[active[m]] \in Executing /\ exMgr[active[m]] = m

\* The holder of the control lock and the execution it works for agree.
OpInv ==
  /\ op.at = "free" => op = Free
  /\ op.at # "free" => op.mgr \in Managers
  /\ op.at \in LaunchSteps \cup ResumeSteps =>
       /\ op.exec \in Executions /\ op.req \in Requests
       /\ pc[op.exec] = "reserved"
       /\ exReq[op.exec] = op.req /\ exMgr[op.exec] = op.mgr
  /\ op.at \in LaunchSteps => reqStatus[op.req] = "absent" /\ session # "running"
  /\ op.at \in ResumeSteps => reqStatus[op.req] # "absent"
  /\ op.at \in {"stopQueued", "stopTerminate", "stopClose"} =>
       op.req \in Requests /\ op.exec \in Executions
  /\ op.at = "orphanQueued" =>
       op.req \in Requests /\ (session = "running" => reqStatus[op.req] = "queued")
  /\ op.at \in {"orphanTerminate", "orphanClose", "recoverTerminate", "recoverClose"} =>
       (op.req = NoReq => session # "running")
  /\ op.at \in {"recoverTerminate", "recoverClose", "recoverClear", "recoverRevoke"} =>
       (op.req # NoReq => op.exec \in Executions /\ reqRun[op.req] = op.exec)

\* Claim and dispatch happen only under the control lock.
ClaimInv ==
  \A e \in Executions : pc[e] \in {"claiming", "dispatch"} =>
    op = OpHolder("claim", exMgr[e], exReq[e], e)

\* What the Runtime executes was claimed, and is not executed once a handler
\* or the execution itself is about to close it.
RuntimeInv ==
  /\ \A e \in invoked : reqRun[exReq[e]] = e /\ pc[e] # "unused"
  /\ rt # NoExec => rt \in invoked
  /\ rt # NoExec => pc[rt] \in {"stream", "catch", "ambiguous", "done"}
  /\ rt # NoExec /\ pc[rt] # "done" => "started" \in flags[rt]
  /\ op.at \in {"stopClose", "orphanClose", "recoverClose"} => rt = NoExec

RevokedInv ==
  \A r \in reqRevoked : Closed(r) /\ reqRun[r] # NoExec /\ reqRun[r] \notin grants

IInv ==
  /\ TypeOK
  /\ ReceiptInv
  /\ ExecutionInv
  /\ ManagerInv
  /\ OpInv
  /\ ClaimInv
  /\ RuntimeInv
  /\ RevokedInv
  /\ OpenIffRunning
  /\ ClosedOnlyAfterExit
=============================================================================
