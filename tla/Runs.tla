-------------------------------- MODULE Runs --------------------------------
(***************************************************************************)
(* The run scheduler of the runtime manager (runs.ts) for one              *)
(* conversation: the durable message receipts in PostgreSQL, the session   *)
(* lease and the busy mark in Redis, the MCP run grants at the gateway,    *)
(* the run inside the user's Runtime, and the managers that launch,        *)
(* execute, stop and recover messages, each of which may crash.            *)
(*                                                                         *)
(* An execution stands for both random identifiers that launch and         *)
(* recoverStale draw for one attempt: its lease token and its runId.       *)
(*                                                                         *)
(* launch, recoverStale, cancel and the claim of an execution run under    *)
(* the session control lock: op is its holder, with the next step of the   *)
(* handler.  The lock is heartbeated and its holder's crash only delays    *)
(* the next one, so a crash frees it.  The workspace lock that launch,     *)
(* recoverStale and the preparation also take delays steps further and     *)
(* is left out: every interleaving it allows is allowed here.              *)
(***************************************************************************)
EXTENDS Naturals, FiniteSets

CONSTANTS
  Requests,      \* message identifiers chosen by the client
  Executions,    \* fresh identifiers: one lease token and runId each
  Managers,      \* runtime-manager processes
  NoReq, NoExec, NoMgr,
  MaxLapses,     \* bound: leases lost by an execution that is still alive
  MaxCrashes     \* bound: manager crashes

ASSUME NoneAssumption ==
  NoReq \notin Requests /\ NoExec \notin Executions /\ NoMgr \notin Managers

ASSUME BoundAssumption == MaxLapses \in Nat /\ MaxCrashes \in Nat

VARIABLES
  reqStatus,   \* agent_message_requests.status; "absent" before the insert
  reqRun,      \* agent_message_requests.run_id
  reqRevoked,  \* the receipts whose mcp_revoked_at is set
  session,     \* agent_sessions.status
  lease,       \* Redis session:<id>:run-lock, the token of an execution
  busy,        \* the conversation is in Redis runtime:<user>:active-agent-tasks
  mcpKey,      \* Redis session:<id>:mcp-run
  grants,      \* the executions that hold live grants at the MCP gateway
  rt,          \* the execution whose /run the Runtime is executing
  invoked,     \* history: the executions whose /run the Runtime accepted
  active,      \* Runs.active of each manager
  op,          \* the holder of the session control lock
  pc,          \* where each execution is
  exReq,       \* Execution.requestId
  exMgr,       \* the manager an execution belongs to
  flags,       \* its cancelling, started, mcpAttempted, leaseFailure and signal
  outcome,     \* its finalStatus, once it has terminal events
  lapses, crashes

db == <<reqStatus, reqRun, session>>
mcpVars == <<mcpKey, grants, reqRevoked>>
leases == <<lease, busy>>
runtime == <<rt, invoked>>
ident == <<exReq, exMgr>>
bounds == <<lapses, crashes>>
vars == <<db, mcpVars, leases, runtime, active, op, pc, ident, flags, outcome, bounds>>

Flags == {"cancelling", "aborted", "leaseFailed", "started", "attempted"}

LaunchSteps == {"admit", "renew", "insert"}
ResumeSteps == {"resumeAdmit", "resumeRenew"}
RecoverSteps ==
  {"recoverLookup", "recoverTerminate", "recoverClose", "recoverClear", "recoverRevoke"}
StopSteps ==
  {"stopQueued", "stopTerminate", "stopClose",
   "orphanLookup", "orphanQueued", "orphanRevoke", "orphanTerminate", "orphanClose",
   "orphanClear"}
OpSteps == {"free", "claim"} \cup LaunchSteps \cup ResumeSteps \cup RecoverSteps \cup StopSteps

\* Between startAcceptedExecution and the end of execute: the heartbeat runs.
Executing ==
  {"prepare", "grant", "issue", "claim", "claiming", "dispatch", "stream", "catch", "settle",
   "abandon", "ambiguous", "finally", "finish", "revoke", "release", "clear"}

OpHolder(at, m, r, e) == [at |-> at, mgr |-> m, req |-> r, exec |-> e]
Free == OpHolder("free", NoMgr, NoReq, NoExec)
OpAt(at) == [op EXCEPT !.at = at]

Open(r) == reqStatus[r] \in {"queued", "running"}
Closed(r) == reqStatus[r] \in {"completed", "failed"}

TypeOK ==
  /\ reqStatus \in [Requests -> {"absent", "queued", "running", "completed", "failed"}]
  /\ reqRun \in [Requests -> Executions \cup {NoExec}]
  /\ reqRevoked \in SUBSET Requests
  /\ session \in {"idle", "running", "error"}
  /\ lease \in Executions \cup {NoExec}
  /\ busy \in BOOLEAN
  /\ mcpKey \in Executions \cup {NoExec}
  /\ grants \in SUBSET Executions
  /\ rt \in Executions \cup {NoExec}
  /\ invoked \in SUBSET Executions
  /\ active \in [Managers -> Executions \cup {NoExec}]
  /\ op \in [at : OpSteps, mgr : Managers \cup {NoMgr},
             req : Requests \cup {NoReq}, exec : Executions \cup {NoExec}]
  /\ pc \in [Executions -> {"unused", "reserved", "done"} \cup Executing]
  /\ exReq \in [Executions -> Requests \cup {NoReq}]
  /\ exMgr \in [Executions -> Managers \cup {NoMgr}]
  /\ flags \in [Executions -> SUBSET Flags]
  /\ outcome \in [Executions -> {"none", "idle", "error"}]
  /\ lapses \in 0..MaxLapses
  /\ crashes \in 0..MaxCrashes

Init ==
  /\ reqStatus = [r \in Requests |-> "absent"]
  /\ reqRun = [r \in Requests |-> NoExec]
  /\ reqRevoked = {}
  /\ session = "idle"
  /\ lease = NoExec
  /\ busy = FALSE
  /\ mcpKey = NoExec
  /\ grants = {}
  /\ rt = NoExec
  /\ invoked = {}
  /\ active = [m \in Managers |-> NoExec]
  /\ op = Free
  /\ pc = [e \in Executions |-> "unused"]
  /\ exReq = [e \in Executions |-> NoReq]
  /\ exMgr = [e \in Executions |-> NoMgr]
  /\ flags = [e \in Executions |-> {}]
  /\ outcome = [e \in Executions |-> "none"]
  /\ lapses = 0
  /\ crashes = 0
-----------------------------------------------------------------------------
(* Helpers shared by the handlers.                                         *)

Goto(e, label) == pc' = [pc EXCEPT ![e] = label]
Raise(e, f) == flags' = [flags EXCEPT ![e] = @ \cup f]

\* The end of execute: active.delete if it is still this execution, and the
\* in-memory flags go.
Retire(e) ==
  /\ Goto(e, "done")
  /\ active' = [active EXCEPT ![exMgr[e]] = IF @ = e THEN NoExec ELSE @]
  /\ flags' = [flags EXCEPT ![e] = {}]
  /\ outcome' = [outcome EXCEPT ![e] = "none"]

\* One transaction: the receipt, the conversation and the closing event.
CloseRequest(r, final) ==
  /\ reqStatus' = [reqStatus EXCEPT ![r] = IF final = "idle" THEN "completed" ELSE "failed"]
  /\ session' = final
  /\ UNCHANGED reqRun

Unlease(e) == lease' = IF lease = e THEN NoExec ELSE lease

\* mcp.revoke and the compare-and-delete of the run key: done, or deferred.
RevokeGrants(e) ==
  /\ UNCHANGED reqRevoked
  /\ \/ UNCHANGED <<mcpKey, grants>>
     \/ /\ e # NoExec
        /\ grants' = grants \ {e}
        /\ mcpKey' \in {mcpKey, IF mcpKey = e THEN NoExec ELSE mcpKey}

\* Mutant: the receipt is stamped before the gateway is asked.
RevokeRecordedUnordered(r, e) ==
  /\ UNCHANGED <<mcpKey, grants>>
  /\ reqRevoked' = IF Closed(r) /\ reqRun[r] = e THEN reqRevoked \cup {r} ELSE reqRevoked

\* revokeRecordedGrant stamps the receipt after the gateway has revoked.
RevokeRecorded(r, e) ==
  \/ RevokeGrants(e)
  \/ /\ grants' = grants \ {e}
     /\ mcpKey' = IF mcpKey = e THEN NoExec ELSE mcpKey
     /\ reqRevoked' = IF Closed(r) /\ reqRun[r] = e THEN reqRevoked \cup {r} ELSE reqRevoked

\* No /run has received a grant of an attempt that never claimed.
RevokePreRun(e) ==
  IF "attempted" \in flags[e] /\ "started" \notin flags[e]
  THEN RevokeGrants(e) ELSE UNCHANGED mcpVars

\* Mutant: a termination that could not be confirmed counts as one.
TerminateUnconfirmed == rt' \in {rt, NoExec}

\* terminateExecution, when it returns: the Runtime has cancelled the session's
\* run, whichever it is, or its container is stopped or gone.
Terminate == rt' = NoExec

\* The lookup of the session's running request: it, or none.
IsRunningRequest(r) ==
  IF r = NoReq THEN \A q \in Requests : reqStatus[q] # "running" ELSE reqStatus[r] = "running"
RunOf(r) == IF r = NoReq THEN NoExec ELSE reqRun[r]
-----------------------------------------------------------------------------
(* launch: accept a message.                                               *)

\* launch of a message whose receipt exists, or in a running conversation, and
\* messageStatus answer from what is there once they get the lock.
AnswerOnly ==
  /\ op = Free
  /\ UNCHANGED vars

\* Mutant: admission trusts the lease alone.
AdmissibleByLease(r) == reqStatus[r] = "absent" /\ lease = NoExec

Admissible(r) == reqStatus[r] = "absent" /\ session # "running" /\ lease = NoExec

LaunchAcquire(m, r, e) ==
  /\ op = Free
  /\ Admissible(r)
  /\ pc[e] = "unused"
  /\ lease' = e
  /\ op' = OpHolder("admit", m, r, e)
  /\ Goto(e, "reserved")
  /\ exReq' = [exReq EXCEPT ![e] = r]
  /\ exMgr' = [exMgr EXCEPT ![e] = m]
  /\ UNCHANGED <<db, mcpVars, busy, runtime, active, flags, outcome, bounds>>

\* admitActivity sets the busy mark under the user's lifecycle lock.
AdmitActivity ==
  /\ op.at \in {"admit", "resumeAdmit"}
  /\ busy' = TRUE
  /\ op' = OpAt(IF op.at = "admit" THEN "renew" ELSE "resumeRenew")
  /\ UNCHANGED <<db, mcpVars, lease, runtime, active, pc, ident, flags, outcome, bounds>>

LaunchRenew ==
  /\ op.at = "renew"
  /\ lease = op.exec
  /\ op' = OpAt("insert")
  /\ UNCHANGED <<db, mcpVars, leases, runtime, active, pc, ident, flags, outcome, bounds>>

\* startAcceptedExecution: synchronous, and it replaces an older execution.
StartAccepted(m, e) ==
  /\ active' = [active EXCEPT ![m] = e]
  /\ Goto(e, "prepare")
  /\ op' = Free

InsertReceipt(r) ==
  /\ reqStatus' = [reqStatus EXCEPT ![r] = "queued"]
  /\ session' = "running"
  /\ UNCHANGED reqRun

LaunchInsert ==
  /\ op.at = "insert"
  /\ InsertReceipt(op.req)
  /\ StartAccepted(op.mgr, op.exec)
  /\ UNCHANGED <<mcpVars, leases, runtime, ident, flags, outcome, bounds>>

\* An exception after the lease was taken: it is released, the busy mark is
\* cleared if the activity was admitted, and the caller gets the error.
AdmissionFails ==
  /\ op.at \in LaunchSteps \cup ResumeSteps
  /\ busy' = IF op.at \in {"admit", "resumeAdmit"} THEN busy ELSE FALSE
  /\ Unlease(op.exec)
  /\ Goto(op.exec, "done")
  /\ op' = Free
  /\ UNCHANGED <<db, mcpVars, runtime, active, ident, flags, outcome, bounds>>

\* The insert commits but its acknowledgement is lost: launch reports an
\* error and starts nothing, while the receipt is queued.
InsertUnacknowledged ==
  /\ op.at = "insert"
  /\ InsertReceipt(op.req)
  /\ busy' = FALSE
  /\ Unlease(op.exec)
  /\ Goto(op.exec, "done")
  /\ op' = Free
  /\ UNCHANGED <<mcpVars, runtime, active, ident, flags, outcome, bounds>>
-----------------------------------------------------------------------------
(* execute: one attempt at one message.                                    *)

Stopped(e) == flags[e] \cap {"cancelling", "aborted"} # {}

\* ensureRuntime, the workspace and the session inside the Runtime.
Prepare(e) ==
  /\ pc[e] = "prepare"
  /\ \/ ~Stopped(e) /\ Goto(e, "grant")
     \/ Goto(e, "catch")
  /\ UNCHANGED <<db, mcpVars, leases, runtime, active, op, ident, flags, outcome, bounds>>

\* The run key is written before the gateway is asked; its write may fail, or
\* happen without an answer.
WriteRunKey(e) ==
  /\ pc[e] = "grant"
  /\ "cancelling" \notin flags[e]
  /\ \/ mcpKey' = e /\ Raise(e, {"attempted"}) /\ Goto(e, "issue")
     \/ mcpKey' \in {mcpKey, e} /\ UNCHANGED flags /\ Goto(e, "catch")
  /\ UNCHANGED <<db, grants, reqRevoked, leases, runtime, active, op, ident, outcome, bounds>>

\* The gateway's answer may be lost after the grants were issued.
IssueGrants(e) ==
  /\ pc[e] = "issue"
  /\ \/ grants' = grants \cup {e} /\ Goto(e, "claim")
     \/ grants' \in {grants, grants \cup {e}} /\ Goto(e, "catch")
  /\ UNCHANGED <<db, mcpKey, reqRevoked, leases, runtime, active, op, ident, flags, outcome,
                 bounds>>

\* A preparation check finds the run cancelled, or a lock or a call times out.
PreparationFails(e) ==
  /\ pc[e] \in {"grant", "claim"}
  /\ Goto(e, "catch")
  /\ UNCHANGED <<db, mcpVars, leases, runtime, active, op, ident, flags, outcome, bounds>>

\* In the control lock: renew the lease, then look at the flags.
ClaimBegin(e) ==
  /\ pc[e] = "claim"
  /\ op = Free
  /\ lease = e
  /\ ~Stopped(e)
  /\ op' = OpHolder("claim", exMgr[e], exReq[e], e)
  /\ Goto(e, "claiming")
  /\ UNCHANGED <<db, mcpVars, leases, runtime, active, ident, flags, outcome, bounds>>

ClaimRefused(e) ==
  /\ pc[e] = "claim"
  /\ op = Free
  /\ Goto(e, "abandon")
  /\ UNCHANGED <<db, mcpVars, leases, runtime, active, op, ident, flags, outcome, bounds>>

Claimable(e) == reqStatus[exReq[e]] = "queued" /\ reqRun[exReq[e]] = NoExec

ClaimReceipt(e) ==
  /\ reqStatus' = [reqStatus EXCEPT ![exReq[e]] = "running"]
  /\ reqRun' = [reqRun EXCEPT ![exReq[e]] = e]
  /\ UNCHANGED session

ClaimCommit(e) ==
  /\ pc[e] = "claiming"
  /\ Claimable(e)
  /\ ClaimReceipt(e)
  /\ Raise(e, {"started"})
  /\ Goto(e, "dispatch")
  /\ UNCHANGED <<mcpVars, leases, runtime, active, op, ident, outcome, bounds>>

\* No row matched: the receipt was closed meanwhile.
ClaimLost(e) ==
  /\ pc[e] = "claiming"
  /\ ~Claimable(e)
  /\ Goto(e, "abandon")
  /\ op' = Free
  /\ UNCHANGED <<db, mcpVars, leases, runtime, active, ident, flags, outcome, bounds>>

\* The claim's transaction fails, or commits without an acknowledgement.
ClaimError(e) ==
  /\ pc[e] = "claiming"
  /\ \/ UNCHANGED db
     \/ Claimable(e) /\ ClaimReceipt(e)
  /\ Goto(e, "catch")
  /\ op' = Free
  /\ UNCHANGED <<mcpVars, leases, runtime, active, ident, flags, outcome, bounds>>

\* The Runtime accepts /run; the manager gets the stream, or loses the answer
\* or the control lock afterwards.
Dispatch(e) ==
  /\ pc[e] = "dispatch"
  /\ ~Stopped(e)
  /\ rt = NoExec
  /\ rt' = e
  /\ invoked' = invoked \cup {e}
  /\ Goto(e, "stream") \/ Goto(e, "catch")
  /\ op' = Free
  /\ UNCHANGED <<db, mcpVars, leases, active, ident, flags, outcome, bounds>>

\* Aborted before the call, or the Runtime refuses or is unreachable.
DispatchFails(e) ==
  /\ pc[e] = "dispatch"
  /\ Goto(e, "catch")
  /\ op' = Free
  /\ UNCHANGED <<db, mcpVars, leases, runtime, active, ident, flags, outcome, bounds>>

\* The Runtime's run ends: finished, its client gone, or its container dead.
RunEnds ==
  /\ rt # NoExec
  /\ rt' = NoExec
  /\ UNCHANGED <<db, mcpVars, leases, invoked, active, op, pc, ident, flags, outcome, bounds>>

\* The Runtime sends its terminal event after its subprocess has exited; one
\* that is already buffered is read even when the reader has been aborted.
ReadTerminal(e) ==
  /\ pc[e] = "stream"
  /\ rt # e
  /\ \E final \in {"idle", "error"} : outcome' = [outcome EXCEPT ![e] = final]
  /\ Goto(e, "finally")
  /\ UNCHANGED <<db, mcpVars, leases, runtime, active, op, ident, flags, bounds>>

StreamBreaks(e) ==
  /\ pc[e] = "stream"
  /\ Goto(e, "catch")
  /\ UNCHANGED <<db, mcpVars, leases, runtime, active, op, ident, flags, outcome, bounds>>

CatchOutcome(e) ==
  outcome' = [outcome EXCEPT ![e] =
    IF "cancelling" \in flags[e] /\ "leaseFailed" \notin flags[e] THEN "idle" ELSE "error"]

\* A preparation that lost its lease leaves its receipt queued.
CatchUnstarted(e) ==
  /\ pc[e] = "catch"
  /\ "started" \notin flags[e]
  /\ IF "leaseFailed" \in flags[e]
     THEN Goto(e, "ambiguous") /\ UNCHANGED outcome
     ELSE Goto(e, "finally") /\ CatchOutcome(e)
  /\ UNCHANGED <<db, mcpVars, leases, runtime, active, op, ident, flags, bounds>>

\* A started run is terminated before anything else; a failed termination
\* keeps the running metadata.
CatchStarted(e) ==
  /\ pc[e] = "catch"
  /\ "started" \in flags[e]
  /\ \/ Terminate /\ Goto(e, "settle")
     \/ UNCHANGED rt /\ Goto(e, "ambiguous")
  /\ UNCHANGED <<db, mcpVars, leases, invoked, active, op, ident, flags, outcome, bounds>>

Settle(e) ==
  /\ pc[e] = "settle"
  /\ IF "leaseFailed" \in flags[e] /\ lease # e
     THEN Goto(e, "ambiguous") /\ UNCHANGED outcome
     ELSE Goto(e, "finally") /\ CatchOutcome(e)
  /\ UNCHANGED <<db, mcpVars, leases, runtime, active, op, ident, flags, bounds>>

\* A refused claim clears only what its own token still holds.
Abandon(e) ==
  /\ pc[e] = "abandon"
  /\ RevokePreRun(e)
  /\ IF lease = e
     THEN Goto(e, "clear") /\ UNCHANGED <<active, flags, outcome>>
     ELSE Retire(e)
  /\ UNCHANGED <<db, leases, runtime, op, ident, bounds>>

\* No terminal events: the metadata and the lease are left as they are.
EndAmbiguous(e) ==
  /\ pc[e] = "ambiguous"
  /\ RevokePreRun(e)
  /\ Retire(e)
  /\ UNCHANGED <<db, leases, runtime, op, ident, bounds>>

CheckToken(e) ==
  /\ pc[e] = "finally"
  /\ RevokePreRun(e)
  /\ IF lease = e
     THEN Goto(e, "finish") /\ UNCHANGED <<active, flags, outcome>>
     ELSE Retire(e)
  /\ UNCHANGED <<db, leases, runtime, op, ident, bounds>>

\* Mutant: the finishing update is not conditional.
AlwaysFinishable(e) == pc[e] = "finish"

Finishable(e) ==
  \/ reqStatus[exReq[e]] = "queued" /\ reqRun[exReq[e]] = NoExec
  \/ reqStatus[exReq[e]] = "running" /\ reqRun[exReq[e]] = e

\* The finishing transaction, some time after the token was checked.
Finish(e) ==
  /\ pc[e] = "finish"
  /\ IF Finishable(e)
     THEN /\ CloseRequest(exReq[e], outcome[e])
          /\ Goto(e, IF "started" \in flags[e] THEN "revoke" ELSE "release")
     ELSE UNCHANGED db /\ Goto(e, "release")
  /\ UNCHANGED <<mcpVars, leases, runtime, active, op, ident, flags, outcome, bounds>>

FinishFails(e) ==
  /\ pc[e] = "finish"
  /\ \/ UNCHANGED db
     \/ Finishable(e) /\ CloseRequest(exReq[e], outcome[e])
  /\ Retire(e)
  /\ UNCHANGED <<mcpVars, leases, runtime, op, ident, bounds>>

RevokeGrant(e) ==
  /\ pc[e] = "revoke"
  /\ RevokeRecorded(exReq[e], e)
  /\ Goto(e, "release")
  /\ UNCHANGED <<db, leases, runtime, active, op, ident, flags, outcome, bounds>>

CheckRelease(e) ==
  /\ pc[e] = "release"
  /\ \/ /\ lease = e
        /\ Goto(e, "clear")
        /\ UNCHANGED <<active, flags, outcome>>
     \/ Retire(e)
  /\ UNCHANGED <<db, mcpVars, leases, runtime, op, ident, bounds>>

\* clearBusy and release, some time after the token was checked.
ClearAndRelease(e) ==
  /\ pc[e] = "clear"
  /\ busy' = FALSE
  /\ Unlease(e)
  /\ Retire(e)
  /\ UNCHANGED <<db, mcpVars, runtime, op, ident, bounds>>
-----------------------------------------------------------------------------
(* The heartbeat of an execution.                                         *)

\* renew, setBusy, touchRuntime and mcp.renew.
HeartbeatRenews(e) ==
  /\ pc[e] \in Executing
  /\ lease = e
  /\ busy' = TRUE
  /\ UNCHANGED <<db, mcpVars, lease, runtime, active, op, pc, ident, flags, outcome, bounds>>

\* The token is no longer ours, or Redis, PostgreSQL or the gateway failed.
HeartbeatFails(e) ==
  /\ pc[e] \in Executing
  /\ "leaseFailed" \notin flags[e]
  /\ Raise(e, {"leaseFailed", "aborted"})
  /\ UNCHANGED <<db, mcpVars, leases, runtime, active, op, pc, ident, outcome, bounds>>
-----------------------------------------------------------------------------
(* cancel: the user's Stop.                                                *)

StopBegin(m) ==
  /\ op = Free
  /\ LET e == active[m] IN
     \/ /\ e # NoExec
        /\ Raise(e, {"cancelling"})
        /\ op' = OpHolder(IF "started" \in flags[e] THEN "stopTerminate" ELSE "stopQueued",
                          m, exReq[e], e)
     \/ /\ e = NoExec
        /\ session = "running"
        /\ op' = OpHolder("orphanLookup", m, NoReq, NoExec)
        /\ UNCHANGED flags
  /\ UNCHANGED <<db, mcpVars, leases, runtime, active, pc, ident, outcome, bounds>>

AbortReader(e) ==
  IF pc[e] \in Executing THEN Raise(e, {"aborted"}) ELSE UNCHANGED flags

\* completeQueuedStop of the active execution's request.
StopQueued ==
  /\ op.at = "stopQueued"
  /\ IF reqStatus[op.req] = "queued"
     THEN /\ CloseRequest(op.req, "idle")
          /\ AbortReader(op.exec)
          /\ op' = Free
     ELSE /\ op' = OpAt("stopTerminate")
          /\ UNCHANGED <<db, flags>>
  /\ UNCHANGED <<mcpVars, leases, runtime, active, pc, ident, outcome, bounds>>

\* terminateExecution confirms that the Runtime's run is gone, either way.
StopTerminate ==
  /\ op.at = "stopTerminate"
  /\ Terminate
  /\ AbortReader(op.exec)
  /\ op' = OpAt("stopClose")
  /\ UNCHANGED <<db, mcpVars, leases, invoked, active, pc, ident, outcome, bounds>>

\* completeRunningStop stops the request if it still runs under that runId.
StillRunning(r, e) == r # NoReq /\ reqStatus[r] = "running" /\ reqRun[r] = e

StopClose ==
  /\ op.at = "stopClose"
  /\ IF StillRunning(op.req, op.exec) /\ session = "running"
     THEN CloseRequest(op.req, "idle") ELSE UNCHANGED db
  /\ op' = Free
  /\ UNCHANGED <<mcpVars, leases, runtime, active, pc, ident, flags, outcome, bounds>>

\* Stop without an execution in this manager.
OrphanLookup ==
  /\ op.at = "orphanLookup"
  /\ IF \E q \in Requests : reqStatus[q] = "queued"
     THEN \E r \in Requests : /\ reqStatus[r] = "queued"
                              /\ op' = OpHolder("orphanQueued", op.mgr, r, NoExec)
     ELSE \E r \in Requests \cup {NoReq} :
            /\ IsRunningRequest(r)
            /\ op' = OpHolder("orphanTerminate", op.mgr, r, RunOf(r))
  /\ UNCHANGED <<db, mcpVars, leases, runtime, active, pc, ident, flags, outcome, bounds>>

OrphanQueued ==
  /\ op.at = "orphanQueued"
  /\ IF reqStatus[op.req] = "queued"
     THEN CloseRequest(op.req, "idle") /\ op' = OpAt("orphanRevoke")
     ELSE /\ \E r \in Requests \cup {NoReq} :
               /\ IsRunningRequest(r)
               /\ op' = OpHolder("orphanTerminate", op.mgr, r, RunOf(r))
          /\ UNCHANGED db
  /\ UNCHANGED <<mcpVars, leases, runtime, active, pc, ident, flags, outcome, bounds>>

\* The grants of the attempt that the stopped message had, if the key names one.
OrphanRevoke ==
  /\ op.at = "orphanRevoke"
  /\ RevokeGrants(mcpKey)
  /\ op' = OpAt("orphanClear")
  /\ UNCHANGED <<db, leases, runtime, active, pc, ident, flags, outcome, bounds>>

OrphanTerminate ==
  /\ op.at = "orphanTerminate"
  /\ Terminate
  /\ op' = OpAt("orphanClose")
  /\ UNCHANGED <<db, mcpVars, leases, invoked, active, pc, ident, flags, outcome, bounds>>

OrphanClose ==
  /\ op.at = "orphanClose"
  /\ IF session = "running" /\ (op.req = NoReq \/ StillRunning(op.req, op.exec))
     THEN /\ IF op.req = NoReq
             THEN session' = "idle" /\ UNCHANGED <<reqStatus, reqRun>>
             ELSE CloseRequest(op.req, "idle")
          /\ op' = OpAt("orphanClear")
     ELSE UNCHANGED db /\ op' = Free
  /\ UNCHANGED <<mcpVars, leases, runtime, active, pc, ident, flags, outcome, bounds>>

OrphanClear ==
  /\ op.at = "orphanClear"
  /\ busy' = IF lease = NoExec THEN FALSE ELSE busy
  /\ op' = Free
  /\ UNCHANGED <<db, mcpVars, lease, runtime, active, pc, ident, flags, outcome, bounds>>
-----------------------------------------------------------------------------
(* recoverStale: a running conversation whose session lease has lapsed.    *)

\* Mutant: a conversation that still looks busy is left alone.
StaleAndIdle == session = "running" /\ lease = NoExec /\ ~busy

Stale == session = "running" /\ lease = NoExec

RecoverBegin(m) ==
  /\ op = Free
  /\ Stale
  /\ op' = OpHolder("recoverLookup", m, NoReq, NoExec)
  /\ UNCHANGED <<db, mcpVars, leases, runtime, active, pc, ident, flags, outcome, bounds>>

\* No /run was claimed: replay the receipt under a new lease.
RecoverQueued(r, e) ==
  /\ op.at = "recoverLookup"
  /\ reqStatus[r] = "queued"
  /\ lease = NoExec
  /\ pc[e] = "unused"
  /\ RevokeGrants(mcpKey)
  /\ lease' = e
  /\ op' = OpHolder("resumeAdmit", op.mgr, r, e)
  /\ Goto(e, "reserved")
  /\ exReq' = [exReq EXCEPT ![e] = r]
  /\ exMgr' = [exMgr EXCEPT ![e] = op.mgr]
  /\ UNCHANGED <<db, busy, runtime, active, flags, outcome, bounds>>

ResumeStart ==
  /\ op.at = "resumeRenew"
  /\ lease = op.exec
  /\ StartAccepted(op.mgr, op.exec)
  /\ UNCHANGED <<db, mcpVars, leases, runtime, ident, flags, outcome, bounds>>

\* A running request may have reached the Runtime: never invoke it again.
RecoverRunning(r) ==
  /\ op.at = "recoverLookup"
  /\ \A q \in Requests : reqStatus[q] # "queued"
  /\ IsRunningRequest(r)
  /\ op' = OpHolder("recoverTerminate", op.mgr, r, RunOf(r))
  /\ UNCHANGED <<db, mcpVars, leases, runtime, active, pc, ident, flags, outcome, bounds>>

RecoverTerminate ==
  /\ op.at = "recoverTerminate"
  /\ Terminate
  /\ op' = OpAt("recoverClose")
  /\ UNCHANGED <<db, mcpVars, leases, invoked, active, pc, ident, flags, outcome, bounds>>

\* Mutant: recovery puts an interrupted message back into the queue.
RecoverRequeue ==
  /\ op.at = "recoverClose"
  /\ IF StillRunning(op.req, op.exec)
     THEN /\ reqStatus' = [reqStatus EXCEPT ![op.req] = "queued"]
          /\ reqRun' = [reqRun EXCEPT ![op.req] = NoExec]
     ELSE UNCHANGED <<reqStatus, reqRun>>
  /\ op' = OpAt("recoverRevoke")
  /\ UNCHANGED <<session, mcpVars, leases, runtime, active, pc, ident, flags, outcome, bounds>>

RecoverClose ==
  /\ op.at = "recoverClose"
  /\ LET match == StillRunning(op.req, op.exec)
         interrupted == session = "running" /\ (op.req = NoReq \/ match) IN
     /\ reqStatus' = IF match THEN [reqStatus EXCEPT ![op.req] = "failed"] ELSE reqStatus
     /\ session' = IF interrupted THEN "error" ELSE session
     /\ op' = OpAt(IF interrupted THEN "recoverClear" ELSE "recoverRevoke")
  /\ UNCHANGED <<reqRun, mcpVars, leases, runtime, active, pc, ident, flags, outcome, bounds>>

RecoverClear ==
  /\ op.at = "recoverClear"
  /\ busy' = FALSE
  /\ op' = OpAt("recoverRevoke")
  /\ UNCHANGED <<db, mcpVars, lease, runtime, active, pc, ident, flags, outcome, bounds>>

RecoverRevoke ==
  /\ op.at = "recoverRevoke"
  /\ IF op.req = NoReq THEN RevokeGrants(mcpKey) ELSE RevokeRecorded(op.req, op.exec)
  /\ op' = Free
  /\ UNCHANGED <<db, leases, runtime, active, pc, ident, flags, outcome, bounds>>

\* A Redis, PostgreSQL or Runtime error leaves Stop or the recovery: the lock
\* is released and what was committed stays.
HandlerFails ==
  /\ op.at \in RecoverSteps \cup StopSteps
  /\ op' = Free
  /\ UNCHANGED <<db, mcpVars, leases, runtime, active, pc, ident, flags, outcome, bounds>>

\* retryPendingGrantCleanup, from the durable receipts.
RetryGrantCleanup(r) ==
  /\ Closed(r)
  /\ reqRun[r] # NoExec
  /\ r \notin reqRevoked
  /\ RevokeRecorded(r, reqRun[r])
  /\ UNCHANGED <<db, leases, runtime, active, op, pc, ident, flags, outcome, bounds>>
-----------------------------------------------------------------------------
(* Time and failures.                                                      *)

\* A manager process dies with its executions and its handler.
Crash(m) ==
  /\ crashes < MaxCrashes
  /\ crashes' = crashes + 1
  /\ pc' = [e \in Executions |-> IF exMgr[e] = m THEN "done" ELSE pc[e]]
  /\ flags' = [e \in Executions |-> IF exMgr[e] = m THEN {} ELSE flags[e]]
  /\ outcome' = [e \in Executions |-> IF exMgr[e] = m THEN "none" ELSE outcome[e]]
  /\ active' = [active EXCEPT ![m] = NoExec]
  /\ op' = IF op.mgr = m THEN Free ELSE op
  /\ UNCHANGED <<db, mcpVars, leases, runtime, ident, lapses>>

\* Mutant: the lease was set without a TTL.
LeaseStays == FALSE /\ UNCHANGED vars

\* The TTL of the session lease passes: nobody renews it any more ...
LeaseExpires ==
  /\ lease # NoExec
  /\ pc[lease] = "done"
  /\ lease' = NoExec
  /\ UNCHANGED <<db, mcpVars, busy, runtime, active, op, pc, ident, flags, outcome, bounds>>

\* ... or a heartbeat hangs, or launch waits too long for the user lock.
LeaseLapses ==
  /\ lease # NoExec
  /\ pc[lease] # "done"
  /\ lapses < MaxLapses
  /\ lapses' = lapses + 1
  /\ lease' = NoExec
  /\ UNCHANGED <<db, mcpVars, busy, runtime, active, op, pc, ident, flags, outcome, crashes>>

BusyExpires ==
  /\ busy
  /\ ~(lease # NoExec /\ pc[lease] # "done")
  /\ busy' = FALSE
  /\ UNCHANGED <<db, mcpVars, lease, runtime, active, op, pc, ident, flags, outcome, bounds>>

GrantExpires(e) ==
  /\ e \in grants
  /\ pc[e] = "done"
  /\ grants' = grants \ {e}
  /\ UNCHANGED <<db, mcpKey, reqRevoked, leases, runtime, active, op, pc, ident, flags,
                 outcome, bounds>>
-----------------------------------------------------------------------------
Launch ==
  \/ AnswerOnly
  \/ \E m \in Managers, r \in Requests, e \in Executions : LaunchAcquire(m, r, e)
  \/ AdmitActivity \/ LaunchRenew \/ LaunchInsert \/ AdmissionFails \/ InsertUnacknowledged

Setup(e) ==
  \/ Prepare(e) \/ WriteRunKey(e) \/ IssueGrants(e) \/ PreparationFails(e)
  \/ ClaimBegin(e) \/ ClaimRefused(e) \/ ClaimCommit(e) \/ ClaimLost(e) \/ ClaimError(e)
  \/ Dispatch(e) \/ DispatchFails(e)

Ending(e) ==
  \/ ReadTerminal(e) \/ StreamBreaks(e)
  \/ CatchUnstarted(e) \/ CatchStarted(e) \/ Settle(e)
  \/ Abandon(e) \/ EndAmbiguous(e) \/ CheckToken(e)
  \/ Finish(e) \/ FinishFails(e) \/ RevokeGrant(e) \/ CheckRelease(e) \/ ClearAndRelease(e)

Heartbeat(e) == HeartbeatRenews(e) \/ HeartbeatFails(e)

Stop ==
  \/ \E m \in Managers : StopBegin(m)
  \/ StopQueued \/ StopTerminate \/ StopClose
  \/ OrphanLookup \/ OrphanQueued \/ OrphanRevoke
  \/ OrphanTerminate \/ OrphanClose \/ OrphanClear

Recover ==
  \/ \E m \in Managers : RecoverBegin(m)
  \/ \E r \in Requests, e \in Executions : RecoverQueued(r, e)
  \/ \E r \in Requests \cup {NoReq} : RecoverRunning(r)
  \/ ResumeStart \/ RecoverTerminate \/ RecoverClose \/ RecoverClear \/ RecoverRevoke
  \/ HandlerFails
  \/ \E r \in Requests : RetryGrantCleanup(r)

Environment ==
  \/ RunEnds \/ LeaseExpires \/ LeaseLapses \/ BusyExpires
  \/ \E m \in Managers : Crash(m)
  \/ \E e \in Executions : GrantExpires(e)

Next ==
  \/ Launch \/ Stop \/ Recover \/ Environment
  \/ \E e \in Executions : Setup(e) \/ Ending(e) \/ Heartbeat(e)

Spec == Init /\ [][Next]_vars
-----------------------------------------------------------------------------
(* The outbox that a user of the conversation can rely on.                 *)

InvokedRequests == {exReq[e] : e \in invoked}
ExecutingRequest == IF rt = NoExec THEN NoReq ELSE exReq[rt]

Ledger == INSTANCE MessageLedger
  WITH status <- reqStatus, executing <- ExecutingRequest, invoked <- InvokedRequests

\* Managers, leases, crashes and late steps together implement the abstract
\* outbox: accepted once, executed at most once, closed after execution.
ImplementsLedger == Ledger!Spec
-----------------------------------------------------------------------------
(* Properties.                                                             *)

OpenRequests == {r \in Requests : Open(r)}

\* The conversation's status and its receipts never disagree: it is running
\* exactly while one message is queued or running, and never two.
OpenIffRunning ==
  /\ session = "running" <=> OpenRequests # {}
  /\ \A r, q \in OpenRequests : r = q

\* However often a message is retried, resumed or its manager crashes, the
\* Runtime accepts at most one /run for it.
AtMostOnce ==
  \A e, f \in invoked : exReq[e] = exReq[f] => e = f

\* While the Runtime executes, the receipt of that very run is running and so
\* is the conversation: nothing may stop the container as idle, close the
\* message or accept the next one before the execution has ended.
ClosedOnlyAfterExit ==
  rt # NoExec => /\ reqStatus[exReq[rt]] = "running"
                 /\ reqRun[exReq[rt]] = rt
                 /\ session = "running"

\* A claimed execution never finds the Runtime still busy with another run,
\* although its predecessor may have died, lapsed or been stopped.
RuntimeFreeAtDispatch ==
  \A e \in Executions : pc[e] = "dispatch" => rt = NoExec

\* A receipt says that its run's grants are revoked only when they are.
RevokedIsRevoked ==
  \A r \in reqRevoked : reqRun[r] # NoExec /\ reqRun[r] \notin grants

\* A closed receipt stays as it is, whichever execution or handler comes late.
ClosedIsFinal ==
  [][\A r \in Requests : Closed(r) => /\ reqStatus'[r] = reqStatus[r]
                                      /\ reqRun'[r] = reqRun[r]]_vars

\* terminateExecution names no run: it ends whichever run the session has, and
\* execute calls it before it looks at its token again.  A broken execution that
\* still holds its lease ends its own run all the same, or none, whatever other
\* executions have lapsed, crashed or been recovered before: no run of another
\* execution can go on beside a held lease.  Only one that has lost its lease
\* without knowing can hit the run of a successor.
TerminatesOwnRun ==
  [][\A e \in Executions :
       pc[e] = "catch" /\ pc'[e] = "settle" /\ lease = e => rt \in {NoExec, e}]_vars
=============================================================================
