---------------------------- MODULE Runs_proofs ----------------------------
(***************************************************************************)
(* The inductive invariant of Runs holds in every reachable state, for any *)
(* sets of messages, executions and managers and any number of lapses and  *)
(* crashes; the safety properties are its consequences.  One lemma per     *)
(* handler, one step per action of it.                                     *)
(***************************************************************************)
EXTENDS RunsInv, TLAPS


\* launch accepts a message.
LEMMA LaunchStep ==
  ASSUME IInv, Launch
  PROVE  IInv'
<1> USE NoneAssumption
    DEF IInv, TypeOK, ReceiptInv, ExecutionInv, ManagerInv, OpInv, ClaimInv,
           RuntimeInv, RevokedInv, OpenIffRunning, ClosedOnlyAfterExit, OpenRequests, Open, Closed,
           db, mcpVars, leases, runtime, ident, bounds,
           Executing, Unclaimed, OpHolder, Free, Flags, OpSteps, LaunchSteps, ResumeSteps, RecoverSteps, StopSteps
<1>1. CASE AnswerOnly
  BY <1>1 DEF AnswerOnly, vars
<1>2. ASSUME NEW m \in Managers, NEW r \in Requests, NEW e \in Executions, LaunchAcquire(m, r, e)
     PROVE  IInv'
  BY <1>2 DEF LaunchAcquire, Admissible, Goto
<1>3. CASE AdmitActivity
  <2>1. busy' \in BOOLEAN
    BY <1>3, Zenon DEF AdmitActivity, OpAt
  <2> QED
    BY <1>3, <2>1 DEF AdmitActivity, OpAt
<1>4. CASE LaunchRenew
  BY <1>4 DEF LaunchRenew, OpAt
<1>5. CASE LaunchInsert
  BY <1>5 DEF LaunchInsert, Goto, InsertReceipt, StartAccepted
<1>6. CASE AdmissionFails
  <2>1. busy' \in BOOLEAN
    BY <1>6, Zenon DEF AdmissionFails, Goto, Unlease
  <2>2. /\ op.at \in LaunchSteps \cup ResumeSteps
        /\ Unlease(op.exec) /\ Goto(op.exec, "done") /\ op' = Free
        /\ UNCHANGED <<db, mcpVars, runtime, active, ident, flags, outcome, bounds>>
    BY <1>6 DEF AdmissionFails
  <2> QED
    BY <2>1, <2>2 DEF Goto, Unlease
<1>7. CASE InsertUnacknowledged
  <2>1. busy' \in BOOLEAN
    BY <1>7, Zenon DEF InsertUnacknowledged, Goto, InsertReceipt, Unlease
  <2> QED
    BY <1>7, <2>1 DEF InsertUnacknowledged, Goto, InsertReceipt, Unlease
<1> QED
  BY <1>1, <1>2, <1>3, <1>4, <1>5, <1>6, <1>7 DEF Launch

\* execute up to its dispatch.
LEMMA SetupStep ==
  ASSUME IInv, NEW e \in Executions, Setup(e)
  PROVE  IInv'
<1> USE NoneAssumption
    DEF IInv, TypeOK, ReceiptInv, ExecutionInv, ManagerInv, OpInv, ClaimInv,
           RuntimeInv, RevokedInv, OpenIffRunning, ClosedOnlyAfterExit, OpenRequests, Open, Closed,
           db, mcpVars, leases, runtime, ident, bounds,
           Executing, Unclaimed, OpHolder, Free, Flags, OpSteps, LaunchSteps, ResumeSteps, RecoverSteps, StopSteps
<1>1. CASE Prepare(e)
  BY <1>1 DEF Prepare, Goto, Stopped
<1>2. CASE IssueGrants(e)
  BY <1>2 DEF IssueGrants, Goto
<1>11. CASE WriteRunKey(e)
  BY <1>11 DEF WriteRunKey, Goto, Raise
<1>3. CASE PreparationFails(e)
  BY <1>3 DEF PreparationFails, Goto
<1>4. CASE ClaimBegin(e)
  BY <1>4 DEF ClaimBegin, Goto, Stopped
<1>5. CASE ClaimRefused(e)
  BY <1>5 DEF ClaimRefused, Goto
<1>6. CASE ClaimCommit(e)
  BY <1>6 DEF ClaimCommit, ClaimReceipt, Claimable, Goto, Raise
<1>7. CASE ClaimLost(e)
  BY <1>7 DEF ClaimLost, Claimable, Goto
<1>8. CASE ClaimError(e)
  BY <1>8 DEF ClaimError, ClaimReceipt, Claimable, Goto
<1>9. CASE Dispatch(e)
  BY <1>9 DEF Dispatch, Goto, Stopped
<1>10. CASE DispatchFails(e)
  BY <1>10 DEF DispatchFails, Goto
<1> QED
  BY <1>1, <1>2, <1>3, <1>4, <1>5, <1>6, <1>7, <1>8, <1>9, <1>10, <1>11 DEF Setup

\* execute from the stream to its cleanup.
LEMMA EndingStep ==
  ASSUME IInv, NEW e \in Executions, Ending(e)
  PROVE  IInv'
<1> USE NoneAssumption
    DEF IInv, TypeOK, ReceiptInv, ExecutionInv, ManagerInv, OpInv, ClaimInv,
           RuntimeInv, RevokedInv, OpenIffRunning, ClosedOnlyAfterExit, OpenRequests, Open, Closed,
           db, mcpVars, leases, runtime, ident, bounds,
           Executing, Unclaimed, OpHolder, Free, Flags, OpSteps, LaunchSteps, ResumeSteps, RecoverSteps, StopSteps
<1>1. CASE ReadTerminal(e)
  BY <1>1 DEF ReadTerminal, Goto
<1>2. CASE StreamBreaks(e)
  BY <1>2 DEF StreamBreaks, Goto
<1>3. CASE CatchUnstarted(e)
  BY <1>3 DEF CatchUnstarted, CatchOutcome, Goto
<1>4. CASE CatchStarted(e)
  BY <1>4 DEF CatchStarted, Terminate, Goto
<1>5. CASE Settle(e)
  BY <1>5 DEF Settle, CatchOutcome, Goto
<1>6. CASE Abandon(e)
  BY <1>6 DEF Abandon, Goto, Retire, RevokeGrants, RevokePreRun
<1>7. CASE EndAmbiguous(e)
  BY <1>7 DEF EndAmbiguous, Goto, Retire, RevokeGrants, RevokePreRun
<1>8. CASE CheckToken(e)
  BY <1>8 DEF CheckToken, Goto, Retire, RevokeGrants, RevokePreRun
<1>9. CASE Finish(e)
  BY <1>9 DEF Finish, CloseRequest, Finishable, Goto
<1>10. CASE FinishFails(e)
  BY <1>10 DEF FinishFails, CloseRequest, Finishable, Goto, Retire
<1>11. CASE RevokeGrant(e)
  BY <1>11 DEF RevokeGrant, Goto, RevokeGrants, RevokeRecorded
<1>12. CASE CheckRelease(e)
  BY <1>12 DEF CheckRelease, Goto, Retire
<1>13. CASE ClearAndRelease(e)
  <2>1. busy' \in BOOLEAN
    BY <1>13, Zenon DEF ClearAndRelease, Goto, Retire, Unlease
  <2> QED
    BY <1>13, <2>1 DEF ClearAndRelease, Goto, Retire, Unlease
<1> QED
  BY <1>1, <1>2, <1>3, <1>4, <1>5, <1>6, <1>7, <1>8, <1>9, <1>10, <1>11, <1>12, <1>13 DEF Ending

\* The heartbeat of an execution.
LEMMA HeartbeatStep ==
  ASSUME IInv, NEW e \in Executions, Heartbeat(e)
  PROVE  IInv'
<1> USE NoneAssumption
    DEF IInv, TypeOK, ReceiptInv, ExecutionInv, ManagerInv, OpInv, ClaimInv,
           RuntimeInv, RevokedInv, OpenIffRunning, ClosedOnlyAfterExit, OpenRequests, Open, Closed,
           db, mcpVars, leases, runtime, ident, bounds,
           Executing, Unclaimed, OpHolder, Free, Flags, OpSteps, LaunchSteps, ResumeSteps, RecoverSteps, StopSteps
<1>1. CASE HeartbeatRenews(e)
  <2>1. busy' \in BOOLEAN
    BY <1>1, Zenon DEF HeartbeatRenews
  <2> QED
    BY <1>1, <2>1 DEF HeartbeatRenews
<1>2. CASE HeartbeatFails(e)
  BY <1>2 DEF HeartbeatFails, Raise
<1> QED
  BY <1>1, <1>2 DEF Heartbeat

\* The user's Stop.
LEMMA StopStep ==
  ASSUME IInv, Stop
  PROVE  IInv'
<1> USE NoneAssumption
    DEF IInv, TypeOK, ReceiptInv, ExecutionInv, ManagerInv, OpInv, ClaimInv,
           RuntimeInv, RevokedInv, OpenIffRunning, ClosedOnlyAfterExit, OpenRequests, Open, Closed,
           db, mcpVars, leases, runtime, ident, bounds,
           Executing, Unclaimed, OpHolder, Free, Flags, OpSteps, LaunchSteps, ResumeSteps, RecoverSteps, StopSteps
<1>1. ASSUME NEW m \in Managers, StopBegin(m)
     PROVE  IInv'
  <2>1. \A e \in Executions : pc[e] \notin {"claiming", "dispatch"}
    BY <1>1 DEF StopBegin
  <2> QED
    BY <1>1, <2>1 DEF StopBegin, Raise
<1>2. CASE StopQueued
  BY <1>2 DEF StopQueued, AbortReader, CloseRequest, OpAt, Raise
<1>3. CASE StopTerminate
  BY <1>3 DEF StopTerminate, Terminate, AbortReader, OpAt, Raise
<1>4. CASE StopClose
  BY <1>4 DEF StopClose, CloseRequest, StillRunning
<1>5. CASE OrphanLookup
  BY <1>5 DEF OrphanLookup, IsRunningRequest, RunOf
<1>6. CASE OrphanQueued
  <2>2. /\ op.at = "orphanQueued"
        /\ UNCHANGED <<mcpVars, leases, runtime, active, pc, ident, flags, outcome, bounds>>
    BY <1>6 DEF OrphanQueued
  <2>3. CASE reqStatus[op.req] = "queued"
    <3>1. CloseRequest(op.req, "idle") /\ op' = OpAt("orphanRevoke")
      BY <1>6, <2>3 DEF OrphanQueued
    <3> QED
      BY <2>2, <2>3, <3>1 DEF CloseRequest, OpAt
  <2>4. CASE reqStatus[op.req] # "queued"
    <3>1. PICK r \in Requests \cup {NoReq} :
            IsRunningRequest(r) /\ op' = OpHolder("orphanTerminate", op.mgr, r, RunOf(r))
      BY <1>6, <2>4 DEF OrphanQueued
    <3>2. UNCHANGED db
      BY <1>6, <2>4 DEF OrphanQueued
    <3>3. r = NoReq => session # "running"
      BY <2>2, <2>4, <3>1 DEF IsRunningRequest
    <3>4. OpInv'
      <4>1. CASE r = NoReq
        BY <2>2, <3>1, <3>2, <3>3, <4>1 DEF RunOf
      <4>2. CASE r \in Requests
        BY <2>2, <3>1, <3>2, <4>2 DEF RunOf, IsRunningRequest
      <4> QED
        BY <4>1, <4>2
    <3> QED
      BY <2>2, <3>1, <3>2, <3>4 DEF RunOf
  <2> QED
    BY <2>3, <2>4
<1>7. CASE OrphanTerminate
  BY <1>7 DEF OrphanTerminate, Terminate, OpAt
<1>8. CASE OrphanClose
  BY <1>8 DEF OrphanClose, CloseRequest, OpAt, StillRunning
<1>9. CASE OrphanClear
  <2>1. busy' \in BOOLEAN
    BY <1>9, Zenon DEF OrphanClear
  <2>2. /\ op.at = "orphanClear" /\ op' = Free
        /\ UNCHANGED <<db, mcpVars, lease, runtime, active, pc, ident, flags, outcome, bounds>>
    BY <1>9 DEF OrphanClear
  <2> QED
    BY <2>1, <2>2
<1>10. CASE OrphanRevoke
  BY <1>10 DEF OrphanRevoke, RevokeGrants, OpAt
<1> QED
  BY <1>1, <1>2, <1>3, <1>4, <1>5, <1>6, <1>7, <1>8, <1>9, <1>10 DEF Stop

\* The recovery of stale conversations.
LEMMA RecoverStep ==
  ASSUME IInv, Recover
  PROVE  IInv'
<1> USE NoneAssumption
    DEF IInv, TypeOK, ReceiptInv, ExecutionInv, ManagerInv, OpInv, ClaimInv,
           RuntimeInv, RevokedInv, OpenIffRunning, ClosedOnlyAfterExit, OpenRequests, Open, Closed,
           db, mcpVars, leases, runtime, ident, bounds,
           Executing, Unclaimed, OpHolder, Free, Flags, OpSteps, LaunchSteps, ResumeSteps, RecoverSteps, StopSteps
<1>1. ASSUME NEW m \in Managers, RecoverBegin(m)
     PROVE  IInv'
  BY <1>1 DEF RecoverBegin, Stale
<1>2. ASSUME NEW r \in Requests, NEW e \in Executions, RecoverQueued(r, e)
     PROVE  IInv'
  BY <1>2 DEF RecoverQueued, Goto, RevokeGrants
<1>3. ASSUME NEW r \in Requests \cup {NoReq}, RecoverRunning(r)
     PROVE  IInv'
  BY <1>3 DEF RecoverRunning, IsRunningRequest, RunOf
<1>4. CASE ResumeStart
  BY <1>4 DEF ResumeStart, Goto, StartAccepted
<1>5. CASE RecoverTerminate
  BY <1>5 DEF RecoverTerminate, Terminate, OpAt
<1>6. CASE RecoverClose
  BY <1>6 DEF RecoverClose, OpAt, StillRunning
<1>7. CASE RecoverClear
  <2>1. busy' \in BOOLEAN
    BY <1>7, Zenon DEF RecoverClear, OpAt
  <2> QED
    BY <1>7, <2>1 DEF RecoverClear, OpAt
<1>8. CASE RecoverRevoke
  BY <1>8 DEF RecoverRevoke, RevokeGrants, RevokeRecorded
<1>9. CASE HandlerFails
  BY <1>9 DEF HandlerFails
<1>10. ASSUME NEW r \in Requests, RetryGrantCleanup(r)
     PROVE  IInv'
  BY <1>10 DEF RetryGrantCleanup, RevokeGrants, RevokeRecorded
<1> QED
  BY <1>1, <1>2, <1>3, <1>4, <1>5, <1>6, <1>7, <1>8, <1>9, <1>10 DEF Recover

\* Time and failures.
LEMMA EnvironmentStep ==
  ASSUME IInv, Environment
  PROVE  IInv'
<1> USE NoneAssumption
    DEF IInv, TypeOK, ReceiptInv, ExecutionInv, ManagerInv, OpInv, ClaimInv,
           RuntimeInv, RevokedInv, OpenIffRunning, ClosedOnlyAfterExit, OpenRequests, Open, Closed,
           db, mcpVars, leases, runtime, ident, bounds,
           Executing, Unclaimed, OpHolder, Free, Flags, OpSteps, LaunchSteps, ResumeSteps, RecoverSteps, StopSteps
<1>1. CASE RunEnds
  BY <1>1 DEF RunEnds
<1>2. CASE LeaseExpires
  BY <1>2 DEF LeaseExpires
<1>3. CASE LeaseLapses
  BY <1>3, BoundAssumption DEF LeaseLapses
<1>4. CASE BusyExpires
  <2>1. busy' \in BOOLEAN
    BY <1>4, Zenon DEF BusyExpires
  <2> QED
    BY <1>4, <2>1 DEF BusyExpires
<1>5. ASSUME NEW m \in Managers, Crash(m)
     PROVE  IInv'
  <2>1. crashes' \in 0..MaxCrashes
    BY <1>5, BoundAssumption DEF Crash
  <2> QED
    BY <1>5, <2>1 DEF Crash
<1>6. ASSUME NEW e \in Executions, GrantExpires(e)
     PROVE  IInv'
  BY <1>6 DEF GrantExpires
<1> QED
  BY <1>1, <1>2, <1>3, <1>4, <1>5, <1>6 DEF Environment

\* The invariant holds initially and every step keeps it.
LEMMA InitIInv == Init => IInv
<1> SUFFICES ASSUME Init PROVE IInv
  OBVIOUS
<1>1. TypeOK
  <2>1. busy \in BOOLEAN
    BY Zenon DEF Init
  <2> QED
    BY <2>1, BoundAssumption DEF Init, TypeOK, OpHolder, Free, OpSteps
<1>2. ReceiptInv /\ ExecutionInv /\ ManagerInv /\ ClaimInv
  BY NoneAssumption DEF Init, ReceiptInv, ExecutionInv, ManagerInv, ClaimInv, Executing
<1>3. OpInv
  BY DEF Init, OpInv, OpHolder, Free, LaunchSteps, ResumeSteps
<1>4. RuntimeInv /\ RevokedInv /\ OpenIffRunning /\ ClosedOnlyAfterExit
  BY DEF Init, RuntimeInv, RevokedInv, OpenIffRunning, ClosedOnlyAfterExit, OpenRequests, Open,
         OpHolder, Free
<1> QED
  BY <1>1, <1>2, <1>3, <1>4 DEF IInv

LEMMA NextIInv == IInv /\ [Next]_vars => IInv'
<1> SUFFICES ASSUME IInv, [Next]_vars PROVE IInv'
  OBVIOUS
<1>1. CASE UNCHANGED vars
  BY <1>1
  DEF vars, db, mcpVars, leases, runtime, ident, bounds, IInv, TypeOK, ReceiptInv, ExecutionInv,
      ManagerInv, OpInv, ClaimInv, RuntimeInv, RevokedInv, OpenIffRunning, ClosedOnlyAfterExit,
      OpenRequests, Open, Closed
<1>2. CASE Next
  BY <1>2, LaunchStep, SetupStep, EndingStep, HeartbeatStep, StopStep, RecoverStep,
     EnvironmentStep DEF Next
<1> QED
  BY <1>1, <1>2

\* Every reachable state satisfies the invariant.
THEOREM RunsInvariant == Spec => []IInv
BY InitIInv, NextIInv, PTL DEF Spec

\* The state of receipts, leases, locks and executions stays well formed.
THEOREM RunsTypeCorrect == Spec => []TypeOK
<1>1. IInv => TypeOK
  BY DEF IInv
<1> QED
  BY RunsInvariant, <1>1, PTL

\* A conversation is running exactly while it has its one open message.
THEOREM OneOpenMessage == Spec => []OpenIffRunning
<1>1. IInv => OpenIffRunning
  BY DEF IInv
<1> QED
  BY RunsInvariant, <1>1, PTL

\* The Runtime accepts at most one /run for a message: an accepted execution
\* is the one the receipt was claimed for, and a receipt keeps its runId.
THEOREM AtMostOneInvocation == Spec => []AtMostOnce
<1>1. IInv => AtMostOnce
  BY DEF IInv, RuntimeInv, AtMostOnce
<1> QED
  BY RunsInvariant, <1>1, PTL

\* Nothing is closed, and the conversation is not idle, while the Runtime
\* still executes: leases may lapse and managers may die, termination comes
\* first.
THEOREM ClosureFollowsExit == Spec => []ClosedOnlyAfterExit
<1>1. IInv => ClosedOnlyAfterExit
  BY DEF IInv
<1> QED
  BY RunsInvariant, <1>1, PTL

\* A claimed execution finds the Runtime free: were another run executing, its
\* receipt would be running beside the claimed one.
THEOREM DispatchFindsRuntimeFree == Spec => []RuntimeFreeAtDispatch
<1>1. IInv => RuntimeFreeAtDispatch
  <2> SUFFICES ASSUME IInv, NEW e \in Executions, pc[e] = "dispatch", rt # NoExec
               PROVE  FALSE
    BY DEF RuntimeFreeAtDispatch
  <2>1. reqStatus[exReq[e]] = "running" /\ exReq[e] \in Requests
        /\ reqRun[exReq[e]] = e /\ e \notin invoked
    BY DEF IInv, ExecutionInv
  <2>2. rt \in invoked /\ reqStatus[exReq[rt]] = "running" /\ exReq[rt] \in Requests
        /\ reqRun[exReq[rt]] = rt
    BY DEF IInv, TypeOK, RuntimeInv, ExecutionInv, ClosedOnlyAfterExit
  <2>3. exReq[rt] = exReq[e]
    BY <2>1, <2>2 DEF IInv, OpenIffRunning, OpenRequests, Open
  <2> QED
    BY <2>1, <2>2, <2>3
<1> QED
  BY RunsInvariant, <1>1, PTL

\* mcp_revoked_at is set only on receipts whose grants are gone.
THEOREM RevocationIsRecordedTruthfully == Spec => []RevokedIsRevoked
<1>1. IInv => RevokedIsRevoked
  BY DEF IInv, RevokedInv, RevokedIsRevoked
<1> QED
  BY RunsInvariant, <1>1, PTL
-----------------------------------------------------------------------------
(***************************************************************************)
(* Refinement.  Seen from the outbox a step is silent, reserves an         *)
(* execution, inserts, claims, dispatches, ends a run or closes.           *)
(***************************************************************************)
visible == <<reqStatus, reqRun, session, rt, invoked, exReq>>

Reserving ==
  \/ \E m \in Managers, r \in Requests, e \in Executions : LaunchAcquire(m, r, e)
  \/ \E r \in Requests, e \in Executions : RecoverQueued(r, e)
Inserting == LaunchInsert \/ InsertUnacknowledged
Claiming == \E e \in Executions : ClaimCommit(e) \/ ClaimError(e)
Dispatching == \E e \in Executions : Dispatch(e)
Exiting ==
  \/ RunEnds \/ StopTerminate \/ OrphanTerminate \/ RecoverTerminate
  \/ \E e \in Executions : CatchStarted(e)
Closing ==
  \/ StopQueued \/ StopClose \/ OrphanQueued \/ OrphanClose \/ RecoverClose
  \/ \E e \in Executions : Finish(e) \/ FinishFails(e)

LEMMA StepKinds ==
  ASSUME Next
  PROVE  \/ UNCHANGED visible
         \/ Reserving \/ Inserting \/ Claiming \/ Dispatching \/ Exiting \/ Closing
<1> USE DEF visible, db, mcpVars, leases, runtime, ident, bounds, vars,
            Reserving, Inserting, Claiming, Dispatching, Exiting, Closing
<1>1. CASE Launch
  BY <1>1 DEF Launch, AnswerOnly, AdmitActivity, LaunchRenew, AdmissionFails
<1>2. CASE \E e \in Executions : Setup(e)
  BY <1>2 DEF Setup, Prepare, WriteRunKey, IssueGrants, PreparationFails, ClaimBegin, ClaimRefused,
              ClaimLost, DispatchFails
<1>3. CASE \E e \in Executions : Ending(e)
  BY <1>3 DEF Ending, ReadTerminal, StreamBreaks, CatchUnstarted, Settle, Abandon, EndAmbiguous,
              CheckToken, RevokeGrant, CheckRelease, ClearAndRelease
<1>4. CASE \E e \in Executions : Heartbeat(e)
  BY <1>4 DEF Heartbeat, HeartbeatRenews, HeartbeatFails
<1>5. CASE Stop
  BY <1>5 DEF Stop, StopBegin, OrphanLookup, OrphanRevoke, OrphanClear
<1>6. CASE Recover
  BY <1>6 DEF Recover, RecoverBegin, Stale, RecoverRunning, ResumeStart, RecoverClear, RecoverRevoke,
              HandlerFails, RetryGrantCleanup
<1>7. CASE Environment
  BY <1>7 DEF Environment, LeaseExpires, LeaseLapses, BusyExpires, Crash, GrantExpires
<1> QED
  BY <1>1, <1>2, <1>3, <1>4, <1>5, <1>6, <1>7 DEF Next

\* Whoever closes a receipt, it is open and not what the Runtime executes.
LEMMA ClosingEffect ==
  ASSUME IInv, Closing
  PROVE  /\ UNCHANGED <<reqRun, rt, invoked, exReq>>
         /\ \/ UNCHANGED <<reqStatus, session>>
            \/ \E r \in Requests, final \in {"idle", "error"} :
                 Open(r) /\ ExecutingRequest # r /\ CloseRequest(r, final)
<1> USE NoneAssumption
    DEF IInv, TypeOK, OpenIffRunning, OpenRequests, Open, ClosedOnlyAfterExit, ExecutingRequest,
        CloseRequest, db, runtime, ident
<1>1. CASE StopQueued
  BY <1>1 DEF StopQueued, OpInv
<1>2. CASE StopClose
  BY <1>2 DEF StopClose, StillRunning, OpInv, RuntimeInv
<1>3. CASE OrphanQueued
  BY <1>3 DEF OrphanQueued, OpInv
<1>4. CASE OrphanClose
  BY <1>4 DEF OrphanClose, StillRunning, OpInv, RuntimeInv
<1>5. CASE RecoverClose
  BY <1>5 DEF RecoverClose, StillRunning, OpInv, RuntimeInv
<1>6. ASSUME NEW e \in Executions, Finish(e) \/ FinishFails(e)
      PROVE  /\ UNCHANGED <<reqRun, rt, invoked, exReq>>
             /\ \/ UNCHANGED <<reqStatus, session>>
                \/ \E r \in Requests, final \in {"idle", "error"} :
                     Open(r) /\ ExecutingRequest # r /\ CloseRequest(r, final)
  <2>1. pc[e] = "finish" /\ exReq[e] \in Requests /\ outcome[e] \in {"idle", "error"}
    BY <1>6 DEF Finish, FinishFails, ExecutionInv, Executing
  <2>2. UNCHANGED <<rt, invoked, exReq>>
    BY <1>6 DEF Finish, FinishFails
  <2>3. UNCHANGED db \/ (Finishable(e) /\ CloseRequest(exReq[e], outcome[e]))
    BY <1>6 DEF Finish, FinishFails
  <2>4. Finishable(e) => Open(exReq[e]) /\ ExecutingRequest # exReq[e]
    BY <2>1 DEF Finishable, RuntimeInv
  <2> QED
    BY <2>1, <2>2, <2>3, <2>4
<1> QED
  BY <1>1, <1>2, <1>3, <1>4, <1>5, <1>6 DEF Closing

\* A closed receipt never changes again.
THEOREM ClosedReceiptsAreFinal == Spec => ClosedIsFinal
<1>1. ASSUME IInv, [Next]_vars
      PROVE  [\A r \in Requests : Closed(r) => /\ reqStatus'[r] = reqStatus[r]
                                               /\ reqRun'[r] = reqRun[r]]_vars
  <2> SUFFICES ASSUME Next, NEW r \in Requests, Closed(r)
               PROVE  reqStatus'[r] = reqStatus[r] /\ reqRun'[r] = reqRun[r]
    BY <1>1
  <2> USE <1>1 DEF IInv, TypeOK, Closed, db
  <2>1. CASE UNCHANGED visible
    BY <2>1 DEF visible
  <2>2. CASE Reserving
    BY <2>2 DEF Reserving, LaunchAcquire, Admissible, RecoverQueued
  <2>3. CASE Inserting
    BY <2>3 DEF Inserting, LaunchInsert, InsertUnacknowledged, InsertReceipt, OpInv, LaunchSteps
  <2>4. CASE Claiming
    BY <2>4 DEF Claiming, ClaimCommit, ClaimError, ClaimReceipt, Claimable
  <2>5. CASE Dispatching
    BY <2>5 DEF Dispatching, Dispatch
  <2>6. CASE Exiting
    BY <2>6 DEF Exiting, Terminate, RunEnds, StopTerminate, OrphanTerminate, RecoverTerminate,
                  CatchStarted
  <2>7. CASE Closing
    BY <2>7, ClosingEffect DEF CloseRequest, Open
  <2> QED
    BY <2>1, <2>2, <2>3, <2>4, <2>5, <2>6, <2>7, StepKinds
<1> QED
  BY <1>1, RunsInvariant, PTL DEF Spec, ClosedIsFinal

\* The scheduler implements the abstract outbox.
THEOREM RunsImplementLedger == Spec => ImplementsLedger
<1> USE NoneAssumption DEF ExecutingRequest, InvokedRequests
<1>1. Init => Ledger!Init
  BY DEF Init, Ledger!Init
<1>2. ASSUME IInv, [Next]_vars
      PROVE  [Ledger!Next]_Ledger!ledgerVars
  <2> USE <1>2 DEF IInv, TypeOK, db, runtime, Ledger!Next, Ledger!ledgerVars, Ledger!OpenStatus
  <2>1. CASE UNCHANGED vars
    BY <2>1 DEF vars, ident
  <2>2. CASE UNCHANGED visible
    BY <2>2 DEF visible
  <2>3. CASE Reserving
    \* exReq changes only for an execution that was never accepted.
    <3>1. PICK r \in Requests, e \in Executions :
            pc[e] = "unused" /\ exReq' = [exReq EXCEPT ![e] = r] /\ UNCHANGED <<db, runtime>>
      BY <2>3 DEF Reserving, LaunchAcquire, Admissible, RecoverQueued
    <3>2. e \notin invoked /\ rt # e
      BY <3>1 DEF RuntimeInv
    <3> QED
      BY <3>1, <3>2
  <2>4. CASE Inserting
    <3>1. op.req \in Requests /\ Ledger!Accept(op.req)
      BY <2>4 DEF Inserting, LaunchInsert, InsertUnacknowledged, InsertReceipt, OpInv, LaunchSteps,
                  OpenIffRunning, OpenRequests, Open, ident, Ledger!Accept
    <3> QED
      BY <3>1
  <2>5. CASE Claiming
    <3>1. PICK e \in Executions : ClaimCommit(e) \/ ClaimError(e)
      BY <2>5 DEF Claiming
    <3>2. exReq[e] \in Requests
      BY <3>1 DEF ClaimCommit, ClaimError, ExecutionInv
    <3>3. UNCHANGED Ledger!ledgerVars \/ Ledger!Claim(exReq[e])
      BY <3>1, <3>2 DEF ClaimCommit, ClaimError, ClaimReceipt, Claimable, ident, Ledger!Claim
    <3> QED
      BY <3>2, <3>3
  <2>6. CASE Dispatching
    <3>1. PICK e \in Executions : Dispatch(e)
      BY <2>6 DEF Dispatching
    <3>2. PICK r \in Requests : r = exReq[e]
      BY <3>1 DEF Dispatch, ExecutionInv
    <3>3. reqStatus[r] = "running" /\ reqRun[r] = e /\ e \notin invoked
      BY <3>1, <3>2 DEF Dispatch, ExecutionInv
    <3>4. r \notin {exReq[f] : f \in invoked}
      BY <3>2, <3>3 DEF RuntimeInv
    <3>5. Ledger!Invoke(r)
      BY <3>1, <3>2, <3>3, <3>4 DEF Dispatch, ident, Ledger!Invoke
    <3> QED
      BY <3>5
  <2>7. CASE Exiting
    <3>1. rt' \in {rt, NoExec} /\ UNCHANGED <<db, invoked, exReq>>
      BY <2>7 DEF Exiting, Terminate, RunEnds, StopTerminate, OrphanTerminate, RecoverTerminate,
                  CatchStarted, ident
    <3>2. rt # NoExec => exReq[rt] \in Requests
      BY DEF RuntimeInv, ExecutionInv
    <3> QED
      BY <3>1, <3>2 DEF Ledger!End
  <2>8. CASE Closing
    <3>1. CASE UNCHANGED <<reqStatus, session, rt, invoked, exReq>>
      BY <3>1
    <3>2. ASSUME NEW r \in Requests, NEW final \in {"idle", "error"}, Open(r),
                 ExecutingRequest # r, CloseRequest(r, final), UNCHANGED <<rt, invoked, exReq>>
          PROVE  Ledger!Close(r)
      <4>1. /\ reqStatus[r] \in Ledger!OpenStatus /\ ExecutingRequest # r
            /\ UNCHANGED <<ExecutingRequest, InvokedRequests>>
        BY <3>2 DEF Open
      <4>2. CASE final = "idle"
        <5>1. session' = "idle" /\ reqStatus' = [reqStatus EXCEPT ![r] = "completed"]
          BY <3>2, <4>2 DEF CloseRequest
        <5> QED
          BY <4>1, <5>1 DEF Ledger!Close
      <4>3. CASE final = "error"
        <5>1. session' = "error" /\ reqStatus' = [reqStatus EXCEPT ![r] = "failed"]
          BY <3>2, <4>3 DEF CloseRequest
        <5> QED
          BY <4>1, <5>1 DEF Ledger!Close
      <4> QED
        BY <4>2, <4>3, <3>2
    <3> QED
      BY <2>8, <3>1, <3>2, ClosingEffect
  <2> QED
    BY <1>2, <2>1, <2>2, <2>3, <2>4, <2>5, <2>6, <2>7, <2>8, StepKinds
<1> QED
  BY <1>1, <1>2, RunsInvariant, PTL DEF Spec, ImplementsLedger, Ledger!Spec
-----------------------------------------------------------------------------
(***************************************************************************)
(* Termination.  An execution is reserved while the Runtime is free.  From *)
(* then on, as long as it holds its lease, nobody else is dispatched: the  *)
(* lease was looked at when the claim began, under the control lock, and   *)
(* no execution is reserved before that lock is free again.  A lease that  *)
(* an execution has lost never comes back to it.                           *)
(***************************************************************************)
Alive(e) == pc[e] \in {"reserved"} \cup Executing

OwnInv ==
  \A e \in Executions :
    /\ Alive(e) /\ lease = e => rt \in {NoExec, e}
    /\ pc[e] \in {"claiming", "dispatch"} => lease \in {NoExec, e}

\* The Runtime is free when a message is admitted or resumed: what it executes
\* would be running beside it.
LEMMA ReservedWhileFree ==
  ASSUME IInv, NEW r \in Requests, Admissible(r) \/ reqStatus[r] = "queued"
  PROVE  rt = NoExec
<1> SUFFICES ASSUME rt # NoExec PROVE FALSE
  OBVIOUS
<1>1. /\ exReq[rt] \in Requests /\ reqStatus[exReq[rt]] = "running" /\ session = "running"
  BY DEF IInv, TypeOK, RuntimeInv, ExecutionInv, ClosedOnlyAfterExit
<1> QED
  BY <1>1 DEF Admissible, IInv, OpenIffRunning, OpenRequests, Open

\* Every step keeps it.
LEMMA OwnStep ==
  ASSUME IInv, OwnInv, [Next]_vars
  PROVE  OwnInv'
<1> USE NoneAssumption
    DEF OwnInv, Alive, Executing, db, mcpVars, leases, runtime, ident, bounds, Goto, Retire, Unlease
<1>t. /\ pc \in [Executions -> {"unused", "reserved", "done"} \cup Executing]
      /\ \A e \in Executions : pc[e] \in {"claiming", "dispatch"} => op.at = "claim" /\ op.exec = e
  BY DEF IInv, TypeOK, ClaimInv, OpHolder
<1>1. CASE UNCHANGED vars
  BY <1>1 DEF vars
<1>2. CASE Launch
  <2>1. ASSUME NEW m \in Managers, NEW r \in Requests, NEW e \in Executions, LaunchAcquire(m, r, e)
        PROVE  OwnInv'
    BY <1>t, <2>1, ReservedWhileFree DEF LaunchAcquire, Admissible, Free, OpHolder
  <2>2. CASE AnswerOnly \/ AdmitActivity \/ LaunchRenew
    BY <2>2 DEF AnswerOnly, AdmitActivity, LaunchRenew, vars
  <2>3. CASE LaunchInsert
    BY <1>t, <2>3 DEF LaunchInsert, StartAccepted, IInv, OpInv, LaunchSteps
  <2>4. CASE AdmissionFails
    BY <1>t, <2>4 DEF AdmissionFails, IInv, OpInv
  <2>5. CASE InsertUnacknowledged
    BY <1>t, <2>5 DEF InsertUnacknowledged, IInv, OpInv, LaunchSteps
  <2> QED
    BY <1>2, <2>1, <2>2, <2>3, <2>4, <2>5 DEF Launch
<1>3. ASSUME NEW e \in Executions, Setup(e)
      PROVE  OwnInv'
  <2>1. CASE \/ Prepare(e) \/ WriteRunKey(e) \/ IssueGrants(e) \/ PreparationFails(e)
             \/ ClaimBegin(e) \/ ClaimRefused(e)
    BY <1>t, <2>1
    DEF Prepare, WriteRunKey, IssueGrants, PreparationFails, ClaimBegin, ClaimRefused
  <2>2. CASE ClaimCommit(e) \/ ClaimLost(e) \/ ClaimError(e)
    BY <1>t, <2>2 DEF ClaimCommit, ClaimLost, ClaimError
  <2>3. CASE Dispatch(e) \/ DispatchFails(e)
    BY <1>t, <2>3 DEF Dispatch, DispatchFails
  <2> QED
    BY <1>3, <2>1, <2>2, <2>3 DEF Setup
<1>4. ASSUME NEW e \in Executions, Ending(e)
      PROVE  OwnInv'
  <2>1. CASE ReadTerminal(e) \/ StreamBreaks(e) \/ CatchUnstarted(e) \/ CatchStarted(e) \/ Settle(e)
    BY <1>t, <2>1 DEF ReadTerminal, StreamBreaks, CatchUnstarted, CatchStarted, Settle, Terminate
  <2>2. CASE Abandon(e) \/ EndAmbiguous(e) \/ CheckToken(e)
    BY <1>t, <2>2 DEF Abandon, EndAmbiguous, CheckToken
  <2>3. CASE Finish(e) \/ FinishFails(e) \/ RevokeGrant(e) \/ CheckRelease(e) \/ ClearAndRelease(e)
    BY <1>t, <2>3 DEF Finish, FinishFails, RevokeGrant, CheckRelease, ClearAndRelease
  <2> QED
    BY <1>4, <2>1, <2>2, <2>3 DEF Ending
<1>5. CASE \E e \in Executions : Heartbeat(e)
  BY <1>5 DEF Heartbeat, HeartbeatRenews, HeartbeatFails
<1>6. CASE Stop
  BY <1>6 DEF Stop, StopBegin, StopQueued, StopTerminate, StopClose, OrphanLookup, OrphanQueued,
              OrphanRevoke, OrphanTerminate, OrphanClose, OrphanClear, Terminate
<1>7. CASE Recover
  <2>1. ASSUME NEW r \in Requests, NEW e \in Executions, RecoverQueued(r, e)
        PROVE  OwnInv'
    BY <1>t, <2>1, ReservedWhileFree DEF RecoverQueued
  <2>2. CASE ResumeStart
    BY <1>t, <2>2 DEF ResumeStart, StartAccepted, IInv, OpInv, ResumeSteps
  <2>3. CASE \/ \E m \in Managers : RecoverBegin(m)
             \/ \E r \in Requests \cup {NoReq} : RecoverRunning(r)
             \/ RecoverTerminate \/ RecoverClose \/ RecoverClear \/ RecoverRevoke \/ HandlerFails
             \/ \E r \in Requests : RetryGrantCleanup(r)
    BY <2>3 DEF RecoverBegin, RecoverRunning, RecoverTerminate, RecoverClose, RecoverClear,
                RecoverRevoke, HandlerFails, RetryGrantCleanup, Terminate
  <2> QED
    BY <1>7, <2>1, <2>2, <2>3 DEF Recover
<1>8. CASE Environment
  <2>1. CASE RunEnds \/ LeaseExpires \/ BusyExpires \/ \E e \in Executions : GrantExpires(e)
    BY <1>t, <2>1 DEF RunEnds, LeaseExpires, BusyExpires, GrantExpires
  <2>2. CASE LeaseLapses
    BY <1>t, <2>2 DEF LeaseLapses
  <2>3. ASSUME NEW m \in Managers, Crash(m)
        PROVE  OwnInv'
    BY <1>t, <2>3 DEF Crash
  <2> QED
    BY <1>8, <2>1, <2>2, <2>3 DEF Environment
<1> QED
  BY <1>1, <1>2, <1>3, <1>4, <1>5, <1>6, <1>7, <1>8 DEF Next

\* A broken execution that still holds its lease terminates no run but its own,
\* however many leases lapse and managers crash.
THEOREM TerminationsHitOwnRun == Spec => TerminatesOwnRun
<1>1. Init => OwnInv
  BY NoneAssumption DEF Init, OwnInv, Alive, Executing
<1>2. IInv /\ OwnInv /\ [Next]_vars => OwnInv'
  BY OwnStep
<1>3. OwnInv => \A e \in Executions :
                  pc[e] = "catch" /\ pc'[e] = "settle" /\ lease = e => rt \in {NoExec, e}
  BY DEF OwnInv, Alive, Executing
<1> QED
  BY <1>1, <1>2, <1>3, RunsInvariant, PTL DEF Spec, TerminatesOwnRun
-----------------------------------------------------------------------------
(***************************************************************************)
(* The slot.  The scheduler is one session of RunSlots: the slot is taken  *)
(* while a receipt is running.  It does not see when a run that starts     *)
(* goes, and a request it has given up is taken not to come late.          *)
(***************************************************************************)
Claimed == {r \in Requests : reqStatus[r] = "running"}

Slots ==
  INSTANCE RunSlots
  WITH Sessions <- {"session"},
       slot <- [s \in {"session"} |-> IF rt = NoExec THEN "over" ELSE "starting"],
       held <- IF Claimed = {} THEN {} ELSE {"session"},
       strays <- {}

\* What a step of the outbox does to the slot.
LEMMA SlotStep ==
  ASSUME IInv, IInv', [Ledger!Next]_Ledger!ledgerVars
  PROVE  [Slots!Next]_Slots!slotVars
<1> USE NoneAssumption DEF IInv, TypeOK, Claimed
<1>1. /\ rt # NoExec => ExecutingRequest \in Claimed
      /\ rt = NoExec <=> ExecutingRequest = NoReq
  BY DEF ExecutingRequest, RuntimeInv, ExecutionInv, ClosedOnlyAfterExit
<1>2. rt' = NoExec <=> ExecutingRequest' = NoReq
  BY DEF ExecutingRequest, RuntimeInv, ExecutionInv, ClosedOnlyAfterExit
<1>3. \A r, q \in Requests : Open(r) /\ Open(q) => r = q
  BY DEF OpenIffRunning, OpenRequests
<1>4. CASE UNCHANGED Ledger!ledgerVars
  BY <1>1, <1>2, <1>4 DEF Ledger!ledgerVars, Slots!slotVars
<1>5. ASSUME NEW r \in Requests, Ledger!Accept(r) PROVE UNCHANGED Slots!slotVars
  <2>1. Claimed' = Claimed
    BY <1>5 DEF Ledger!Accept
  <2> QED
    BY <1>1, <1>2, <1>5, <2>1 DEF Ledger!Accept, Slots!slotVars
<1>6. ASSUME NEW r \in Requests, Ledger!Claim(r) PROVE Slots!Takes("session")
  <2>1. Claimed = {} /\ Claimed' = {r}
    BY <1>3, <1>6 DEF Ledger!Claim, Open
  <2> QED
    BY <1>1, <1>2, <1>6, <2>1 DEF Ledger!Claim, Slots!Takes
<1>7. ASSUME NEW r \in Requests, Ledger!Invoke(r) PROVE Slots!StartsInTime("session")
  <2>1. r \in Claimed /\ Claimed' = Claimed
    BY <1>7 DEF Ledger!Invoke
  <2>2. rt = NoExec /\ rt' # NoExec
    BY <1>1, <1>2, <1>7 DEF Ledger!Invoke
  <2> QED
    BY <2>1, <2>2 DEF Slots!StartsInTime, Slots!Starts
<1>8. CASE Ledger!End
  <2>1. rt # NoExec /\ rt' = NoExec /\ Claimed' = Claimed
    BY <1>1, <1>2, <1>8 DEF Ledger!End
  <2>2. Slots!Ends("session")
    BY <2>1 DEF Slots!Ends
  <2> QED
    BY <2>2 DEF Slots!Next
<1>9. ASSUME NEW r \in Requests, Ledger!Close(r)
      PROVE  UNCHANGED Slots!slotVars \/ Slots!LetsGo("session")
  <2>1. ExecutingRequest' = ExecutingRequest /\ Open(r) /\ Claimed' = Claimed \ {r}
    BY <1>9 DEF Ledger!Close, Ledger!OpenStatus, Open
  <2>2. CASE r \notin Claimed
    BY <1>1, <1>2, <2>1, <2>2 DEF Slots!slotVars
  <2>3. CASE r \in Claimed
    <3>1. Claimed = {r} /\ Claimed' = {}
      BY <1>3, <2>1, <2>3 DEF Open
    <3>2. rt = NoExec /\ rt' = NoExec
      BY <1>1, <1>2, <1>9, <2>1, <3>1 DEF Ledger!Close
    <3> QED
      BY <3>1, <3>2 DEF Slots!LetsGo
  <2> QED
    BY <2>2, <2>3
<1> QED
  BY <1>4, <1>5, <1>6, <1>7, <1>8, <1>9 DEF Ledger!Next, Slots!Next

\* The scheduler uses the Runtime as the server expects: it asks for a run only
\* in a slot it has taken and in which nothing runs, and lets go of the slot
\* only when the run is over.
THEOREM RunsKeepSlots == Spec => Slots!Spec
<1>1. Init => Slots!Init
  BY NoneAssumption DEF Init, Slots!Init, Claimed
<1>2. Ledger!Spec => [][Ledger!Next]_Ledger!ledgerVars
  BY PTL DEF Ledger!Spec
<1> QED
  BY <1>1, <1>2, SlotStep, RunsImplementLedger, RunsInvariant, PTL DEF Spec, ImplementsLedger, Slots!Spec
=============================================================================
