------------------------------ MODULE RunsLive ------------------------------
(***************************************************************************)
(* What must eventually happen to a message, under the fairness that the   *)
(* manager's scheduling gives: every awaited call of a handler or of an    *)
(* execution ends, answered, refused or timed out; an unrenewed lease      *)
(* expires; the reaper runs recoverStale again and again (reaper.ts:26) and *)
(* does not always meet a failure or a Stop that holds the control lock.   *)
(* Nothing is assumed of how long an agent's run lasts, or of the users.   *)
(***************************************************************************)
EXTENDS Runs

HandlerStep ==
  \/ AdmitActivity \/ LaunchRenew \/ LaunchInsert \/ AdmissionFails \/ ResumeStart
  \/ StopQueued \/ StopTerminate \/ StopClose
  \/ OrphanLookup \/ OrphanQueued \/ OrphanRevoke \/ OrphanTerminate \/ OrphanClose
  \/ OrphanClear
  \/ RecoverTerminate \/ RecoverClose \/ RecoverClear \/ RecoverRevoke
  \/ HandlerFails

Fairness ==
  /\ \A e \in Executions : WF_vars(Setup(e)) /\ WF_vars(Ending(e))
  /\ WF_vars(HandlerStep)
  /\ WF_vars(LeaseExpires)
  /\ SF_vars(\E m \in Managers : RecoverBegin(m))
  /\ SF_vars(\E r \in Requests, e \in Executions : RecoverQueued(r, e))
  /\ SF_vars(\E r \in Requests : RecoverRunning(r))
  /\ SF_vars(RecoverTerminate)
  /\ SF_vars(RecoverClose)

FairSpec == Spec /\ Fairness

IdentifiersSpent == \A e \in Executions : pc[e] # "unused"

\* An accepted message does not stay queued: its execution claims or closes
\* it, or, when that one lost its lease or its manager died, recoverStale
\* starts another attempt, as long as the model has identifiers for one.
QueuedIsDecided ==
  \A r \in Requests : reqStatus[r] = "queued" ~> (reqStatus[r] # "queued" \/ IdentifiersSpent)

\* A running message whose execution has ended without closing it, because
\* its manager died, its lease was lost, its termination could not be
\* confirmed or its last transaction failed, is closed.
OrphanIsClosed ==
  \A r \in Requests :
    (reqStatus[r] = "running" /\ \E e \in Executions : reqRun[r] = e /\ pc[e] = "done") ~> Closed(r)
=============================================================================
