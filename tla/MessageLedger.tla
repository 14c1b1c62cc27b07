--------------------------- MODULE MessageLedger ---------------------------
(***************************************************************************)
(* What the message outbox of one conversation promises, whatever leases,  *)
(* managers, crashes and retries are underneath: a message is accepted     *)
(* once, at most one message is open at a time, the Runtime is asked to    *)
(* execute it at most once, and it is closed only when the Runtime is no   *)
(* longer executing it.                                                    *)
(*                                                                         *)
(* status     the durable receipt of each message                          *)
(* session    the conversation's durable status                            *)
(* executing  the message the Runtime is executing, or NoReq               *)
(* invoked    the messages the Runtime was ever asked to execute           *)
(***************************************************************************)
CONSTANTS Requests, NoReq

VARIABLES status, session, executing, invoked

ledgerVars == <<status, session, executing, invoked>>

ReceiptStatus == {"absent", "queued", "running", "completed", "failed"}

OpenStatus == {"queued", "running"}
ClosedStatus == {"completed", "failed"}

LedgerTypeOK ==
  /\ status \in [Requests -> ReceiptStatus]
  /\ session \in {"idle", "running", "error"}
  /\ executing \in Requests \cup {NoReq}
  /\ invoked \subseteq Requests

Init ==
  /\ status = [r \in Requests |-> "absent"]
  /\ session = "idle"
  /\ executing = NoReq
  /\ invoked = {}

\* A message is accepted while none is open.
Accept(r) ==
  /\ status[r] = "absent"
  /\ \A other \in Requests : status[other] \notin OpenStatus
  /\ status' = [status EXCEPT ![r] = "queued"]
  /\ session' = "running"
  /\ UNCHANGED <<executing, invoked>>

\* One attempt claims the right to call the Runtime.
Claim(r) ==
  /\ status[r] = "queued"
  /\ status' = [status EXCEPT ![r] = "running"]
  /\ UNCHANGED <<session, executing, invoked>>

\* The Runtime starts a claimed message, once.
Invoke(r) ==
  /\ status[r] = "running"
  /\ r \notin invoked
  /\ executing = NoReq
  /\ executing' = r
  /\ invoked' = invoked \cup {r}
  /\ UNCHANGED <<status, session>>

\* The Runtime's run ends: finished, cancelled, or killed with its container.
End ==
  /\ executing # NoReq
  /\ executing' = NoReq
  /\ UNCHANGED <<status, session, invoked>>

\* An open message that is not executing is closed, with the conversation.
Close(r) ==
  /\ status[r] \in OpenStatus
  /\ executing # r
  /\ \/ /\ status' = [status EXCEPT ![r] = "completed"]
        /\ session' = "idle"
     \/ /\ status' = [status EXCEPT ![r] = "failed"]
        /\ session' = "error"
  /\ UNCHANGED <<executing, invoked>>

Next ==
  \/ \E r \in Requests : Accept(r) \/ Claim(r) \/ Invoke(r) \/ Close(r)
  \/ End

Spec == Init /\ [][Next]_ledgerVars
=============================================================================
