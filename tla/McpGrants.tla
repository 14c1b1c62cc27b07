------------------------------ MODULE McpGrants ------------------------------
(***************************************************************************)
(* The MCP gateway for one user, one workspace and one connection to an    *)
(* MCP server (store.ts and server.ts of mcp-gateway).  Every run of the   *)
(* workspace gets a grant, a row that authorizes its tool calls until it   *)
(* expires, or until the connection is disabled, removed or unbound.  The  *)
(* gateway keeps one upstream client per grant.  A run stands for its      *)
(* grant.  Transactions that take the user's row lock are one action;      *)
(* authorize takes no lock, so its answer may be old when it is used.      *)
(***************************************************************************)
EXTENDS FiniteSets, Naturals

CONSTANTS
  Runs,          \* the runs of the workspace
  Calls,         \* requests with a tool call that the gateway serves at once
  Tests,         \* requests that test the connection
  MaxPerClient   \* calls of one client at once (4)

ASSUME LimitAssumption == MaxPerClient \in Nat

VARIABLES
  connection,  \* "on", "off" (disabled) or "gone"
  tested,      \* it lists no tools, or those of its "current" or "old" settings
  bound,       \* the workspace is bound to the connection
  workspace,   \* "open", "trashed" or "purged"
  run,         \* what the manager has done: "new", "active" or "over"
  grants,      \* the grant of each run
  clients,     \* the runs with an upstream client
  closing,     \* deleted grants whose client closeGrants has yet to close
  silent,      \* grants deleted unknown to the gateway (history)
  calls,       \* where each call is, its grant, and whether its client is open
  sweep,       \* the periodic expire(), and the clients it saw when it began
  tests,       \* where each test is, and which settings it tests
  testing      \* the set `tests' of the gateway holds the user

settings == <<connection, tested, bound>>
manager == <<workspace, run>>
rows == <<grants, silent>>
tester == <<tests, testing>>
vars == <<settings, manager, rows, clients, closing, calls, sweep, tester>>

Usable == {"fresh", "aging"}
Rows == Usable \cup {"expired"}

\* authorize: the grant has not expired and what it rests on is still there.
Authorized(r) ==
  grants[r] \in Usable /\ connection = "on" /\ bound /\ workspace = "open"

Idle == [at |-> "idle"]
CallsAt(places) == [at : places, grant : Runs, held : BOOLEAN]
Places == {"granted", "registered", "refused", "cleared", "upstream", "answered", "returned"}

TypeOK ==
  /\ connection \in {"on", "off", "gone"}
  /\ tested \in {"none", "current", "old"}
  /\ bound \in BOOLEAN
  /\ workspace \in {"open", "trashed", "purged"}
  /\ run \in [Runs -> {"new", "active", "over"}]
  /\ grants \in [Runs -> Rows \cup {"none", "deleted"}]
  /\ clients \subseteq Runs /\ closing \subseteq Runs /\ silent \subseteq Runs
  /\ calls \in [Calls -> {Idle} \cup CallsAt(Places)]
  /\ sweep \in {Idle} \cup [at : {"delete"}, cached : SUBSET Runs]
                      \cup [at : {"select"}, cached : (SUBSET Runs) \ {{}}]
  /\ tests \in [Tests -> {"idle", "loading", "current", "old"}]
  /\ testing \in BOOLEAN

Init ==
  /\ connection = "on" /\ tested = "none"
  /\ bound = FALSE
  /\ workspace = "open"
  /\ run = [r \in Runs |-> "new"]
  /\ grants = [r \in Runs |-> "none"]
  /\ clients = {} /\ closing = {} /\ silent = {}
  /\ calls = [k \in Calls |-> Idle]
  /\ sweep = Idle
  /\ tests = [t \in Tests |-> "idle"]
  /\ testing = FALSE

\* A client that is closed is closed for every call that holds it.
CallsWithout(rs) ==
  [k \in Calls |->
     IF calls[k] # Idle /\ calls[k].grant \in rs
     THEN [calls[k] EXCEPT !.held = FALSE] ELSE calls[k]]

Existing == {r \in Runs : grants[r] \in Rows}

Gone(rs) == grants' = [r \in Runs |-> IF r \in rs THEN "deleted" ELSE grants[r]]

\* Rows deleted by a transaction whose answer names them, or is lost.
DeleteGrants(rs) ==
  /\ Gone(rs)
  /\ \/ closing' = closing \cup rs /\ UNCHANGED silent
     \/ silent' = silent \cup rs /\ UNCHANGED closing
-----------------------------------------------------------------------------
(* The runs of the manager, as far as grants depend on them.               *)

RunBegins(r) ==
  /\ run[r] = "new" /\ workspace = "open"
  /\ run' = [run EXCEPT ![r] = "active"]
  /\ UNCHANGED <<settings, workspace, rows, clients, closing, calls, sweep, tester>>

RunEnds(r) ==
  /\ run[r] = "active"
  /\ run' = [run EXCEPT ![r] = "over"]
  /\ UNCHANGED <<settings, workspace, rows, clients, closing, calls, sweep, tester>>

\* issue: the request may be late, and reach the gateway after the run.
Issue(r) ==
  /\ run[r] # "new" /\ grants[r] = "none"
  /\ workspace = "open" /\ bound /\ connection = "on"
  /\ grants' = [grants EXCEPT ![r] = "fresh"]
  /\ UNCHANGED <<settings, manager, silent, clients, closing, calls, sweep, tester>>

Renew(r) ==
  /\ run[r] = "active"
  /\ grants[r] \in Usable
  /\ grants' = [grants EXCEPT ![r] = "fresh"]
  /\ UNCHANGED <<settings, manager, silent, clients, closing, calls, sweep, tester>>

\* revoke
Revoke(r) ==
  /\ run[r] = "over" /\ grants[r] \in Rows
  /\ DeleteGrants({r})
  /\ UNCHANGED <<settings, manager, clients, calls, sweep, tester>>

\* Half of the 120 s that a grant lasts.
Age(r) ==
  /\ grants[r] \in Usable
  /\ grants' = [grants EXCEPT ![r] = IF grants[r] = "fresh" THEN "aging" ELSE "expired"]
  /\ UNCHANGED <<settings, manager, silent, clients, closing, calls, sweep, tester>>

\* A workspace is trashed only when no conversation of it runs.
Trash ==
  /\ workspace = "open" /\ \A r \in Runs : run[r] # "active"
  /\ workspace' = "trashed"
  /\ UNCHANGED <<settings, run, rows, clients, closing, calls, sweep, tester>>

Restore ==
  /\ workspace = "trashed"
  /\ workspace' = "open"
  /\ UNCHANGED <<settings, run, rows, clients, closing, calls, sweep, tester>>

\* The rows that refer to the workspace go with it.
Purge ==
  /\ workspace = "trashed"
  /\ workspace' = "purged" /\ bound' = FALSE
  /\ Gone(Existing)
  /\ silent' = silent \cup Existing
  /\ UNCHANGED <<connection, tested, run, clients, closing, calls, sweep, tester>>
-----------------------------------------------------------------------------
(* The user's settings.                                                    *)

\* update: a new revision, which holds for the next run; disabling revokes.
Update(state) ==
  /\ connection # "gone"
  /\ connection' = state
  /\ tested' = "none"
  /\ tests' = [t \in Tests |-> IF tests[t] = "current" THEN "old" ELSE tests[t]]
  /\ DeleteGrants(IF state = "off" THEN Existing ELSE {})
  /\ UNCHANGED <<bound, manager, clients, calls, sweep, testing>>

Remove ==
  /\ connection # "gone"
  /\ connection' = "gone" /\ bound' = FALSE
  /\ DeleteGrants(Existing)
  /\ UNCHANGED <<tested, manager, clients, calls, sweep, tester>>

\* Mutant: grants are left to their expiry.
BindKeepsGrants(on) ==
  /\ workspace = "open" /\ (on => connection # "gone")
  /\ bound' = on
  /\ UNCHANGED <<connection, tested, manager, rows, clients, closing, calls, sweep, tester>>

\* bind: a grant for a connection that is no longer bound goes.
Bind(on) ==
  /\ workspace = "open" /\ (on => connection # "gone")
  /\ bound' = on
  /\ DeleteGrants(IF on THEN {} ELSE Existing)
  /\ UNCHANGED <<connection, tested, manager, clients, calls, sweep, tester>>

\* closeGrants, which every revocation calls when its transaction is over.
CloseGrant(r) ==
  /\ r \in closing
  /\ closing' = closing \ {r}
  /\ clients' = clients \ {r}
  /\ calls' = CallsWithout({r})
  /\ UNCHANGED <<settings, manager, rows, sweep, tester>>
-----------------------------------------------------------------------------
(* A tool call.                                                            *)

CallAt(k, place) == calls[k].at = place
Goto(k, place) == calls' = [calls EXCEPT ![k].at = place]
Fail(k) == calls' = [calls EXCEPT ![k] = Idle]
MyGrant(k) == calls[k].grant

\* The first authorizations, of which the last is the one that counts.
CallAuthorized(k, r) ==
  /\ CallAt(k, "idle")
  /\ Authorized(r)
  /\ calls' = [calls EXCEPT ![k] = [at |-> "granted", grant |-> r, held |-> FALSE]]
  /\ UNCHANGED <<settings, manager, rows, clients, closing, sweep, tester>>

\* client: the client of the grant, or a new one; the 256 that the gateway keeps
\* may all be those of other users.
GetClient(k) ==
  /\ CallAt(k, "granted")
  /\ \/ /\ clients' = clients \cup {MyGrant(k)}
        /\ calls' = [calls EXCEPT ![k].at = "registered", ![k].held = TRUE]
     \/ MyGrant(k) \notin clients /\ Fail(k) /\ UNCHANGED clients
  /\ UNCHANGED <<settings, manager, rows, closing, sweep, tester>>

\* Mutant: a call that has been authorized is not looked at again.
RecheckNothing(k) ==
  /\ CallAt(k, "registered")
  /\ Goto(k, "cleared")
  /\ UNCHANGED <<settings, manager, rows, clients, closing, sweep, tester>>

\* checkedClient: the second look, now that a revocation would find the client.
Recheck(k) ==
  /\ CallAt(k, "registered")
  /\ \/ Authorized(MyGrant(k)) /\ Goto(k, "cleared")
     \/ Goto(k, "refused")   \* it is not, or the query fails
  /\ UNCHANGED <<settings, manager, rows, clients, closing, sweep, tester>>

Refuse(k) ==
  /\ CallAt(k, "refused")
  /\ clients' = clients \ {MyGrant(k)}
  /\ calls' = [CallsWithout({MyGrant(k)}) EXCEPT ![k] = Idle]
  /\ UNCHANGED <<settings, manager, rows, closing, sweep, tester>>

InUse(r) == {k \in Calls : CallAt(k, "upstream") /\ MyGrant(k) = r /\ calls[k].held}

\* operation: an open client with room sends the request.
Send(k) ==
  /\ CallAt(k, "cleared")
  /\ \/ calls[k].held /\ Cardinality(InUse(MyGrant(k))) < MaxPerClient /\ Goto(k, "upstream")
     \/ ~(calls[k].held /\ Cardinality(InUse(MyGrant(k))) < MaxPerClient) /\ Fail(k)
  /\ UNCHANGED <<settings, manager, rows, clients, closing, sweep, tester>>

\* The server answers; a closed client, an error or a timeout ends the call.
UpstreamEnds(k) ==
  /\ CallAt(k, "upstream")
  /\ \/ calls[k].held /\ Goto(k, "answered")
     \/ Fail(k)
  /\ UNCHANGED <<settings, manager, rows, clients, closing, sweep, tester>>

\* Mutant: the answer is returned as it comes.
ConfirmNothing(k) ==
  /\ CallAt(k, "answered")
  /\ Goto(k, "returned")
  /\ UNCHANGED <<settings, manager, rows, clients, closing, sweep, tester>>

\* The third look, before the model sees the result.
Confirm(k) ==
  /\ CallAt(k, "answered")
  /\ \/ Authorized(MyGrant(k)) /\ Goto(k, "returned")
     \/ Fail(k)
  /\ UNCHANGED <<settings, manager, rows, clients, closing, sweep, tester>>

CallEnds(k) ==
  /\ CallAt(k, "returned")
  /\ Fail(k)
  /\ UNCHANGED <<settings, manager, rows, clients, closing, sweep, tester>>
-----------------------------------------------------------------------------
(* expire, every 30 s: expired rows go; then the clients whose row is gone.*)

SweepBegins ==
  /\ sweep = Idle
  /\ sweep' = [at |-> "delete", cached |-> clients]
  /\ UNCHANGED <<settings, manager, rows, clients, closing, calls, tester>>

Expired == {r \in Runs : grants[r] = "expired"}

\* Mutant: the second query is made for no clients, too.
SelectAlways == [at |-> "select", cached |-> sweep.cached]

AfterDeletion ==
  IF sweep.cached = {} THEN Idle ELSE [at |-> "select", cached |-> sweep.cached]

\* Mutant: the timer only looks for clients without a row.
SweepKeepsRows ==
  /\ sweep.at = "delete"
  /\ sweep' = AfterDeletion
  /\ UNCHANGED <<settings, manager, rows, clients, closing, calls, tester>>

SweepDeletes ==
  /\ sweep.at = "delete"
  /\ Gone(Expired)
  /\ closing' = closing \cup Expired
  /\ sweep' = AfterDeletion
  /\ UNCHANGED <<settings, manager, silent, clients, calls, tester>>

\* The rows are deleted, and the query fails.
SweepUnanswered ==
  /\ sweep.at = "delete"
  /\ Gone(Expired)
  /\ silent' = silent \cup Expired
  /\ sweep' = Idle
  /\ UNCHANGED <<settings, manager, clients, closing, calls, tester>>

SweepSelects ==
  /\ sweep.at = "select"
  /\ closing' = closing \cup (sweep.cached \ Existing)
  /\ sweep' = Idle
  /\ UNCHANGED <<settings, manager, rows, clients, calls, tester>>

SweepFails ==
  /\ sweep # Idle
  /\ sweep' = Idle
  /\ UNCHANGED <<settings, manager, rows, clients, closing, calls, tester>>
-----------------------------------------------------------------------------
(* A test of the connection, with its settings as they were when it began. *)

TestBegins(t) ==
  /\ tests[t] = "idle"
  /\ ~testing
  /\ tests' = [tests EXCEPT ![t] = "loading"]
  /\ UNCHANGED <<settings, manager, rows, clients, closing, calls, sweep, testing>>

TestLoads(t) ==
  /\ tests[t] = "loading"
  /\ \/ connection # "gone" /\ tests' = [tests EXCEPT ![t] = "current"] /\ testing' = TRUE
     \/ connection = "gone" /\ tests' = [tests EXCEPT ![t] = "idle"] /\ UNCHANGED testing
  /\ UNCHANGED <<settings, manager, rows, clients, closing, calls, sweep>>

Probing(t) == tests[t] \in {"current", "old"}

\* Mutant: the revision is not compared.
AnyRevision(t) == connection # "gone"

SameRevision(t) == connection # "gone" /\ tests[t] = "current"

\* testResult, with the tools of the server or an error
TestEnds(t) ==
  /\ Probing(t)
  /\ tested' = IF SameRevision(t) THEN tests[t] ELSE tested
  /\ tests' = [tests EXCEPT ![t] = "idle"]
  /\ testing' = FALSE
  /\ UNCHANGED <<connection, bound, manager, rows, clients, closing, calls, sweep>>

\* The gateway restarts.
Crash ==
  /\ clients' = {} /\ closing' = {}
  /\ calls' = [k \in Calls |-> Idle]
  /\ sweep' = Idle
  /\ tests' = [t \in Tests |-> "idle"] /\ testing' = FALSE
  /\ UNCHANGED <<settings, manager, rows>>
-----------------------------------------------------------------------------
CallStep(k) ==
  \/ GetClient(k) \/ Recheck(k) \/ Refuse(k) \/ Send(k)
  \/ UpstreamEnds(k) \/ Confirm(k) \/ CallEnds(k)

Next ==
  \/ \E r \in Runs : RunBegins(r) \/ RunEnds(r) \/ Issue(r) \/ Renew(r) \/ Revoke(r) \/ Age(r)
  \/ Trash \/ Restore \/ Purge
  \/ \E state \in {"on", "off"} : Update(state)
  \/ Remove
  \/ \E on \in BOOLEAN : Bind(on)
  \/ \E r \in Runs : CloseGrant(r)
  \/ \E k \in Calls : CallStep(k) \/ \E r \in Runs : CallAuthorized(k, r)
  \/ SweepBegins \/ SweepDeletes \/ SweepUnanswered \/ SweepSelects \/ SweepFails
  \/ \E t \in Tests : TestBegins(t) \/ TestLoads(t) \/ TestEnds(t)
  \/ Crash

\* Time passes, no call hangs, and the timer's queries do not fail for ever.
Fairness ==
  /\ \A r \in Runs : WF_vars(Age(r)) /\ WF_vars(CloseGrant(r))
  /\ \A k \in Calls : WF_vars(CallStep(k))
  /\ WF_vars(SweepBegins)
  /\ SF_vars(SweepDeletes) /\ SF_vars(SweepSelects)

Spec == Init /\ [][Next]_vars
FairSpec == Spec /\ Fairness
-----------------------------------------------------------------------------
\* README.md:80: to disable, remove or unbind a connection revokes the grants of
\* running conversations, whatever else the user and the manager do meanwhile.
GrantsAreBacked ==
  \A r \in Runs : grants[r] \in Rows => connection = "on" /\ bound

\* Once a revocation has closed the client of its grants, no request of the run is sent.
\* The gateway does not know of grants that were deleted silently.
NoRequestAfterRevocation ==
  [][\A k \in Calls :
       ~CallAt(k, "upstream") /\ CallAt(k, "upstream")' /\ grants[MyGrant(k)] = "deleted"
         => MyGrant(k) \in closing \cup silent]_vars

\* server.ts:98: what the server answers to a call whose grant is gone, or whose
\* workspace was trashed, does not reach the model.
NoLateResult ==
  [][\A k \in Calls :
       ~CallAt(k, "returned") /\ CallAt(k, "returned")'
         => /\ grants[MyGrant(k)] # "deleted"
            /\ connection = "on" /\ workspace = "open"]_vars

\* The tools that are listed are those that were found with the current settings.
TestIsOfCurrentSettings ==
  tested # "old"

\* When a run is over its grant ends, and so does its client, although the
\* revocation was lost or came before the grant was issued.
GrantsEnd ==
  \A r \in Runs : <>(run[r] = "over") => <>[](grants[r] \notin Rows /\ r \notin clients)
=============================================================================
