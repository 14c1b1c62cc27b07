---------------------------- MODULE RuntimeServer ----------------------------
(***************************************************************************)
(* The server in a user's container and its DSH adapter (server.ts and     *)
(* DshRuntime), for the sessions of one workspace, with the manager as its *)
(* client.  A request or callback runs without interruption from one await *)
(* to the next.  Every run has a subprocess of its own, which has the      *)
(* tokens of its tool grants in its environment, and may have an overlay,  *)
(* a directory with the configuration of these tools.  close() of the SDK  *)
(* and the memoized cleanup() settle for all their callers together, so    *)
(* that concurrent calls of closeHarness advance in one step.  A handle,   *)
(* the SessionState of the adapter, is only deleted while nothing runs on  *)
(* it.                                                                     *)
(***************************************************************************)
EXTENDS FiniteSets, Naturals

CONSTANTS
  Sessions,      \* the sessions of the workspace
  MaxSessions,   \* the sessions the server and the adapter keep (128)
  MaxRuns        \* run requests: a bound for TLC

ASSUME BoundAssumption == MaxSessions \in Nat \ {0} /\ MaxRuns \in Nat

VARIABLES
  client,     \* where the manager is with each session
  request,    \* the POST /run on its way: "none", "open", or "late" (given up)
  routes,     \* sessionWorkspaces: the sessions the server routes
  handles,    \* DshRuntime.sessions
  active,     \* the server's set `active'
  operation,  \* the server's operation on the session's stream
  peer,       \* the connection of the stream
  execution,  \* state.active: "none" when it is unset
  cancelled,  \* state.cancelled
  harness,    \* state.harness; "escaped" when a close() of it has failed
  overlay,    \* state.mcpOverlay, and how far cleanup() is ("stuck": it has failed)
  cancels,    \* where each call of cancel is, by session and caller
  victim,     \* the session that is evicted for the one being prepared
  deleting,   \* deletingWorkspaces holds the workspace
  strays,     \* sessions with a run the manager gave up before it began (history)
  runs        \* number of run requests sent

server == <<routes, handles, active, operation, peer>>
state == <<execution, cancelled, harness, overlay, cancels>>
vars == <<client, request, server, state, victim, deleting, strays, runs>>

\* The places cancel is called from: POST cancel, the close event of a
\* response, the catch of an operation, the end of run(), destroySession.
Callers == {"manager", "hangup", "catch", "generator", "destroy"}
Stages == {"idle", "close", "clean", "join", "ok", "failed"}

TypeOK ==
  /\ client \in [Sessions -> {"idle", "evicting", "creating", "prepared",
                              "sent", "streaming", "cancelling"}]
  /\ request \in [Sessions -> {"none", "open", "late"}]
  /\ routes \subseteq Sessions /\ handles \subseteq Sessions
  /\ active = {s \in Sessions : operation[s] # "none"}
  /\ operation \in [Sessions -> {"none", "reading", "wrote", "leaving", "catch"}]
  /\ peer \in [Sessions -> {"none", "open", "gone", "closed"}]
  /\ execution \in [Sessions -> {"none", "prepare", "turn", "close", "clean", "ended", "failed"}]
  /\ cancelled \in [Sessions -> BOOLEAN]
  /\ harness \in [Sessions -> {"none", "live", "escaped"}]
  /\ overlay \in [Sessions -> {"none", "kept", "removing", "stuck"}]
  /\ cancels \in [Sessions -> [Callers -> Stages]]
  /\ victim \in [Sessions -> Sessions]
  /\ deleting \in BOOLEAN
  /\ strays \subseteq Sessions /\ runs \in 0..MaxRuns

Init ==
  /\ client = [s \in Sessions |-> "idle"] /\ request = [s \in Sessions |-> "none"]
  /\ routes = {} /\ handles = {} /\ active = {}
  /\ operation = [s \in Sessions |-> "none"] /\ peer = [s \in Sessions |-> "none"]
  /\ execution = [s \in Sessions |-> "none"] /\ cancelled = [s \in Sessions |-> FALSE]
  /\ harness = [s \in Sessions |-> "none"] /\ overlay = [s \in Sessions |-> "none"]
  /\ cancels = [s \in Sessions |-> [c \in Callers |-> "idle"]]
  /\ victim = [s \in Sessions |-> s] /\ deleting = FALSE
  /\ strays = {} /\ runs = 0

-----------------------------------------------------------------------------
(* closeHarness and cancel *)

\* Where cancel goes after closeHarness: it awaits state.active.
Join(e) ==
  CASE e \in {"none", "ended"} -> "ok"
    [] e = "failed" -> "failed"
    [] OTHER -> "join"

\* The part of closeHarness after close(): the overlay is removed, once.
Clean(o, then) ==
  CASE o \in {"kept", "removing"} -> "clean"
    [] o = "stuck" -> "failed"
    [] o = "none" -> then

CloseHarness(s, then) ==
  IF harness[s] # "none" THEN "close" ELSE Clean(overlay[s], then)

\* The execution is at e and the calls of cancel are at stages: those that
\* await an execution that has ended go on.  Nobody awaits the hang-up's.
Settle(s, e, stages) ==
  /\ execution' = [execution EXCEPT ![s] = e]
  /\ cancels' = [cancels EXCEPT ![s] = [c \in Callers |->
       LET stage == IF stages[c] = "join" THEN Join(e) ELSE stages[c]
       IN  IF c = "hangup" /\ stage \in {"ok", "failed"} THEN "idle" ELSE stage]]

\* Whoever comes to it has started the removal of the overlay.
Removing(s, o) ==
  overlay' = [overlay EXCEPT ![s] =
    IF o = "kept" /\ (execution'[s] = "clean" \/ \E c \in Callers : cancels'[s][c] = "clean")
    THEN "removing" ELSE o]

\* All that wait for close() or cleanup() go on together.
Advance(s, from, next) ==
  Settle(s, IF execution[s] # from THEN execution[s] ELSE IF next = "join" THEN "ended" ELSE next,
            [c \in Callers |-> IF cancels[s][c] = from THEN next ELSE cancels[s][c]])

\* A call of cancel when state.active is e: it returns at once if it is unset.
Called(s, e) ==
  IF s \notin handles \/ e = "none" THEN "ok"
  ELSE LET stage == CloseHarness(s, "join")
       IN  IF stage = "join" THEN Join(e) ELSE stage

CancelFrom(s, c, e) ==
  /\ cancelled' = [cancelled EXCEPT ![s] = @ \/ (s \in handles /\ e # "none")]
  /\ Settle(s, e, [cancels[s] EXCEPT ![c] = Called(s, e)])
  /\ Removing(s, overlay[s])

\* destroySession deletes the handle in the same step if nothing is left of
\* its runs.  One that has to wait finds a failed execution and is rejected.
Destroy(s) ==
  IF Called(s, execution[s]) = "ok"
  THEN /\ handles' = handles \ {s}
       /\ execution' = [execution EXCEPT ![s] = "none"]
       /\ UNCHANGED <<cancelled, harness, overlay, cancels>>
  ELSE /\ CancelFrom(s, "destroy", execution[s])
       /\ UNCHANGED <<handles, harness>>

Waiting(s, stage) == execution[s] = stage \/ \E c \in Callers : cancels[s][c] = stage

\* close(): the subprocess has exited.
Exits(s) ==
  /\ Waiting(s, "close")
  /\ harness' = [harness EXCEPT ![s] = "none"]
  /\ Advance(s, "close", Clean(overlay[s], "join"))
  /\ Removing(s, overlay[s])
  /\ UNCHANGED <<client, request, server, cancelled, victim, deleting, strays, runs>>

\* close() is rejected: the exit could not be proved.
CloseFails(s) ==
  /\ Waiting(s, "close")
  /\ harness' = [harness EXCEPT ![s] = "escaped"]
  /\ Advance(s, "close", "failed")
  /\ UNCHANGED <<client, request, server, cancelled, overlay, victim, deleting, strays, runs>>

\* cleanup() removes the directory, or is rejected for good.
Cleaned(s) ==
  /\ overlay[s] = "removing"
  /\ overlay' = [overlay EXCEPT ![s] = "none"]
  /\ Advance(s, "clean", "join")
  /\ UNCHANGED <<client, request, server, cancelled, harness, victim, deleting, strays, runs>>

CleanFails(s) ==
  /\ overlay[s] = "removing"
  /\ overlay' = [overlay EXCEPT ![s] = "stuck"]
  /\ Advance(s, "clean", "failed")
  /\ UNCHANGED <<client, request, server, cancelled, harness, victim, deleting, strays, runs>>

-----------------------------------------------------------------------------
(* The execution of a run *)

\* The execution goes to its finally block: closeHarness, then its end.
Finally(s, o) ==
  LET e == IF harness[s] # "none" THEN "close" ELSE Clean(o, "ended")
  IN  Settle(s, e, cancels[s]) /\ Removing(s, o)

\* A run with a snapshot of tool grants has an overlay, or none if it grants
\* no tool; one without a snapshot finds what an earlier run has left.
Overlays(s) == {"none", "kept", overlay[s]}

\* The subprocess is started with the overlay, and its turn begins.
StartHarness(s, o) ==
  /\ overlay' = [overlay EXCEPT ![s] = o]
  /\ harness' = [harness EXCEPT ![s] = "live"]
  /\ execution' = [execution EXCEPT ![s] = "turn"]
  /\ UNCHANGED cancels

\* The overlay is written; a run that was cancelled meanwhile starts nothing.
\* Assumed: an overlay of an earlier run that a late call of closeHarness is
\* still removing is gone by then; else that call would forget the new one.
Spawn(s) ==
  /\ execution[s] = "prepare" /\ overlay[s] # "removing"
  /\ \E o \in Overlays(s) :
       IF cancelled[s] THEN Finally(s, o) /\ UNCHANGED harness ELSE StartHarness(s, o)
  /\ UNCHANGED <<client, request, server, cancelled, victim, deleting, strays, runs>>

\* The overlay cannot be written, or there is no API key.
SpawnFails(s) ==
  /\ execution[s] = "prepare"
  /\ Finally(s, overlay[s])
  /\ UNCHANGED <<client, request, server, cancelled, harness, victim, deleting, strays, runs>>

\* harness.run settles: the turn is over, or the subprocess has gone.
TurnEnds(s) ==
  /\ execution[s] = "turn"
  /\ Finally(s, overlay[s])
  /\ UNCHANGED <<client, request, server, cancelled, harness, victim, deleting, strays, runs>>

-----------------------------------------------------------------------------
(* The operation of the server *)

ReleasedAnyway(s) == "none"
\* The end of run(): the session is free again unless its harness remains.
Released(s) == IF harness[s] = "none" THEN "none" ELSE execution[s]

\* POST run.  The manager takes any refusal for a failure of the run.
Refuses(s) ==
  /\ request[s] # "none"
  /\ s \notin routes \/ s \in active \/ deleting
  /\ client' = [client EXCEPT ![s] = IF request[s] = "open" THEN "cancelling" ELSE @]
  /\ request' = [request EXCEPT ![s] = "none"]
  /\ UNCHANGED <<server, state, victim, deleting, strays, runs>>

\* run() finds a handle that is free, and begins.
Begins(s) ==
  /\ s \in handles /\ execution[s] = "none"
  /\ operation' = [operation EXCEPT ![s] = "reading"]
  /\ execution' = [execution EXCEPT ![s] = "prepare"]
  /\ cancelled' = [cancelled EXCEPT ![s] = FALSE]
  /\ UNCHANGED <<cancels, overlay>>

\* It throws if the handle is gone or not free.
BeginsNot(s) ==
  /\ s \notin handles \/ execution[s] # "none"
  /\ operation' = [operation EXCEPT ![s] = "catch"]
  /\ CancelFrom(s, "catch", execution[s])

Accepts(s) ==
  /\ request[s] # "none"
  /\ s \in routes \ active /\ ~deleting
  /\ request' = [request EXCEPT ![s] = "none"]
  /\ active' = active \cup {s}
  /\ peer' = [peer EXCEPT ![s] = IF request[s] = "open" THEN "open" ELSE "gone"]
  /\ strays' = IF request[s] = "open" THEN strays ELSE strays \cup {s}
  /\ client' = [client EXCEPT ![s] = IF request[s] = "open" THEN "streaming" ELSE @]
  /\ Begins(s) \/ BeginsNot(s)
  /\ UNCHANGED <<routes, handles, harness, victim, deleting, runs>>

HangsUpUnheard(s) ==
  /\ peer[s] = "gone" /\ operation[s] # "none"
  /\ peer' = [peer EXCEPT ![s] = "closed"]
  /\ UNCHANGED <<client, request, routes, handles, active, operation, state,
                 victim, deleting, strays, runs>>
\* The close event of the response.  Its call stands for an earlier one too.
HangsUp(s) ==
  /\ peer[s] = "gone" /\ operation[s] # "none"
  /\ peer' = [peer EXCEPT ![s] = "closed"]
  /\ CancelFrom(s, "hangup", execution[s])
  /\ UNCHANGED <<client, request, routes, handles, active, operation, harness,
                 victim, deleting, strays, runs>>

\* The terminal status is written; the manager reads no further.
Delivers(s) ==
  /\ operation[s] = "reading" /\ execution[s] = "ended" /\ peer[s] # "closed"
  /\ operation' = [operation EXCEPT ![s] = "wrote"]
  /\ client' = [client EXCEPT ![s] = IF peer[s] = "open" THEN "idle" ELSE @]
  /\ peer' = [peer EXCEPT ![s] = "gone"]
  /\ UNCHANGED <<request, routes, handles, active, state, victim, deleting, strays, runs>>

\* An event is not written because the response is destroyed: run() is left.
Leaves(s) ==
  /\ operation[s] = "reading" /\ peer[s] = "closed"
  /\ execution[s] \notin {"ended", "failed"}
  /\ operation' = [operation EXCEPT ![s] = "leaving"]
  /\ CancelFrom(s, "generator", execution[s])
  /\ UNCHANGED <<client, request, routes, handles, active, peer, harness,
                 victim, deleting, strays, runs>>

\* run() is at its end and the loop over it has finished.
LoopEnds(s) ==
  /\ \/ operation[s] = "wrote"
     \/ operation[s] = "reading" /\ execution[s] = "ended" /\ peer[s] = "closed"
     \/ operation[s] = "leaving" /\ cancels[s]["generator"] = "ok"
  /\ Settle(s, Released(s), [cancels[s] EXCEPT !["generator"] = "idle"])
  /\ operation' = [operation EXCEPT ![s] = "none"]
  /\ peer' = [peer EXCEPT ![s] = "none"]
  /\ active' = active \ {s}
  /\ UNCHANGED <<client, request, routes, handles, cancelled, harness, overlay,
                 victim, deleting, strays, runs>>

\* run() throws: the execution has failed, or the cancel of its finally block
\* has, which then does not come to release the session.
LoopThrows(s) ==
  LET left == operation[s] = "leaving"
      e == IF left THEN execution[s] ELSE Released(s)
  IN /\ \/ operation[s] = "reading" /\ execution[s] = "failed"
        \/ left /\ cancels[s]["generator"] = "failed"
     /\ operation' = [operation EXCEPT ![s] = "catch"]
     /\ CancelFrom(s, "catch", e)
     /\ UNCHANGED <<client, request, routes, handles, active, peer, harness,
                    victim, deleting, strays, runs>>

CatchEndsAnyway(s) ==
  /\ operation[s] = "catch" /\ cancels[s]["catch"] \in {"ok", "failed"}
  /\ client' = [client EXCEPT ![s] = IF peer[s] = "open" THEN "idle" ELSE @]
  /\ cancels' = [cancels EXCEPT ![s]["catch"] = "idle", ![s]["generator"] = "idle"]
  /\ operation' = [operation EXCEPT ![s] = "none"]
  /\ peer' = [peer EXCEPT ![s] = "none"]
  /\ active' = active \ {s}
  /\ UNCHANGED <<request, routes, handles, execution, cancelled, harness, overlay,
                 victim, deleting, strays, runs>>
CatchEndsActive(s) ==
  /\ operation[s] = "catch" /\ cancels[s]["catch"] \in {"ok", "failed"}
  /\ client' = [client EXCEPT ![s] = IF peer[s] = "open" THEN "cancelling" ELSE @]
  /\ cancels' = [cancels EXCEPT ![s]["catch"] = "idle", ![s]["generator"] = "idle"]
  /\ operation' = [operation EXCEPT ![s] = "none"]
  /\ peer' = [peer EXCEPT ![s] = "none"]
  /\ UNCHANGED <<request, routes, handles, active, execution, cancelled, harness, overlay,
                 victim, deleting, strays, runs>>
\* The catch block reports an error if its cancel succeeds; otherwise the
\* operation is rejected, with whoever awaits it, and the connection is cut.
CatchEnds(s) ==
  LET result == cancels[s]["catch"]
      waiter == IF result = "failed" /\ cancels[s]["manager"] = "ok" THEN "failed"
                ELSE cancels[s]["manager"]
  IN /\ operation[s] = "catch" /\ result \in {"ok", "failed"}
     /\ client' = [client EXCEPT ![s] =
                     IF peer[s] # "open" THEN @ ELSE IF result = "ok" THEN "idle" ELSE "cancelling"]
     /\ cancels' = [cancels EXCEPT ![s]["catch"] = "idle", ![s]["manager"] = waiter,
                                   ![s]["generator"] = "idle"]
     /\ operation' = [operation EXCEPT ![s] = "none"]
     /\ peer' = [peer EXCEPT ![s] = "none"]
     /\ active' = active \ {s}
     /\ UNCHANGED <<request, routes, handles, execution, cancelled, harness, overlay,
                    victim, deleting, strays, runs>>

-----------------------------------------------------------------------------
(* The manager's requests for a session *)

DisposableAny == routes
Disposable == routes \ active

\* POST session.  A full server forgets the route of a session that is not
\* active, then destroys its handle.
Prepares(s) ==
  /\ client[s] = "idle" /\ ~deleting /\ runs < MaxRuns
  /\ IF s \in routes \/ Cardinality(routes) < MaxSessions
     THEN /\ client' = [client EXCEPT ![s] = "creating"]
          /\ UNCHANGED <<routes, handles, victim, state>>
     ELSE \E d \in Disposable :
            /\ cancels[d]["destroy"] = "idle"
            /\ routes' = routes \ {d}
            /\ Destroy(d)
            /\ IF Called(d, execution[d]) # "ok"
               THEN client' = [client EXCEPT ![s] = "evicting"] /\ victim' = [victim EXCEPT ![s] = d]
               ELSE client' = [client EXCEPT ![s] = "creating"] /\ UNCHANGED victim
  /\ UNCHANGED <<request, active, operation, peer, deleting, strays, runs>>

EvictionFails(s) ==
  LET d == victim[s]
  IN /\ client[s] = "evicting" /\ cancels[d]["destroy"] = "failed"
     /\ client' = [client EXCEPT ![s] = "idle"]
     /\ cancels' = [cancels EXCEPT ![d]["destroy"] = "idle"]
     /\ victim' = [victim EXCEPT ![s] = s]
     /\ UNCHANGED <<request, server, execution, cancelled, harness, overlay, deleting, strays, runs>>

\* createSession: a full adapter drops a handle on which nothing runs.
Created(s) ==
  /\ client[s] = "creating"
  /\ IF s \in handles \/ Cardinality(handles) < MaxSessions
     THEN handles' = handles \cup {s}
     ELSE \E d \in handles :
            /\ execution[d] = "none" /\ harness[d] = "none"
            /\ handles' = (handles \ {d}) \cup {s}
  /\ routes' = routes \cup {s}
  /\ client' = [client EXCEPT ![s] = "prepared"]
  /\ UNCHANGED <<request, active, operation, peer, state, victim, deleting, strays, runs>>

CreateFails(s) ==
  /\ client[s] = "creating"
  /\ client' = [client EXCEPT ![s] = "idle"]
  /\ UNCHANGED <<request, server, state, victim, deleting, strays, runs>>

Sends(s) ==
  /\ client[s] = "prepared" /\ request[s] = "none" /\ runs < MaxRuns
  /\ client' = [client EXCEPT ![s] = "sent"]
  /\ request' = [request EXCEPT ![s] = "open"]
  /\ runs' = runs + 1
  /\ UNCHANGED <<server, state, victim, deleting, strays>>

\* The manager loses the stream or its lease, or crashes and another manager
\* takes over: it gives the request up and cancels the session.
GivesUp(s) ==
  /\ client[s] \in {"sent", "streaming"}
  /\ client' = [client EXCEPT ![s] = "cancelling"]
  /\ request' = [request EXCEPT ![s] = IF @ = "open" THEN "late" ELSE @]
  /\ peer' = [peer EXCEPT ![s] = IF @ = "open" THEN "gone" ELSE @]
  /\ UNCHANGED <<routes, handles, active, operation, state, victim, deleting, strays, runs>>

\* POST cancel.
Cancels(s) ==
  /\ client[s] = "cancelling" /\ cancels[s]["manager"] = "idle"
  /\ CancelFrom(s, "manager", execution[s])
  /\ UNCHANGED <<client, request, server, harness, victim, deleting, strays, runs>>

\* It is answered once the operation has ended as well.
CancelAnswered(s) ==
  /\ client[s] = "cancelling" /\ cancels[s]["manager"] = "ok" /\ operation[s] = "none"
  /\ client' = [client EXCEPT ![s] = "idle"]
  /\ cancels' = [cancels EXCEPT ![s]["manager"] = "idle"]
  /\ UNCHANGED <<request, server, execution, cancelled, harness, overlay, victim, deleting, strays, runs>>

\* The container is stopped, with every run in it: a new server will come.
\* The graceful shutdown of the old one destroys the sessions first, so that
\* other runs may still end with a status, and other cancels with an answer.
NewServer ==
  /\ routes' = {} /\ handles' = {} /\ active' = {}
  /\ operation' = [t \in Sessions |-> "none"] /\ peer' = [t \in Sessions |-> "none"]
  /\ execution' = [t \in Sessions |-> "none"] /\ cancelled' = [t \in Sessions |-> FALSE]
  /\ harness' = [t \in Sessions |-> "none"] /\ overlay' = [t \in Sessions |-> "none"]
  /\ cancels' = [t \in Sessions |-> [c \in Callers |-> "idle"]]
  /\ deleting' = FALSE

\* The cancel fails or is not answered in time.
ForceStop(s) ==
  /\ client[s] = "cancelling"
  /\ \E told \in SUBSET {t \in Sessions : client[t] \in {"streaming", "cancelling"}} :
     client' = [t \in Sessions |->
       IF t = s \/ t \in told THEN "idle"
       ELSE CASE client[t] \in {"sent", "streaming"} -> "cancelling"
              [] client[t] \in {"evicting", "creating"} -> "idle"
              [] OTHER -> client[t]]
  /\ request' = [t \in Sessions |-> "none"]
  /\ NewServer
  /\ victim' = [t \in Sessions |-> t] /\ strays' = {}
  /\ UNCHANGED runs

-----------------------------------------------------------------------------
(* DELETE of the workspace, while the manager runs nothing in it *)

DeleteBegins ==
  /\ ~deleting /\ active = {}
  /\ \A s \in Sessions : client[s] = "idle"
  /\ deleting' = TRUE
  /\ UNCHANGED <<client, request, server, state, victim, strays, runs>>

\* Its sessions are destroyed one after the other.
Destroys(s) ==
  /\ deleting /\ s \in routes
  /\ \A t \in Sessions : cancels[t]["destroy"] = "idle"
  /\ Destroy(s)
  /\ routes' = IF Called(s, execution[s]) = "ok" THEN routes \ {s} ELSE routes
  /\ UNCHANGED <<client, request, active, operation, peer, victim, deleting, strays, runs>>

DestroyFails(s) ==
  /\ deleting /\ cancels[s]["destroy"] = "failed"
  /\ deleting' = FALSE
  /\ cancels' = [cancels EXCEPT ![s]["destroy"] = "idle"]
  /\ UNCHANGED <<client, request, server, execution, cancelled, harness, overlay, victim, strays, runs>>

\* deleteEntry removes the files, or fails, once no session is routed.
DeleteEnds ==
  /\ deleting /\ routes = {}
  /\ deleting' = FALSE
  /\ UNCHANGED <<client, request, server, state, victim, strays, runs>>

Next ==
  \/ \E s \in Sessions :
       \/ Exits(s) \/ CloseFails(s) \/ Cleaned(s) \/ CleanFails(s)
       \/ Spawn(s) \/ SpawnFails(s) \/ TurnEnds(s)
       \/ Refuses(s) \/ Accepts(s) \/ HangsUp(s) \/ Delivers(s) \/ Leaves(s)
       \/ LoopEnds(s) \/ LoopThrows(s) \/ CatchEnds(s)
       \/ Prepares(s) \/ EvictionFails(s) \/ Created(s) \/ CreateFails(s) \/ Sends(s)
       \/ GivesUp(s) \/ Cancels(s) \/ CancelAnswered(s) \/ ForceStop(s)
       \/ Destroys(s) \/ DestroyFails(s)
  \/ DeleteBegins \/ DeleteEnds

\* What the SDK and the file system do comes to an end, and the server goes
\* on; a turn ends for sure only when its subprocess is gone.
Fairness ==
  \A s \in Sessions :
    /\ WF_vars(Exits(s) \/ CloseFails(s)) /\ WF_vars(Cleaned(s) \/ CleanFails(s))
    /\ WF_vars(Spawn(s) \/ SpawnFails(s))
    /\ WF_vars(harness[s] = "none" /\ TurnEnds(s))
    /\ WF_vars(HangsUp(s)) /\ WF_vars(Delivers(s))
    /\ WF_vars(LoopEnds(s)) /\ WF_vars(LoopThrows(s)) /\ WF_vars(CatchEnds(s))

Spec == Init /\ [][Next]_vars /\ Fairness

-----------------------------------------------------------------------------
(* What the manager sees *)

Slot(s) ==
  IF execution[s] \in {"none", "ended"} /\ harness[s] = "none" THEN "over"
  ELSE IF execution[s] = "prepare" THEN "starting" ELSE "running"

\* From the request for a run to its terminal event, an answered cancel, or the
\* stop of the container.
Held == {s \in Sessions : client[s] \in {"sent", "streaming", "cancelling"}}

Slots == INSTANCE RunSlots WITH slot <- [s \in Sessions |-> Slot(s)], held <- Held

\* A run starts only when the manager waits for it and no subprocess of an
\* earlier one is left, and the manager lets go only when it is over, whoever
\* cancels, hangs up, evicts or fails.
ImplementsSlots == Slots!Spec

-----------------------------------------------------------------------------
(* Properties *)

\* The manager lets go of a session, after a terminal event, an answered
\* cancel or a stop of the container, only when the subprocess of the run,
\* which has the tool tokens in its environment, has exited and closeHarness
\* has come to its overlay: that is removed, being removed, or one whose
\* removal has failed and which stays on the disk ("stuck").  A container that
\* is killed leaves its overlays there as well; the new server knows of none.
OverMeansOver ==
  \A s \in Sessions \ strays :
    client[s] \in {"idle", "evicting", "creating", "prepared"} =>
      harness[s] = "none" /\ overlay[s] # "kept"

\* A run gets a subprocess only when no earlier one of its session is left.
OneSubprocess ==
  \A s \in Sessions : execution[s] = "prepare" => harness[s] = "none"

\* Neither an eviction nor the deletion of the workspace cancels a run that
\* the server works on.
EvictsOnlyIdle ==
  [][\A s \in active : cancels[s]["destroy"] = "idle" => cancels'[s]["destroy"] = "idle"]_vars

\* A run whose connection is lost ends, unless its subprocess cannot be closed.
HangUpEndsRun ==
  \A s \in Sessions :
    peer[s] = "gone" ~> (operation[s] = "none" \/ harness[s] = "escaped")
=============================================================================
