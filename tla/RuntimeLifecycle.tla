-------------------------- MODULE RuntimeLifecycle --------------------------
(***************************************************************************)
(* The container of one user (lifecycle.ts, reaper.ts): created on demand, *)
(* replaced when outdated or unhealthy, stopped when idle, removed when    *)
(* stopped for long.  Every change of the container is made under the      *)
(* user's lifecycle lock, a handler at a time, but work is only admitted   *)
(* under it: an operation ends, a busy mark expires, a run finishes and    *)
(* the container dies whenever they do.                                    *)
(*                                                                         *)
(* Clocks are the conditions the code compares them for: idleDue says that *)
(* idleMs have passed since lastActiveAt.                                  *)
(***************************************************************************)
EXTENDS Naturals, FiniteSets

CONSTANTS
  Conns,       \* withActivity operations: file transfers, session setup, MCP tests
  Sessions,    \* conversations, each with an agent run at a time
  NoWork,
  MaxLapses,   \* bound: busy marks that expire under an operation still alive
  MaxDeaths,   \* bound: containers that exit, or lose a network, by themselves
  MaxCrashes   \* bound: manager crashes and deployments

ASSUME WorkAssumption == NoWork \notin Conns \cup Sessions /\ Conns \cap Sessions = {}

ASSUME BoundAssumption == MaxLapses \in Nat /\ MaxDeaths \in Nat /\ MaxCrashes \in Nat

Work == Conns \cup Sessions

VARIABLES
  container,   \* of the user's name in Docker
  healthy,     \* its server answers /health
  wires,       \* its endpoints, and the gateway's, on the user's networks: "there",
               \* "missing", or without their names
  failed,      \* its last exit code was not zero
  current,     \* it was made from this deployment's image and settings
  row,         \* runtime_instances: status, and whether stopped_at is set
  idleDue, removeDue,   \* idleMs since lastActiveAt, removeMs since stopped_at
  repairAfter, \* in memory: "none", "cooling" (in the future), "over"
  lock,        \* the holder of the lifecycle lock, its next step, what it has read
  phase,       \* where each operation or run is
  marks,       \* the busy marks in Redis that have not expired
  running,     \* the conversations whose durable status is running
  lapsed,      \* history: work whose mark expired under it
  lapses, deaths, crashes

docker == <<container, healthy, wires, failed, current>>
due == <<idleDue, removeDue>>
work == <<phase, marks, running, lapsed>>
bounds == <<lapses, deaths, crashes>>
vars == <<docker, row, due, repairAfter, lock, work, bounds>>

EnsureSteps ==
  {"inspect", "repair", "connect", "probe", "weigh", "replaceStop", "replaceRemove", "replaceRow",
   "create", "make", "starting", "start", "await"}
StopSteps == {"stopCheck", "stop", "stopRow"}
RemoveSteps == {"removeCheck", "removeStop", "removeDelete", "removeRow"}
ReapSteps == {"reconcile", "read", "decide"}

Holder(at, op, w) ==
  [at |-> at, op |-> op, work |-> w, up |-> FALSE, busy |-> FALSE, well |-> FALSE, idle |-> FALSE]
Free == Holder("free", "none", NoWork)
Step(at) == lock' = Holder(at, lock.op, lock.work)
Unlock == lock' = Free

TypeOK ==
  /\ container \in {"absent", "stopped", "running"} /\ wires \in {"there", "missing", "nameless"}
  /\ healthy \in BOOLEAN /\ failed \in BOOLEAN /\ current \in BOOLEAN
  /\ row \in [status : {"none", "STARTING", "RUNNING", "IDLE", "STOPPED", "REMOVED", "ERROR"},
              stopped : BOOLEAN]
  /\ idleDue \in BOOLEAN /\ removeDue \in BOOLEAN
  /\ repairAfter \in {"none", "cooling", "over"}
  /\ lock \in [at : {"free", "mark"} \cup EnsureSteps \cup StopSteps \cup RemoveSteps \cup ReapSteps,
               op : {"none", "admit", "ensure", "stop", "force", "remove", "reap"},
               work : Work \cup {NoWork}, up : BOOLEAN, busy : BOOLEAN, well : BOOLEAN,
               idle : BOOLEAN]
  /\ phase \in [Work -> {"out", "admitted", "accepted", "ensuring", "ready", "failed",
                         "working", "ended"}]
  /\ marks \in SUBSET Work
  /\ running \in SUBSET Sessions
  /\ lapsed \in SUBSET Work
  /\ lapses \in 0..MaxLapses /\ deaths \in 0..MaxDeaths /\ crashes \in 0..MaxCrashes

Init ==
  /\ container = "absent" /\ healthy = FALSE /\ wires = "there" /\ failed = FALSE /\ current = FALSE
  /\ row = [status |-> "none", stopped |-> FALSE]
  /\ idleDue = FALSE /\ removeDue = FALSE
  /\ repairAfter = "none"
  /\ lock = Free
  /\ phase = [w \in Work |-> "out"]
  /\ marks = {} /\ running = {} /\ lapsed = {}
  /\ lapses = 0 /\ deaths = 0 /\ crashes = 0

\* What Docker shows of a container that has exited, and of none.
Exits == container' = "stopped" /\ healthy' = FALSE /\ failed' \in BOOLEAN /\ UNCHANGED wires
Vanishes ==
  container' = "absent" /\ healthy' = FALSE /\ wires' = "there" /\ failed' = FALSE /\ current' = FALSE

\* setStatus: stopped_at is set with STOPPED and cleared with STARTING and RUNNING.
SetStatus(status) ==
  /\ row' = [status |-> status,
             stopped |-> CASE status = "STOPPED" -> TRUE
                           [] status \in {"RUNNING", "STARTING"} -> FALSE
                           [] OTHER -> row.stopped]
  /\ removeDue' = (removeDue /\ status \notin {"STOPPED", "RUNNING", "STARTING"})
KeepStatus == UNCHANGED <<row, removeDue>>

\* Background reconciliation does not extend the idle timer.
Touched == idleDue' = (idleDue /\ lock.op = "reap")

\* Mutant: only the busy marks are looked at.
BusyByMarks == marks # {}

Busy == marks # {} \/ running # {}

\* address() and request(): by its name on the user's network.
Answers == container = "running" /\ healthy /\ wires = "there"

\* What the Runtime itself reports: sessions, transfers, upload batches.
RuntimeBusy == \E w \in Work : phase[w] = "working"
-----------------------------------------------------------------------------
(* Admission: the busy mark is set under the lock, then the work goes on.  *)

\* withActivity, with or without ensureRuntime; launch and recoverStale.
AdmitBegin(w, ensure) ==
  /\ lock = Free
  /\ phase[w] = "out"
  /\ w \in Sessions => ~ensure
  /\ lock' = Holder(IF ensure THEN "inspect" ELSE "mark", "admit", w)
  /\ UNCHANGED <<docker, row, due, repairAfter, work, bounds>>

\* A lease that another service registers also touches the runtime.
SetBusy ==
  /\ lock.at = "mark"
  /\ idleDue' \in {idleDue, idleDue /\ lock.work \notin Conns}
  /\ marks' = marks \cup {lock.work}
  /\ lapsed' = lapsed \ {lock.work}
  /\ phase' = [phase EXCEPT ![lock.work] = IF @ = "out" /\ lock.work \in Conns
                                           THEN "working" ELSE "admitted"]
  /\ Unlock
  /\ UNCHANGED <<docker, row, removeDue, repairAfter, running, bounds>>

\* The message is recorded and its conversation runs, or admission failed.
Accept(s) ==
  /\ phase[s] = "admitted"
  /\ \/ running' = running \cup {s} /\ phase' = [phase EXCEPT ![s] = "accepted"]
     \/ UNCHANGED running /\ phase' = [phase EXCEPT ![s] = "ended"]
  /\ UNCHANGED <<docker, row, due, repairAfter, lock, marks, lapsed, bounds>>

EnsureForRun(s) ==
  /\ lock = Free
  /\ phase[s] = "accepted"
  /\ phase' = [phase EXCEPT ![s] = "ensuring"]
  /\ lock' = Holder("inspect", "ensure", s)
  /\ UNCHANGED <<docker, row, due, repairAfter, marks, running, lapsed, bounds>>

RunStarts(s) ==
  /\ phase[s] = "ready"
  /\ Answers
  /\ phase' = [phase EXCEPT ![s] = "working"]
  /\ UNCHANGED <<docker, row, due, repairAfter, lock, marks, running, lapsed, bounds>>

\* The run has ended, in the Runtime and in the database (see Runs).
RunCloses(s) ==
  /\ phase[s] \in {"ready", "failed", "working"}
  /\ phase' = [phase EXCEPT ![s] = "ended"]
  /\ running' = running \ {s}
  /\ idleDue' \in {idleDue, FALSE}
  /\ UNCHANGED <<docker, row, removeDue, repairAfter, lock, marks, lapsed, bounds>>

\* recoverStale, or Stop, closes a conversation whose manager has died.
OrphanCloses(s) ==
  /\ phase[s] = "out"
  /\ running' = running \ {s}
  /\ UNCHANGED <<docker, row, due, repairAfter, lock, phase, marks, lapsed, bounds>>

\* The operation is over: withActivity touches the runtime ...
OperationEnds(c) ==
  /\ phase[c] = "working"
  /\ phase' = [phase EXCEPT ![c] = "ended"]
  /\ idleDue' \in {idleDue, FALSE}
  /\ UNCHANGED <<docker, row, removeDue, repairAfter, lock, marks, running, lapsed, bounds>>

\* ... and clears its mark, as launch and execute do.
ClearBusy(w) ==
  /\ phase[w] = "ended"
  /\ phase' = [phase EXCEPT ![w] = "out"]
  /\ marks' = marks \ {w}
  /\ UNCHANGED <<docker, row, due, repairAfter, lock, running, lapsed, bounds>>

\* A heartbeat sets the mark again, outside the lock; one of a run touches the
\* runtime too.
Heartbeat(w) ==
  /\ phase[w] \in {"accepted", "ensuring", "ready", "failed", "working"}
  /\ marks' = marks \cup {w}
  /\ idleDue' \in {idleDue, idleDue /\ w \notin Sessions}
  /\ UNCHANGED <<docker, row, removeDue, repairAfter, lock, phase, running, lapsed, bounds>>
-----------------------------------------------------------------------------
(* ensureRuntimeUnlocked, for an admission, a run, a user or the reaper.   *)

EnsureBegin ==
  /\ lock = Free
  /\ lock' = Holder("inspect", "ensure", NoWork)
  /\ UNCHANGED <<docker, row, due, repairAfter, work, bounds>>

Inspect ==
  /\ lock.at = "inspect"
  /\ lock' = [lock EXCEPT !.at = IF container = "absent" THEN "create" ELSE "repair",
                          !.up = container = "running", !.busy = Busy, !.well = FALSE]
  /\ UNCHANGED <<docker, row, due, repairAfter, work, bounds>>

\* ensureNetworks and repairRuntimeNetworks: what is not connected is connected;
\* what lacks its name is disconnected first, and not while there is work.
RepairDisconnects ==
  /\ lock.at = "repair" /\ wires = "nameless" /\ ~lock.busy
  /\ wires' = "missing"
  /\ lock' = [lock EXCEPT !.at = "connect"]
  /\ UNCHANGED <<container, healthy, failed, current, row, due, repairAfter, work, bounds>>

RepairConnects ==
  /\ \/ lock.at = "repair" /\ wires # "nameless"
     \/ lock.at = "connect"
  /\ wires' = "there"
  /\ lock' = [lock EXCEPT !.at = "probe"]
  /\ UNCHANGED <<container, healthy, failed, current, row, due, repairAfter, work, bounds>>

\* probeHealth of a container that was up.
Probe ==
  /\ lock.at = "probe"
  /\ LET well == lock.up /\ Answers IN
     lock' = [lock EXCEPT !.at = "weigh", !.well = well, !.busy = @ \/ (well /\ RuntimeBusy)]
  /\ UNCHANGED <<docker, row, due, repairAfter, work, bounds>>

NeedsReplacement ==
  /\ ~lock.busy
  /\ \/ ~current
     \/ lock.up /\ ~lock.well
     \/ ~lock.up /\ repairAfter # "none"

WeighReplace ==
  /\ lock.at = "weigh"
  /\ NeedsReplacement
  /\ repairAfter # "cooling"
  /\ repairAfter' = "cooling"
  /\ Step(IF lock.up THEN "replaceStop" ELSE "replaceRemove")
  /\ UNCHANGED <<docker, row, due, work, bounds>>

\* The caller goes on: it sets its mark, runs, or the reaper reads the row.
EnsureReturns ==
  /\ CASE lock.op = "admit" -> Step("mark")
       [] lock.op = "reap"  -> Step("read")
       [] OTHER             -> Unlock
  /\ phase' = IF lock.op = "ensure" /\ lock.work # NoWork
              THEN [phase EXCEPT ![lock.work] = "ready"] ELSE phase

\* An up-to-date, healthy container, or one that has become healthy.
EnsureSucceeds ==
  /\ \/ lock.at = "weigh" /\ ~NeedsReplacement /\ lock.up /\ lock.well
     \/ lock.at = "await" /\ Answers
  /\ repairAfter' = "none"
  /\ SetStatus("RUNNING")
  /\ Touched
  /\ EnsureReturns
  /\ UNCHANGED <<docker, marks, running, lapsed, bounds>>

WeighStart ==
  /\ lock.at = "weigh"
  /\ ~NeedsReplacement
  /\ ~lock.up
  /\ Step("starting")
  /\ UNCHANGED <<docker, row, due, repairAfter, work, bounds>>

\* The old container is stopped and removed, its directories stay.
ReplaceStop ==
  /\ lock.at = "replaceStop"
  /\ container = "running"
  /\ Exits
  /\ Step("replaceRemove")
  /\ UNCHANGED <<current, row, due, repairAfter, work, bounds>>

ReplaceRemove ==
  /\ lock.at = "replaceRemove"
  /\ container = "stopped"
  /\ Vanishes
  /\ Step("replaceRow")
  /\ UNCHANGED <<row, due, repairAfter, work, bounds>>

ReplaceRow ==
  /\ lock.at = "replaceRow"
  /\ SetStatus("REMOVED")
  /\ Step("create")
  /\ UNCHANGED <<docker, idleDue, repairAfter, work, bounds>>

\* Mutant: the row is written when the container is there.
CreateUnrecorded ==
  /\ lock.at = "create"
  /\ repairAfter' = "cooling"
  /\ Step("make")
  /\ UNCHANGED <<docker, row, due, work, bounds>>

Create ==
  /\ lock.at = "create"
  /\ repairAfter' = "cooling"
  /\ SetStatus("STARTING")
  /\ Touched
  /\ Step("make")
  /\ UNCHANGED <<docker, work, bounds>>

Make ==
  /\ lock.at = "make"
  /\ container' = "stopped"
  /\ current' = TRUE
  /\ failed' = FALSE
  /\ healthy' = FALSE
  /\ wires' = "there"
  /\ Step("starting")
  /\ UNCHANGED <<row, due, repairAfter, work, bounds>>

Starting ==
  /\ lock.at = "starting"
  /\ SetStatus("STARTING")
  /\ Touched
  /\ Step("start")
  /\ UNCHANGED <<docker, repairAfter, work, bounds>>

Start ==
  /\ lock.at = "start"
  /\ container' = "running"
  /\ healthy' = FALSE
  /\ Step("await")
  /\ UNCHANGED <<wires, failed, current, row, due, repairAfter, work, bounds>>

\* Any call fails, health does not come, repair is cooling down, or active
\* work protects an unhealthy container.
EnsureFails ==
  /\ lock.at \in EnsureSteps
  /\ SetStatus("ERROR") \/ KeepStatus
  /\ phase' = IF lock.op = "ensure" /\ lock.work # NoWork
              THEN [phase EXCEPT ![lock.work] = "failed"] ELSE phase
  /\ Unlock
  /\ UNCHANGED <<docker, idleDue, repairAfter, marks, running, lapsed, bounds>>
-----------------------------------------------------------------------------
(* stopUnlocked and removeUnlocked.                                        *)

StopBegin ==
  /\ lock = Free
  /\ lock' = Holder("stopCheck", "stop", NoWork)
  /\ UNCHANGED <<docker, row, due, repairAfter, work, bounds>>

\* terminateExecution could not cancel a run: it stops the container.
ForceStopBegin ==
  /\ lock = Free
  /\ running # {}
  /\ lock' = Holder("stop", "force", NoWork)
  /\ UNCHANGED <<docker, row, due, repairAfter, work, bounds>>

RemoveBegin ==
  /\ lock = Free
  /\ lock' = Holder("removeCheck", "remove", NoWork)
  /\ UNCHANGED <<docker, row, due, repairAfter, work, bounds>>

CheckActive ==
  /\ lock.at \in {"stopCheck", "removeCheck"}
  /\ IF Busy THEN Unlock ELSE Step(IF lock.at = "stopCheck" THEN "stop" ELSE "removeStop")
  /\ UNCHANGED <<docker, row, due, repairAfter, work, bounds>>

DockerStop ==
  /\ lock.at \in {"stop", "removeStop"}
  /\ IF container = "running"
     THEN Exits
     ELSE UNCHANGED <<container, healthy, wires, failed>>
  /\ Step(IF lock.at = "stop" THEN "stopRow" ELSE "removeDelete")
  /\ UNCHANGED <<current, row, due, repairAfter, work, bounds>>

StopRow ==
  /\ lock.at = "stopRow"
  /\ SetStatus(IF container = "absent" THEN "REMOVED" ELSE "STOPPED")
  /\ Unlock
  /\ UNCHANGED <<docker, idleDue, repairAfter, work, bounds>>

RemoveDelete ==
  /\ lock.at = "removeDelete"
  /\ Vanishes
  /\ Step("removeRow")
  /\ UNCHANGED <<row, due, repairAfter, work, bounds>>

RemoveRow ==
  /\ lock.at = "removeRow"
  /\ SetStatus("REMOVED")
  /\ Unlock
  /\ UNCHANGED <<docker, idleDue, repairAfter, work, bounds>>

\* Redis, Docker or the database fails: the handler ends where it is.
HandlerFails ==
  /\ lock.at \in StopSteps \cup RemoveSteps \cup ReapSteps \cup {"mark"}
  /\ Unlock
  /\ UNCHANGED <<docker, row, due, repairAfter, work, bounds>>
-----------------------------------------------------------------------------
(* The reaper's sweep, and a status query.                                 *)

ReapBegin ==
  /\ lock = Free
  /\ row.status \notin {"none", "REMOVED"}
  /\ lock' = Holder("reconcile", "reap", NoWork)
  /\ UNCHANGED <<docker, row, due, repairAfter, work, bounds>>

\* reconcileRuntimeUnlocked
Reconcile ==
  /\ lock.at = "reconcile"
  /\ \/ /\ container = "running"
        /\ Step("inspect")
        /\ UNCHANGED repairAfter
     \/ /\ container = "stopped" /\ row.status = "ERROR" /\ repairAfter # "cooling"
        /\ repairAfter' = "over"
        /\ Step("inspect")
     \/ /\ container = "stopped" /\ row.status # "ERROR" /\ ~current /\ ~Busy
        /\ Step("removeCheck")
        /\ UNCHANGED repairAfter
     \/ /\ \/ container = "absent"
           \/ container = "stopped" /\ row.status = "ERROR" /\ repairAfter = "cooling"
           \/ container = "stopped" /\ row.status # "ERROR" /\ (current \/ Busy)
        /\ Step("read")
        /\ UNCHANGED repairAfter
  /\ UNCHANGED <<docker, row, due, work, bounds>>

\* The row is read, with the time of the last activity ...
ReapRead ==
  /\ lock.at = "read"
  /\ lock' = [lock EXCEPT !.at = "decide", !.idle = idleDue]
  /\ UNCHANGED <<docker, row, due, repairAfter, work, bounds>>

\* ... then the container and the marks, and reaperAction decides.
ReapDecide ==
  /\ lock.at = "decide"
  /\ LET up == container = "running"
         down == container = "stopped"
         busy == Busy \/ (up /\ RuntimeBusy) IN
     /\ up /\ ~Busy => Answers
     /\ \/ container = "absent" /\ SetStatus("REMOVED") /\ Unlock
        \/ up /\ ~busy /\ lock.idle /\ Step("stopCheck") /\ KeepStatus
        \/ down /\ ~busy /\ row.stopped /\ removeDue /\ Step("removeCheck") /\ KeepStatus
        \/ /\ down /\ (busy \/ ~row.stopped \/ ~removeDue)
           /\ IF row.stopped \/ row.status = "ERROR" THEN KeepStatus ELSE SetStatus("STOPPED")
           /\ Unlock
        \/ /\ up /\ (busy \/ ~lock.idle)
           /\ IF busy \/ row.status = "ERROR" THEN KeepStatus ELSE SetStatus("IDLE")
           /\ Unlock
  /\ UNCHANGED <<docker, idleDue, repairAfter, work, bounds>>

\* Mutant: Docker's word for the state of the container.
ExitedStatus == IF failed THEN "ERROR" ELSE "EXITED"

StoppedStatus == IF failed THEN "ERROR" ELSE "STOPPED"

\* getRuntimeStatus, under the lock.
StatusQuery ==
  /\ lock = Free
  /\ row.status # "none"
  /\ LET status == IF marks # {} THEN "RUNNING" ELSE "IDLE" IN
     CASE container = "absent" -> SetStatus("REMOVED") /\ UNCHANGED idleDue
       [] container = "stopped" ->
            /\ IF row.status \in {"STOPPED", "ERROR"} THEN KeepStatus ELSE SetStatus(StoppedStatus)
            /\ UNCHANGED idleDue
       [] container = "running" ->
            CASE row.status = "ERROR" -> KeepStatus /\ UNCHANGED idleDue
              [] row.status \in {"RUNNING", "IDLE"} ->
                   row' = [row EXCEPT !.status = status] /\ UNCHANGED due
              [] OTHER -> SetStatus(status) /\ idleDue' = (idleDue /\ marks = {})
  /\ UNCHANGED <<docker, repairAfter, lock, work, bounds>>

\* POST /touch
TouchRuntime ==
  /\ row.status # "none"
  /\ idleDue' = FALSE
  /\ UNCHANGED <<docker, row, removeDue, repairAfter, lock, work, bounds>>
-----------------------------------------------------------------------------
(* Time and failures.                                                      *)

IdleElapses ==
  /\ ~idleDue
  /\ idleDue' = TRUE
  /\ UNCHANGED <<docker, row, removeDue, repairAfter, lock, work, bounds>>

RemoveElapses ==
  /\ row.stopped /\ ~removeDue
  /\ removeDue' = TRUE
  /\ UNCHANGED <<docker, row, idleDue, repairAfter, lock, work, bounds>>

CooldownEnds ==
  /\ repairAfter = "cooling"
  /\ repairAfter' = "over"
  /\ UNCHANGED <<docker, row, due, lock, work, bounds>>

\* A busy mark expires: of work that is gone, or whose heartbeat fails.  The
\* transaction that accepts a message is shorter than the life of the mark.
MarkExpires(w) ==
  /\ w \in marks
  /\ phase[w] # "admitted"
  /\ IF phase[w] = "out"
     THEN UNCHANGED <<lapsed, lapses>>
     ELSE lapses < MaxLapses /\ lapses' = lapses + 1 /\ lapsed' = lapsed \cup {w}
  /\ marks' = marks \ {w}
  /\ UNCHANGED <<docker, row, due, repairAfter, lock, phase, running, deaths, crashes>>

HealthChanges ==
  /\ container = "running"
  /\ healthy' = ~healthy
  /\ UNCHANGED <<container, wires, failed, current, row, due, repairAfter, lock, work, bounds>>

ContainerDies ==
  /\ container = "running"
  /\ deaths < MaxDeaths
  /\ deaths' = deaths + 1
  /\ Exits
  /\ UNCHANGED <<current, row, due, repairAfter, lock, work, lapses, crashes>>

\* A network is pruned, or the gateway's container is made anew.
NetworkLost ==
  /\ container # "absent" /\ wires = "there"
  /\ deaths < MaxDeaths
  /\ deaths' = deaths + 1
  /\ wires' \in {"missing", "nameless"}
  /\ UNCHANGED <<container, healthy, failed, current, row, due, repairAfter, lock, work, lapses, crashes>>

\* The manager dies with its handlers and its work; the next one may belong to
\* a new deployment.
Crash ==
  /\ crashes < MaxCrashes
  /\ crashes' = crashes + 1
  /\ Unlock
  /\ repairAfter' = "none"
  /\ phase' = [w \in Work |-> "out"]
  /\ current' \in {current, FALSE}
  /\ UNCHANGED <<container, healthy, wires, failed, row, due, marks, running, lapsed,
                 lapses, deaths>>
-----------------------------------------------------------------------------
Admission ==
  \/ \E w \in Work, ensure \in BOOLEAN : AdmitBegin(w, ensure)
  \/ SetBusy
  \/ \E s \in Sessions : Accept(s) \/ EnsureForRun(s) \/ RunStarts(s) \/ RunCloses(s) \/ OrphanCloses(s)
  \/ \E c \in Conns : OperationEnds(c)
  \/ \E w \in Work : ClearBusy(w) \/ Heartbeat(w)

Ensure ==
  \/ Inspect \/ RepairDisconnects \/ RepairConnects \/ Probe \/ WeighReplace \/ WeighStart \/ EnsureSucceeds
  \/ ReplaceStop \/ ReplaceRemove \/ ReplaceRow
  \/ Create \/ Make \/ Starting \/ Start

Recycle ==
  \/ CheckActive \/ DockerStop \/ StopRow \/ RemoveDelete \/ RemoveRow
  \/ Reconcile \/ ReapRead \/ ReapDecide

Request == EnsureBegin \/ StopBegin \/ ForceStopBegin \/ RemoveBegin \/ ReapBegin \/ StatusQuery \/ TouchRuntime

Environment ==
  \/ EnsureFails \/ HandlerFails
  \/ IdleElapses \/ RemoveElapses \/ CooldownEnds
  \/ \E w \in Work : MarkExpires(w)
  \/ HealthChanges \/ ContainerDies \/ NetworkLost \/ Crash

Next == Admission \/ Ensure \/ Recycle \/ Request \/ Environment

Spec == Init /\ [][Next]_vars
-----------------------------------------------------------------------------
\* A REMOVED row has no container: the sweep never looks at it again, so one
\* would stay for ever.
RemovedHasNoContainer ==
  row.status \in {"none", "REMOVED"} => container = "absent"

\* Work that must not be interrupted: a run whose conversation is running, an
\* operation whose busy mark has not expired under it.
Protected(w) ==
  \/ w \in running /\ phase[w] # "out"
  \/ phase[w] = "working" /\ w \notin lapsed

\* Only the forced stop of an unconfirmed termination takes the container, or
\* its network, from protected work: no stop, removal, replacement or repair
\* that was decided before the work was admitted, or on marks read earlier, does.
WorkIsProtected ==
  [][container = "running" /\ (container' # "running" \/ (wires # "missing" /\ wires' = "missing"))
     /\ lock' # lock /\ lock.op # "force"
       => \A w \in Work : ~Protected(w)]_vars
=============================================================================
