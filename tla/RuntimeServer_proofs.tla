------------------------- MODULE RuntimeServer_proofs -------------------------
(***************************************************************************)
(* Theorems about RuntimeServer, for any sessions, any limit of sessions   *)
(* and any number of runs.  Many callers may cancel one run: the manager,  *)
(* the operation on the stream when it is left or fails, an eviction.  The *)
(* argument is that all of them wait for the same steps of the execution,  *)
(* and that none is answered before the subprocess has exited (Subprocess);*)
(* who is told that a run is over was therefore told the truth, until the  *)
(* session is used again (Truthful), and nobody uses it again while it is  *)
(* waited for (Attends).                                                   *)
(***************************************************************************)
EXTENDS RuntimeServer, TLAPS

\* A call that waits for close() has a subprocess to close, an execution that
\* has not begun its turn, or is past its close, has none, and an overlay that
\* nobody removes yet belongs to a subprocess.
Subprocess ==
  \A s \in Sessions :
    /\ Waiting(s, "close") => harness[s] # "none"
    /\ execution[s] \in {"none", "prepare", "clean", "ended"} => harness[s] = "none"
    /\ overlay[s] = "kept" => harness[s] # "none"
    /\ s \notin handles => execution[s] = "none"

\* Whom the manager, the server and the operation on the stream wait for.
Attends ==
  \A s \in Sessions :
    /\ request[s] = "open" => client[s] = "sent"
    /\ peer[s] = "open" => client[s] = "streaming"
    /\ cancels[s]["manager"] # "idle" => client[s] = "cancelling"
    /\ cancels[s]["generator"] # "idle" => operation[s] \in {"leaving", "catch"}
    /\ cancels[s]["catch"] # "idle" => operation[s] = "catch"

\* A run that nothing is left of.
Over(s) == execution[s] \in {"none", "ended"} /\ harness[s] = "none"

\* Whoever was told that a run is over was told the truth, until the session
\* is used again.
Truthful ==
  \A s \in Sessions :
    /\ cancels[s]["generator"] = "ok" \/ cancels[s]["catch"] = "ok" => Over(s)
    /\ cancels[s]["manager"] = "ok" => s \in strays \/ Over(s)
    /\ client[s] \in {"idle", "evicting", "creating", "prepared"} => s \in strays \/ Over(s)

\* A workspace is deleted while no run is at work.
Undisturbed == deleting => active = {}

IInv == TypeOK /\ Subprocess /\ Attends /\ Truthful /\ Undisturbed

Executions == {"none", "prepare", "turn", "close", "clean", "ended", "failed"}

LEMMA InitInv == Init => IInv
<1> SUFFICES ASSUME Init PROVE IInv
  OBVIOUS
<1> USE DEF Init
<1>1. cancels \in [Sessions -> [Callers -> Stages]]
  BY DEF Callers, Stages
<1>2. TypeOK
  <2>1. runs \in 0..MaxRuns
    BY BoundAssumption
  <2>2. active = {s \in Sessions : operation[s] # "none"}
    OBVIOUS
  <2>3. /\ victim \in [Sessions -> Sessions] /\ cancelled \in [Sessions -> BOOLEAN]
        /\ overlay \in [Sessions -> {"none", "kept", "removing", "stuck"}]
        /\ harness \in [Sessions -> {"none", "live", "escaped"}]
    OBVIOUS
  <2> QED
    BY <1>1, <2>1, <2>2, <2>3 DEF TypeOK
<1>3. \A s \in Sessions : ~Waiting(s, "close") /\ \A c \in Callers : cancels[s][c] = "idle"
  BY DEF Waiting
<1>4. "manager" \in Callers /\ "generator" \in Callers /\ "catch" \in Callers
  BY DEF Callers
<1> QED
  BY <1>2, <1>3, <1>4 DEF IInv, Subprocess, Attends, Truthful, Undisturbed, Over

StateTyped ==
  /\ execution \in [Sessions -> Executions] /\ cancelled \in [Sessions -> BOOLEAN]
  /\ cancels \in [Sessions -> [Callers -> Stages]]
  /\ overlay \in [Sessions -> {"none", "kept", "removing", "stuck"}]

LEMMA CancelTyped ==
  ASSUME TypeOK, NEW s \in Sessions, NEW c \in Callers, NEW e \in Executions, CancelFrom(s, c, e)
  PROVE  StateTyped'
<1>1. Called(s, e) \in Stages
  BY DEF Called, CloseHarness, Clean, Join, TypeOK, Stages
<1>2. [cancels[s] EXCEPT ![c] = Called(s, e)] \in [Callers -> Stages]
  BY <1>1 DEF TypeOK
<1>3. Join(e) \in Stages
  BY DEF Join, Stages
<1> QED
  BY <1>1, <1>2, <1>3 DEF CancelFrom, Settle, Removing, TypeOK, StateTyped, Executions, Stages

LEMMA DestroyTyped ==
  ASSUME TypeOK, NEW s \in Sessions, Destroy(s)
  PROVE  StateTyped' /\ handles' \subseteq handles /\ harness' = harness
<1>1. CASE Called(s, execution[s]) = "ok"
  BY <1>1 DEF Destroy, TypeOK, StateTyped, Executions
<1>2. CASE Called(s, execution[s]) # "ok"
  <2>1. CancelFrom(s, "destroy", execution[s]) /\ UNCHANGED <<handles, harness>>
    BY <1>2 DEF Destroy
  <2>2. execution[s] \in Executions /\ "destroy" \in Callers
    BY DEF TypeOK, Executions, Callers
  <2> QED
    BY <2>1, <2>2, CancelTyped
<1> QED
  BY <1>1, <1>2

\* Those that waited for the overlay go on together.
LEMMA CleanedEffect ==
  ASSUME IInv, NEW s \in Sessions, Cleaned(s)
  PROVE  /\ execution' = [execution EXCEPT ![s] =
                            IF execution[s] = "clean" THEN "ended" ELSE execution[s]]
         /\ \A t \in Sessions, c \in Callers :
              /\ t # s => cancels'[t][c] = cancels[t][c]
              /\ cancels'[s][c] \in {cancels[s][c], "idle", Join(execution'[s])}
<1>1. Advance(s, "clean", "join")
  BY DEF Cleaned
<1>2. execution' = [execution EXCEPT ![s] = IF execution[s] = "clean" THEN "ended" ELSE execution[s]]
  BY <1>1 DEF Advance, Settle
<1>3. execution'[s] = IF execution[s] = "clean" THEN "ended" ELSE execution[s]
  BY <1>2 DEF IInv, TypeOK
<1>4. ASSUME NEW c \in Callers
      PROVE  cancels'[s][c] \in {cancels[s][c], "idle", Join(execution'[s])}
  BY <1>1, <1>3 DEF Advance, Settle, IInv, TypeOK
<1>5. \A t \in Sessions \ {s} : cancels'[t] = cancels[t]
  BY <1>1 DEF Advance, Settle, IInv, TypeOK
<1> QED
  BY <1>2, <1>4, <1>5

\* What the removal of a handle does to the parts of the invariant.
LEMMA DestroyKeeps ==
  ASSUME IInv, NEW d \in Sessions, Destroy(d)
  PROVE  /\ Subprocess'
         /\ \A t \in Sessions, c \in {"manager", "generator", "catch"} :
              cancels[t][c] = "idle" => cancels'[t][c] = "idle"
         /\ \A t \in Sessions : Over(t) => Over(t)'
         /\ \A t \in Sessions, c \in {"manager", "generator", "catch"} :
              cancels'[t][c] = "ok" => cancels[t][c] = "ok" \/ Over(t)'
<1> USE DEF IInv, TypeOK, Subprocess, Callers, Stages
<1>1. CASE Called(d, execution[d]) = "ok"
  <2>1. execution' = [execution EXCEPT ![d] = "none"] /\ handles' = handles \ {d}
        /\ UNCHANGED <<cancelled, harness, overlay, cancels>>
    BY <1>1 DEF Destroy
  <2>2. harness[d] = "none"
    BY <1>1 DEF Called, CloseHarness, Clean, Join
  <2> QED
    BY <2>1, <2>2 DEF Over, Waiting
<1>2. CASE Called(d, execution[d]) # "ok"
  <2>1. CancelFrom(d, "destroy", execution[d]) /\ UNCHANGED <<handles, harness>>
    BY <1>2 DEF Destroy
  <2>2. execution' = execution
    BY <2>1 DEF CancelFrom, Settle
  <2>3. Subprocess'
    BY <2>1, <2>2 DEF CancelFrom, Settle, Removing, Called, CloseHarness, Clean, Join, Waiting
  <2>4. \A t \in Sessions, c \in {"manager", "generator", "catch"} :
          /\ cancels[t][c] = "idle" => cancels'[t][c] = "idle"
          /\ cancels'[t][c] = "ok" => cancels[t][c] = "ok" \/ Over(t)
    BY <2>1, <2>2 DEF CancelFrom, Settle, Join, Over
  <2> QED
    BY <2>1, <2>2, <2>3, <2>4 DEF Over
<1> QED
  BY <1>1, <1>2

LEMMA TypeStep == IInv /\ [Next]_vars => TypeOK'
<1> SUFFICES ASSUME IInv, [Next]_vars PROVE TypeOK'
  OBVIOUS
<1>a. \A s \in Sessions : CancelFrom(s, "catch", execution[s]) => StateTyped'
  BY CancelTyped DEF IInv, TypeOK, Executions, Callers
<1>b. \A s \in Sessions : Destroy(s) => StateTyped' /\ handles' \subseteq handles /\ harness' = harness
  BY DestroyTyped DEF IInv
<1> USE DEF IInv, TypeOK, server, state, Join, Callers, Stages
<1>1. CASE \E s \in Sessions : Exits(s)
  BY <1>1 DEF Exits, Advance, Settle, Removing, Waiting, Clean
<1>2. CASE \E s \in Sessions : CloseFails(s)
  BY <1>2 DEF CloseFails, Advance, Settle, Waiting
<1>3. CASE \E s \in Sessions : Cleaned(s)
  BY <1>3 DEF Cleaned, Advance, Settle
<1>4. CASE \E s \in Sessions : CleanFails(s)
  BY <1>4 DEF CleanFails, Advance, Settle
<1>5. CASE \E s \in Sessions : Spawn(s)
  <2>1. PICK s \in Sessions, o \in {"none", "kept", "removing", "stuck"} :
          /\ Spawn(s)
          /\ \/ cancelled[s] /\ Finally(s, o) /\ UNCHANGED harness
             \/ StartHarness(s, o)
    BY <1>5 DEF Spawn, Overlays
  <2>2. UNCHANGED <<client, request, server, cancelled, victim, deleting, strays, runs>>
    BY <2>1 DEF Spawn
  <2>3. CASE Finally(s, o) /\ UNCHANGED harness
    BY <2>2, <2>3 DEF Finally, Settle, Removing, Clean
  <2>4. CASE StartHarness(s, o)
    BY <2>2, <2>4 DEF StartHarness
  <2> QED
    BY <2>1, <2>3, <2>4
<1>6. CASE \E s \in Sessions : SpawnFails(s)
  BY <1>6 DEF SpawnFails, Finally, Settle, Removing, Clean
<1>7. CASE \E s \in Sessions : TurnEnds(s)
  BY <1>7 DEF TurnEnds, Finally, Settle, Removing, Clean
<1>8. CASE \E s \in Sessions : Refuses(s)
  BY <1>8 DEF Refuses
<1>9. CASE \E s \in Sessions : Accepts(s)
  <2>1. PICK s \in Sessions : Accepts(s)
    BY <1>9
  <2>2. CASE Begins(s)
    BY <2>1, <2>2 DEF Accepts, Begins
  <2>3. CASE BeginsNot(s)
    <3>1. CancelFrom(s, "catch", execution[s]) /\ operation' = [operation EXCEPT ![s] = "catch"]
      BY <2>3 DEF BeginsNot
    <3>2. StateTyped'
      BY <3>1, <1>a
    <3>3. /\ client' \in [Sessions -> {"idle", "evicting", "creating", "prepared",
                                       "sent", "streaming", "cancelling"}]
          /\ request' \in [Sessions -> {"none", "open", "late"}]
          /\ peer' \in [Sessions -> {"none", "open", "gone", "closed"}] /\ strays' \subseteq Sessions
      BY <2>1 DEF Accepts
    <3>4. active' = {t \in Sessions : operation'[t] # "none"}
      BY <2>1, <3>1 DEF Accepts
    <3>5. UNCHANGED <<routes, handles, harness, victim, deleting, runs>>
      BY <2>1 DEF Accepts
    <3> QED
      BY <3>1, <3>2, <3>3, <3>4, <3>5 DEF StateTyped, Executions
  <2> QED
    BY <2>1, <2>2, <2>3 DEF Accepts
<1>10. CASE \E s \in Sessions : HangsUp(s)
  BY <1>10 DEF HangsUp, CancelFrom, Settle, Removing, Called, CloseHarness, Clean
<1>11. CASE \E s \in Sessions : Delivers(s)
  BY <1>11 DEF Delivers
<1>12. CASE \E s \in Sessions : Leaves(s)
  BY <1>12 DEF Leaves, CancelFrom, Settle, Removing, Called, CloseHarness, Clean
<1>13. CASE \E s \in Sessions : LoopEnds(s)
  BY <1>13 DEF LoopEnds, Settle, Released
<1>14. CASE \E s \in Sessions : LoopThrows(s)
  BY <1>14 DEF LoopThrows, CancelFrom, Settle, Removing, Released, Called, CloseHarness, Clean
<1>15. CASE \E s \in Sessions : CatchEnds(s)
  <2>1. PICK s \in Sessions : CatchEnds(s)
    BY <1>15
  <2>2. PICK waiter \in Stages :
          cancels' = [cancels EXCEPT ![s]["catch"] = "idle", ![s]["manager"] = waiter,
                                     ![s]["generator"] = "idle"]
    BY <2>1 DEF CatchEnds
  <2>3. cancels' \in [Sessions -> [Callers -> Stages]]
    BY <2>2
  <2> QED
    BY <2>1, <2>3 DEF CatchEnds
<1>16. CASE \E s \in Sessions : Prepares(s)
  <2>1. PICK s \in Sessions : Prepares(s)
    BY <1>16
  <2>2. CASE s \in routes \/ Cardinality(routes) < MaxSessions
    BY <2>1, <2>2 DEF Prepares
  <2>3. CASE ~(s \in routes \/ Cardinality(routes) < MaxSessions)
    <3>1. PICK d \in Disposable :
            /\ routes' = routes \ {d} /\ Destroy(d)
            /\ \/ client' = [client EXCEPT ![s] = "evicting"] /\ victim' = [victim EXCEPT ![s] = d]
               \/ client' = [client EXCEPT ![s] = "creating"] /\ UNCHANGED victim
      BY <2>1, <2>3 DEF Prepares
    <3>2. d \in Sessions
      BY DEF Disposable
    <3>3. UNCHANGED <<request, active, operation, peer, deleting, strays, runs>>
      BY <2>1 DEF Prepares
    <3>4. StateTyped' /\ handles' \subseteq handles /\ harness' = harness
      BY <3>1, <3>2, <1>b
    <3>5. client' \in [Sessions -> {"idle", "evicting", "creating", "prepared",
                                    "sent", "streaming", "cancelling"}]
      BY <3>1, <2>1
    <3>6. victim' \in [Sessions -> Sessions] /\ routes' \subseteq Sessions
      BY <3>1, <3>2
    <3> QED
      BY <3>3, <3>4, <3>5, <3>6 DEF StateTyped, Executions
  <2> QED
    BY <2>2, <2>3
<1>17. CASE \E s \in Sessions : EvictionFails(s)
  BY <1>17 DEF EvictionFails
<1>18. CASE \E s \in Sessions : Created(s)
  BY <1>18 DEF Created
<1>19. CASE \E s \in Sessions : CreateFails(s)
  BY <1>19 DEF CreateFails
<1>20. CASE \E s \in Sessions : Sends(s)
  <2>1. runs' \in 0..MaxRuns
    BY <1>20, BoundAssumption DEF Sends
  <2> QED
    BY <1>20, <2>1 DEF Sends
<1>21. CASE \E s \in Sessions : GivesUp(s)
  BY <1>21 DEF GivesUp
<1>22. CASE \E s \in Sessions : Cancels(s)
  BY <1>22 DEF Cancels, CancelFrom, Settle, Removing, Called, CloseHarness, Clean
<1>23. CASE \E s \in Sessions : CancelAnswered(s)
  BY <1>23 DEF CancelAnswered
<1>24. CASE \E s \in Sessions : ForceStop(s)
  <2>1. cancels' \in [Sessions -> [Callers -> Stages]]
    BY <1>24 DEF ForceStop, NewServer
  <2>2. client' \in [Sessions -> {"idle", "evicting", "creating", "prepared",
                                  "sent", "streaming", "cancelling"}]
    BY <1>24 DEF ForceStop
  <2>3. /\ request' = [t \in Sessions |-> "none"] /\ victim' = [t \in Sessions |-> t] /\ strays' = {}
        /\ NewServer /\ UNCHANGED runs
    BY <1>24 DEF ForceStop
  <2>4. active' = {t \in Sessions : operation'[t] # "none"}
    BY <2>3 DEF NewServer
  <2>5. victim' \in [Sessions -> Sessions] /\ cancelled' \in [Sessions -> BOOLEAN]
        /\ overlay' \in [Sessions -> {"none", "kept", "removing", "stuck"}]
        /\ harness' \in [Sessions -> {"none", "live", "escaped"}]
    BY <2>3 DEF NewServer
  <2> QED
    BY <2>1, <2>2, <2>3, <2>4, <2>5 DEF NewServer
<1>25. CASE \E s \in Sessions : Destroys(s)
  <2>1. PICK s \in Sessions : Destroys(s)
    BY <1>25
  <2>2. StateTyped' /\ handles' \subseteq handles /\ harness' = harness
    BY <2>1, <1>b DEF Destroys
  <2> QED
    BY <2>1, <2>2 DEF Destroys, StateTyped, Executions
<1>26. CASE \E s \in Sessions : DestroyFails(s)
  <2>1. cancels' \in [Sessions -> [Callers -> Stages]]
    BY <1>26 DEF DestroyFails
  <2>2. /\ deleting' = FALSE
        /\ UNCHANGED <<client, request, server, execution, cancelled, harness, overlay, victim, strays, runs>>
    BY <1>26 DEF DestroyFails
  <2> QED
    BY <2>1, <2>2
<1>27. CASE DeleteBegins
  BY <1>27 DEF DeleteBegins
<1>28. CASE DeleteEnds
  BY <1>28 DEF DeleteEnds
<1>29. CASE UNCHANGED vars
  BY <1>29 DEF vars
<1> QED
  BY <1>1, <1>2, <1>3, <1>4, <1>5, <1>6, <1>7, <1>8, <1>9, <1>10, <1>11, <1>12, <1>13, <1>14,
     <1>15, <1>16, <1>17, <1>18, <1>19, <1>20, <1>21, <1>22, <1>23, <1>24, <1>25, <1>26, <1>27,
     <1>28, <1>29
  DEF Next

LEMMA SubprocessStep == IInv /\ [Next]_vars => Subprocess'
<1> SUFFICES ASSUME IInv, [Next]_vars PROVE Subprocess'
  OBVIOUS
<1>a. \A d \in Sessions : Destroy(d) => Subprocess'
  BY DestroyKeeps
<1>c. \A s \in Sessions : Cleaned(s) =>
        /\ execution' = [execution EXCEPT ![s] =
                           IF execution[s] = "clean" THEN "ended" ELSE execution[s]]
        /\ \A t \in Sessions, c \in Callers :
             /\ t # s => cancels'[t][c] = cancels[t][c]
             /\ cancels'[s][c] \in {cancels[s][c], "idle", Join(execution'[s])}
  BY CleanedEffect
<1> USE DEF IInv, TypeOK, server, state, Join, Callers, Stages, Subprocess, Waiting
<1>1. CASE \E s \in Sessions : Exits(s)
  BY <1>1 DEF Exits, Advance, Settle, Removing, Waiting, Clean
<1>2. CASE \E s \in Sessions : CloseFails(s)
  BY <1>2 DEF CloseFails, Advance, Settle, Waiting
<1>3. CASE \E s \in Sessions : Cleaned(s)
  <2>1. PICK s \in Sessions : Cleaned(s)
    BY <1>3
  <2>2. /\ execution' = [execution EXCEPT ![s] = IF execution[s] = "clean" THEN "ended" ELSE execution[s]]
        /\ \A t \in Sessions, c \in Callers :
             /\ t # s => cancels'[t][c] = cancels[t][c]
             /\ cancels'[s][c] \in {cancels[s][c], "idle", Join(execution'[s])}
    BY <2>1, <1>c
  <2>4. overlay' = [overlay EXCEPT ![s] = "none"] /\ UNCHANGED <<client, harness, handles, strays>>
    BY <2>1 DEF Cleaned
  <2> QED
    BY <2>1, <2>2, <2>4
<1>4. CASE \E s \in Sessions : CleanFails(s)
  BY <1>4 DEF CleanFails, Advance, Settle
<1>5. CASE \E s \in Sessions : Spawn(s)
  BY <1>5 DEF Spawn, Overlays, Finally, Settle, Removing, StartHarness, Clean
<1>6. CASE \E s \in Sessions : SpawnFails(s)
  BY <1>6 DEF SpawnFails, Finally, Settle, Removing, Clean
<1>7. CASE \E s \in Sessions : TurnEnds(s)
  BY <1>7 DEF TurnEnds, Finally, Settle, Removing, Clean
<1>8. CASE \E s \in Sessions : Refuses(s)
  BY <1>8 DEF Refuses
<1>9. CASE \E s \in Sessions : Accepts(s)
  BY <1>9 DEF Accepts, Begins, BeginsNot, CancelFrom, Settle, Removing, Called, CloseHarness, Clean
<1>10. CASE \E s \in Sessions : HangsUp(s)
  BY <1>10 DEF HangsUp, CancelFrom, Settle, Removing, Called, CloseHarness, Clean
<1>11. CASE \E s \in Sessions : Delivers(s)
  BY <1>11 DEF Delivers
<1>12. CASE \E s \in Sessions : Leaves(s)
  BY <1>12 DEF Leaves, CancelFrom, Settle, Removing, Called, CloseHarness, Clean
<1>13. CASE \E s \in Sessions : LoopEnds(s)
  BY <1>13 DEF LoopEnds, Settle, Released
<1>14. CASE \E s \in Sessions : LoopThrows(s)
  BY <1>14 DEF LoopThrows, CancelFrom, Settle, Removing, Released, Called, CloseHarness, Clean
<1>15. CASE \E s \in Sessions : CatchEnds(s)
  BY <1>15 DEF CatchEnds
<1>16. CASE \E s \in Sessions : Prepares(s)
  <2>1. PICK s \in Sessions : Prepares(s)
    BY <1>16
  <2>2. CASE s \in routes \/ Cardinality(routes) < MaxSessions
    BY <2>1, <2>2 DEF Prepares
  <2>3. CASE ~(s \in routes \/ Cardinality(routes) < MaxSessions)
    <3>1. PICK d \in Sessions : Destroy(d)
      BY <2>1, <2>3 DEF Prepares, Disposable
    <3> QED
      BY <3>1, <1>a DEF Prepares
  <2> QED
    BY <2>2, <2>3
<1>17. CASE \E s \in Sessions : EvictionFails(s)
  BY <1>17 DEF EvictionFails
<1>18. CASE \E s \in Sessions : Created(s)
  BY <1>18 DEF Created
<1>19. CASE \E s \in Sessions : CreateFails(s)
  BY <1>19 DEF CreateFails
<1>20. CASE \E s \in Sessions : Sends(s)
  BY <1>20 DEF Sends
<1>21. CASE \E s \in Sessions : GivesUp(s)
  BY <1>21 DEF GivesUp
<1>22. CASE \E s \in Sessions : Cancels(s)
  BY <1>22 DEF Cancels, CancelFrom, Settle, Removing, Called, CloseHarness, Clean
<1>23. CASE \E s \in Sessions : CancelAnswered(s)
  BY <1>23 DEF CancelAnswered
<1>24. CASE \E s \in Sessions : ForceStop(s)
  BY <1>24 DEF ForceStop, NewServer
<1>25. CASE \E s \in Sessions : Destroys(s)
  BY <1>25 DEF Destroys, Destroy, CancelFrom, Settle, Removing, Called, CloseHarness, Clean
<1>26. CASE \E s \in Sessions : DestroyFails(s)
  BY <1>26 DEF DestroyFails
<1>27. CASE DeleteBegins
  BY <1>27 DEF DeleteBegins
<1>28. CASE DeleteEnds
  BY <1>28 DEF DeleteEnds
<1>29. CASE UNCHANGED vars
  BY <1>29 DEF vars
<1> QED
  BY <1>1, <1>2, <1>3, <1>4, <1>5, <1>6, <1>7, <1>8, <1>9, <1>10, <1>11, <1>12, <1>13, <1>14,
     <1>15, <1>16, <1>17, <1>18, <1>19, <1>20, <1>21, <1>22, <1>23, <1>24, <1>25, <1>26, <1>27,
     <1>28, <1>29
  DEF Next

LEMMA AttendStep == IInv /\ [Next]_vars => Attends'
<1> SUFFICES ASSUME IInv, [Next]_vars PROVE Attends'
  OBVIOUS
<1>a. \A d \in Sessions : Destroy(d) =>
        \A t \in Sessions, c \in {"manager", "generator", "catch"} :
          cancels[t][c] = "idle" => cancels'[t][c] = "idle"
  BY DestroyKeeps
<1> USE DEF IInv, TypeOK, server, state, Join, Callers, Stages, Attends
<1>1. CASE \E s \in Sessions : Exits(s)
  BY <1>1 DEF Exits, Advance, Settle, Removing, Waiting, Clean
<1>2. CASE \E s \in Sessions : CloseFails(s)
  BY <1>2 DEF CloseFails, Advance, Settle, Waiting
<1>3. CASE \E s \in Sessions : Cleaned(s)
  BY <1>3 DEF Cleaned, Advance, Settle
<1>4. CASE \E s \in Sessions : CleanFails(s)
  BY <1>4 DEF CleanFails, Advance, Settle
<1>5. CASE \E s \in Sessions : Spawn(s)
  BY <1>5 DEF Spawn, Overlays, Finally, Settle, Removing, StartHarness, Clean
<1>6. CASE \E s \in Sessions : SpawnFails(s)
  BY <1>6 DEF SpawnFails, Finally, Settle, Removing, Clean
<1>7. CASE \E s \in Sessions : TurnEnds(s)
  BY <1>7 DEF TurnEnds, Finally, Settle, Removing, Clean
<1>8. CASE \E s \in Sessions : Refuses(s)
  BY <1>8 DEF Refuses
<1>9. CASE \E s \in Sessions : Accepts(s)
  BY <1>9 DEF Accepts, Begins, BeginsNot, CancelFrom, Settle, Removing, Called, CloseHarness, Clean
<1>10. CASE \E s \in Sessions : HangsUp(s)
  BY <1>10 DEF HangsUp, CancelFrom, Settle, Removing, Called, CloseHarness, Clean
<1>11. CASE \E s \in Sessions : Delivers(s)
  BY <1>11 DEF Delivers
<1>12. CASE \E s \in Sessions : Leaves(s)
  BY <1>12 DEF Leaves, CancelFrom, Settle, Removing, Called, CloseHarness, Clean
<1>13. CASE \E s \in Sessions : LoopEnds(s)
  BY <1>13 DEF LoopEnds, Settle, Released
<1>14. CASE \E s \in Sessions : LoopThrows(s)
  BY <1>14 DEF LoopThrows, CancelFrom, Settle, Removing, Released, Called, CloseHarness, Clean
<1>15. CASE \E s \in Sessions : CatchEnds(s)
  <2>1. PICK s \in Sessions : CatchEnds(s)
    BY <1>15
  <2>2. PICK waiter \in Stages :
          /\ cancels' = [cancels EXCEPT ![s]["catch"] = "idle", ![s]["manager"] = waiter,
                                        ![s]["generator"] = "idle"]
          /\ waiter # "idle" => cancels[s]["manager"] # "idle"
    BY <2>1 DEF CatchEnds
  <2>3. \A t \in Sessions, c \in {"manager", "generator", "catch"} :
          cancels[t][c] = "idle" \/ (t = s /\ c # "manager") => cancels'[t][c] = "idle"
    BY <2>2
  <2>4. \E to \in {"idle", "cancelling", client[s]} :
          client' = [client EXCEPT ![s] = to] /\ (peer[s] # "open" => to = client[s])
    BY <2>1 DEF CatchEnds
  <2>5. /\ operation' = [operation EXCEPT ![s] = "none"] /\ peer' = [peer EXCEPT ![s] = "none"]
        /\ request' = request
    BY <2>1 DEF CatchEnds
  <2> QED
    BY <2>1, <2>2, <2>3, <2>4, <2>5
<1>16. CASE \E s \in Sessions : Prepares(s)
  <2>1. PICK s \in Sessions : Prepares(s)
    BY <1>16
  <2>2. CASE s \in routes \/ Cardinality(routes) < MaxSessions
    BY <2>1, <2>2 DEF Prepares
  <2>3. CASE ~(s \in routes \/ Cardinality(routes) < MaxSessions)
    <3>1. PICK d \in Sessions : Destroy(d)
      BY <2>1, <2>3 DEF Prepares, Disposable
    <3> QED
      BY <2>1, <2>3, <3>1, <1>a DEF Prepares
  <2> QED
    BY <2>2, <2>3
<1>17. CASE \E s \in Sessions : EvictionFails(s)
  BY <1>17 DEF EvictionFails
<1>18. CASE \E s \in Sessions : Created(s)
  BY <1>18 DEF Created
<1>19. CASE \E s \in Sessions : CreateFails(s)
  BY <1>19 DEF CreateFails
<1>20. CASE \E s \in Sessions : Sends(s)
  BY <1>20 DEF Sends
<1>21. CASE \E s \in Sessions : GivesUp(s)
  BY <1>21 DEF GivesUp
<1>22. CASE \E s \in Sessions : Cancels(s)
  BY <1>22 DEF Cancels, CancelFrom, Settle, Removing, Called, CloseHarness, Clean
<1>23. CASE \E s \in Sessions : CancelAnswered(s)
  BY <1>23 DEF CancelAnswered
<1>24. CASE \E s \in Sessions : ForceStop(s)
  BY <1>24 DEF ForceStop, NewServer
<1>25. CASE \E s \in Sessions : Destroys(s)
  BY <1>25 DEF Destroys, Destroy, CancelFrom, Settle, Removing, Called, CloseHarness, Clean
<1>26. CASE \E s \in Sessions : DestroyFails(s)
  BY <1>26 DEF DestroyFails
<1>27. CASE DeleteBegins
  BY <1>27 DEF DeleteBegins
<1>28. CASE DeleteEnds
  BY <1>28 DEF DeleteEnds
<1>29. CASE UNCHANGED vars
  BY <1>29 DEF vars
<1> QED
  BY <1>1, <1>2, <1>3, <1>4, <1>5, <1>6, <1>7, <1>8, <1>9, <1>10, <1>11, <1>12, <1>13, <1>14,
     <1>15, <1>16, <1>17, <1>18, <1>19, <1>20, <1>21, <1>22, <1>23, <1>24, <1>25, <1>26, <1>27,
     <1>28, <1>29
  DEF Next

LEMMA TruthStep == IInv /\ [Next]_vars => Truthful'
<1> SUFFICES ASSUME IInv, [Next]_vars PROVE Truthful'
  OBVIOUS
<1>a. \A d \in Sessions : Destroy(d) =>
        /\ \A t \in Sessions : Over(t) => Over(t)'
        /\ \A t \in Sessions, c \in {"manager", "generator", "catch"} :
             cancels'[t][c] = "ok" => cancels[t][c] = "ok" \/ Over(t)'
  BY DestroyKeeps
<1>c. \A s \in Sessions : Cleaned(s) =>
        /\ execution' = [execution EXCEPT ![s] =
                           IF execution[s] = "clean" THEN "ended" ELSE execution[s]]
        /\ \A t \in Sessions, c \in Callers :
             /\ t # s => cancels'[t][c] = cancels[t][c]
             /\ cancels'[s][c] \in {cancels[s][c], "idle", Join(execution'[s])}
  BY CleanedEffect
<1> USE DEF IInv, TypeOK, server, state, Join, Callers, Stages, Truthful, Over, Attends,
     Subprocess, Waiting
<1>1. CASE \E s \in Sessions : Exits(s)
  BY <1>1 DEF Exits, Advance, Settle, Removing, Waiting, Clean
<1>2. CASE \E s \in Sessions : CloseFails(s)
  BY <1>2 DEF CloseFails, Advance, Settle, Waiting
<1>3. CASE \E s \in Sessions : Cleaned(s)
  <2>1. PICK s \in Sessions : Cleaned(s)
    BY <1>3
  <2>2. /\ execution' = [execution EXCEPT ![s] = IF execution[s] = "clean" THEN "ended" ELSE execution[s]]
        /\ \A t \in Sessions, c \in Callers :
             /\ t # s => cancels'[t][c] = cancels[t][c]
             /\ cancels'[s][c] \in {cancels[s][c], "idle", Join(execution'[s])}
    BY <2>1, <1>c
  <2>4. overlay' = [overlay EXCEPT ![s] = "none"] /\ UNCHANGED <<client, harness, handles, strays>>
    BY <2>1 DEF Cleaned
  <2> QED
    BY <2>1, <2>2, <2>4
<1>4. CASE \E s \in Sessions : CleanFails(s)
  BY <1>4 DEF CleanFails, Advance, Settle
<1>5. CASE \E s \in Sessions : Spawn(s)
  <2>1. PICK s \in Sessions : Spawn(s)
    BY <1>5
  <2>2. ~Over(s) \/ execution[s] = "none"
    BY <2>1 DEF Spawn
  <2>3. /\ execution[s] = "prepare" /\ UNCHANGED <<client, strays>>
        /\ \A t \in Sessions \ {s} : Over(t) => Over(t)'
    BY <2>1 DEF Spawn, Finally, StartHarness, Settle
  <2>4. PICK o \in Overlays(s) : (Finally(s, o) /\ UNCHANGED harness) \/ StartHarness(s, o)
    BY <2>1 DEF Spawn
  <2>5. \A t \in Sessions, c \in Callers :
          cancels'[t][c] = "ok" => cancels[t][c] = "ok" \/ (t = s /\ Over(s)')
    <3>1. CASE StartHarness(s, o)
      BY <3>1 DEF StartHarness
    <3>2. CASE Finally(s, o) /\ UNCHANGED harness
      BY <2>3, <3>2 DEF Finally, Settle, Clean, Overlays
    <3> QED
      BY <2>4, <3>1, <3>2
  <2> QED
    BY <2>2, <2>3, <2>5
<1>6. CASE \E s \in Sessions : SpawnFails(s)
  BY <1>6 DEF SpawnFails, Finally, Settle, Removing, Clean
<1>7. CASE \E s \in Sessions : TurnEnds(s)
  BY <1>7 DEF TurnEnds, Finally, Settle, Removing, Clean
<1>8. CASE \E s \in Sessions : Refuses(s)
  BY <1>8 DEF Refuses
<1>9. CASE \E s \in Sessions : Accepts(s)
  BY <1>9 DEF Accepts, Begins, BeginsNot, CancelFrom, Settle, Removing, Called, CloseHarness, Clean
<1>10. CASE \E s \in Sessions : HangsUp(s)
  BY <1>10 DEF HangsUp, CancelFrom, Settle, Removing, Called, CloseHarness, Clean
<1>11. CASE \E s \in Sessions : Delivers(s)
  BY <1>11 DEF Delivers
<1>12. CASE \E s \in Sessions : Leaves(s)
  BY <1>12 DEF Leaves, CancelFrom, Settle, Removing, Called, CloseHarness, Clean
<1>13. CASE \E s \in Sessions : LoopEnds(s)
  BY <1>13 DEF LoopEnds, Settle, Released
<1>14. CASE \E s \in Sessions : LoopThrows(s)
  BY <1>14 DEF LoopThrows, CancelFrom, Settle, Removing, Released, Called, CloseHarness, Clean
<1>15. CASE \E s \in Sessions : CatchEnds(s)
  BY <1>15 DEF CatchEnds
<1>16. CASE \E s \in Sessions : Prepares(s)
  <2>1. PICK s \in Sessions : Prepares(s)
    BY <1>16
  <2>2. CASE s \in routes \/ Cardinality(routes) < MaxSessions
    BY <2>1, <2>2 DEF Prepares
  <2>3. CASE ~(s \in routes \/ Cardinality(routes) < MaxSessions)
    <3>1. PICK d \in Sessions : Destroy(d)
      BY <2>1, <2>3 DEF Prepares, Disposable
    <3> QED
      BY <2>1, <2>3, <3>1, <1>a DEF Prepares
  <2> QED
    BY <2>2, <2>3
<1>17. CASE \E s \in Sessions : EvictionFails(s)
  BY <1>17 DEF EvictionFails
<1>18. CASE \E s \in Sessions : Created(s)
  BY <1>18 DEF Created
<1>19. CASE \E s \in Sessions : CreateFails(s)
  BY <1>19 DEF CreateFails
<1>20. CASE \E s \in Sessions : Sends(s)
  BY <1>20 DEF Sends
<1>21. CASE \E s \in Sessions : GivesUp(s)
  BY <1>21 DEF GivesUp
<1>22. CASE \E s \in Sessions : Cancels(s)
  BY <1>22 DEF Cancels, CancelFrom, Settle, Removing, Called, CloseHarness, Clean
<1>23. CASE \E s \in Sessions : CancelAnswered(s)
  BY <1>23 DEF CancelAnswered
<1>24. CASE \E s \in Sessions : ForceStop(s)
  BY <1>24 DEF ForceStop, NewServer
<1>25. CASE \E s \in Sessions : Destroys(s)
  <2>1. PICK s \in Sessions : Destroys(s)
    BY <1>25
  <2> QED
    BY <2>1, <1>a DEF Destroys
<1>26. CASE \E s \in Sessions : DestroyFails(s)
  BY <1>26 DEF DestroyFails
<1>27. CASE DeleteBegins
  BY <1>27 DEF DeleteBegins
<1>28. CASE DeleteEnds
  BY <1>28 DEF DeleteEnds
<1>29. CASE UNCHANGED vars
  BY <1>29 DEF vars
<1> QED
  BY <1>1, <1>2, <1>3, <1>4, <1>5, <1>6, <1>7, <1>8, <1>9, <1>10, <1>11, <1>12, <1>13, <1>14,
     <1>15, <1>16, <1>17, <1>18, <1>19, <1>20, <1>21, <1>22, <1>23, <1>24, <1>25, <1>26, <1>27,
     <1>28, <1>29
  DEF Next

LEMMA UndisturbedStep == IInv /\ [Next]_vars => Undisturbed'
<1> SUFFICES ASSUME IInv, [Next]_vars PROVE Undisturbed'
  OBVIOUS
<1> USE DEF IInv, TypeOK, server, state, Join, Callers, Stages, Undisturbed
<1>1. CASE \E s \in Sessions : Exits(s)
  BY <1>1 DEF Exits, Advance, Settle, Removing, Waiting, Clean
<1>2. CASE \E s \in Sessions : CloseFails(s)
  BY <1>2 DEF CloseFails, Advance, Settle, Waiting
<1>3. CASE \E s \in Sessions : Cleaned(s)
  BY <1>3 DEF Cleaned, Advance, Settle
<1>4. CASE \E s \in Sessions : CleanFails(s)
  BY <1>4 DEF CleanFails, Advance, Settle
<1>5. CASE \E s \in Sessions : Spawn(s)
  BY <1>5 DEF Spawn, Overlays, Finally, Settle, Removing, StartHarness, Clean
<1>6. CASE \E s \in Sessions : SpawnFails(s)
  BY <1>6 DEF SpawnFails, Finally, Settle, Removing, Clean
<1>7. CASE \E s \in Sessions : TurnEnds(s)
  BY <1>7 DEF TurnEnds, Finally, Settle, Removing, Clean
<1>8. CASE \E s \in Sessions : Refuses(s)
  BY <1>8 DEF Refuses
<1>9. CASE \E s \in Sessions : Accepts(s)
  BY <1>9 DEF Accepts, Begins, BeginsNot, CancelFrom, Settle, Removing, Called, CloseHarness, Clean
<1>10. CASE \E s \in Sessions : HangsUp(s)
  BY <1>10 DEF HangsUp, CancelFrom, Settle, Removing, Called, CloseHarness, Clean
<1>11. CASE \E s \in Sessions : Delivers(s)
  BY <1>11 DEF Delivers
<1>12. CASE \E s \in Sessions : Leaves(s)
  BY <1>12 DEF Leaves, CancelFrom, Settle, Removing, Called, CloseHarness, Clean
<1>13. CASE \E s \in Sessions : LoopEnds(s)
  BY <1>13 DEF LoopEnds, Settle, Released
<1>14. CASE \E s \in Sessions : LoopThrows(s)
  BY <1>14 DEF LoopThrows, CancelFrom, Settle, Removing, Released, Called, CloseHarness, Clean
<1>15. CASE \E s \in Sessions : CatchEnds(s)
  BY <1>15 DEF CatchEnds
<1>16. CASE \E s \in Sessions : Prepares(s)
  BY <1>16 DEF Prepares, Disposable, Destroy, CancelFrom, Settle, Removing, Called, CloseHarness, Clean
<1>17. CASE \E s \in Sessions : EvictionFails(s)
  BY <1>17 DEF EvictionFails
<1>18. CASE \E s \in Sessions : Created(s)
  BY <1>18 DEF Created
<1>19. CASE \E s \in Sessions : CreateFails(s)
  BY <1>19 DEF CreateFails
<1>20. CASE \E s \in Sessions : Sends(s)
  BY <1>20 DEF Sends
<1>21. CASE \E s \in Sessions : GivesUp(s)
  BY <1>21 DEF GivesUp
<1>22. CASE \E s \in Sessions : Cancels(s)
  BY <1>22 DEF Cancels, CancelFrom, Settle, Removing, Called, CloseHarness, Clean
<1>23. CASE \E s \in Sessions : CancelAnswered(s)
  BY <1>23 DEF CancelAnswered
<1>24. CASE \E s \in Sessions : ForceStop(s)
  BY <1>24 DEF ForceStop, NewServer
<1>25. CASE \E s \in Sessions : Destroys(s)
  BY <1>25 DEF Destroys, Destroy, CancelFrom, Settle, Removing, Called, CloseHarness, Clean
<1>26. CASE \E s \in Sessions : DestroyFails(s)
  BY <1>26 DEF DestroyFails
<1>27. CASE DeleteBegins
  BY <1>27 DEF DeleteBegins
<1>28. CASE DeleteEnds
  BY <1>28 DEF DeleteEnds
<1>29. CASE UNCHANGED vars
  BY <1>29 DEF vars
<1> QED
  BY <1>1, <1>2, <1>3, <1>4, <1>5, <1>6, <1>7, <1>8, <1>9, <1>10, <1>11, <1>12, <1>13, <1>14,
     <1>15, <1>16, <1>17, <1>18, <1>19, <1>20, <1>21, <1>22, <1>23, <1>24, <1>25, <1>26, <1>27,
     <1>28, <1>29
  DEF Next

LEMMA EvictStep ==
  IInv /\ [Next]_vars => \A s \in active : cancels[s]["destroy"] = "idle" => cancels'[s]["destroy"] = "idle"
<1> SUFFICES ASSUME IInv, [Next]_vars
             PROVE \A s \in active : cancels[s]["destroy"] = "idle" => cancels'[s]["destroy"] = "idle"
  OBVIOUS
<1> USE DEF IInv, TypeOK, server, state, Join, Callers, Stages, Undisturbed
<1>1. CASE \E s \in Sessions : Exits(s)
  BY <1>1 DEF Exits, Advance, Settle, Removing, Waiting, Clean
<1>2. CASE \E s \in Sessions : CloseFails(s)
  BY <1>2 DEF CloseFails, Advance, Settle, Waiting
<1>3. CASE \E s \in Sessions : Cleaned(s)
  BY <1>3 DEF Cleaned, Advance, Settle
<1>4. CASE \E s \in Sessions : CleanFails(s)
  BY <1>4 DEF CleanFails, Advance, Settle
<1>5. CASE \E s \in Sessions : Spawn(s)
  <2>1. PICK s \in Sessions : Spawn(s)
    BY <1>5
  <2>2. (\E o \in Overlays(s) : Finally(s, o)) \/ UNCHANGED cancels
    BY <2>1 DEF Spawn, StartHarness
  <2> QED
    BY <2>2 DEF Finally, Settle
<1>6. CASE \E s \in Sessions : SpawnFails(s)
  BY <1>6 DEF SpawnFails, Finally, Settle, Removing, Clean
<1>7. CASE \E s \in Sessions : TurnEnds(s)
  BY <1>7 DEF TurnEnds, Finally, Settle, Removing, Clean
<1>8. CASE \E s \in Sessions : Refuses(s)
  BY <1>8 DEF Refuses
<1>9. CASE \E s \in Sessions : Accepts(s)
  <2>1. PICK s \in Sessions : s \notin active /\ (Begins(s) \/ BeginsNot(s))
    BY <1>9 DEF Accepts
  <2>2. CASE Begins(s)
    BY <2>2 DEF Begins
  <2>3. CASE BeginsNot(s)
    <3>1. \A t \in Sessions \ {s} : cancels'[t] = cancels[t]
      BY <2>3 DEF BeginsNot, CancelFrom, Settle
    <3> QED
      BY <2>1, <3>1
  <2> QED
    BY <2>1, <2>2, <2>3
<1>10. CASE \E s \in Sessions : HangsUp(s)
  BY <1>10 DEF HangsUp, CancelFrom, Settle, Removing, Called, CloseHarness, Clean
<1>11. CASE \E s \in Sessions : Delivers(s)
  BY <1>11 DEF Delivers
<1>12. CASE \E s \in Sessions : Leaves(s)
  BY <1>12 DEF Leaves, CancelFrom, Settle, Removing, Called, CloseHarness, Clean
<1>13. CASE \E s \in Sessions : LoopEnds(s)
  BY <1>13 DEF LoopEnds, Settle, Released
<1>14. CASE \E s \in Sessions : LoopThrows(s)
  BY <1>14 DEF LoopThrows, CancelFrom, Settle, Removing, Released, Called, CloseHarness, Clean
<1>15. CASE \E s \in Sessions : CatchEnds(s)
  BY <1>15 DEF CatchEnds
<1>16. CASE \E s \in Sessions : Prepares(s)
  <2>1. UNCHANGED cancels \/ \E d \in Sessions \ active : Destroy(d)
    BY <1>16 DEF Prepares, Disposable
  <2>2. ASSUME NEW d \in Sessions \ active, Destroy(d)
        PROVE  \A t \in Sessions \ {d} : cancels'[t] = cancels[t]
    BY <2>2 DEF Destroy, CancelFrom, Settle
  <2> QED
    BY <2>1, <2>2
<1>17. CASE \E s \in Sessions : EvictionFails(s)
  BY <1>17 DEF EvictionFails
<1>18. CASE \E s \in Sessions : Created(s)
  BY <1>18 DEF Created
<1>19. CASE \E s \in Sessions : CreateFails(s)
  BY <1>19 DEF CreateFails
<1>20. CASE \E s \in Sessions : Sends(s)
  BY <1>20 DEF Sends
<1>21. CASE \E s \in Sessions : GivesUp(s)
  BY <1>21 DEF GivesUp
<1>22. CASE \E s \in Sessions : Cancels(s)
  BY <1>22 DEF Cancels, CancelFrom, Settle, Removing, Called, CloseHarness, Clean
<1>23. CASE \E s \in Sessions : CancelAnswered(s)
  BY <1>23 DEF CancelAnswered
<1>24. CASE \E s \in Sessions : ForceStop(s)
  BY <1>24 DEF ForceStop, NewServer
<1>25. CASE \E s \in Sessions : Destroys(s)
  BY <1>25 DEF Destroys, Destroy, CancelFrom, Settle, Removing, Called, CloseHarness, Clean
<1>26. CASE \E s \in Sessions : DestroyFails(s)
  BY <1>26 DEF DestroyFails
<1>27. CASE DeleteBegins
  BY <1>27 DEF DeleteBegins
<1>28. CASE DeleteEnds
  BY <1>28 DEF DeleteEnds
<1>29. CASE UNCHANGED vars
  BY <1>29 DEF vars
<1> QED
  BY <1>1, <1>2, <1>3, <1>4, <1>5, <1>6, <1>7, <1>8, <1>9, <1>10, <1>11, <1>12, <1>13, <1>14,
     <1>15, <1>16, <1>17, <1>18, <1>19, <1>20, <1>21, <1>22, <1>23, <1>24, <1>25, <1>26, <1>27,
     <1>28, <1>29
  DEF Next

\* The invariant holds in every reachable state.
THEOREM ServerInvariant == Spec => []IInv
<1>1. IInv /\ [Next]_vars => IInv'
  BY TypeStep, SubprocessStep, AttendStep, TruthStep, UndisturbedStep DEF IInv
<1> QED
  BY InitInv, <1>1, PTL DEF Spec

\* Type correctness; the set of active sessions is that of the operations.
THEOREM ServerTypeCorrect == Spec => []TypeOK
<1>1. IInv => TypeOK
  BY DEF IInv
<1> QED
  BY <1>1, ServerInvariant, PTL

\* When the manager lets go of a session, the subprocess of the run has exited,
\* and the removal of its overlay has ended, well or not, or is under way.
THEOREM ReleasedRunsAreOver == Spec => []OverMeansOver
<1>1. IInv => OverMeansOver
  BY DEF IInv, Subprocess, Truthful, Over, OverMeansOver
<1> QED
  BY <1>1, ServerInvariant, PTL

\* A run gets a subprocess only when no earlier one of its session is left.
THEOREM RunsStartAlone == Spec => []OneSubprocess
<1>1. IInv => OneSubprocess
  BY DEF IInv, Subprocess, OneSubprocess
<1> QED
  BY <1>1, ServerInvariant, PTL

\* Neither an eviction nor the deletion of the workspace cancels a run that
\* the server works on.
THEOREM EvictionsSpareActiveRuns == Spec => EvictsOnlyIdle
<1>1. IInv /\ [Next]_vars =>
        [\A s \in active : cancels[s]["destroy"] = "idle" => cancels'[s]["destroy"] = "idle"]_vars
  BY EvictStep
<1> QED
  BY <1>1, ServerInvariant, PTL DEF Spec, EvictsOnlyIdle

-----------------------------------------------------------------------------
(***************************************************************************)
(* The slots.  A step of the server leaves the slots of all sessions but   *)
(* one alone; that one stays, ends, or goes from starting to running,      *)
(* except where a run is accepted or the container is stopped.             *)
(***************************************************************************)
Moves(s) ==
  /\ \A t \in Sessions \ {s} : execution'[t] = execution[t] /\ harness'[t] = harness[t]
  /\ \/ Slot(s)' = Slot(s)
     \/ Slot(s)' = "over"
     \/ Slot(s) = "starting" /\ Slot(s)' = "running"

LEMMA SlotFunction ==
  ASSUME NEW s \in Sessions,
         \A t \in Sessions \ {s} : execution'[t] = execution[t] /\ harness'[t] = harness[t]
  PROVE  [t \in Sessions |-> Slot(t)'] = [[t \in Sessions |-> Slot(t)] EXCEPT ![s] = Slot(s)']
<1>1. \A t \in Sessions \ {s} : Slot(t)' = Slot(t)
  BY DEF Slot
<1> QED
  BY <1>1

LEMMA MoveStep ==
  ASSUME NEW s \in Sessions, Moves(s), UNCHANGED <<client, strays>>
  PROVE  [Slots!Next]_Slots!slotVars
<1>1. [t \in Sessions |-> Slot(t)'] = [[t \in Sessions |-> Slot(t)] EXCEPT ![s] = Slot(s)']
  BY SlotFunction DEF Moves
<1>2. Held' = Held
  BY DEF Held
<1>3. CASE Slot(s)' = Slot(s)
  <2>1. [t \in Sessions |-> Slot(t)'] = [t \in Sessions |-> Slot(t)]
    BY <1>1, <1>3
  <2> QED
    BY <1>2, <2>1 DEF Slots!slotVars
<1>4. CASE Slot(s) # "over" /\ Slot(s)' = "over"
  BY <1>1, <1>2, <1>4 DEF Slots!Next, Slots!Ends
<1>5. CASE Slot(s) = "starting" /\ Slot(s)' = "running"
  BY <1>1, <1>2, <1>5 DEF Slots!Next, Slots!Goes
<1> QED
  BY <1>3, <1>4, <1>5 DEF Moves

\* The steps that begin no run and end no claim.
LEMMA StillSlots ==
  ASSUME \A t \in Sessions : execution'[t] = execution[t] /\ harness'[t] = harness[t],
         Held' = Held, UNCHANGED strays
  PROVE  [Slots!Next]_Slots!slotVars
<1>1. [t \in Sessions |-> Slot(t)'] = [t \in Sessions |-> Slot(t)]
  BY DEF Slot
<1> QED
  BY <1>1 DEF Slots!slotVars

\* The manager lets go of a session on which nothing runs.
LEMMA LetGoStep ==
  ASSUME NEW s \in Sessions, s \in Held, Held' = Held \ {s}, s \in strays \/ Over(s),
         UNCHANGED <<execution, harness, strays>>
  PROVE  [Slots!Next]_Slots!slotVars
<1>1. [t \in Sessions |-> Slot(t)'] = [t \in Sessions |-> Slot(t)]
  BY DEF Slot
<1>2. s \in strays \/ Slot(s) = "over"
  BY DEF Over, Slot
<1>3. Slots!LetsGo(s)
  BY <1>1, <1>2 DEF Slots!LetsGo
<1> QED
  BY <1>3 DEF Slots!Next

LEMMA AcceptSlots ==
  ASSUME IInv, NEW s \in Sessions, Accepts(s)
  PROVE  [Slots!Next]_Slots!slotVars
<1> USE DEF IInv, TypeOK
<1>1. harness' = harness /\ Held' = Held
  BY DEF Accepts, Held, Attends
<1>2. \A t \in Sessions \ {s} : execution'[t] = execution[t] /\ harness'[t] = harness[t]
  BY <1>1 DEF Accepts, Begins, BeginsNot, CancelFrom, Settle
<1>3. [t \in Sessions |-> Slot(t)'] = [[t \in Sessions |-> Slot(t)] EXCEPT ![s] = Slot(s)']
  BY <1>2, SlotFunction
<1>4. (Slot(s) = "over" /\ Slot(s)' = "starting") \/ Slot(s)' = Slot(s)
  <2>1. CASE Begins(s)
    <3>1. harness[s] = "none" /\ execution[s] = "none" /\ execution'[s] = "prepare"
      BY <2>1 DEF Begins, Subprocess
    <3> QED
      BY <3>1 DEF Slot
  <2>2. CASE BeginsNot(s)
    BY <1>1, <2>2 DEF BeginsNot, CancelFrom, Settle, Slot
  <2> QED
    BY <2>1, <2>2 DEF Accepts
<1>5. CASE request[s] = "open"
  <2>1. s \in Held /\ strays' = strays
    BY <1>5 DEF Accepts, Attends, Held
  <2>2. CASE Slot(s)' = Slot(s)
    <3>1. [t \in Sessions |-> Slot(t)'] = [t \in Sessions |-> Slot(t)]
      BY <1>3, <2>2
    <3> QED
      BY <1>1, <2>1, <3>1 DEF Slots!slotVars
  <2>3. CASE Slot(s) = "over" /\ Slot(s)' = "starting"
    BY <1>1, <1>3, <2>1, <2>3 DEF Slots!Next, Slots!StartsInTime, Slots!Starts
  <2> QED
    BY <1>4, <2>2, <2>3
<1>6. CASE request[s] # "open"
  <2>1. strays' = strays \cup {s}
    BY <1>6 DEF Accepts
  <2>2. CASE Slot(s)' = Slot(s)
    <3>1. [t \in Sessions |-> Slot(t)'] = [t \in Sessions |-> Slot(t)]
      BY <1>3, <2>2
    <3> QED
      BY <1>1, <2>1, <3>1 DEF Slots!Next, Slots!ComesLate
  <2>3. CASE Slot(s) = "over" /\ Slot(s)' = "starting"
    BY <1>1, <1>3, <2>1, <2>3 DEF Slots!Next, Slots!ComesLate, Slots!Starts
  <2> QED
    BY <1>4, <2>2, <2>3
<1> QED
  BY <1>5, <1>6

LEMMA StopSlots ==
  ASSUME IInv, NEW s \in Sessions, ForceStop(s)
  PROVE  [Slots!Next]_Slots!slotVars
<1>1. s \in Held /\ \E told \in SUBSET Held : Held' = Held \ (told \cup {s})
  <2>1. PICK told \in SUBSET {t \in Sessions : client[t] \in {"streaming", "cancelling"}} :
          client' = [t \in Sessions |->
            IF t = s \/ t \in told THEN "idle"
            ELSE CASE client[t] \in {"sent", "streaming"} -> "cancelling"
                   [] client[t] \in {"evicting", "creating"} -> "idle"
                   [] OTHER -> client[t]]
    BY DEF ForceStop
  <2>2. told \in SUBSET Held
    BY DEF Held
  <2>3. Held' = Held \ (told \cup {s})
    BY <2>1 DEF IInv, TypeOK, Held
  <2>4. s \in Held
    BY DEF ForceStop, Held
  <2> QED
    BY <2>2, <2>3, <2>4
<1>2. [t \in Sessions |-> Slot(t)'] = [t \in Sessions |-> "over"]
  BY DEF ForceStop, NewServer, Slot
<1>3. Slots!Stops(s)
  BY <1>1, <1>2 DEF ForceStop, Slots!Stops
<1> QED
  BY <1>3 DEF Slots!Next

LEMMA DestroySlots ==
  ASSUME IInv, NEW d \in Sessions, Destroy(d)
  PROVE  \A t \in Sessions : Slot(t)' = Slot(t)
<1> USE DEF IInv, TypeOK
<1>1. harness' = harness
  BY DEF Destroy
<1>2. CASE Called(d, execution[d]) = "ok"
  <2>1. Over(d)
    BY <1>2 DEF Called, CloseHarness, Clean, Join, Subprocess, Over
  <2>2. execution' = [execution EXCEPT ![d] = "none"]
    BY <1>2 DEF Destroy
  <2> QED
    BY <1>1, <2>1, <2>2 DEF Slot, Over
<1>3. CASE Called(d, execution[d]) # "ok"
  BY <1>1, <1>3 DEF Destroy, CancelFrom, Settle, Slot
<1> QED
  BY <1>2, <1>3

LEMMA SlotStep == IInv /\ [Next]_vars => [Slots!Next]_Slots!slotVars
<1> SUFFICES ASSUME IInv, [Next]_vars PROVE [Slots!Next]_Slots!slotVars
  OBVIOUS
<1> USE DEF IInv, TypeOK, server, state
<1>1. ASSUME NEW s \in Sessions, Exits(s) PROVE [Slots!Next]_Slots!slotVars
  <2>1. harness[s] # "none" /\ execution[s] \notin {"none", "prepare", "clean", "ended"}
    BY <1>1 DEF Exits, Subprocess
  <2>2. execution'[s] \in {execution[s], "ended", "clean", "failed"}
    BY <1>1 DEF Exits, Advance, Settle, Clean
  <2>3. Moves(s)
    BY <1>1, <2>1, <2>2 DEF Exits, Advance, Settle, Moves, Slot
  <2> QED
    BY <1>1, <2>3, MoveStep DEF Exits
<1>2. ASSUME NEW s \in Sessions, CloseFails(s) PROVE [Slots!Next]_Slots!slotVars
  <2>1. harness[s] # "none" /\ execution[s] \notin {"none", "prepare", "clean", "ended"}
    BY <1>2 DEF CloseFails, Subprocess
  <2>2. execution'[s] \in {execution[s], "failed"}
    BY <1>2 DEF CloseFails, Advance, Settle
  <2>3. Moves(s)
    BY <1>2, <2>1, <2>2 DEF CloseFails, Advance, Settle, Moves, Slot
  <2> QED
    BY <1>2, <2>3, MoveStep DEF CloseFails
<1>3. ASSUME NEW s \in Sessions, Cleaned(s) \/ CleanFails(s) PROVE [Slots!Next]_Slots!slotVars
  <2>1. /\ execution'[s] = execution[s] \/ (execution[s] = "clean" /\ execution'[s] \in {"ended", "failed"})
        /\ \A t \in Sessions \ {s} : execution'[t] = execution[t]
        /\ UNCHANGED <<harness, client, strays>>
    BY <1>3 DEF Cleaned, CleanFails, Advance, Settle
  <2>2. Moves(s)
    BY <2>1 DEF Moves, Slot, Subprocess
  <2> QED
    BY <2>1, <2>2, MoveStep
<1>4. ASSUME NEW s \in Sessions, Spawn(s) \/ SpawnFails(s) PROVE [Slots!Next]_Slots!slotVars
  <2>1. execution[s] = "prepare" /\ harness[s] = "none"
    BY <1>4 DEF Spawn, SpawnFails, Subprocess
  <2>2. \/ harness' = harness /\ (\E o \in {"none", "kept", "removing", "stuck"} : Finally(s, o))
        \/ \E o \in Overlays(s) : StartHarness(s, o)
    BY <1>4 DEF Spawn, SpawnFails, Overlays
  <2>3. Moves(s)
    <3>1. CASE harness' = harness /\ (\E o \in {"none", "kept", "removing", "stuck"} : Finally(s, o))
      <4>1. /\ execution'[s] \in {"clean", "failed", "ended"}
            /\ \A t \in Sessions \ {s} : execution'[t] = execution[t]
        BY <2>1, <3>1 DEF Finally, Settle, Clean
      <4> QED
        BY <2>1, <3>1, <4>1 DEF Moves, Slot
    <3>2. CASE \E o \in Overlays(s) : StartHarness(s, o)
      BY <2>1, <3>2 DEF StartHarness, Moves, Slot
    <3> QED
      BY <2>2, <3>1, <3>2
  <2> QED
    BY <1>4, <2>3, MoveStep DEF Spawn, SpawnFails
<1>5. ASSUME NEW s \in Sessions, TurnEnds(s) PROVE [Slots!Next]_Slots!slotVars
  <2>1. execution'[s] \in {"close", "clean", "failed", "ended"}
    BY <1>5 DEF TurnEnds, Finally, Settle, Clean
  <2>2. Moves(s)
    BY <1>5, <2>1 DEF TurnEnds, Finally, Settle, Moves, Slot
  <2> QED
    BY <1>5, <2>2, MoveStep DEF TurnEnds
<1>6. ASSUME NEW s \in Sessions, LoopEnds(s) \/ LoopThrows(s) PROVE [Slots!Next]_Slots!slotVars
  <2>1. /\ execution'[s] \in {execution[s], Released(s)}
        /\ \A t \in Sessions \ {s} : execution'[t] = execution[t]
        /\ UNCHANGED <<harness, client, strays>>
    BY <1>6 DEF LoopEnds, LoopThrows, Settle, CancelFrom
  <2>2. Moves(s)
    BY <2>1 DEF Released, Moves, Slot
  <2> QED
    BY <2>1, <2>2, MoveStep
<1>7. ASSUME NEW s \in Sessions, HangsUp(s) \/ Leaves(s) \/ Cancels(s) PROVE [Slots!Next]_Slots!slotVars
  <2>1. \A t \in Sessions : execution'[t] = execution[t] /\ harness'[t] = harness[t]
    BY <1>7 DEF HangsUp, Leaves, Cancels, CancelFrom, Settle
  <2> QED
    BY <1>7, <2>1, StillSlots DEF HangsUp, Leaves, Cancels, Held
<1>8. ASSUME NEW s \in Sessions, Prepares(s) \/ Destroys(s) PROVE [Slots!Next]_Slots!slotVars
  <2>1. (\E d \in Sessions : Destroy(d)) \/ UNCHANGED <<execution, harness>>
    BY <1>8 DEF Prepares, Destroys, Disposable
  <2>2. [t \in Sessions |-> Slot(t)'] = [t \in Sessions |-> Slot(t)]
    <3>1. CASE UNCHANGED <<execution, harness>>
      BY <3>1 DEF Slot
    <3>2. CASE \E d \in Sessions : Destroy(d)
      BY <3>2, DestroySlots
    <3> QED
      BY <2>1, <3>1, <3>2
  <2>3. Held' = Held /\ strays' = strays
    BY <1>8 DEF Prepares, Destroys, Held
  <2> QED
    BY <2>2, <2>3 DEF Slots!slotVars
<1>9. ASSUME NEW s \in Sessions, Sends(s) PROVE [Slots!Next]_Slots!slotVars
  <2>1. s \notin Held /\ Held' = Held \cup {s}
    BY <1>9 DEF Sends, Held
  <2>2. [t \in Sessions |-> Slot(t)'] = [t \in Sessions |-> Slot(t)] /\ strays' = strays
    BY <1>9 DEF Sends, Slot
  <2> QED
    BY <2>1, <2>2 DEF Slots!Next, Slots!Takes
<1>10. ASSUME NEW s \in Sessions, Delivers(s) \/ CatchEnds(s) \/ CancelAnswered(s)
       PROVE  [Slots!Next]_Slots!slotVars
  <2>1. UNCHANGED <<execution, harness, strays>>
    BY <1>10 DEF Delivers, CatchEnds, CancelAnswered
  <2>2. CASE client'[s] = "idle" /\ client[s] # "idle"
    <3>1. s \in Held /\ Held' = Held \ {s}
      BY <1>10, <2>2 DEF Delivers, CatchEnds, CancelAnswered, Attends, Held
    <3>2. s \in strays \/ Over(s)
      BY <1>10, <2>2 DEF Delivers, CatchEnds, CancelAnswered, Subprocess, Truthful, Over
    <3> QED
      BY <2>1, <3>1, <3>2, LetGoStep
  <2>3. CASE ~(client'[s] = "idle" /\ client[s] # "idle")
    <3>1. Held' = Held
      BY <1>10, <2>3 DEF Delivers, CatchEnds, CancelAnswered, Attends, Held
    <3> QED
      BY <2>1, <3>1, StillSlots
  <2> QED
    BY <2>2, <2>3
<1>11. ASSUME NEW s \in Sessions,
              \/ Refuses(s) \/ EvictionFails(s) \/ Created(s) \/ CreateFails(s) \/ GivesUp(s)
              \/ DestroyFails(s) \/ DeleteBegins \/ DeleteEnds
       PROVE  [Slots!Next]_Slots!slotVars
  <2>1. UNCHANGED <<execution, harness, strays>>
    BY <1>11 DEF Refuses, EvictionFails, Created, CreateFails, GivesUp, DestroyFails, DeleteBegins, DeleteEnds
  <2>2. Held' = Held
    BY <1>11 DEF Refuses, EvictionFails, Created, CreateFails, GivesUp, DestroyFails, DeleteBegins,
                 DeleteEnds, Attends, Held
  <2> QED
    BY <2>1, <2>2, StillSlots
<1>12. CASE UNCHANGED vars \/ DeleteBegins \/ DeleteEnds
  BY <1>12, StillSlots DEF vars, Held, DeleteBegins, DeleteEnds
<1> QED
  BY <1>1, <1>2, <1>3, <1>4, <1>5, <1>6, <1>7, <1>8, <1>9, <1>10, <1>11, <1>12, AcceptSlots, StopSlots
  DEF Next

\* The server and its adapter give what the manager relies on: a run starts only
\* in a slot that the manager has taken and in which nothing is left of an
\* earlier run, and the manager lets go of it only when the run is over.
THEOREM ServerImplementsSlots == Spec => ImplementsSlots
<1>1. Init => Slots!Init
  BY DEF Init, Slots!Init, Slot, Held
<1> QED
  BY <1>1, SlotStep, ServerInvariant, PTL DEF Spec, ImplementsSlots, Slots!Spec
===============================================================================
