----------------------- MODULE RuntimeLifecycle_proofs -----------------------
(***************************************************************************)
(* Theorems about RuntimeLifecycle, for any number of operations and       *)
(* conversations and any bound of lapses, deaths and crashes.              *)
(***************************************************************************)
EXTENDS RuntimeLifecycle, TLAPS

\* The row is ahead of the container that is made or started, and behind the
\* one that is removed.
Recorded ==
  /\ RemovedHasNoContainer
  /\ lock.at \in {"make", "start"} => row.status = "STARTING"
  /\ lock.at \in {"create", "make", "replaceRow", "removeRow"} => container = "absent"

\* Work that has been admitted shows in a mark or in the status of its
\* conversation, unless its mark expired under it.
Counted ==
  /\ \A s \in Sessions :
       phase[s] \in {"accepted", "ensuring", "ready", "failed", "working"} => s \in running
  /\ \A c \in Conns : phase[c] \in {"out", "working", "ended"}
  /\ \A c \in Conns : phase[c] = "working" => c \in marks \cup lapsed
  /\ \A w \in Work : phase[w] = "admitted" => w \in marks

\* Whom a handler works for.
Served ==
  /\ lock.at = "mark" => lock.op = "admit"
  /\ lock.op = "admit" => lock.work \in Work /\ phase[lock.work] = "out"
  /\ lock.op = "ensure" /\ lock.work # NoWork =>
       lock.work \in Sessions /\ phase[lock.work] = "ensuring"

Quiet == \A w \in Work : ~Protected(w) /\ phase[w] # "admitted"

\* From the decision to take the container to the Docker call there is no work
\* to protect: what was seen idle under the lock stays so until it is released.
Decided ==
  /\ lock.at \in {"stop", "removeStop", "removeDelete", "replaceStop"} /\ lock.op # "force" => Quiet
  /\ lock.at \in {"repair", "connect", "probe", "weigh"} /\ ~lock.busy => Quiet

Locks ==
  [at : {"free", "mark"} \cup EnsureSteps \cup StopSteps \cup RemoveSteps \cup ReapSteps,
   op : {"none", "admit", "ensure", "stop", "force", "remove", "reap"},
   work : Work \cup {NoWork}, up : BOOLEAN, busy : BOOLEAN, well : BOOLEAN, idle : BOOLEAN]

Statuses == {"none", "STARTING", "RUNNING", "IDLE", "STOPPED", "REMOVED", "ERROR"}
Rows == [status : Statuses, stopped : BOOLEAN]

IInv == TypeOK /\ Recorded /\ Counted /\ Served /\ Decided

LEMMA FreeTyped == Free \in Locks
BY DEF Free, Holder, Locks

LEMMA HolderTyped ==
  ASSUME TypeOK,
         NEW at \in {"mark", "inspect", "stopCheck", "stop", "removeCheck", "removeStop", "read"}
  PROVE  Holder(at, lock.op, lock.work) \in Locks
<1>1. lock.op \in {"none", "admit", "ensure", "stop", "force", "remove", "reap"}
      /\ lock.work \in Work \cup {NoWork}
  BY DEF TypeOK
<1>2. at \in {"free", "mark"} \cup EnsureSteps \cup StopSteps \cup RemoveSteps \cup ReapSteps
  BY DEF EnsureSteps, StopSteps, RemoveSteps, ReapSteps
<1> QED
  BY <1>1, <1>2 DEF Holder, Locks

LEMMA LockTyped ==
  ASSUME TypeOK, CheckActive \/ EnsureSucceeds \/ Reconcile \/ ReapDecide
  PROVE  lock' \in Locks
<1>1. lock' = Free \/ \E at \in {"mark", "inspect", "stopCheck", "stop", "removeCheck", "removeStop", "read"} :
                        lock' = Holder(at, lock.op, lock.work)
  BY DEF CheckActive, EnsureSucceeds, EnsureReturns, Reconcile, ReapDecide, Step, Unlock
<1> QED
  BY <1>1, HolderTyped, FreeTyped

LEMMA StatusTyped ==
  ASSUME TypeOK, NEW st \in Statuses, SetStatus(st)
  PROVE  row' \in Rows /\ removeDue' \in BOOLEAN
<1>1. row' \in Rows
  BY DEF TypeOK, SetStatus, Rows, Statuses
<1>2. removeDue' \in BOOLEAN
  BY DEF SetStatus
<1> QED
  BY <1>1, <1>2

LEMMA InitInv == Init => IInv
<1> SUFFICES ASSUME Init PROVE IInv
  OBVIOUS
<1> USE WorkAssumption, BoundAssumption DEF Init, Free, Holder
<1>1. TypeOK
  <2>1. lock \in Locks
    BY DEF Locks
  <2>2. /\ healthy \in BOOLEAN /\ failed \in BOOLEAN /\ current \in BOOLEAN
        /\ idleDue \in BOOLEAN /\ removeDue \in BOOLEAN
    OBVIOUS
  <2> QED
    BY <2>1, <2>2 DEF TypeOK, Locks, Work
<1>2. Recorded /\ Counted /\ Served /\ Decided
  BY DEF Recorded, RemovedHasNoContainer, Counted, Served, Decided, Work
<1> QED
  BY <1>1, <1>2 DEF IInv

\* One step for each action of Next.
LEMMA TypeStep == IInv /\ [Next]_vars => TypeOK'
<1> SUFFICES ASSUME IInv, [Next]_vars PROVE TypeOK'
  OBVIOUS
<1>a. CheckActive \/ EnsureSucceeds \/ Reconcile \/ ReapDecide => lock' \in Locks
  BY LockTyped DEF IInv
<1>b. \A st \in Statuses : SetStatus(st) => row' \in Rows /\ removeDue' \in BOOLEAN
  BY StatusTyped DEF IInv
<1> USE WorkAssumption, BoundAssumption 
     DEF IInv, docker, due, work, bounds, Free, Holder, Step, Unlock,
         TypeOK, Locks, EnsureSteps, StopSteps, RemoveSteps, ReapSteps, Work
<1>1. CASE \E w \in Work, ensure \in BOOLEAN : AdmitBegin(w, ensure)
  BY <1>1 DEF AdmitBegin
<1>2. CASE SetBusy
  <2>1. lock.work \in Work
    BY <1>2 DEF SetBusy, Served
  <2>2. idleDue' \in BOOLEAN
    BY <1>2 DEF SetBusy
  <2>3. phase' \in [Work -> {"out", "admitted", "accepted", "ensuring", "ready", "failed",
                             "working", "ended"}]
    BY <1>2, <2>1 DEF SetBusy
  <2>4. /\ lock' \in Locks /\ marks' \in SUBSET Work /\ lapsed' \in SUBSET Work
        /\ UNCHANGED <<container, healthy, wires, failed, current, row, removeDue, repairAfter, running,
                       lapses, deaths, crashes>>
    BY <1>2, <2>1 DEF SetBusy
  <2> QED
    BY <2>2, <2>3, <2>4
<1>3. CASE \E s \in Sessions : Accept(s)
  BY <1>3 DEF Accept
<1>4. CASE \E s \in Sessions : EnsureForRun(s)
  BY <1>4 DEF EnsureForRun
<1>5. CASE \E s \in Sessions : RunStarts(s)
  BY <1>5 DEF RunStarts, Answers
<1>6. CASE \E s \in Sessions : RunCloses(s)
  <2>1. idleDue' \in BOOLEAN
    BY <1>6 DEF RunCloses
  <2> QED
    BY <1>6, <2>1 DEF RunCloses
<1>7. CASE \E s \in Sessions : OrphanCloses(s)
  BY <1>7 DEF OrphanCloses
<1>8. CASE \E c \in Conns : OperationEnds(c)
  <2>1. idleDue' \in BOOLEAN
    BY <1>8 DEF OperationEnds
  <2> QED
    BY <1>8, <2>1 DEF OperationEnds
<1>9. CASE \E w \in Work : ClearBusy(w)
  BY <1>9 DEF ClearBusy
<1>10. CASE \E w \in Work : Heartbeat(w)
  <2>1. idleDue' \in BOOLEAN
    BY <1>10 DEF Heartbeat
  <2> QED
    BY <1>10, <2>1 DEF Heartbeat
<1>11. CASE Inspect
  <2>1. lock' \in Locks
    BY <1>11 DEF Inspect, Busy
  <2> QED
    BY <1>11, <2>1 DEF Inspect, Busy
<1>12. CASE RepairDisconnects
  BY <1>12 DEF RepairDisconnects
<1>13. CASE RepairConnects
  BY <1>13 DEF RepairConnects
<1>14. CASE Probe
  <2>1. lock' \in Locks
    BY <1>14 DEF Probe, Answers, RuntimeBusy
  <2> QED
    BY <1>14, <2>1 DEF Probe, Answers, RuntimeBusy
<1>15. CASE WeighReplace
  BY <1>15 DEF WeighReplace, NeedsReplacement
<1>16. CASE WeighStart
  BY <1>16 DEF WeighStart, NeedsReplacement
<1>17. CASE EnsureSucceeds
  <2>1. lock' \in Locks
    BY <1>17, <1>a
  <2>2. removeDue' \in BOOLEAN /\ idleDue' \in BOOLEAN
    BY <1>17 DEF EnsureSucceeds, SetStatus, Touched
  <2>3. phase' \in [Work -> {"out", "admitted", "accepted", "ensuring", "ready", "failed",
                             "working", "ended"}]
    BY <1>17 DEF EnsureSucceeds, EnsureReturns, Served
  <2>4. row'.status = "RUNNING" /\ row' = [status |-> "RUNNING", stopped |-> FALSE]
    BY <1>17 DEF EnsureSucceeds, SetStatus
  <2> QED
    BY <1>17, <2>1, <2>2, <2>3, <2>4 DEF EnsureSucceeds
<1>18. CASE ReplaceStop
  <2>1. healthy' \in BOOLEAN /\ failed' \in BOOLEAN
    BY <1>18 DEF ReplaceStop, Exits
  <2>2. lock' \in Locks
    BY <1>18 DEF ReplaceStop, Exits
  <2> QED
    BY <1>18, <2>1, <2>2 DEF ReplaceStop, Exits
<1>19. CASE ReplaceRemove
  <2>1. healthy' \in BOOLEAN /\ failed' \in BOOLEAN /\ current' \in BOOLEAN
    BY <1>19 DEF ReplaceRemove, Vanishes
  <2>2. lock' \in Locks
    BY <1>19 DEF ReplaceRemove, Vanishes
  <2> QED
    BY <1>19, <2>1, <2>2 DEF ReplaceRemove, Vanishes
<1>20. CASE ReplaceRow
  BY <1>20 DEF ReplaceRow, SetStatus
<1>21. CASE Create
  BY <1>21 DEF Create, SetStatus, Touched
<1>22. CASE Make
  <2>1. healthy' \in BOOLEAN /\ failed' \in BOOLEAN /\ current' \in BOOLEAN
    BY <1>22 DEF Make
  <2>2. lock' \in Locks
    BY <1>22 DEF Make
  <2> QED
    BY <1>22, <2>1, <2>2 DEF Make
<1>23. CASE Starting
  BY <1>23 DEF Starting, SetStatus, Touched
<1>24. CASE Start
  <2>1. healthy' \in BOOLEAN
    BY <1>24 DEF Start
  <2>2. lock' \in Locks
    BY <1>24 DEF Start
  <2> QED
    BY <1>24, <2>1, <2>2 DEF Start
<1>25. CASE CheckActive
  <2>1. lock' \in Locks
    BY <1>25, <1>a
  <2> QED
    BY <1>25, <2>1 DEF CheckActive
<1>26. CASE DockerStop
  <2>1. healthy' \in BOOLEAN /\ failed' \in BOOLEAN
    BY <1>26 DEF DockerStop, Exits
  <2>2. lock' \in Locks
    BY <1>26 DEF DockerStop, Exits
  <2> QED
    BY <1>26, <2>1, <2>2 DEF DockerStop, Exits
<1>27. CASE StopRow
  BY <1>27 DEF StopRow, SetStatus
<1>28. CASE RemoveDelete
  <2>1. healthy' \in BOOLEAN /\ failed' \in BOOLEAN /\ current' \in BOOLEAN
    BY <1>28 DEF RemoveDelete, Vanishes
  <2>2. lock' \in Locks
    BY <1>28 DEF RemoveDelete, Vanishes
  <2> QED
    BY <1>28, <2>1, <2>2 DEF RemoveDelete, Vanishes
<1>29. CASE RemoveRow
  BY <1>29 DEF RemoveRow, SetStatus
<1>30. CASE Reconcile
  <2>1. lock' \in Locks
    BY <1>30, <1>a
  <2> QED
    BY <1>30, <2>1 DEF Reconcile
<1>31. CASE ReapRead
  <2>1. lock' \in Locks
    BY <1>31 DEF ReapRead
  <2> QED
    BY <1>31, <2>1 DEF ReapRead
<1>32. CASE ReapDecide
  <2>1. lock' \in Locks
    BY <1>32, <1>a
  <2>2. UNCHANGED <<row, removeDue>> \/ \E st \in {"REMOVED", "STOPPED", "IDLE"} : SetStatus(st)
    BY <1>32 DEF ReapDecide, KeepStatus
  <2>3. row' \in Rows /\ removeDue' \in BOOLEAN
    BY <2>2, <1>b DEF Rows, Statuses
  <2> QED
    BY <1>32, <2>1, <2>3 DEF ReapDecide, Rows, Statuses
<1>33. CASE EnsureBegin
  BY <1>33 DEF EnsureBegin
<1>34. CASE StopBegin
  BY <1>34 DEF StopBegin
<1>35. CASE ForceStopBegin
  BY <1>35 DEF ForceStopBegin
<1>36. CASE RemoveBegin
  BY <1>36 DEF RemoveBegin
<1>37. CASE ReapBegin
  BY <1>37 DEF ReapBegin
<1>38. CASE StatusQuery
  <2>1. \/ UNCHANGED <<row, removeDue>>
        \/ \E st \in {"REMOVED", "STOPPED", "ERROR", "RUNNING", "IDLE"} : SetStatus(st)
        \/ UNCHANGED removeDue /\ \E st \in {"RUNNING", "IDLE"} : row' = [row EXCEPT !.status = st]
    BY <1>38 DEF StatusQuery, KeepStatus, StoppedStatus
  <2>2. row' \in Rows /\ removeDue' \in BOOLEAN
    BY <2>1, StatusTyped DEF Rows, Statuses
  <2>3. idleDue' \in BOOLEAN
    BY <1>38 DEF StatusQuery
  <2> QED
    BY <1>38, <2>2, <2>3 DEF StatusQuery, Rows, Statuses
<1>39. CASE TouchRuntime
  <2>1. idleDue' \in BOOLEAN
    BY <1>39 DEF TouchRuntime
  <2> QED
    BY <1>39, <2>1 DEF TouchRuntime
<1>40. CASE EnsureFails
  BY <1>40 DEF EnsureFails, SetStatus, KeepStatus
<1>41. CASE HandlerFails
  BY <1>41 DEF HandlerFails
<1>42. CASE IdleElapses
  BY <1>42 DEF IdleElapses
<1>43. CASE RemoveElapses
  BY <1>43 DEF RemoveElapses
<1>44. CASE CooldownEnds
  BY <1>44 DEF CooldownEnds
<1>45. CASE \E w \in Work : MarkExpires(w)
  BY <1>45 DEF MarkExpires
<1>46. CASE HealthChanges
  BY <1>46 DEF HealthChanges
<1>47. CASE ContainerDies
  <2>1. healthy' \in BOOLEAN /\ failed' \in BOOLEAN
    BY <1>47 DEF ContainerDies, Exits
  <2> QED
    BY <1>47, <2>1 DEF ContainerDies, Exits
<1>48. CASE NetworkLost
  BY <1>48 DEF NetworkLost
<1>49. CASE Crash
  <2>1. current' \in BOOLEAN
    BY <1>49 DEF Crash
  <2> QED
    BY <1>49, <2>1 DEF Crash
<1>50. CASE UNCHANGED vars
  BY <1>50 DEF vars
<1> QED
  BY <1>1, <1>2, <1>3, <1>4, <1>5, <1>6, <1>7, <1>8, <1>9, <1>10, <1>11, <1>12,
     <1>13, <1>14, <1>15, <1>16, <1>17, <1>18, <1>19, <1>20, <1>21, <1>22, <1>23, <1>24,
     <1>25, <1>26, <1>27, <1>28, <1>29, <1>30, <1>31, <1>32, <1>33, <1>34, <1>35, <1>36,
     <1>37, <1>38, <1>39, <1>40, <1>41, <1>42, <1>43, <1>44, <1>45, <1>46, <1>47, <1>48,
     <1>49, <1>50
  DEF Next, Admission, Ensure, Recycle, Request, Environment

LEMMA RecordedStep == IInv /\ [Next]_vars => Recorded'
<1> SUFFICES ASSUME IInv, [Next]_vars PROVE Recorded'
  OBVIOUS
<1> USE 
     DEF IInv, docker, due, work, bounds, Free, Holder, Step, Unlock,
         TypeOK, Recorded, RemovedHasNoContainer
<1>1. CASE \E w \in Work, ensure \in BOOLEAN : AdmitBegin(w, ensure)
  BY <1>1 DEF AdmitBegin
<1>2. CASE SetBusy
  BY <1>2 DEF SetBusy
<1>3. CASE \E s \in Sessions : Accept(s)
  BY <1>3 DEF Accept
<1>4. CASE \E s \in Sessions : EnsureForRun(s)
  BY <1>4 DEF EnsureForRun
<1>5. CASE \E s \in Sessions : RunStarts(s)
  BY <1>5 DEF RunStarts, Answers
<1>6. CASE \E s \in Sessions : RunCloses(s)
  BY <1>6 DEF RunCloses
<1>7. CASE \E s \in Sessions : OrphanCloses(s)
  BY <1>7 DEF OrphanCloses
<1>8. CASE \E c \in Conns : OperationEnds(c)
  BY <1>8 DEF OperationEnds
<1>9. CASE \E w \in Work : ClearBusy(w)
  BY <1>9 DEF ClearBusy
<1>10. CASE \E w \in Work : Heartbeat(w)
  BY <1>10 DEF Heartbeat
<1>11. CASE Inspect
  BY <1>11 DEF Inspect, Busy
<1>12. CASE RepairDisconnects
  BY <1>12 DEF RepairDisconnects
<1>13. CASE RepairConnects
  BY <1>13 DEF RepairConnects
<1>14. CASE Probe
  BY <1>14 DEF Probe, Answers, RuntimeBusy
<1>15. CASE WeighReplace
  BY <1>15 DEF WeighReplace, NeedsReplacement
<1>16. CASE WeighStart
  BY <1>16 DEF WeighStart, NeedsReplacement
<1>17. CASE EnsureSucceeds
  BY <1>17 DEF EnsureSucceeds, EnsureReturns, SetStatus, Touched
<1>18. CASE ReplaceStop
  BY <1>18 DEF ReplaceStop, Exits
<1>19. CASE ReplaceRemove
  BY <1>19 DEF ReplaceRemove, Vanishes
<1>20. CASE ReplaceRow
  BY <1>20 DEF ReplaceRow, SetStatus
<1>21. CASE Create
  BY <1>21 DEF Create, SetStatus, Touched
<1>22. CASE Make
  BY <1>22 DEF Make
<1>23. CASE Starting
  BY <1>23 DEF Starting, SetStatus, Touched
<1>24. CASE Start
  BY <1>24 DEF Start
<1>25. CASE CheckActive
  BY <1>25 DEF CheckActive, Busy
<1>26. CASE DockerStop
  BY <1>26 DEF DockerStop, Exits
<1>27. CASE StopRow
  BY <1>27 DEF StopRow, SetStatus
<1>28. CASE RemoveDelete
  BY <1>28 DEF RemoveDelete, Vanishes
<1>29. CASE RemoveRow
  BY <1>29 DEF RemoveRow, SetStatus
<1>30. CASE Reconcile
  BY <1>30 DEF Reconcile
<1>31. CASE ReapRead
  BY <1>31 DEF ReapRead
<1>32. CASE ReapDecide
  BY <1>32 DEF ReapDecide, SetStatus, KeepStatus
<1>33. CASE EnsureBegin
  BY <1>33 DEF EnsureBegin
<1>34. CASE StopBegin
  BY <1>34 DEF StopBegin
<1>35. CASE ForceStopBegin
  BY <1>35 DEF ForceStopBegin
<1>36. CASE RemoveBegin
  BY <1>36 DEF RemoveBegin
<1>37. CASE ReapBegin
  BY <1>37 DEF ReapBegin
<1>38. CASE StatusQuery
  <2>1. \/ UNCHANGED <<row, removeDue>>
        \/ container = "absent"
        \/ \E st \in {"STOPPED", "ERROR", "RUNNING", "IDLE"} :
              SetStatus(st) \/ row' = [row EXCEPT !.status = st]
    BY <1>38 DEF StatusQuery, KeepStatus, StoppedStatus
  <2>2. \/ row' = row
        \/ container = "absent"
        \/ row'.status \in {"STOPPED", "ERROR", "RUNNING", "IDLE"}
    BY <2>1 DEF SetStatus
  <2>3. UNCHANGED <<container, lock>> /\ lock.at = "free"
    BY <1>38 DEF StatusQuery
  <2> QED
    BY <2>3, <2>2
<1>39. CASE TouchRuntime
  BY <1>39 DEF TouchRuntime
<1>40. CASE EnsureFails
  BY <1>40 DEF EnsureFails, SetStatus, KeepStatus, EnsureSteps
<1>41. CASE HandlerFails
  BY <1>41 DEF HandlerFails, StopSteps, RemoveSteps, ReapSteps
<1>42. CASE IdleElapses
  BY <1>42 DEF IdleElapses
<1>43. CASE RemoveElapses
  BY <1>43 DEF RemoveElapses
<1>44. CASE CooldownEnds
  BY <1>44 DEF CooldownEnds
<1>45. CASE \E w \in Work : MarkExpires(w)
  BY <1>45 DEF MarkExpires
<1>46. CASE HealthChanges
  BY <1>46 DEF HealthChanges
<1>47. CASE ContainerDies
  BY <1>47 DEF ContainerDies, Exits
<1>48. CASE NetworkLost
  BY <1>48 DEF NetworkLost
<1>49. CASE Crash
  BY <1>49 DEF Crash
<1>50. CASE UNCHANGED vars
  BY <1>50 DEF vars
<1> QED
  BY <1>1, <1>2, <1>3, <1>4, <1>5, <1>6, <1>7, <1>8, <1>9, <1>10, <1>11, <1>12,
     <1>13, <1>14, <1>15, <1>16, <1>17, <1>18, <1>19, <1>20, <1>21, <1>22, <1>23, <1>24,
     <1>25, <1>26, <1>27, <1>28, <1>29, <1>30, <1>31, <1>32, <1>33, <1>34, <1>35, <1>36,
     <1>37, <1>38, <1>39, <1>40, <1>41, <1>42, <1>43, <1>44, <1>45, <1>46, <1>47, <1>48,
     <1>49, <1>50
  DEF Next, Admission, Ensure, Recycle, Request, Environment

LEMMA CountedStep == IInv /\ [Next]_vars => Counted'
<1> SUFFICES ASSUME IInv, [Next]_vars PROVE Counted'
  OBVIOUS
<1> USE WorkAssumption 
     DEF IInv, docker, due, work, bounds, Free, Holder, Step, Unlock,
         TypeOK, Counted, Work
<1>1. CASE \E w \in Work, ensure \in BOOLEAN : AdmitBegin(w, ensure)
  BY <1>1 DEF AdmitBegin
<1>2. CASE SetBusy
  BY <1>2 DEF SetBusy, Served
<1>3. CASE \E s \in Sessions : Accept(s)
  BY <1>3 DEF Accept
<1>4. CASE \E s \in Sessions : EnsureForRun(s)
  BY <1>4 DEF EnsureForRun
<1>5. CASE \E s \in Sessions : RunStarts(s)
  BY <1>5 DEF RunStarts, Answers
<1>6. CASE \E s \in Sessions : RunCloses(s)
  BY <1>6 DEF RunCloses
<1>7. CASE \E s \in Sessions : OrphanCloses(s)
  BY <1>7 DEF OrphanCloses
<1>8. CASE \E c \in Conns : OperationEnds(c)
  BY <1>8 DEF OperationEnds
<1>9. CASE \E w \in Work : ClearBusy(w)
  BY <1>9 DEF ClearBusy
<1>10. CASE \E w \in Work : Heartbeat(w)
  BY <1>10 DEF Heartbeat
<1>11. CASE Inspect
  BY <1>11 DEF Inspect, Busy
<1>12. CASE RepairDisconnects
  BY <1>12 DEF RepairDisconnects
<1>13. CASE RepairConnects
  BY <1>13 DEF RepairConnects
<1>14. CASE Probe
  BY <1>14 DEF Probe, Answers, RuntimeBusy
<1>15. CASE WeighReplace
  BY <1>15 DEF WeighReplace, NeedsReplacement
<1>16. CASE WeighStart
  BY <1>16 DEF WeighStart, NeedsReplacement
<1>17. CASE EnsureSucceeds
  BY <1>17 DEF EnsureSucceeds, EnsureReturns, SetStatus, Touched, Served
<1>18. CASE ReplaceStop
  BY <1>18 DEF ReplaceStop, Exits
<1>19. CASE ReplaceRemove
  BY <1>19 DEF ReplaceRemove, Vanishes
<1>20. CASE ReplaceRow
  BY <1>20 DEF ReplaceRow, SetStatus
<1>21. CASE Create
  BY <1>21 DEF Create, SetStatus, Touched
<1>22. CASE Make
  BY <1>22 DEF Make
<1>23. CASE Starting
  BY <1>23 DEF Starting, SetStatus, Touched
<1>24. CASE Start
  BY <1>24 DEF Start
<1>25. CASE CheckActive
  BY <1>25 DEF CheckActive, Busy
<1>26. CASE DockerStop
  BY <1>26 DEF DockerStop, Exits
<1>27. CASE StopRow
  BY <1>27 DEF StopRow, SetStatus
<1>28. CASE RemoveDelete
  BY <1>28 DEF RemoveDelete, Vanishes
<1>29. CASE RemoveRow
  BY <1>29 DEF RemoveRow, SetStatus
<1>30. CASE Reconcile
  BY <1>30 DEF Reconcile
<1>31. CASE ReapRead
  BY <1>31 DEF ReapRead
<1>32. CASE ReapDecide
  BY <1>32 DEF ReapDecide, SetStatus, KeepStatus
<1>33. CASE EnsureBegin
  BY <1>33 DEF EnsureBegin
<1>34. CASE StopBegin
  BY <1>34 DEF StopBegin
<1>35. CASE ForceStopBegin
  BY <1>35 DEF ForceStopBegin
<1>36. CASE RemoveBegin
  BY <1>36 DEF RemoveBegin
<1>37. CASE ReapBegin
  BY <1>37 DEF ReapBegin
<1>38. CASE StatusQuery
  BY <1>38 DEF StatusQuery, SetStatus, KeepStatus, StoppedStatus
<1>39. CASE TouchRuntime
  BY <1>39 DEF TouchRuntime
<1>40. CASE EnsureFails
  BY <1>40 DEF EnsureFails, SetStatus, KeepStatus, Served
<1>41. CASE HandlerFails
  BY <1>41 DEF HandlerFails
<1>42. CASE IdleElapses
  BY <1>42 DEF IdleElapses
<1>43. CASE RemoveElapses
  BY <1>43 DEF RemoveElapses
<1>44. CASE CooldownEnds
  BY <1>44 DEF CooldownEnds
<1>45. CASE \E w \in Work : MarkExpires(w)
  BY <1>45 DEF MarkExpires
<1>46. CASE HealthChanges
  BY <1>46 DEF HealthChanges
<1>47. CASE ContainerDies
  BY <1>47 DEF ContainerDies, Exits
<1>48. CASE NetworkLost
  BY <1>48 DEF NetworkLost
<1>49. CASE Crash
  BY <1>49 DEF Crash
<1>50. CASE UNCHANGED vars
  BY <1>50 DEF vars
<1> QED
  BY <1>1, <1>2, <1>3, <1>4, <1>5, <1>6, <1>7, <1>8, <1>9, <1>10, <1>11, <1>12,
     <1>13, <1>14, <1>15, <1>16, <1>17, <1>18, <1>19, <1>20, <1>21, <1>22, <1>23, <1>24,
     <1>25, <1>26, <1>27, <1>28, <1>29, <1>30, <1>31, <1>32, <1>33, <1>34, <1>35, <1>36,
     <1>37, <1>38, <1>39, <1>40, <1>41, <1>42, <1>43, <1>44, <1>45, <1>46, <1>47, <1>48,
     <1>49, <1>50
  DEF Next, Admission, Ensure, Recycle, Request, Environment

LEMMA ServedStep == IInv /\ [Next]_vars => Served'
<1> SUFFICES ASSUME IInv, [Next]_vars PROVE Served'
  OBVIOUS
<1> USE WorkAssumption 
     DEF IInv, docker, due, work, bounds, Free, Holder, Step, Unlock,
         TypeOK, Served, Work
<1>1. CASE \E w \in Work, ensure \in BOOLEAN : AdmitBegin(w, ensure)
  BY <1>1 DEF AdmitBegin
<1>2. CASE SetBusy
  BY <1>2 DEF SetBusy
<1>3. CASE \E s \in Sessions : Accept(s)
  BY <1>3 DEF Accept
<1>4. CASE \E s \in Sessions : EnsureForRun(s)
  BY <1>4 DEF EnsureForRun
<1>5. CASE \E s \in Sessions : RunStarts(s)
  BY <1>5 DEF RunStarts, Answers
<1>6. CASE \E s \in Sessions : RunCloses(s)
  BY <1>6 DEF RunCloses
<1>7. CASE \E s \in Sessions : OrphanCloses(s)
  BY <1>7 DEF OrphanCloses
<1>8. CASE \E c \in Conns : OperationEnds(c)
  BY <1>8 DEF OperationEnds
<1>9. CASE \E w \in Work : ClearBusy(w)
  BY <1>9 DEF ClearBusy
<1>10. CASE \E w \in Work : Heartbeat(w)
  BY <1>10 DEF Heartbeat
<1>11. CASE Inspect
  BY <1>11 DEF Inspect, Busy
<1>12. CASE RepairDisconnects
  BY <1>12 DEF RepairDisconnects
<1>13. CASE RepairConnects
  BY <1>13 DEF RepairConnects
<1>14. CASE Probe
  BY <1>14 DEF Probe, Answers, RuntimeBusy
<1>15. CASE WeighReplace
  BY <1>15 DEF WeighReplace, NeedsReplacement
<1>16. CASE WeighStart
  BY <1>16 DEF WeighStart, NeedsReplacement
<1>17. CASE EnsureSucceeds
  BY <1>17 DEF EnsureSucceeds, EnsureReturns, SetStatus, Touched
<1>18. CASE ReplaceStop
  BY <1>18 DEF ReplaceStop, Exits
<1>19. CASE ReplaceRemove
  BY <1>19 DEF ReplaceRemove, Vanishes
<1>20. CASE ReplaceRow
  BY <1>20 DEF ReplaceRow, SetStatus
<1>21. CASE Create
  BY <1>21 DEF Create, SetStatus, Touched
<1>22. CASE Make
  BY <1>22 DEF Make
<1>23. CASE Starting
  BY <1>23 DEF Starting, SetStatus, Touched
<1>24. CASE Start
  BY <1>24 DEF Start
<1>25. CASE CheckActive
  BY <1>25 DEF CheckActive, Busy
<1>26. CASE DockerStop
  BY <1>26 DEF DockerStop, Exits
<1>27. CASE StopRow
  BY <1>27 DEF StopRow, SetStatus
<1>28. CASE RemoveDelete
  BY <1>28 DEF RemoveDelete, Vanishes
<1>29. CASE RemoveRow
  BY <1>29 DEF RemoveRow, SetStatus
<1>30. CASE Reconcile
  BY <1>30 DEF Reconcile
<1>31. CASE ReapRead
  BY <1>31 DEF ReapRead
<1>32. CASE ReapDecide
  BY <1>32 DEF ReapDecide, SetStatus, KeepStatus
<1>33. CASE EnsureBegin
  BY <1>33 DEF EnsureBegin
<1>34. CASE StopBegin
  BY <1>34 DEF StopBegin
<1>35. CASE ForceStopBegin
  BY <1>35 DEF ForceStopBegin
<1>36. CASE RemoveBegin
  BY <1>36 DEF RemoveBegin
<1>37. CASE ReapBegin
  BY <1>37 DEF ReapBegin
<1>38. CASE StatusQuery
  BY <1>38 DEF StatusQuery, SetStatus, KeepStatus, StoppedStatus
<1>39. CASE TouchRuntime
  BY <1>39 DEF TouchRuntime
<1>40. CASE EnsureFails
  BY <1>40 DEF EnsureFails, SetStatus, KeepStatus
<1>41. CASE HandlerFails
  BY <1>41 DEF HandlerFails
<1>42. CASE IdleElapses
  BY <1>42 DEF IdleElapses
<1>43. CASE RemoveElapses
  BY <1>43 DEF RemoveElapses
<1>44. CASE CooldownEnds
  BY <1>44 DEF CooldownEnds
<1>45. CASE \E w \in Work : MarkExpires(w)
  BY <1>45 DEF MarkExpires
<1>46. CASE HealthChanges
  BY <1>46 DEF HealthChanges
<1>47. CASE ContainerDies
  BY <1>47 DEF ContainerDies, Exits
<1>48. CASE NetworkLost
  BY <1>48 DEF NetworkLost
<1>49. CASE Crash
  BY <1>49 DEF Crash
<1>50. CASE UNCHANGED vars
  BY <1>50 DEF vars
<1> QED
  BY <1>1, <1>2, <1>3, <1>4, <1>5, <1>6, <1>7, <1>8, <1>9, <1>10, <1>11, <1>12,
     <1>13, <1>14, <1>15, <1>16, <1>17, <1>18, <1>19, <1>20, <1>21, <1>22, <1>23, <1>24,
     <1>25, <1>26, <1>27, <1>28, <1>29, <1>30, <1>31, <1>32, <1>33, <1>34, <1>35, <1>36,
     <1>37, <1>38, <1>39, <1>40, <1>41, <1>42, <1>43, <1>44, <1>45, <1>46, <1>47, <1>48,
     <1>49, <1>50
  DEF Next, Admission, Ensure, Recycle, Request, Environment

LEMMA DecidedStep == IInv /\ [Next]_vars => Decided'
<1> SUFFICES ASSUME IInv, [Next]_vars PROVE Decided'
  OBVIOUS
<1> USE WorkAssumption 
     DEF IInv, docker, due, work, bounds, Free, Holder, Step, Unlock,
         TypeOK, Counted, Decided, Quiet, Protected, Work
<1>1. CASE \E w \in Work, ensure \in BOOLEAN : AdmitBegin(w, ensure)
  BY <1>1 DEF AdmitBegin
<1>2. CASE SetBusy
  BY <1>2 DEF SetBusy, Served
<1>3. CASE \E s \in Sessions : Accept(s)
  BY <1>3 DEF Accept
<1>4. CASE \E s \in Sessions : EnsureForRun(s)
  BY <1>4 DEF EnsureForRun
<1>5. CASE \E s \in Sessions : RunStarts(s)
  BY <1>5 DEF RunStarts, Answers
<1>6. CASE \E s \in Sessions : RunCloses(s)
  BY <1>6 DEF RunCloses
<1>7. CASE \E s \in Sessions : OrphanCloses(s)
  BY <1>7 DEF OrphanCloses
<1>8. CASE \E c \in Conns : OperationEnds(c)
  BY <1>8 DEF OperationEnds
<1>9. CASE \E w \in Work : ClearBusy(w)
  BY <1>9 DEF ClearBusy
<1>10. CASE \E w \in Work : Heartbeat(w)
  BY <1>10 DEF Heartbeat
<1>11. CASE Inspect
  BY <1>11 DEF Inspect, Busy
<1>12. CASE RepairDisconnects
  BY <1>12 DEF RepairDisconnects
<1>13. CASE RepairConnects
  BY <1>13 DEF RepairConnects
<1>14. CASE Probe
  BY <1>14 DEF Probe, Answers, RuntimeBusy
<1>15. CASE WeighReplace
  BY <1>15 DEF WeighReplace, NeedsReplacement
<1>16. CASE WeighStart
  BY <1>16 DEF WeighStart, NeedsReplacement
<1>17. CASE EnsureSucceeds
  BY <1>17 DEF EnsureSucceeds, EnsureReturns, SetStatus, Touched, Served
<1>18. CASE ReplaceStop
  BY <1>18 DEF ReplaceStop, Exits
<1>19. CASE ReplaceRemove
  BY <1>19 DEF ReplaceRemove, Vanishes
<1>20. CASE ReplaceRow
  BY <1>20 DEF ReplaceRow, SetStatus
<1>21. CASE Create
  BY <1>21 DEF Create, SetStatus, Touched
<1>22. CASE Make
  BY <1>22 DEF Make
<1>23. CASE Starting
  BY <1>23 DEF Starting, SetStatus, Touched
<1>24. CASE Start
  BY <1>24 DEF Start
<1>25. CASE CheckActive
  BY <1>25 DEF CheckActive, Busy
<1>26. CASE DockerStop
  BY <1>26 DEF DockerStop, Exits
<1>27. CASE StopRow
  BY <1>27 DEF StopRow, SetStatus
<1>28. CASE RemoveDelete
  BY <1>28 DEF RemoveDelete, Vanishes
<1>29. CASE RemoveRow
  BY <1>29 DEF RemoveRow, SetStatus
<1>30. CASE Reconcile
  BY <1>30 DEF Reconcile
<1>31. CASE ReapRead
  BY <1>31 DEF ReapRead
<1>32. CASE ReapDecide
  BY <1>32 DEF ReapDecide, SetStatus, KeepStatus
<1>33. CASE EnsureBegin
  BY <1>33 DEF EnsureBegin
<1>34. CASE StopBegin
  BY <1>34 DEF StopBegin
<1>35. CASE ForceStopBegin
  BY <1>35 DEF ForceStopBegin
<1>36. CASE RemoveBegin
  BY <1>36 DEF RemoveBegin
<1>37. CASE ReapBegin
  BY <1>37 DEF ReapBegin
<1>38. CASE StatusQuery
  BY <1>38 DEF StatusQuery, SetStatus, KeepStatus, StoppedStatus
<1>39. CASE TouchRuntime
  BY <1>39 DEF TouchRuntime
<1>40. CASE EnsureFails
  BY <1>40 DEF EnsureFails, SetStatus, KeepStatus, Served
<1>41. CASE HandlerFails
  BY <1>41 DEF HandlerFails
<1>42. CASE IdleElapses
  BY <1>42 DEF IdleElapses
<1>43. CASE RemoveElapses
  BY <1>43 DEF RemoveElapses
<1>44. CASE CooldownEnds
  BY <1>44 DEF CooldownEnds
<1>45. CASE \E w \in Work : MarkExpires(w)
  BY <1>45 DEF MarkExpires
<1>46. CASE HealthChanges
  BY <1>46 DEF HealthChanges
<1>47. CASE ContainerDies
  BY <1>47 DEF ContainerDies, Exits
<1>48. CASE NetworkLost
  BY <1>48 DEF NetworkLost
<1>49. CASE Crash
  BY <1>49 DEF Crash
<1>50. CASE UNCHANGED vars
  BY <1>50 DEF vars
<1> QED
  BY <1>1, <1>2, <1>3, <1>4, <1>5, <1>6, <1>7, <1>8, <1>9, <1>10, <1>11, <1>12,
     <1>13, <1>14, <1>15, <1>16, <1>17, <1>18, <1>19, <1>20, <1>21, <1>22, <1>23, <1>24,
     <1>25, <1>26, <1>27, <1>28, <1>29, <1>30, <1>31, <1>32, <1>33, <1>34, <1>35, <1>36,
     <1>37, <1>38, <1>39, <1>40, <1>41, <1>42, <1>43, <1>44, <1>45, <1>46, <1>47, <1>48,
     <1>49, <1>50
  DEF Next, Admission, Ensure, Recycle, Request, Environment

THEOREM LifecycleInvariant == Spec => []IInv
<1>1. IInv /\ [Next]_vars => IInv'
  BY TypeStep, RecordedStep, CountedStep, ServedStep, DecidedStep DEF IInv
<1> QED
  BY InitInv, <1>1, PTL DEF Spec

\* Type correctness.
THEOREM LifecycleTypeCorrect == Spec => []TypeOK
<1>1. IInv => TypeOK
  BY DEF IInv
<1> QED
  BY <1>1, LifecycleInvariant, PTL

\* A container whose row says REMOVED does not exist.
THEOREM RemovedRowsHaveNoContainer == Spec => []RemovedHasNoContainer
<1>1. IInv => RemovedHasNoContainer
  BY DEF IInv, Recorded
<1> QED
  BY <1>1, LifecycleInvariant, PTL

\* No step of a handler other than the forced stop takes the container, or its
\* network, from work that is protected.
THEOREM ProtectedWorkGoesOn == Spec => WorkIsProtected
<1>1. ASSUME IInv, [Next]_vars
      PROVE  [container = "running" /\ (container' # "running" \/ (wires # "missing" /\ wires' = "missing"))
              /\ lock' # lock /\ lock.op # "force"
                => \A w \in Work : ~Protected(w)]_vars
  <2> SUFFICES ASSUME Next,
                      container = "running",
                      container' # "running" \/ (wires # "missing" /\ wires' = "missing"),
                      lock' # lock, lock.op # "force"
               PROVE  \A w \in Work : ~Protected(w)
    BY <1>1
  <2> USE <1>1 DEF IInv, docker
  <2>1. CASE RepairDisconnects
    BY <2>1 DEF RepairDisconnects, Decided, Quiet
  <2>2. CASE ReplaceStop
    BY <2>2 DEF ReplaceStop, Decided, Quiet
  <2>3. CASE DockerStop
    BY <2>3 DEF DockerStop, Decided, Quiet, Step
  <2>4. CASE RemoveDelete
    BY <2>4 DEF RemoveDelete, Decided, Quiet
  <2>5. CASE \/ (\E w \in Work, ensure \in BOOLEAN : AdmitBegin(w, ensure))
            \/ SetBusy
            \/ (\E s \in Sessions : Accept(s))
            \/ (\E s \in Sessions : EnsureForRun(s))
            \/ (\E s \in Sessions : RunStarts(s))
            \/ (\E s \in Sessions : RunCloses(s))
    BY <2>5 DEF AdmitBegin, SetBusy, Accept, EnsureForRun, RunStarts, RunCloses
  <2>6. CASE \/ (\E s \in Sessions : OrphanCloses(s))
            \/ (\E c \in Conns : OperationEnds(c))
            \/ (\E w \in Work : ClearBusy(w))
            \/ (\E w \in Work : Heartbeat(w))
            \/ Inspect
            \/ RepairConnects
    BY <2>6 DEF OrphanCloses, OperationEnds, ClearBusy, Heartbeat, Inspect, RepairConnects
  <2>7. CASE \/ Probe
            \/ WeighReplace
            \/ WeighStart
            \/ EnsureSucceeds
            \/ ReplaceRemove
            \/ ReplaceRow
    BY <2>7 DEF Probe, WeighReplace, WeighStart, EnsureSucceeds, ReplaceRemove, Vanishes, ReplaceRow
  <2>8. CASE \/ Create
            \/ Make
            \/ Starting
            \/ Start
            \/ CheckActive
            \/ StopRow
    BY <2>8 DEF Create, Make, Starting, Start, CheckActive, StopRow, Recorded
  <2>9. CASE \/ RemoveRow
            \/ Reconcile
            \/ ReapRead
            \/ ReapDecide
            \/ EnsureBegin
            \/ StopBegin
    BY <2>9 DEF RemoveRow, Reconcile, ReapRead, ReapDecide, EnsureBegin, StopBegin
  <2>10. CASE \/ ForceStopBegin
            \/ RemoveBegin
            \/ ReapBegin
            \/ StatusQuery
            \/ TouchRuntime
            \/ EnsureFails
    BY <2>10 DEF ForceStopBegin, RemoveBegin, ReapBegin, StatusQuery, TouchRuntime, EnsureFails
  <2>11. CASE \/ HandlerFails
            \/ IdleElapses
            \/ RemoveElapses
            \/ CooldownEnds
            \/ (\E w \in Work : MarkExpires(w))
            \/ HealthChanges
    BY <2>11 DEF HandlerFails, IdleElapses, RemoveElapses, CooldownEnds, MarkExpires, HealthChanges
  <2>12. CASE \/ ContainerDies
            \/ NetworkLost
            \/ Crash
    BY <2>12 DEF ContainerDies, Exits, NetworkLost, Crash
  <2> QED
    BY <2>1, <2>2, <2>3, <2>4, <2>5, <2>6, <2>7, <2>8, <2>9, <2>10, <2>11, <2>12
    DEF Next, Admission, Ensure, Recycle, Request, Environment
<1> QED
  BY <1>1, LifecycleInvariant, PTL DEF Spec, WorkIsProtected
=============================================================================
