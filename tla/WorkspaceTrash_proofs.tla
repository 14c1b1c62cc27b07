------------------------ MODULE WorkspaceTrash_proofs ------------------------
(* Theorems about WorkspaceTrash, for any number of stray directories, and  *)
(* about the lock its handlers hold, for any number of clients.             *)
EXTENDS WorkspaceTrash, Leases, TLAPS

\* The files of a workspace that is not being purged are in one place.
InPlace == active = "files" /\ trash = "none"
InTrash == active \in {"none", "empty"} /\ trash = "files"

RowInv ==
  /\ row = "live" => InPlace /\ ~tombstone /\ ~purging
  /\ row = "deleted" /\ ~purging => InPlace \/ InTrash
  /\ running => row = "live" /\ lock.at # "mark"

\* What a handler knows between its steps.
HandlerInv ==
  /\ lock.at = "mark" => row = "live"
  /\ lock.at \in {"move", "unmove", "reopen", "unmark", "purgeMove", "entomb", "purgeMark",
                  "purgeFiles", "purgeRow"} => row = "deleted"
  /\ lock.at \in {"unmove", "reopen", "unmark"} => ~purging
  /\ lock.at \in {"reopen", "unmark"} => InPlace
  /\ lock.at = "unmark" => ~tombstone
  /\ lock.at \in {"purgeFiles", "purgeRow"} => purging
  /\ lock.at = "clear" => row = "gone"

IInv == TypeOK /\ RowInv /\ HandlerInv

LEMMA InitInv == Init => IInv
<1> SUFFICES ASSUME Init PROVE IInv
  OBVIOUS
<1>1. /\ expired \in BOOLEAN /\ purging \in BOOLEAN
      /\ tombstone \in BOOLEAN /\ running \in BOOLEAN
  BY DEF Init
<1>2. TypeOK
  BY <1>1, StrayAssumption DEF Init, TypeOK, Free, Steps
<1>3. RowInv /\ HandlerInv
  BY DEF Init, RowInv, HandlerInv, InPlace, Free
<1> QED
  BY <1>2, <1>3 DEF IInv

LEMMA StepInv == IInv /\ [Next]_vars => IInv'
<1> SUFFICES ASSUME IInv, [Next]_vars PROVE IInv'
  OBVIOUS
<1> USE DEF IInv, marks, disk, Free, Locked, Step, Unlock
<1>1. CASE TrashBegin
  <2>1. TypeOK'
    BY <1>1 DEF TrashBegin, TrashAllowed, TypeOK, Steps
  <2>2. RowInv'
    BY <1>1 DEF TrashBegin, TrashAllowed, RowInv, HandlerInv, InPlace, InTrash
  <2>3. HandlerInv'
    BY <1>1 DEF TrashBegin, TrashAllowed, RowInv, HandlerInv, InPlace, InTrash
  <2> QED
    BY <2>1, <2>2, <2>3
<1>2. CASE TrashMark
  <2>1. TypeOK'
    BY <1>2 DEF TrashMark, TypeOK, Steps
  <2>2. RowInv'
    BY <1>2 DEF TrashMark, RowInv, HandlerInv, InPlace, InTrash
  <2>3. HandlerInv'
    BY <1>2 DEF TrashMark, RowInv, HandlerInv, InPlace, InTrash
  <2> QED
    BY <2>1, <2>2, <2>3
<1>3. CASE TrashMove
  <2>1. TypeOK'
    BY <1>3 DEF TrashMove, ToTrash, TypeOK, Steps
  <2>2. RowInv'
    BY <1>3 DEF TrashMove, ToTrash, RowInv, HandlerInv, InPlace, InTrash
  <2>3. HandlerInv'
    BY <1>3 DEF TrashMove, ToTrash, RowInv, HandlerInv, InPlace, InTrash
  <2> QED
    BY <2>1, <2>2, <2>3
<1>4. CASE RestoreBegin
  <2>1. TypeOK'
    BY <1>4 DEF RestoreBegin, Restorable, TypeOK, Steps
  <2>2. RowInv'
    BY <1>4 DEF RestoreBegin, Restorable, RowInv, HandlerInv, InPlace, InTrash
  <2>3. HandlerInv'
    BY <1>4 DEF RestoreBegin, Restorable, RowInv, HandlerInv, InPlace, InTrash
  <2> QED
    BY <2>1, <2>2, <2>3
<1>5. CASE RestoreMove
  <2>1. TypeOK'
    BY <1>5 DEF RestoreMove, ToActive, TypeOK, Steps, RowInv, HandlerInv, InPlace, InTrash
  <2>2. RowInv'
    BY <1>5 DEF RestoreMove, ToActive, RowInv, HandlerInv, InPlace, InTrash
  <2>3. HandlerInv'
    BY <1>5 DEF RestoreMove, ToActive, RowInv, HandlerInv, InPlace, InTrash
  <2> QED
    BY <2>1, <2>2, <2>3
<1>6. CASE RestoreReopen
  <2>1. TypeOK'
    BY <1>6 DEF RestoreReopen, TypeOK, Steps
  <2>2. RowInv'
    BY <1>6 DEF RestoreReopen, RowInv, HandlerInv, InPlace, InTrash
  <2>3. HandlerInv'
    BY <1>6 DEF RestoreReopen, RowInv, HandlerInv, InPlace, InTrash
  <2> QED
    BY <2>1, <2>2, <2>3
<1>7. CASE RestoreUnmark
  <2>1. TypeOK'
    BY <1>7 DEF RestoreUnmark, TypeOK, Steps
  <2>2. RowInv'
    BY <1>7 DEF RestoreUnmark, RowInv, HandlerInv, InPlace, InTrash
  <2>3. HandlerInv'
    BY <1>7 DEF RestoreUnmark, RowInv, HandlerInv, InPlace, InTrash
  <2> QED
    BY <2>1, <2>2, <2>3
<1>8. CASE PurgeByUser
  <2>1. TypeOK'
    BY <1>8 DEF PurgeByUser, Purge, TypeOK, Steps
  <2>2. RowInv'
    BY <1>8 DEF PurgeByUser, Purge, RowInv, HandlerInv, InPlace, InTrash
  <2>3. HandlerInv'
    BY <1>8 DEF PurgeByUser, Purge, RowInv, HandlerInv, InPlace, InTrash
  <2> QED
    BY <2>1, <2>2, <2>3
<1>9. CASE PurgeMove
  <2>1. TypeOK'
    BY <1>9 DEF PurgeMove, ToTrash, TypeOK, Steps
  <2>2. RowInv'
    BY <1>9 DEF PurgeMove, ToTrash, RowInv, HandlerInv, InPlace, InTrash
  <2>3. HandlerInv'
    BY <1>9 DEF PurgeMove, ToTrash, RowInv, HandlerInv, InPlace, InTrash
  <2> QED
    BY <2>1, <2>2, <2>3
<1>10. CASE PurgeEntomb
  <2>1. TypeOK'
    BY <1>10 DEF PurgeEntomb, TypeOK, Steps
  <2>2. RowInv'
    BY <1>10 DEF PurgeEntomb, RowInv, HandlerInv, InPlace, InTrash
  <2>3. HandlerInv'
    BY <1>10 DEF PurgeEntomb, RowInv, HandlerInv, InPlace, InTrash
  <2> QED
    BY <2>1, <2>2, <2>3
<1>11. CASE PurgeMark
  <2>1. TypeOK'
    BY <1>11 DEF PurgeMark, TypeOK, Steps
  <2>2. RowInv'
    BY <1>11 DEF PurgeMark, RowInv, HandlerInv, InPlace, InTrash
  <2>3. HandlerInv'
    BY <1>11 DEF PurgeMark, RowInv, HandlerInv, InPlace, InTrash
  <2> QED
    BY <2>1, <2>2, <2>3
<1>12. CASE PurgeFiles
  <2>1. TypeOK'
    BY <1>12 DEF PurgeFiles, TypeOK, Steps
  <2>2. RowInv'
    BY <1>12 DEF PurgeFiles, RowInv, HandlerInv, InPlace, InTrash
  <2>3. HandlerInv'
    BY <1>12 DEF PurgeFiles, RowInv, HandlerInv, InPlace, InTrash
  <2> QED
    BY <2>1, <2>2, <2>3
<1>13. CASE PurgeFilesMoves
  <2>1. TypeOK'
    BY <1>13 DEF PurgeFilesMoves, ToTrash, TypeOK, Steps
  <2>2. RowInv'
    BY <1>13 DEF PurgeFilesMoves, ToTrash, RowInv, HandlerInv, InPlace, InTrash
  <2>3. HandlerInv'
    BY <1>13 DEF PurgeFilesMoves, ToTrash, RowInv, HandlerInv, InPlace, InTrash
  <2> QED
    BY <2>1, <2>2, <2>3
<1>14. CASE PurgeRow
  <2>1. TypeOK'
    BY <1>14 DEF PurgeRow, TypeOK, Steps
  <2>2. RowInv'
    BY <1>14 DEF PurgeRow, RowInv, HandlerInv, InPlace, InTrash
  <2>3. HandlerInv'
    BY <1>14 DEF PurgeRow, RowInv, HandlerInv, InPlace, InTrash
  <2> QED
    BY <2>1, <2>2, <2>3
<1>15. CASE PurgeClear
  <2>1. TypeOK'
    BY <1>15 DEF PurgeClear, TypeOK, Steps
  <2>2. RowInv'
    BY <1>15 DEF PurgeClear, RowInv, HandlerInv, InPlace, InTrash
  <2>3. HandlerInv'
    BY <1>15 DEF PurgeClear, RowInv, HandlerInv, InPlace, InTrash
  <2> QED
    BY <2>1, <2>2, <2>3
<1>16. CASE SweepScan
  <2>1. TypeOK'
    BY <1>16 DEF SweepScan, Due, TypeOK, Steps
  <2>2. RowInv'
    BY <1>16 DEF SweepScan, Due, RowInv, HandlerInv, InPlace, InTrash
  <2>3. HandlerInv'
    BY <1>16 DEF SweepScan, Due, RowInv, HandlerInv, InPlace, InTrash
  <2> QED
    BY <2>1, <2>2, <2>3
<1>17. CASE SweepActs
  <2>1. TypeOK'
    BY <1>17 DEF SweepActs, Purge, ReconcileDeleted, TypeOK, Steps
  <2>2. RowInv'
    BY <1>17 DEF SweepActs, Purge, ReconcileDeleted, RowInv, HandlerInv, InPlace, InTrash
  <2>3. HandlerInv'
    BY <1>17 DEF SweepActs, Purge, ReconcileDeleted, RowInv, HandlerInv, InPlace, InTrash
  <2> QED
    BY <2>1, <2>2, <2>3
<1>18. CASE HandlerFails
  <2>1. TypeOK'
    BY <1>18 DEF HandlerFails, TypeOK, Steps
  <2>2. RowInv'
    BY <1>18 DEF HandlerFails, RowInv, HandlerInv, InPlace, InTrash
  <2>3. HandlerInv'
    BY <1>18 DEF HandlerFails, RowInv, HandlerInv, InPlace, InTrash
  <2> QED
    BY <2>1, <2>2, <2>3
<1>19. CASE RunBegins
  <2>1. TypeOK'
    BY <1>19 DEF RunBegins, Usable, TypeOK, Steps
  <2>2. RowInv'
    BY <1>19 DEF RunBegins, Usable, RowInv, HandlerInv, InPlace, InTrash
  <2>3. HandlerInv'
    BY <1>19 DEF RunBegins, Usable, RowInv, HandlerInv, InPlace, InTrash
  <2> QED
    BY <2>1, <2>2, <2>3
<1>20. CASE RunEnds
  <2>0. running' \in BOOLEAN
    BY <1>20 DEF RunEnds
  <2>1. TypeOK'
    BY <1>20, <2>0 DEF RunEnds, TypeOK, Steps
  <2>2. RowInv'
    BY <1>20 DEF RunEnds, RowInv, HandlerInv, InPlace, InTrash
  <2>3. HandlerInv'
    BY <1>20 DEF RunEnds, RowInv, HandlerInv, InPlace, InTrash
  <2> QED
    BY <2>1, <2>2, <2>3
<1>21. CASE Provision
  <2>1. TypeOK'
    BY <1>21 DEF Provision, Usable, TypeOK, Steps
  <2>2. RowInv'
    BY <1>21 DEF Provision, Usable, RowInv, HandlerInv, InPlace, InTrash
  <2>3. HandlerInv'
    BY <1>21 DEF Provision, Usable, RowInv, HandlerInv, InPlace, InTrash
  <2> QED
    BY <2>1, <2>2, <2>3
<1>22. CASE Stray
  <2>1. TypeOK'
    BY <1>22, StrayAssumption DEF Stray, TypeOK, Steps
  <2>2. RowInv'
    BY <1>22 DEF Stray, RowInv, HandlerInv, InPlace, InTrash
  <2>3. HandlerInv'
    BY <1>22 DEF Stray, RowInv, HandlerInv, InPlace, InTrash
  <2> QED
    BY <2>1, <2>2, <2>3
<1>23. CASE Expire
  <2>1. TypeOK'
    BY <1>23 DEF Expire, TypeOK, Steps
  <2>2. RowInv'
    BY <1>23 DEF Expire, RowInv, HandlerInv, InPlace, InTrash
  <2>3. HandlerInv'
    BY <1>23 DEF Expire, RowInv, HandlerInv, InPlace, InTrash
  <2> QED
    BY <2>1, <2>2, <2>3
<1>24. CASE TombstoneExpires
  <2>0. tombstone' \in BOOLEAN
    BY <1>24 DEF TombstoneExpires
  <2>1. TypeOK'
    BY <1>24, <2>0 DEF TombstoneExpires, TypeOK, Steps
  <2>2. RowInv'
    BY <1>24 DEF TombstoneExpires, RowInv, HandlerInv, InPlace, InTrash
  <2>3. HandlerInv'
    BY <1>24 DEF TombstoneExpires, RowInv, HandlerInv, InPlace, InTrash
  <2> QED
    BY <2>1, <2>2, <2>3
<1>25. CASE UNCHANGED vars
  <2>1. TypeOK'
    BY <1>25 DEF vars, TypeOK, Steps
  <2>2. RowInv'
    BY <1>25 DEF vars, RowInv, HandlerInv, InPlace, InTrash
  <2>3. HandlerInv'
    BY <1>25 DEF vars, RowInv, HandlerInv, InPlace, InTrash
  <2> QED
    BY <2>1, <2>2, <2>3
<1> QED
  BY <1>1, <1>2, <1>3, <1>4, <1>5, <1>6, <1>7, <1>8, <1>9, <1>10, <1>11, <1>12, <1>13, <1>14, <1>15, <1>16, <1>17, <1>18, <1>19, <1>20, <1>21, <1>22, <1>23, <1>24, <1>25
  DEF Next, Trashing, Restoring, Purging

THEOREM TrashInvariant == Spec => []IInv
  BY InitInv, StepInv, PTL DEF Spec

\* Every variable keeps its type.
THEOREM TrashTypeCorrect == Spec => []TypeOK
  BY TrashInvariant, PTL DEF IInv

\* A live workspace has all its files in the active directory.
THEOREM LiveWorkspaceHasFiles == Spec => []LiveHasFiles
<1>1. IInv => LiveHasFiles
  BY DEF IInv, RowInv, InPlace, LiveHasFiles
<1> QED
  BY <1>1, TrashInvariant, PTL

\* No tombstone blocks a live workspace.
THEOREM LiveWorkspaceIsOpen == Spec => []LiveIsOpen
<1>1. IInv => LiveIsOpen
  BY DEF IInv, RowInv, LiveIsOpen
<1> QED
  BY <1>1, TrashInvariant, PTL

\* A conversation only runs in a live workspace.
THEOREM RunningWorkspaceIsLive == Spec => []RunHasWorkspace
<1>1. IInv => RunHasWorkspace
  BY DEF IInv, RowInv, RunHasWorkspace
<1> QED
  BY <1>1, TrashInvariant, PTL
\* Files are only deleted of a workspace whose purge is recorded.
THEOREM DeletionsAreRecorded == Spec => DeletionIsRecorded
<1>1. ASSUME IInv, [Next]_vars
      PROVE  [trash' # trash /\ trash' \in {"none", "partial"} /\ active' = active
                => row = "deleted" /\ purging /\ active = "none"]_vars
  <2> SUFFICES ASSUME Next, trash' # trash, trash' \in {"none", "partial"}, active' = active
               PROVE  row = "deleted" /\ purging /\ active = "none"
    BY <1>1
  <2> USE <1>1 DEF IInv, disk
  <2>1. CASE PurgeFiles
    BY <2>1 DEF PurgeFiles, HandlerInv
  <2>2. CASE TrashMove \/ RestoreMove \/ PurgeMove \/ PurgeFilesMoves
    BY <2>2 DEF TrashMove, RestoreMove, PurgeMove, PurgeFilesMoves, ToTrash, ToActive
  <2>3. CASE TrashBegin \/ TrashMark \/ RestoreBegin \/ RestoreReopen \/ RestoreUnmark
    BY <2>3 DEF TrashBegin, TrashMark, RestoreBegin, RestoreReopen, RestoreUnmark
  <2>4. CASE PurgeByUser \/ PurgeEntomb \/ PurgeMark \/ PurgeRow \/ PurgeClear
    BY <2>4 DEF PurgeByUser, PurgeEntomb, PurgeMark, PurgeRow, PurgeClear
  <2>5. CASE SweepScan \/ SweepActs \/ HandlerFails \/ RunBegins \/ RunEnds
    BY <2>5 DEF SweepScan, SweepActs, HandlerFails, RunBegins, RunEnds
  <2>6. CASE Provision \/ Stray \/ Expire \/ TombstoneExpires
    BY <2>6 DEF Provision, Stray, Expire, TombstoneExpires
  <2> QED
    BY <2>1, <2>2, <2>3, <2>4, <2>5, <2>6 DEF Next, Trashing, Restoring, Purging
<1> QED
  BY <1>1, TrashInvariant, PTL DEF Spec, DeletionIsRecorded

-----------------------------------------------------------------------------
(***************************************************************************)
(* The lock the handlers work under (Leases): Leases.withLock excludes,    *)
(* for any number of clients, any TTL longer than the renewal period and   *)
(* any number of disconnections.  The argument has two halves.  Time: the  *)
(* timer of a connected client is due at the latest a renewal period after *)
(* its last renewal, and the key outlives it by the rest of the TTL        *)
(* (ClockInv).  Identity: a token is drawn once, so a key that was taken   *)
(* over can never again be renewed, confirmed or deleted with an older     *)
(* token (TokenInv).                                                       *)
(***************************************************************************)
TokenInv ==
  /\ \A c \in Clients : token[c] # NoToken => token[c] \in used
  /\ \A c \in Clients : pc[c] \in {"operation", "confirm", "leave", "returned"} => token[c] # NoToken
  /\ \A c, d \in Clients : token[c] = token[d] /\ token[c] # NoToken => c = d
  /\ owner # NoToken => owner \in used
  /\ overtaken \subseteq used
  /\ owner \notin overtaken

ClockInv ==
  \A c \in Running \ suspect :
    /\ c \notin cut
    /\ owner = token[c]
    /\ now <= due[c]
    /\ due[c] <= now + Beat
    /\ due[c] + TTL <= expires + Beat

LockInv == LeaseTypeOK /\ TokenInv /\ ClockInv /\ OvertakenFails

\* What the two halves give in a state.
LEMMA LockHolds == LockInv => ConnectedHolds /\ Exclusive
<1> SUFFICES ASSUME LockInv PROVE ConnectedHolds /\ Exclusive
  OBVIOUS
<1> USE TokenAssumption, TimeAssumption DEF LockInv
<1>1. ConnectedHolds
  <2> SUFFICES ASSUME NEW c \in Running \ suspect PROVE Holds(c)
    BY DEF ConnectedHolds
  <2>1. owner = token[c] /\ token[c] # NoToken
    BY DEF ClockInv, TokenInv, Running
  <2>2. now < expires
    BY DEF ClockInv, LeaseTypeOK, Running
  <2> QED
    BY <2>1, <2>2 DEF Holds, Held
<1>2. Exclusive
  BY <1>1 DEF ConnectedHolds, Exclusive, Holds, Held, TokenInv, Running
<1> QED
  BY <1>1, <1>2

LEMMA InitLockInv == LeaseInit => LockInv
  BY TokenAssumption, TimeAssumption
  DEF LeaseInit, LockInv, LeaseTypeOK, TokenInv, ClockInv, OvertakenFails, Running

\* A key that is taken was free, so no connected operation was running.
LEMMA TakeKeyStep ==
  ASSUME LockInv, NEW c \in Clients, NEW t \in Tokens, Acquire(c, t) \/ AcquireUnanswered(c, t)
  PROVE  LockInv'
<1> USE TokenAssumption, TimeAssumption DEF LockInv
<1>0. Running \ suspect = {}
  BY LockHolds DEF ConnectedHolds, Holds, Acquire, AcquireUnanswered, TakeKey
<1>1. LeaseTypeOK'
  BY DEF LeaseTypeOK, Acquire, AcquireUnanswered, TakeKey, Goto, Running, TokenInv
<1>2. TokenInv'
  BY DEF LeaseTypeOK, TokenInv, Acquire, AcquireUnanswered, TakeKey, Goto, Running
<1>3. ClockInv'
  <2>1. CASE Acquire(c, t)
    <3>1. Running' \ suspect' \subseteq {c}
      BY <1>0, <2>1 DEF LeaseTypeOK, Acquire, Goto, Running
    <3>2. owner' = token'[c] /\ due'[c] = now' + Beat /\ expires' = now' + TTL /\ c \notin cut'
      BY <2>1 DEF LeaseTypeOK, Acquire, TakeKey
    <3> QED
      BY <3>1, <3>2, <1>1 DEF ClockInv, LeaseTypeOK
  <2>2. CASE AcquireUnanswered(c, t)
    BY <1>0, <2>2 DEF LeaseTypeOK, AcquireUnanswered, Goto, Running, ClockInv
  <2> QED
    BY <2>1, <2>2
<1>4. OvertakenFails'
  BY DEF LeaseTypeOK, TokenInv, OvertakenFails, Acquire, AcquireUnanswered, TakeKey, Goto, Running
<1> QED
  BY <1>1, <1>2, <1>3, <1>4

\* A renewal, by the timer or at the end, extends its own key or none.
LEMMA ExtendStep ==
  ASSUME LockInv, NEW c \in Clients, Renew(c) \/ Confirm(c)
  PROVE  LockInv'
<1> USE TokenAssumption, TimeAssumption DEF LockInv
<1>0. expires' \in {expires, now + TTL} /\ UNCHANGED <<now, owner, token, used, overtaken, suspect, cut>>
  BY DEF Renew, Confirm, Extend, key
<1>1. LeaseTypeOK'
  BY <1>0 DEF LeaseTypeOK, Renew, Confirm, Goto, Running
<1>2. TokenInv'
  BY <1>0 DEF LeaseTypeOK, TokenInv, Renew, Confirm, Goto, Running
<1>3. ClockInv'
  <2> SUFFICES ASSUME NEW d \in Running' \ suspect'
               PROVE  /\ d \notin cut' /\ owner' = token'[d] /\ now' <= due'[d]
                      /\ due'[d] <= now' + Beat /\ due'[d] + TTL <= expires' + Beat
    BY DEF ClockInv
  <2>1. d \in Running \ suspect
    BY <1>0 DEF LeaseTypeOK, Renew, Confirm, Goto, Running
  <2>2. d \notin cut /\ owner = token[d] /\ now <= due[d] /\ due[d] <= now + Beat
        /\ due[d] + TTL <= expires + Beat
    BY <2>1 DEF ClockInv
  <2>3. due[d] \in Nat /\ now \in Nat /\ expires \in Nat
    BY <2>1 DEF LeaseTypeOK, Running
  <2>4. CASE d = c /\ Renew(c)
    <3>1. Holds(c)
      BY <2>1, <2>4, LockHolds DEF ConnectedHolds
    <3>2. due' = [due EXCEPT ![c] = now + Beat] /\ expires' = now + TTL
      BY <3>1, <2>2, <2>4 DEF Renew, Extend
    <3>3. due'[c] = now + Beat
      BY <3>2 DEF LeaseTypeOK
    <3> QED
      BY <1>0, <2>2, <2>3, <2>4, <3>2, <3>3
  <2>5. CASE d # c \/ Confirm(c)
    <3>1. due' = due \/ (d # c /\ due' = [due EXCEPT ![c] = now + Beat])
      BY <2>5 DEF Renew, Confirm
    <3>2. due'[d] = due[d]
      BY <2>1, <3>1 DEF LeaseTypeOK, Running
    <3> QED
      BY <1>0, <2>2, <2>3, <3>2
  <2> QED
    BY <2>4, <2>5
<1>4. OvertakenFails'
  <2> SUFFICES ASSUME NEW d \in Clients, pc'[d] \in {"leave", "returned"}
               PROVE  token'[d] \notin overtaken'
    BY DEF OvertakenFails
  <2>1. pc[d] \in {"leave", "returned"} \/ owner = token[d]
    BY DEF LeaseTypeOK, Renew, Confirm, Goto, Holds
  <2> QED
    BY <1>0, <2>1 DEF OvertakenFails, TokenInv
<1> QED
  BY <1>1, <1>2, <1>3, <1>4

\* A release deletes the key of a call that has ended, or nothing.
LEMMA ReleaseStep ==
  ASSUME LockInv, NEW c \in Clients, Release(c)
  PROVE  LockInv'
<1> USE TokenAssumption, TimeAssumption DEF LockInv
<1>0. /\ owner' \in {owner, NoToken} /\ (owner' # owner => owner = token[c] /\ owner # NoToken)
      /\ pc[c] \in {"leave", "fail"}
  BY DEF Release, DeleteOwn, Holds, Held
<1>1. LeaseTypeOK'
  BY <1>0 DEF LeaseTypeOK, Release, Goto
<1>2. TokenInv'
  BY <1>0 DEF LeaseTypeOK, TokenInv, Release, Goto
<1>3. Running' = Running
  BY DEF Release, Goto, Running, LeaseTypeOK
<1>4. ClockInv'
  BY <1>0, <1>3 DEF ClockInv, TokenInv, Release, Running
<1>5. OvertakenFails'
  BY DEF LeaseTypeOK, OvertakenFails, Release, Goto
<1> QED
  BY <1>1, <1>2, <1>4, <1>5

\* The steps that leave the key alone.
LEMMA CallStep ==
  ASSUME LockInv, NEW c \in Clients,
         Call(c) \/ GiveUp(c) \/ OperationEnds(c) \/ Again(c) \/ Disconnect(c) \/ Reconnect(c)
  PROVE  LockInv'
<1> USE TokenAssumption, TimeAssumption DEF LockInv
<1>0. UNCHANGED <<now, owner, expires, token, used, overtaken>>
  BY DEF Call, GiveUp, OperationEnds, Again, Disconnect, Reconnect, key, call
<1>1. LeaseTypeOK'
  BY <1>0 DEF LeaseTypeOK, Call, GiveUp, OperationEnds, Again, Disconnect, Reconnect, Goto, call
<1>2. TokenInv'
  BY <1>0 DEF LeaseTypeOK, TokenInv, Call, GiveUp, OperationEnds, Again, Disconnect, Reconnect, Goto, call
<1>3. ClockInv'
  <2>1. Running' \ suspect' \subseteq Running \ suspect
    BY DEF LeaseTypeOK, Call, GiveUp, OperationEnds, Again, Disconnect, Reconnect, Goto, call, Running
  <2>2. \A d \in Running' \ suspect' : due'[d] = due[d] /\ (d \in cut' => d \in cut)
    BY DEF LeaseTypeOK, Call, GiveUp, OperationEnds, Again, Disconnect, Reconnect, Goto, call, Running
  <2> QED
    BY <1>0, <2>1, <2>2 DEF ClockInv
<1>4. OvertakenFails'
  BY <1>0 DEF LeaseTypeOK, OvertakenFails, Call, GiveUp, OperationEnds, Again, Disconnect, Reconnect, Goto, call
<1> QED
  BY <1>1, <1>2, <1>3, <1>4

LEMMA TickStep == LockInv /\ Tick => LockInv'
<1> SUFFICES ASSUME LockInv, Tick PROVE LockInv'
  OBVIOUS
<1> USE TokenAssumption, TimeAssumption DEF LockInv
<1>1. LeaseTypeOK'
  BY DEF LeaseTypeOK, Tick, key, call
<1>2. TokenInv' /\ OvertakenFails'
  BY DEF TokenInv, OvertakenFails, Tick, key, call
<1>3. ClockInv'
  BY DEF LeaseTypeOK, ClockInv, Tick, key, call, Running
<1> QED
  BY <1>1, <1>2, <1>3

\* The lock's inductive invariant.
THEOREM LeasesInvariant == LeaseSpec => []LockInv
<1>1. ASSUME LockInv, [LeaseNext]_leaseVars PROVE LockInv'
  <2>1. CASE UNCHANGED leaseVars
    BY <1>1, <2>1 DEF leaseVars, key, call, LockInv, LeaseTypeOK, TokenInv, ClockInv, OvertakenFails, Running
  <2>2. CASE LeaseNext
    BY <1>1, <2>2, TickStep, CallStep, ReleaseStep, ExtendStep, TakeKeyStep DEF LeaseNext
  <2> QED
    BY <1>1, <2>1, <2>2
<1> QED
  BY <1>1, InitLockInv, PTL DEF LeaseSpec

\* withLock keeps its variables in their types.
THEOREM LeasesTypeCorrect == LeaseSpec => []LeaseTypeOK
  BY LeasesInvariant, PTL DEF LockInv

\* withLock (leases.ts:39-61): the key of a running operation whose client
\* reaches Redis in time is its own, whatever clients that were cut off do.
THEOREM ConnectedOperationsHold == LeaseSpec => []ConnectedHolds
  BY LeasesInvariant, LockHolds, PTL

\* withLock (leases.ts:39-61): two such operations never run together.
THEOREM ConnectedOperationsExclude == LeaseSpec => []Exclusive
  BY LeasesInvariant, LockHolds, PTL

\* withLock (leases.ts:54-56): an operation that was overtaken reports no result.
THEOREM OvertakenOperationsFail == LeaseSpec => []OvertakenFails
  BY LeasesInvariant, PTL DEF LockInv
=============================================================================
