--------------------------- MODULE WorkspaceTrash ---------------------------
(***************************************************************************)
(* One workspace between its active directory, which the user's Runtime    *)
(* mounts, and the Trash (workspace-trash.ts, workspace-trash-storage.ts): *)
(* the row in PostgreSQL, the two directories, the tombstone in Redis, and *)
(* the handlers that move it, each of which may fail or die between two of *)
(* its calls.  They run under the workspace lock, as runs and file         *)
(* operations do; the sweep chooses its work before it takes the lock.     *)
(***************************************************************************)
EXTENDS Naturals

CONSTANT MaxStrays   \* bound: directories made behind the handlers' back

ASSUME StrayAssumption == MaxStrays \in Nat

VARIABLES
  row,        \* "live", "deleted" (deleted_at is set) or "gone"
  expired,    \* 30 days have passed since deleted_at
  purging,    \* purge_started_at is set
  active, trash,   \* what the two directories hold
  tombstone,  \* Redis workspace-deleted:<id>
  running,    \* a conversation of the workspace runs
  lock,       \* the handler under the workspace lock, and its next step
  candidate,  \* what the sweep has chosen to do with the workspace
  strays

marks == <<row, expired, purging>>
disk == <<active, trash>>
vars == <<marks, disk, tombstone, running, lock, candidate, strays>>

Steps ==
  {"free", "mark", "move", "unmove", "reopen", "unmark",
   "purgeMove", "entomb", "purgeMark", "purgeFiles", "purgeRow", "clear"}

TypeOK ==
  /\ row \in {"live", "deleted", "gone"}
  /\ expired \in BOOLEAN /\ purging \in BOOLEAN
  /\ active \in {"none", "empty", "files"}
  /\ trash \in {"none", "empty", "files", "partial"}
  /\ tombstone \in BOOLEAN
  /\ running \in BOOLEAN
  /\ lock \in [at : Steps, by : {"nobody", "user", "sweep"}]
  /\ candidate \in {"none", "purge", "reconcile"}
  /\ strays \in 0..MaxStrays

Free == [at |-> "free", by |-> "nobody"]
Locked(at, by) == [at |-> at, by |-> by]
Step(at) == lock' = Locked(at, lock.by)
Unlock == lock' = Free

Init ==
  /\ row = "live" /\ expired = FALSE /\ purging = FALSE
  /\ active = "files" /\ trash = "none"
  /\ tombstone = FALSE
  /\ running = FALSE
  /\ lock = Free
  /\ candidate = "none"
  /\ strays = 0

\* moveWorkspaceStorage: nothing to move, or one rename; never onto another.
ToTrash ==
  \/ active = "none" /\ UNCHANGED disk
  \/ /\ active # "none" /\ trash = "none"
     /\ trash' = active /\ active' = "none"
ToActive ==
  \/ trash = "none" /\ UNCHANGED disk
  \/ /\ trash # "none" /\ active = "none"
     /\ active' = trash /\ trash' = "none"
-----------------------------------------------------------------------------
(* trashWorkspace                                                          *)

\* Mutant: conversations are not looked at.
TrashAllowedAlways == row = "live"

TrashAllowed == row = "live" /\ ~running

TrashBegin ==
  /\ lock = Free
  /\ \/ TrashAllowed /\ lock' = Locked("mark", "user")
     \/ row = "deleted" /\ lock' = Locked("move", "user")
  /\ UNCHANGED <<marks, disk, tombstone, running, candidate, strays>>

TrashMark ==
  /\ lock.at = "mark"
  /\ row' = "deleted"
  /\ expired' = FALSE
  /\ Step("move")
  /\ UNCHANGED <<purging, disk, tombstone, running, candidate, strays>>

TrashMove ==
  /\ lock.at = "move"
  /\ ToTrash
  /\ Unlock
  /\ UNCHANGED <<marks, tombstone, running, candidate, strays>>
-----------------------------------------------------------------------------
(* restoreWorkspace                                                        *)

\* Mutant: a purge that has begun is not looked at.
RestorableByAge == row = "deleted" /\ ~expired

Restorable == row = "deleted" /\ ~purging /\ ~expired

RestoreBegin ==
  /\ lock = Free
  /\ Restorable
  /\ lock' = Locked("unmove", "user")
  /\ UNCHANGED <<marks, disk, tombstone, running, candidate, strays>>

RestoreMove ==
  /\ lock.at = "unmove"
  /\ ToActive
  /\ Step("reopen")
  /\ UNCHANGED <<marks, tombstone, running, candidate, strays>>

\* Mutant: the tombstone is left to its TTL.
RestoreForgets ==
  /\ lock.at = "reopen"
  /\ Step("unmark")
  /\ UNCHANGED <<marks, disk, tombstone, running, candidate, strays>>

RestoreReopen ==
  /\ lock.at = "reopen"
  /\ tombstone' = FALSE
  /\ Step("unmark")
  /\ UNCHANGED <<marks, disk, running, candidate, strays>>

RestoreUnmark ==
  /\ lock.at = "unmark"
  /\ row' = "live"
  /\ expired' = FALSE
  /\ Unlock
  /\ UNCHANGED <<purging, disk, tombstone, running, candidate, strays>>
-----------------------------------------------------------------------------
(* purgeWorkspace, for a user who typed the name, or for the sweep, which  *)
(* chose the workspace before it waited for the lock.                      *)

Purge(by) ==
  /\ lock = Free
  /\ row = "deleted"
  /\ lock' = Locked("purgeMove", by)

PurgeByUser ==
  /\ Purge("user")
  /\ UNCHANGED <<marks, disk, tombstone, running, candidate, strays>>

\* Files that an interrupted move left behind go first.
PurgeMove ==
  /\ lock.at = "purgeMove"
  /\ ToTrash
  /\ Step("entomb")
  /\ UNCHANGED <<marks, tombstone, running, candidate, strays>>

PurgeEntomb ==
  /\ lock.at = "entomb"
  /\ tombstone' = TRUE
  /\ Step("purgeMark")
  /\ UNCHANGED <<marks, disk, running, candidate, strays>>

\* Mutant: the purge is recorded only with the deletion of the row.
PurgeUnmarked ==
  /\ lock.at = "purgeMark"
  /\ Step("purgeFiles")
  /\ UNCHANGED <<marks, disk, tombstone, running, candidate, strays>>

PurgeMark ==
  /\ lock.at = "purgeMark"
  /\ purging' = TRUE
  /\ Step("purgeFiles")
  /\ UNCHANGED <<row, expired, disk, tombstone, running, candidate, strays>>

\* purgeWorkspaceStorage: the move once more, then a recursive removal, which
\* may end half way.
PurgeFiles ==
  /\ lock.at = "purgeFiles"
  /\ active = "none"
  /\ \/ trash' = "none" /\ Step("purgeRow")
     \/ trash \in {"files", "partial"} /\ trash' = "partial" /\ Unlock
  /\ UNCHANGED <<marks, active, tombstone, running, candidate, strays>>

PurgeFilesMoves ==
  /\ lock.at = "purgeFiles"
  /\ active # "none"
  /\ ToTrash
  /\ UNCHANGED <<marks, tombstone, running, lock, candidate, strays>>

PurgeRow ==
  /\ lock.at = "purgeRow"
  /\ row' = "gone"
  /\ Step("clear")
  /\ UNCHANGED <<expired, purging, disk, tombstone, running, candidate, strays>>

PurgeClear ==
  /\ lock.at = "clear"
  /\ tombstone' = FALSE
  /\ Unlock
  /\ UNCHANGED <<marks, disk, running, candidate, strays>>
-----------------------------------------------------------------------------
(* The sweep reads the trashed rows, then works through them one by one.   *)

\* Mutant: a purge that was interrupted is left to the age of the workspace.
Overdue == expired

Due == purging \/ expired

SweepScan ==
  /\ candidate = "none"
  /\ row = "deleted"
  /\ candidate' = IF Due THEN "purge" ELSE "reconcile"
  /\ UNCHANGED <<marks, disk, tombstone, running, lock, strays>>

\* Mutant: the row is not read again under the lock.
ReconcileScanned == lock' = Locked("move", "sweep")

\* reconcileTrashedWorkspace
ReconcileDeleted == lock' = IF row = "deleted" THEN Locked("move", "sweep") ELSE Free

SweepActs ==
  /\ lock = Free
  /\ \/ candidate = "purge" /\ Purge("sweep")
     \/ candidate = "purge" /\ row # "deleted" /\ UNCHANGED lock
     \/ candidate = "reconcile" /\ ReconcileDeleted
  /\ candidate' = "none"
  /\ UNCHANGED <<marks, disk, tombstone, running, strays>>

\* A call fails, a directory is in the way, or the manager dies.
HandlerFails ==
  /\ lock # Free
  /\ Unlock
  /\ UNCHANGED <<marks, disk, tombstone, running, candidate, strays>>
-----------------------------------------------------------------------------
(* The other users of the lock, and time.                                  *)

\* checkWorkspace, for launch and for the request that makes the directory.
Usable == lock = Free /\ row = "live" /\ ~tombstone

RunBegins ==
  /\ Usable
  /\ running' = TRUE
  /\ UNCHANGED <<marks, disk, tombstone, lock, candidate, strays>>

RunEnds ==
  /\ running
  /\ running' = FALSE
  /\ UNCHANGED <<marks, disk, tombstone, lock, candidate, strays>>

Provision ==
  /\ Usable
  /\ active' = IF active = "none" THEN "empty" ELSE active
  /\ UNCHANGED <<marks, trash, tombstone, running, lock, candidate, strays>>

\* A request to the Runtime that outlived its manager, or a process there,
\* makes the directory again.
Stray ==
  /\ strays < MaxStrays
  /\ active = "none"
  /\ active' = "empty"
  /\ strays' = strays + 1
  /\ UNCHANGED <<marks, trash, tombstone, running, lock, candidate>>

Expire ==
  /\ row = "deleted" /\ ~expired
  /\ expired' = TRUE
  /\ UNCHANGED <<row, purging, disk, tombstone, running, lock, candidate, strays>>

TombstoneExpires ==
  /\ tombstone
  /\ tombstone' = FALSE
  /\ UNCHANGED <<marks, disk, running, lock, candidate, strays>>
-----------------------------------------------------------------------------
Trashing == TrashMark \/ TrashMove
Restoring == RestoreMove \/ RestoreReopen \/ RestoreUnmark
Purging ==
  PurgeMove \/ PurgeEntomb \/ PurgeMark \/ PurgeFiles \/ PurgeFilesMoves \/ PurgeRow \/ PurgeClear

Next ==
  \/ TrashBegin \/ Trashing \/ RestoreBegin \/ Restoring \/ PurgeByUser \/ Purging
  \/ SweepScan \/ SweepActs \/ HandlerFails
  \/ RunBegins \/ RunEnds \/ Provision
  \/ Stray \/ Expire \/ TombstoneExpires

\* A handler does not stay in a call; the sweep comes again and again, gets the
\* lock, and its calls do not fail for ever.
Fairness ==
  /\ WF_vars(Trashing \/ Restoring \/ Purging \/ HandlerFails)
  /\ WF_vars(SweepScan) /\ SF_vars(SweepActs)
  /\ SF_vars(lock.by = "sweep" /\ (TrashMove \/ PurgeMove))
  /\ SF_vars(lock.by = "sweep" /\ PurgeEntomb) /\ SF_vars(lock.by = "sweep" /\ PurgeMark)
  /\ SF_vars(PurgeFiles /\ trash' = "none") /\ SF_vars(PurgeRow)

Spec == Init /\ [][Next]_vars /\ Fairness
-----------------------------------------------------------------------------
\* A workspace that its user sees has all its files, in the directory that the
\* Runtime mounts, whatever was interrupted before.
LiveHasFiles ==
  row = "live" => active = "files" /\ trash = "none"

\* A live workspace is not blocked by the tombstone of a purge that was given up.
LiveIsOpen ==
  row = "live" => ~tombstone

\* While a conversation runs its workspace is not trashed under it.
RunHasWorkspace ==
  running => row = "live"

\* What is deleted has been recorded first, so that no restore can follow, and
\* a directory that appeared meanwhile is never merged or removed.
DeletionIsRecorded ==
  [][trash' # trash /\ trash' \in {"none", "partial"} /\ active' = active
       => row = "deleted" /\ purging /\ active = "none"]_vars

\* The sweep begins the purge only of a workspace that has been in the Trash for
\* 30 days since it was last put there.
RetentionIsKept ==
  [][~purging /\ purging' /\ lock.by = "sweep" => expired]_vars

\* A workspace whose 30 days have passed, or whose purge has begun, is removed,
\* unless a second directory is in the way.
ExpiredIsPurged ==
  (row = "deleted" /\ (expired \/ purging)) ~> (row # "deleted" \/ strays > 0)
=============================================================================
