------------------------------- MODULE Uploads -------------------------------
(***************************************************************************)
(* Uploads to one workspace: the FileUploads component of the browser, and *)
(* the registry of upload batches and the atomic writes of the Runtime     *)
(* (UploadBatchStore, WorkspaceFileTransfers).  The web server and the     *)
(* manager in between pass bytes on and hold the workspace lock until the  *)
(* request is over for them: when the browser's side breaks off, what the  *)
(* Runtime does goes on for a while.  A check of the abort signal and the  *)
(* file system call after it are two steps.                                *)
(***************************************************************************)
EXTENDS FiniteSets, Naturals

CONSTANTS
  NumFiles,     \* how many files were selected
  Batches,      \* the ids of upload batches: a bound for TLC
  MaxBatches,   \* batches the Runtime keeps at once (16)
  None          \* no file or batch

ASSUME BoundAssumption ==
  NumFiles \in Nat /\ MaxBatches \in Nat \ {0} /\ None \notin Batches \cup 1..NumFiles

Files == 1..NumFiles   \* their paths, in the order of the queue

VARIABLES
  item,       \* the status of each file in the queue of the browser
  step,       \* where run() of the browser is
  batch,      \* operation.batchId, or the batch being created
  current,    \* the file that run() works on
  mode,       \* how its conflict is resolved
  policy,     \* operation.conflictPolicy
  cancelled,  \* operation.cancelled
  creation,   \* where the POST of each batch is
  aborted,    \* batches whose running request was aborted
  registry,   \* `batches' of the Runtime
  write,      \* the write of each batch
  deletion,   \* where DELETE of each batch is
  workspace,  \* "open", "closing" (being deleted) or "gone"
  disk,       \* what is at each path: nothing, another's file, ours, or a part of ours
  copies,     \* files that were published under another name
  lost        \* paths where another's file was overwritten unasked (history)

operation == <<batch, current, mode, policy, cancelled>>
browser == <<item, step, operation>>
runtime == <<creation, aborted, registry, write, deletion, workspace>>
files == <<disk, copies, lost>>
vars == <<browser, runtime, files>>

Idle == [at |-> "none"]
Places == {"begun", "receiving", "publishing", "published", "refused", "failed"}
WritesTo(fs) ==
  {Idle} \cup [at : Places, file : fs, mode : {"error", "replace", "rename"},
           whole : BOOLEAN, agreed : BOOLEAN]

TypeOK ==
  /\ item \in [Files -> {"none", "pending", "uploading", "done", "skipped", "failed"}]
  /\ \A f \in Files : item[f] = "uploading" => step \in {"sending", "asking"} /\ f = current
  /\ step \in {"idle", "creating", "next", "sending", "asking", "ending", "left"}
  /\ batch \in Batches \cup {None} /\ (batch = None <=> step \in {"idle", "left"})
  /\ current \in Files \cup {None} /\ (current # None <=> step \in {"sending", "asking"})
  /\ mode \in {"error", "replace", "rename"} /\ policy \in {"none", "replace", "rename", "skip"}
  /\ cancelled \in BOOLEAN
  /\ creation \in [Batches -> {"new", "sent", "making", "made", "over"}]
  /\ aborted \subseteq Batches /\ registry \subseteq Batches /\ Cardinality(registry) <= MaxBatches
  /\ write \in [Batches -> WritesTo(Files)]
  /\ deletion \in [Batches -> {"none", "sent", "waiting", "answered"}]
  /\ workspace \in {"open", "closing", "gone"}
  /\ disk \in [Files -> {"none", "theirs", "ours", "part"}]
  /\ copies \subseteq Files /\ lost \subseteq Files

Init ==
  /\ item = [f \in Files |-> "none"] /\ step = "idle"
  /\ batch = None /\ current = None /\ mode = "error" /\ policy = "none" /\ cancelled = FALSE
  /\ creation = [b \in Batches |-> "new"] /\ aborted = {} /\ registry = {}
  /\ write = [b \in Batches |-> Idle] /\ deletion = [b \in Batches |-> "none"]
  /\ workspace = "open"
  /\ disk = [f \in Files |-> "none"] /\ copies = {} /\ lost = {}

-----------------------------------------------------------------------------
(* The browser *)

NoOperation ==
  /\ batch' = None /\ current' = None /\ mode' = "error" /\ policy' = "none" /\ cancelled' = FALSE

\* run() sends the files that are not done or skipped as a new batch.
Begin(fs) ==
  /\ step = "idle" /\ fs # {}
  /\ \E b \in Batches :
       /\ creation[b] = "new"
       /\ creation' = [creation EXCEPT ![b] = "sent"]
       /\ batch' = b
  /\ item' = [f \in Files |-> IF f \in fs THEN "pending" ELSE item[f]]
  /\ step' = "creating"
  /\ UNCHANGED <<current, mode, policy, cancelled, aborted, registry, write, deletion,
                 workspace, files>>

Select == (\A f \in Files : item[f] = "none") /\ Begin(Files)

Retry == Begin({f \in Files : item[f] \in {"pending", "failed"}})

\* The id of the batch has come.
GetsBatch ==
  /\ step = "creating" /\ creation[batch] = "made" /\ ~cancelled
  /\ creation' = [creation EXCEPT ![batch] = "over"]
  /\ step' = "next"
  /\ UNCHANGED <<item, operation, aborted, registry, write, deletion, workspace, files>>

\* The browser breaks its request off: both proxies pass that on, so that the
\* Runtime aborts the request if it is still running.
Breaks(running) == aborted' = IF running THEN aborted \cup {batch} ELSE aborted

\* It does not come: the POST was refused, broken off or cancelled.  Without
\* an id there is nothing to delete.
GetsNoBatch ==
  /\ step = "creating"
  /\ Breaks(creation[batch] \in {"sent", "making"})
  /\ step' = "idle" /\ NoOperation
  /\ UNCHANGED <<item, creation, registry, write, deletion, workspace, files>>

\* A write knows whether the user agreed to a replacement (history).
Put(f, m, choice) ==
  write' = [write EXCEPT ![batch] = [at |-> "begun", file |-> f, mode |-> m, whole |-> FALSE,
                                     agreed |-> choice = "replace"]]

\* The next file of the queue is sent.
Send ==
  /\ step = "next" /\ ~cancelled
  /\ \E f \in Files :
       /\ item[f] = "pending" /\ \A g \in 1..f - 1 : item[g] # "pending"
       /\ item' = [item EXCEPT ![f] = "uploading"]
       /\ current' = f
       /\ Put(f, mode, "none")
  /\ step' = "sending"
  /\ UNCHANGED <<batch, mode, policy, cancelled, creation, aborted, registry, deletion,
                 workspace, files>>

DeletesBatch ==
  /\ step' = "ending" /\ deletion' = [deletion EXCEPT ![batch] = "sent"]

\* The queue is done, or run() leaves it: the batch is deleted.
Finish ==
  /\ step = "next" /\ (cancelled \/ \A f \in Files : item[f] # "pending")
  /\ DeletesBatch
  /\ UNCHANGED <<item, operation, creation, aborted, registry, write, workspace, files>>

LeavesFile(status) == item' = [item EXCEPT ![current] = status] /\ mode' = "error" /\ UNCHANGED current

\* run() is done with the current file.
Leaves(status) ==
  /\ item' = [item EXCEPT ![current] = status]
  /\ current' = None /\ mode' = "error"

\* The answer to the PUT: the status of a refusal passes the proxies unchanged.
Hears(at) == write[batch].at = at

Succeeds ==
  /\ step = "sending" /\ Hears("published") /\ ~cancelled
  /\ Leaves("done")
  /\ write' = [write EXCEPT ![batch] = Idle]
  /\ step' = "next"
  /\ UNCHANGED <<batch, policy, cancelled, creation, aborted, registry, deletion,
                 workspace, files>>

\* A first 409: the user, or the policy of the batch, decides.
Conflicts ==
  /\ step = "sending" /\ Hears("refused") /\ mode = "error" /\ ~cancelled
  /\ write' = [write EXCEPT ![batch] = Idle]
  /\ step' = "asking"
  /\ UNCHANGED <<item, operation, creation, aborted, registry, deletion, workspace, files>>

Choose(choice) ==
  IF choice = "skip"
  THEN Leaves("skipped") /\ step' = "next" /\ UNCHANGED write
  ELSE /\ mode' = choice /\ Put(current, choice, choice) /\ step' = "sending"
       /\ UNCHANGED <<item, current>>

Chooses ==
  /\ step = "asking" /\ ~cancelled
  /\ IF policy # "none"
     THEN Choose(policy) /\ UNCHANGED policy
     ELSE \E choice \in {"replace", "rename", "skip"} :
            Choose(choice) /\ policy' \in {"none", choice}
  /\ UNCHANGED <<batch, cancelled, creation, aborted, registry, deletion, workspace, files>>

\* Any other answer: run() gives the batch up.
Fails ==
  /\ step = "sending" /\ ~cancelled
  /\ Hears("failed") \/ (Hears("refused") /\ mode # "error")
  /\ Leaves("failed")
  /\ write' = [write EXCEPT ![batch] = Idle]
  /\ DeletesBatch
  /\ UNCHANGED <<batch, policy, cancelled, creation, aborted, registry, workspace, files>>

\* No answer: the connection is lost, or broken off by a cancellation, and
\* sooner or later the request is aborted.
Disconnects ==
  /\ step = "sending"
  /\ Leaves(IF cancelled THEN "pending" ELSE "failed")
  /\ Breaks(TRUE)
  /\ DeletesBatch
  /\ UNCHANGED <<batch, policy, cancelled, creation, registry, write, workspace, files>>

\* The user cancels.
Cancel ==
  /\ step \in {"creating", "next", "sending", "asking"} /\ ~cancelled
  /\ cancelled' = TRUE
  /\ IF step = "asking"
     THEN Leaves("pending") /\ step' = "next"
     ELSE UNCHANGED <<item, current, mode, step>>
  /\ UNCHANGED <<batch, policy, runtime, files>>

\* DELETE of the batch was answered, or the browser gives it up.
Ended ==
  /\ step = "ending"
  /\ step' = "idle" /\ NoOperation
  /\ UNCHANGED <<item, runtime, files>>

\* The page is left: everything in progress is broken off, and a last DELETE
\* is sent for a batch whose id is known.
LeavePage ==
  /\ step \notin {"idle", "left"}
  /\ step' = "left" /\ NoOperation
  /\ item' = [f \in Files |-> IF item[f] = "uploading" THEN "pending" ELSE item[f]]
  /\ Breaks(creation[batch] \in {"sent", "making"} \/ write[batch] # Idle)
  /\ deletion' = [deletion EXCEPT ![batch] = IF step # "creating" /\ @ = "none" THEN "sent" ELSE @]
  /\ UNCHANGED <<creation, registry, write, workspace, files>>

-----------------------------------------------------------------------------
(* The registry of the Runtime *)

\* The signal of a request: its connection, its batch or its workspace.
Stopped(b) == b \in aborted \/ b \notin registry \/ workspace # "open"

\* create(): the batch takes its place before its directories are made.  A
\* deletion of the workspace refuses it.
CreateBegins(b) ==
  /\ creation[b] = "sent"
  /\ IF Cardinality(registry) >= MaxBatches \/ workspace # "open"
     THEN creation' = [creation EXCEPT ![b] = "over"] /\ UNCHANGED registry
     ELSE creation' = [creation EXCEPT ![b] = "making"] /\ registry' = registry \cup {b}
  /\ UNCHANGED <<browser, aborted, write, deletion, workspace, files>>

\* The entries, sizes or paths of the manifest are not accepted.
RefusesManifest(b) ==
  /\ creation[b] = "sent"
  /\ creation' = [creation EXCEPT ![b] = "over"]
  /\ UNCHANGED <<browser, aborted, registry, write, deletion, workspace, files>>

\* The last look is at the request alone: a batch that has expired meanwhile is
\* answered too.
CreateEnds(b) ==
  /\ creation[b] = "making" /\ b \notin aborted /\ workspace = "open"
  /\ creation' = [creation EXCEPT ![b] = "made"]
  /\ UNCHANGED <<browser, aborted, registry, write, deletion, workspace, files>>

\* A create that fails, or was aborted, gives its place back.
CreateFails(b) ==
  /\ creation[b] = "making"
  /\ creation' = [creation EXCEPT ![b] = "over"]
  /\ registry' = registry \ {b} /\ aborted' = aborted \ {b}
  /\ UNCHANGED <<browser, write, deletion, workspace, files>>

\* A batch has made no progress for a quarter of an hour.
Expires(b) ==
  /\ b \in registry
  /\ registry' = registry \ {b}
  /\ UNCHANGED <<browser, creation, aborted, write, deletion, workspace, files>>

\* cancel() removes the batch and awaits its write.
DeleteBegins(b) ==
  /\ deletion[b] = "sent"
  /\ registry' = registry \ {b}
  /\ deletion' = [deletion EXCEPT ![b] = IF b \in registry THEN "waiting" ELSE "none"]
  /\ UNCHANGED <<browser, creation, aborted, write, workspace, files>>

SettledAlways(b) == TRUE

Settled(b) == write[b].at \notin {"receiving", "publishing"}

DeleteEnds(b) ==
  /\ deletion[b] = "waiting" /\ Settled(b)
  /\ deletion' = [deletion EXCEPT ![b] = "answered"]
  /\ UNCHANGED <<browser, creation, aborted, registry, write, workspace, files>>

-----------------------------------------------------------------------------
(* The write of a file *)

To(b, at) == write' = [write EXCEPT ![b].at = at]

\* checkDestination(): only a write that must not replace anything is refused.
Taken(b) == write[b].mode = "error" /\ disk[write[b].file] # "none"

\* write(), then checkDestination in writeAtomic.
Starts(b) ==
  /\ write[b].at = "begun"
  /\ To(b, CASE workspace # "open" -> "refused"
             [] workspace = "open" /\ Stopped(b) -> "failed"
             [] ~Stopped(b) /\ Taken(b) -> "refused"
             [] OTHER -> "receiving")
  /\ UNCHANGED <<browser, creation, aborted, registry, deletion, workspace, files>>

CompleteAnyway(b, all) == TRUE

Complete(b, all) == all

\* The body, or a part of it, has arrived in a temporary file: the last look at
\* its size and at the signal.
Receives(b) ==
  /\ write[b].at = "receiving"
  /\ \E all \in BOOLEAN :
       write' = [write EXCEPT ![b].whole = all,
                              ![b].at = IF Complete(b, all) /\ ~Stopped(b)
                                        THEN "publishing" ELSE "failed"]
  /\ UNCHANGED <<browser, creation, aborted, registry, deletion, workspace, files>>

Content(b) == IF write[b].whole THEN "ours" ELSE "part"

\* A rename replaces what is there.
Rename(b) ==
  LET f == write[b].file
  IN /\ disk' = [disk EXCEPT ![f] = Content(b)]
     /\ lost' = IF disk[f] = "theirs" /\ ~write[b].agreed THEN lost \cup {f} ELSE lost
     /\ To(b, "published")
     /\ UNCHANGED copies

LinkClobbers(b) == Rename(b)

\* A link never does: the file is refused, or gets another name.
Link(b) ==
  LET f == write[b].file
  IN /\ CASE disk[f] = "none" ->
               disk' = [disk EXCEPT ![f] = Content(b)] /\ To(b, "published") /\ UNCHANGED copies
          [] disk[f] # "none" /\ write[b].mode = "rename" ->
               copies' = copies \cup {f} /\ To(b, "published") /\ UNCHANGED disk
          [] OTHER -> To(b, "refused") /\ UNCHANGED <<disk, copies>>
     /\ UNCHANGED lost

Publishes(b) ==
  /\ write[b].at = "publishing"
  /\ IF write[b].mode = "replace" THEN Rename(b) ELSE Link(b)
  /\ UNCHANGED <<browser, creation, aborted, registry, deletion, workspace>>

\* Something fails, or the signal interrupts the body.
WriteFails(b) ==
  /\ write[b].at \in {"begun", "receiving", "publishing"}
  /\ To(b, "failed")
  /\ UNCHANGED <<browser, creation, aborted, registry, deletion, workspace, files>>

\* Nobody is left to take the answer.
Unheard(b) ==
  /\ b \in aborted /\ write[b].at \in {"published", "refused", "failed"}
  /\ write' = [write EXCEPT ![b] = Idle]
  /\ aborted' = aborted \ {b}
  /\ UNCHANGED <<browser, creation, registry, deletion, workspace, files>>

-----------------------------------------------------------------------------
(* The surroundings *)

\* The agent, or another page of the user, makes a file.
Appears(f) ==
  /\ disk[f] = "none" /\ workspace = "open"
  /\ disk' = [disk EXCEPT ![f] = "theirs"]
  /\ UNCHANGED <<browser, runtime, copies, lost>>

\* The manager holds the workspace lock for a request until its bytes have
\* passed, or its side of the request was broken off.
Locked ==
  \E b \in Batches \ aborted :
    creation[b] = "making" \/ write[b].at \in {"receiving", "publishing"}

\* DELETE of the workspace, under that lock, aborts its transfers and batches and
\* awaits them.
CloseBegins ==
  /\ workspace = "open" /\ ~Locked
  /\ workspace' = "closing" /\ registry' = {}
  /\ UNCHANGED <<browser, creation, aborted, write, deletion, files>>

CloseEnds ==
  /\ workspace = "closing"
  /\ \A b \in Batches : Settled(b) /\ creation[b] # "making"
  /\ workspace' = "gone"
  /\ disk' = [f \in Files |-> "none"] /\ copies' = {}
  /\ UNCHANGED <<browser, creation, aborted, registry, write, deletion, lost>>

\* The container is killed.
Crash ==
  /\ registry # {}
  /\ registry' = {}
  /\ write' = [b \in Batches |-> IF write[b] = Idle THEN Idle ELSE [write[b] EXCEPT !.at = "failed"]]
  /\ creation' = [b \in Batches |-> IF creation[b] = "new" THEN "new" ELSE "over"]
  /\ UNCHANGED <<browser, aborted, deletion, workspace, files>>

Next ==
  \/ Select \/ Retry \/ GetsBatch \/ GetsNoBatch \/ Send \/ Finish \/ Succeeds
  \/ Conflicts \/ Chooses \/ Fails \/ Disconnects \/ Cancel \/ Ended \/ LeavePage
  \/ \E b \in Batches :
       \/ CreateBegins(b) \/ RefusesManifest(b) \/ CreateEnds(b) \/ CreateFails(b)
       \/ Expires(b) \/ DeleteBegins(b) \/ DeleteEnds(b)
       \/ Starts(b) \/ Receives(b) \/ Publishes(b) \/ WriteFails(b) \/ Unheard(b)
  \/ \E f \in Files : Appears(f)
  \/ CloseBegins \/ CloseEnds \/ Crash

Spec == Init /\ [][Next]_vars

-----------------------------------------------------------------------------
(* Properties *)

\* The file of another is never overwritten unless the user chose to replace
\* it, whatever appears between the check and the publication.
NoClobber == lost = {}

\* Every visible file is complete, and the browser reports as done only what
\* is in the workspace, under its name or as a copy.
WholeOrNothing ==
  \A f \in Files :
    /\ disk[f] # "part"
    /\ (item[f] = "done" /\ workspace # "gone") => (disk[f] = "ours" \/ f \in copies)

\* Once the cancellation of a batch is answered, or the workspace is deleted,
\* no write of it is on its way to the disk.
CancelIsFinal ==
  \A b \in Batches :
    (deletion[b] = "answered" \/ workspace = "gone") =>
      write[b].at \notin {"receiving", "publishing"}
=============================================================================
