# Verification of cloudwork

Cloudwork gives every user one container (the *Runtime*) in which coding agents
work on the user's workspaces. A browser talks to the web application, the web
application to the runtime manager, the manager to Docker, PostgreSQL, Redis, the
MCP gateway and the Runtimes. This directory holds TLA+ models of the parts
whose correctness depends on the order of steps, TLC configurations that check them on
small instances, and TLAPS proofs of the results that matter most.

## The system

| Component | State | Operations | What makes it correct |
|---|---|---|---|
| Run scheduler, `apps/runtime-manager/src/runs.ts` | receipts and conversation status (PostgreSQL), session lease, busy mark and run key (Redis), `active` (memory) | launch, execute and its heartbeat, cancel, recoverStale, grant cleanup | an accepted message is executed at most once, is eventually decided, and is closed only when its execution is over |
| Leases, `leases.ts` | one Redis key per lock | acquire, renew, release, withLock, busy marks | operations under one lock exclude each other, or the one that was overtaken fails |
| Runtime lifecycle, `lifecycle.ts`, `reaper.ts`, lease endpoints of `server.ts` | container and its networks (Docker), `runtime_instances` row, busy marks, `repairAfter` (memory) | ensure, replace, stop, remove, status, admission, sweep | work is never interrupted by recycling; row and container agree well enough for the sweep to repair them |
| Workspace Trash, `workspace-trash.ts`, `workspace-trash-storage.ts` | workspace row, directories, Redis tombstone | trash, restore, purge, reconcile | a crash between steps loses no file that was not to be purged |
| Event log and stream, `events.ts`, the SSE route | `agent_events`, Redis Streams | publish, backfill, read from a cursor | a reader sees each event once, in order |
| MCP gateway, `apps/mcp-gateway` | servers, bindings, grants | configure, issue, authorize, renew, revoke, expire | no call is sent or answered under a revoked grant, and every grant ends |
| Runtime server, `docker/runtime`, and harness adapter, `packages/runtime-dsh` | sessions, active set, one subprocess each | create, run, cancel, shut down | one run per session; a terminal event only after the subprocess has exited |
| File transfer and workspace files, `packages/workspace`, `docker/runtime/src/file-transfer.ts` | batches, transfers in progress, the files | batches: create, write, publish, cancel, expire; files: read, write, rename, delete, download | a published file is complete and overwrites nothing unasked; a save overwrites only what its version stands for |
| Web pages and their API, `apps/web` | the conversation, the upload queue and the open file of a page | send, verify, stream; select, upload, resolve; open, edit, save, refresh | the view follows the log; text is not lost, and messages are not sent or shown twice |

How they interact: the web application posts a message to the manager, which writes the
receipt and answers; the rest happens asynchronously in `execute`, which streams events
from the Runtime into the log. Stop, recovery and the sweep run concurrently with it, in
the same manager or in another one during a deployment. They share PostgreSQL rows
and Redis keys, are serialised by Redis locks with a TTL, and may crash between any two
calls. The behaviours that are hard to test are listed, each at its line, under
"hazards" in `PROJECT.json`.

## Modules

| Module | What it is | Code |
|---|---|---|
| `MessageLedger` | what a user relies on: accept, claim, invoke, end, close | abstract |
| `Runs` | the run scheduler for one conversation; refines `MessageLedger` | `runs.ts` |
| `RunsInv` | the inductive invariant of `Runs` | |
| `RunsLive` | `Runs` under fairness, liveness | |
| `Runs_proofs` | theorems about `Runs` | |
| `MCRuns` | instance for TLC | |
| `Leases`, `MCLeases` | `withLock` with a clock, instance; its theorems are in `WorkspaceTrash_proofs` | `leases.ts` |
| `RuntimeLifecycle`, `RuntimeLifecycle_proofs` | a user's container, networks, row, marks, and the sweep, theorems | `lifecycle.ts`, `reaper.ts` |
| `WorkspaceTrash`, `WorkspaceTrash_proofs` | trash, restore, purge and sweep of one workspace; theorems about it and about the lock it works under (`Leases`) | `workspace-trash.ts`, `workspace-trash-storage.ts`, `reaper.ts` |
| `McpGrants`, `McpGrants_proofs` | grants, clients and settings of one MCP connection, theorems | `mcp-gateway/src/store.ts`, `server.ts`, `upstream.ts` |
| `RuntimeServer`, `RuntimeServer_proofs` | the server in the container with its harness adapter: sessions, runs, cancellation, theorems | `docker/runtime/src/server.ts`, `packages/runtime-dsh` |
| `RunSlots` | what the manager and the server rely on of each other; `RuntimeServer` and, by theorem, `Runs` implement it | abstract |
| `Uploads`, `Uploads_proofs` | an upload from the queue of the page to the publication of each file, theorems | `file-upload.tsx`, `file-transfer.ts` (web, manager, Runtime, workspace) |
| `Conversation`, `Conversation_proofs` | a page's conversations: reducer, sending, status checks, log and stream, theorems | `conversation.tsx`, `conversation-state.ts`, the message and event routes, `events.ts` |
| `FileEditor`, `FileEditor_proofs` | a page's open file, saves and refreshes, and downloads, beside an agent, theorems | `file-browser.tsx`, `packages/workspace` |

### Runs

`op` is the holder of the session control lock and its next step; `pc` says where each
execution is. An execution is one attempt: it stands for the lease token and the runId
drawn for it. Each action is the code between two awaited calls whose order
matters, so that any other handler may run in between.

Decisions:

- The workspace lock is left out: it only delays steps, so all its interleavings are allowed
  here. The control lock is kept. It is heartbeated; its loss by a live holder is the
  subject of `Leases`.
- A crash frees the control lock at once. Its TTL would only delay the next holder.
- The heartbeat's renewal and mark are one step.
- The run key and the grants of a run are written in two steps, and so are the revocation and the end of a run that recovery finds queued.
- Events are written in the transaction of the status they belong to and are not a variable.
- The Runtime is `rt`, the run it executes. `/run` is refused while another run is executed,
  `terminateExecution` ends the run of the session whichever it is, and a
  run may end, fail or lose its container at any time. A terminal event is read only after
  the run is over, which is what the Runtime server promises. A `/run` request that the manager gave
  up reaches the Runtime before a later `/cancel`, or never.
- Left out as unreachable under the lock: the `ON CONFLICT` branch of launch and the
  `resumedExecution` branch of cancel. Left out: the tombstone, legacy Redis
  receipts, and a stop transaction whose acknowledgement is lost.
- `shutdown` is a Stop of every active execution, as `StopBegin` and its steps.

`IInv` in `RunsInv` is inductive: it says which lease, receipt and flag values go with
each place of an execution and of the control lock's holder, e.g. that a receipt whose run is
executing in the Runtime is running under that runId, and that only the holder of the
lock claims or dispatches. The safety properties follow from it. The proof that each action preserves it has one step
per action.

### Leases

One key, a clock, and clients that may be cut off from Redis. A timer fires when due
(`Tick` waits for it), which is the code's assumption that its event loop is not
blocked for a TTL; a client that is cut off gets errors or no answers, and its requests may
or may not have been executed. `ConnectedHolds` and `Exclusive` speak of operations whose client
was never cut off. `OvertakenFails` speaks of all.

### RuntimeLifecycle

One user. Docker calls, row updates and mark reads are separate steps under the lifecycle lock
(`lock`, with the handler's next step and what it has read). Operations end, marks expire, runs finish
and containers die at any time. Clocks are conditions: `idleDue` (idleMs
since lastActiveAt), `removeDue` (removeMs since stopped_at), `repairAfter`. The endpoints of the container and of
the gateway on the user's networks are there, missing or without their names (`wires`); the repair connects what is missing at
once and disconnects what has lost its name only when nothing runs. Host
directories and the image are the failures of a step. A mark does not expire between admission and
the acceptance of a message: that window is one transaction long and the mark lives 120 s.
Upload batches that outlive their request are left out.

### WorkspaceTrash

`row`, `expired` and `purging` are the workspace's row; `active` and `trash` what its two directories
hold: nothing, an empty directory, all files, or what a removal left. `lock` is the handler under the
workspace lock and its next step, each of which may fail or be the manager's last
(`HandlerFails`). `candidate` is the sweep's choice, made without the lock. A `Stray` is an empty directory
made again behind the handlers, by a request or a process in the Runtime that outlived its manager: it blocks
a move, which never merges. The lock of a live holder is assumed not to lapse (`Leases`). A
workspace whose life ended in a purge does nothing more, so deadlock is not checked.

### McpGrants

One user, workspace and connection. A grant is named by its run. Transactions under the user's row lock
are single actions; `authorize` is one query, whose answer is used a step later. `closing` holds what a
committed transaction has deleted until `closeGrants` is reached; a deletion that the gateway does
not hear of (a cascade, or a lost answer of the commit) is recorded in `silent`. The three authorizations
before `checkedClient` looks for the client are one, the last of them: a grant that passes it has
passed the others unless its workspace was restored in between. `Renew` and `Age` are the 120 s of a
grant in two halves. Revisions are compared only for equality, so a test and the listed tools are of the current
settings or of old ones, and the settings may be edited any number of times. A renewal that reaches the gateway after the run is left out: it delays the
expiry once. The list of 256 clients is shared with other users, so it may be full at any time. Left out: the
limits on connections and bindings, encryption, the destination policy, paging and redaction of results.

### RuntimeServer

An action is the code between two awaits of the Node process. `overlay` is the directory with the configuration of a run's tools; their
tokens are in the environment of the subprocess and go with it. `operation` is the server's loop over the events of a run, `execution`
the adapter's promise in `state.active`, `harness` and `overlay` what it has started; `cancels` says for each of the five
callers of `cancel` how far it is. All callers of `closeHarness` wait for the same `close()`, so they advance together. A `close()` may
fail and leave a process behind ("escaped"). The manager is `client` and `request`: it prepares a session, posts a run, reads
it, hangs up, cancels, and stops the container if a cancellation fails (`ForceStop`), which takes the
other sessions too. A `/run` that the manager gave up may reach the server before or after the cancel that
follows it; sessions to which the latter happened are `strays`, and `OverMeansOver` does not
speak of them. `Runs` takes it that this does not happen.
A run may be prepared while a late call of
`closeHarness` still removes the overlay of the one before it, and that call would then forget the new overlay: `Spawn` assumes that the removal has ended by then. An overlay
whose removal failed stays, and a run without tools starts with it. The graceful shutdown of the old container is one step, in which any of its clients may still be told
of an end.
`Slot` and `Held` are the view of `RunSlots`: a slot is over when no execution and no subprocess is left of its last run, and held from the request for
a run to its terminal event, the answer of its cancel, or the stop of the container.

### Uploads

One selection of files in one page, to one workspace. `step` is where `run` of the component is, `creation`, `write` and
`deletion` are its requests at the Runtime, which go on for a while when the page's side has broken off (`Breaks`, `Hears`).
Every look at the abort signal and the file system call after it are two steps; the last look of a creation is only at its own request. A write has its own
temporary file; only publication changes `disk`. Files of others appear at any time (`Appears`); a write that finds
one is refused, or replaces it or takes another name when the user said so. The page closes, the batch
expires, the Runtime restarts and the workspace is removed at any time. The contents, their sizes and
limits are whether a body is `whole`.

### Conversation

`view` is the reducer's state for the conversation shown and the cached ones of the others; a block knows the message it is of and its
`pending` mark, the wording is left out. `log` holds the events of each conversation by identity, which is given before the commit, so
an event may commit behind a reader (`late`). A stream pages from its cursor, drops, and starts from the cursor or, after a failed
verification, from the beginning. A POST may be lost before or after its effect, or arrive when the page has given it up (`astray`).
What a composer holds is the text of a message, which is named by the message, or a text that was never sent: that is all
`clearAcceptedDrafts` compares. The events on the wire are a set, received in the order of their identities, in which they were sent. The creation of a conversation
reuses a blank one (`Offered`), and starts with a copy of the page shown, which is of another conversation if the user went elsewhere
(`conversation.tsx:214`); what that page has read is not copied, because in the code events have identities of their own and here numbers in a log.
`check` holds the requests for the status of a message: that of `submit()`, those of the timer, three at most and only while the stream is open, and those of
the button, which the user may press at any time; they are answered in any order and beside one another. `MaxAsks` bounds the last two together, `MaxTexts` the
texts of runs, and `MaxExtras` the sum of both, for TLC: in the run a behaviour has one text, or one check besides that of `submit()`, because a text acts on
the place of the reader in the log and a check on the state of a message, and each is combined with every loss, every switch of page and every other page. Left out: `retryRun`, which sends like `Send`, the limit of 64 events of a page of the log, which the cursor makes up for, and the import of events of older versions.

### FileEditor

A version is the hash of a content, so it is the content. Opening, refreshing, and reading after a refused save are `reads`, answered at any
later time; a save is a `put` with its check, truncation and write as three steps. Requests of pages hold the workspace lock, so another
page (`AnotherPage`) writes only when it is free; the agent (`Agent`) writes, replaces and deletes files at any time, also between
the steps of a save, and between the look at the target of a rename and the rename. An abandoned PUT may go on beside a second save of the same page. A download looks at its
files, all of them first if it is an archive, and again before and after it has read each. `Torn` is a content with the rest of another one behind it. It is
assumed that inode, size and time of modification notice every change in place, and that a request which timed out at the
manager (30 s) is not still writing.

## Runs of TLC

| Run | Bounds | Shows |
|---|---|---|
| `runs_lapse` | 2 messages, 2 attempts, 1 manager, 1 lapse | an execution that lost its lease and its successor overlap; which of them a termination ends |
| `runs_managers` | 2 messages, 2 attempts, 2 managers, 1 crash | a Stop or recovery in one manager meets an execution of another |
| `runs_live` | 1 message, 3 attempts, 1 manager, 1 crash | an attempt, its replacement and a spare one |
| `leases` | 2 clients, 3 tokens, TTL 4, beat 1, clock to 9, 1 disconnection | an overtaking and two TTLs |
| `lifecycle` | 1 operation, 1 run, 1 lapse, 1 death of the container or a network, 1 crash | a handler against work of either kind |
| `trash` | one stray directory | every interruption of trash, restore and purge against the sweep |
| `trash_retention` | no stray | finding, below |
| `grants` | 1 run, 2 calls, 1 test | a shared client, a stale test, any order of revocation and call |
| `server` | 2 sessions, 1 slot, 2 runs | an eviction, a second run of a session, and every order of cancel, hang-up and end |
| `uploads` | 2 files, 2 batches, 1 place | a retry while the first batch is still there; a file done and one under way |
| `conversation` | 2 conversations (1 new), 1 message of the page and 1 of another, 1 more check or 1 text, 2 switches, 1 failure | a lost answer with a check of `submit()` beside one of the timer or the button, a copy and a late event |
| `editor` | 2 files, 2 texts, 2 saves, 1 read at a time, 1 other action, 1 foreign change | a refresh or a conflict against a second save; a rename, deletion or download beside one |

`trash` also assumes that a handler does not stay in a call, that the sweep comes again and again, gets the lock, and that its
calls do not fail for ever (it logs and retries every minute). `grants` assumes that time passes, that
a call ends (60 s time-outs) and that the queries of the 30 s timer do not fail for ever; nothing
is assumed of users, of the manager or of MCP servers. One run is enough there because grants
share nothing but the settings and the sweep; two calls, because the client of a grant is shared.
`server` assumes that a close, a clean-up, a spawn and a callback come to their end, and that a turn ends once its process
is gone; nothing is assumed of the manager, or of how long an agent works. `uploads`, `conversation` and `editor` state no
liveness: their users may stop at any time, which is also why deadlock is not checked in them. In `server` it is not, because the
number of runs is bounded.

The type invariants of `Runs`, `Leases`, `RuntimeLifecycle`, `WorkspaceTrash` and `McpGrants` are theorems, and no run repeats them;
likewise `RuntimeFreeAtDispatch`, `ClosedIsFinal`, `TestIsOfCurrentSettings` and `NoLateResult`.

Two attempts are enough for the safety of `Runs` because a third relates to the second as
that one to the first; the theorems hold for any number.

Fairness (`RunsLive`): weak fairness of every step of an execution and of a handler, because every
awaited call has a timeout; of the expiry of an unrenewed lease; strong fairness of
`recoverStale`'s steps, because the reaper repeats it every minute and neither failures nor other holders of the
control lock win for ever. Nothing is assumed of the duration of an agent's run.

## Findings

- `trash_retention`: the sweep chooses what to purge before it waits for the lock, and the purge does not
  look at the age again. A restore that began just before the 30 days were over, followed by a new trash, ends in
  the loss of a workspace that its user was told could be restored for 30 days
  (`web/components/workspace-list.tsx:85`).

The models also show behaviours that are no findings because their harm is small or because the documents leave them open: a container
is stopped as idle right after an operation that ended between two reads of the sweep (`reaper.ts:41`), two tests of one user may run at
once (`mcp-gateway/src/server.ts:60`), a first message sent while the page moves elsewhere mixes the blocks of two conversations
(`conversation.tsx:214`), a message sent again from the draft page may be answered in two conversations (`conversation.tsx:212`), or be shown as failed although its first
POST has arrived, when the creation of a conversation for the second fails (`conversation.tsx:234`; the exception in `KnownStaysKnown`), the text of a reused blank conversation
is replaced by that of the draft page (`conversation.tsx:215`), and the answer to a deletion closes a file that was open when it was asked for, with what was typed meanwhile
(`file-browser.tsx:405`; the exception in `DraftIsKept`).

## Proofs

`tlapm` checks `Runs_proofs`, `RuntimeLifecycle_proofs`, `WorkspaceTrash_proofs` (the Trash and `Leases`),
`McpGrants_proofs`, `RuntimeServer_proofs`, `Uploads_proofs`, `Conversation_proofs` and `FileEditor_proofs`. The assumptions are that the
"none" values are not identifiers, that bounds are naturals and that a beat is shorter than a
TTL. The theorems are listed in `PROJECT.json`. `RunsImplementLedger` shows that every step of
`Runs` is a step of `MessageLedger` or a stutter under the mapping of receipts, `rt` and `invoked`.
`TerminationsHitOwnRun` has an invariant of its own (`OwnInv`): while an execution that is alive holds its lease, the Runtime executes its run or none,
whatever other leases have lapsed, because the lease was looked at under the control lock before the execution was dispatched and never comes back
to one that has lost it. An execution that has lost its lease without knowing can end the run of its successor: the code does not exclude it,
and the theorem does not. Liveness stays with TLC: the prover has no support for fairness (ENABLED).

`WorkspaceTrash`: the invariant says where the files are for each state of the row and what each step of a
handler may rely on, e.g. that a restore past its check never meets a purge that was recorded. `McpGrants`: beside
the checked invariants it says that a call about to be sent, with an open client and a deleted grant, is
watched by a `closeGrants` still to come, which is why the second look of `checkedClient` has to follow the registration
of the client. `RuntimeLifecycle`: `Recorded` says that the row is ahead of the container that is made and behind the one that is removed;
`Counted` that admitted work shows in a mark or in the status of its conversation; `Decided`, that from the decision to take the
container or a network to the Docker call there is no work to protect, because it can only be admitted under the lock that the handler
holds. `RemovedHasNoContainer` and `WorkIsProtected` follow. `Uploads`: `WritesAgree` says what a write relies on when it is published, `Attends`
that the browser listens to the write of the file it works on and deletes only a batch whose creation is over, and `Deleted` that
such a batch has left the registry for good, so that no write of it starts any more; the limit of batches needs that the registry is finite.

`RuntimeServer`: many callers may cancel one run. `Subprocess` says that all of them wait for the same steps of the execution and that none is past
the close while a subprocess is left; `Truthful`, that whoever was told that a run is over was told the truth until the session is used
again; `Attends`, that nobody uses it while it is waited for; `Undisturbed`, that a workspace is deleted while no run is active.
From these, every step of the server is a step of `RunSlots` or a stutter (`ServerImplementsSlots`), and so is every step of the outbox (`RunsKeepSlots`): the
assumption that `Runs` makes of the Runtime is what the server gives, strays excepted. `OneSubprocess` is a part of it that is a theorem of its own.
`FileEditor`: `Remembered` says that what a save compares with was shown, `Compared` that the file a save has opened is as it was
compared until an agent changes it, for which `Locked` keeps pages, actions and downloads away; `Steady`, that what an archive has read, and what it still has to
read and nobody has touched, is what its scan saw. `Conversation`: the first half of the invariant is about messages. `Posted` says that what
the page was told of a receipt is so (`Checked`), `Known` that a message known to a page has a receipt, `Blocks` that it has one block, and so
no late answer finds it pending. The other half is about events: `Cursors` keeps the stream at committed events, and `Ahead` says that what was
committed in time was read, is on the wire, or is ahead of what was sent; `LogIsRead` follows step by step.

Only model-checked are the liveness properties `QueuedIsDecided` and `OrphanIsClosed` (`RunsLive`), `ExpiredIsPurged` (`WorkspaceTrash`),
`GrantsEnd` (`McpGrants`) and `HangUpEndsRun` (`RuntimeServer`). Every other property of a passing run is a theorem.

## Plan

Done: `MessageLedger` and the `Runs` family, `Leases`, `RuntimeLifecycle`, `WorkspaceTrash`, `McpGrants`, `RuntimeServer`, `Uploads`,
`Conversation`, `FileEditor`, each with its theorems. Next, in this order:

1. Proofs that are shorter: the lemmas about views and about sequences that `Conversation_proofs` repeats, stated once.
2. Strays in `Runs`: a request that the manager has given up and that reaches the server late, which `RunSlots` allows and `Runs` leaves out.
3. The pure parts as operators with reference definitions: the normalizer of harness events and the manifest of an upload.

## Not modelled

Rendering, forms, search and previews; the browser's history and dropped files; `retryRun`; the import of events of
older versions; configuration and start-up; encryption, the destination policy and redaction in the gateway; the normalizer of
harness events; the limits in bytes and the checks of paths, names and symbolic links, which appear as a refusal of a step. They are
sequential, and unit tests reach them.

