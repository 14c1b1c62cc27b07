---------------------------- MODULE Conversation ----------------------------
(***************************************************************************)
(* The conversations of one browser page: the Conversation component with  *)
(* its reducer, the request that posts a message and the one that asks     *)
(* what became of it, the log of events, and the stream that pages it to   *)
(* the browser.  Of the manager only the receipts of messages and the      *)
(* events of their runs are kept: Runs has the rest.                       *)
(***************************************************************************)
EXTENDS FiniteSets, Naturals, SequencesExt

CONSTANTS
  Sessions,     \* conversations
  First,        \* the one that is there from the start
  Draft,        \* the key of the page that has no conversation yet
  Requests,     \* the identifiers of messages of this page: a bound for TLC
  Others,       \* those of other pages of the user
  None,         \* no request, conversation or text
  MaxChecks,    \* automatic checks of a pending message (3)
  MaxAsks,      \* checks of a message, automatic or by the button: a bound for TLC
  MaxTexts,     \* texts that the runs write: a bound for TLC
  MaxExtras,    \* such checks of a message and such texts together: a bound for TLC
  MaxSwitches,  \* how often the user goes elsewhere: a bound for TLC
  MaxDrops      \* failures of the network: a bound for TLC

ASSUME ConversationAssumption ==
  /\ First \in Sessions /\ Draft \notin Sessions
  /\ None \notin Sessions \cup {Draft} \cup Requests \cup Others
  /\ Requests \cap (Others \cup {"empty", "edited"}) = {}
  /\ MaxChecks \in Nat /\ MaxAsks \in Nat /\ MaxTexts \in Nat /\ MaxExtras \in Nat
  /\ MaxSwitches \in Nat /\ MaxDrops \in Nat

VARIABLES
  made,       \* the conversations that were created
  shown,      \* sessionKey: the conversation or the draft the page shows
  view,       \* rawState of the key shown, cacheRef of the others
  text,       \* drafts: what the composer of each key holds: the text of a message, or another
  submitted,  \* submittedDrafts: the key a message was sent from
  sending,    \* sendingRef: the message submit() works on
  target,     \* the conversation it is posted to
  post,       \* where its POST is
  astray,     \* POSTs the browser gave up while the server has them
  check,      \* the requests for the status of each message
  checks,     \* verificationAttempts
  clicks,     \* how often the button was used
  stream,     \* the event stream: the last event read, the last one sent, those on the wire
  switches,   \* how often the user went elsewhere
  drops,      \* how often the network failed
  log,        \* the events of each conversation, in the order of their ids
  run,        \* the message that is being run in each conversation
  late        \* events committed behind what a reader had reached (history)

page == <<made, switches, shown, view, text, submitted>>
sends == <<sending, target, post, astray>>
asks == <<check, checks, clicks>>
server == <<log, run, late>>
vars == <<page, sends, asks, stream, drops, server>>

Keys == Sessions \cup {Draft}
Empty == [blocks |-> <<>>, active |-> FALSE, read |-> <<>>]
Cut(last) == [open |-> FALSE, last |-> last, sent |-> last, wire |-> {}]
Asked(by, s) == [by |-> by, of |-> s, at |-> "asked"]

Receipt(r, s) == \E i \in DOMAIN log[s] : log[s][i].kind = "user" /\ log[s][i].of = r
HasPending(v, r) == \E i \in DOMAIN v.blocks : v.blocks[i].of = r /\ v.blocks[i].pending # "no"
Unresolved(v) == \E i \in DOMAIN v.blocks : v.blocks[i].pending \notin {"no", "failed"}

Delivery == {"no", "sending", "verifying", "accepted", "failed"}
BlockRecords == [of : Requests \cup Others, pending : Delivery]
Views == [blocks : Seq(BlockRecords), active : BOOLEAN, read : Seq(Nat)]
Events == [kind : {"user", "text", "end"}, of : Requests \cup Others, committed : BOOLEAN]
Statuses ==
  [by : {"submit", "timer", "button"}, of : Sessions,
   at : {"asked", "running", "ended", "overtaken", "absent", "busy"}]
Streams == [open : BOOLEAN, last : Nat, sent : Nat, wire : SUBSET Nat]

TypeOK ==
  /\ First \in made /\ made \subseteq Sessions /\ shown \in made \cup {Draft}
  /\ view \in [Keys -> Views]
  /\ text \in [Keys -> {"empty", "edited"} \cup Requests]
  /\ submitted \in [Requests -> Keys \cup {None}]
  /\ sending \in Requests \cup {None} /\ target \in [Requests -> made \cup {None}]
  /\ post \in [Requests -> {"none", "creating", "sent", "accepted", "refused", "unsure", "asked"}]
  /\ \A r \in Requests : post[r] # "none" <=> sending = r
  /\ astray \subseteq Requests \X made
  /\ check \in [Requests -> SUBSET Statuses]
  /\ checks \in [Requests -> 0..MaxChecks] /\ clicks \in 0..MaxAsks
  /\ drops \in 0..MaxDrops /\ switches \in 0..MaxSwitches
  /\ stream \in Streams /\ (stream.open => shown # Draft)
  /\ log \in [Sessions -> Seq(Events)] /\ run \in [Sessions -> Requests \cup Others \cup {None}]
  /\ late \in [Sessions -> SUBSET Nat]

Init ==
  /\ made = {First} /\ shown \in {First, Draft}
  /\ view = [k \in Keys |-> Empty] /\ text = [k \in Keys |-> "empty"]
  /\ submitted = [r \in Requests |-> None] /\ sending = None
  /\ target = [r \in Requests |-> None] /\ post = [r \in Requests |-> "none"] /\ astray = {}
  /\ check = [r \in Requests |-> {}] /\ checks = [r \in Requests |-> 0] /\ clicks = 0
  /\ stream = Cut(0) /\ drops = 0 /\ switches = 0
  /\ log = [s \in Sessions |-> <<>>] /\ run = [s \in Sessions |-> None]
  /\ late = [s \in Sessions |-> {}]

-----------------------------------------------------------------------------
(* The reducer *)

Block(r, pending) == [of |-> r, pending |-> pending]

\* `pending': the block of a message gets a new state, if it is there.
Marked(v, r, pending) ==
  [v EXCEPT !.blocks = [i \in DOMAIN @ |-> IF @[i].of = r THEN Block(r, pending) ELSE @[i]]]

ShownAgain(v, r) == [v EXCEPT !.blocks = Append(@, Block(r, "sending")), !.active = TRUE]

\* `optimistic': the message is shown before it is sent.
Shown(v, r) ==
  IF \E i \in DOMAIN v.blocks : v.blocks[i].of = r
  THEN [Marked(v, r, "sending") EXCEPT !.active = TRUE]
  ELSE [v EXCEPT !.blocks = Append(@, Block(r, "sending")), !.active = TRUE]

\* `event': what an event does to the page.  A user's message replaces the
\* block that stands for it.
Effect(v, i, event) ==
  LET w == [v EXCEPT !.read = Append(@, i)]
  IN CASE event.kind = "user" ->
            IF \E j \in DOMAIN v.blocks : v.blocks[j].of = event.of
            THEN [Marked(w, event.of, "no") EXCEPT !.active = TRUE]
            ELSE [w EXCEPT !.blocks = Append(@, Block(event.of, "no")), !.active = TRUE]
       [] event.kind = "text" -> w
       [] event.kind = "end" -> [w EXCEPT !.active = FALSE]

\* A second delivery of it is ignored.
Reduced(v, i, event) == IF i \in Range(v.read) THEN v ELSE Effect(v, i, event)


\* applyLocal works on the key that is shown now, whatever it was for.
Local(v) == view' = [view EXCEPT ![shown] = v]
Here == view[shown]

-----------------------------------------------------------------------------
(* The page *)

\* Another conversation, or the draft, is shown: its cached state comes back
\* and its events are read again from the first.
Switch(k) ==
  /\ k \in made \cup {Draft} /\ k # shown
  /\ switches < MaxSwitches /\ switches' = switches + 1
  /\ shown' = k /\ stream' = Cut(0)
  /\ UNCHANGED <<made, view, text, submitted, sends, asks, drops, server>>

\* The user changes what was sent, also while it is being sent.
Edits ==
  /\ text[shown] \in Requests
  /\ text' = [text EXCEPT ![shown] = "edited"]
  /\ UNCHANGED <<made, switches, shown, view, submitted, sends, asks, stream, drops, server>>

\* What the composer allows.
CanSend == sending = None /\ ~Here.active /\ ~Unresolved(Here)

Posts(r) ==
  /\ sending' = r
  /\ Local(Shown(Here, r))
  /\ IF shown = Draft
     THEN post' = [post EXCEPT ![r] = "creating"] /\ UNCHANGED target
     ELSE post' = [post EXCEPT ![r] = "sent"] /\ target' = [target EXCEPT ![r] = shown]
  /\ UNCHANGED <<made, switches, shown, astray, asks, stream, drops, server>>

Unused(r) == \A k \in Keys : \A i \in DOMAIN view[k].blocks : view[k].blocks[i].of # r

\* A new message, from the composer.
Send(r) ==
  /\ CanSend /\ Unused(r)
  /\ text' = [text EXCEPT ![shown] = r]
  /\ submitted' = [submitted EXCEPT ![r] = shown]
  /\ Posts(r)

\* The last message of the page failed and is sent again under its identifier.
Retry(r) ==
  /\ CanSend /\ Here.blocks # <<>> /\ Last(Here.blocks) = Block(r, "failed")
  /\ Posts(r)
  /\ UNCHANGED <<text, submitted>>

\* A conversation that was created and got no message is given out again before
\* another one is made.  (The first is older: it is not known to be blank.)
Blank(s) == s \in made \ {First} /\ log[s] = <<>>
Offered(s) == IF \E b \in Sessions : Blank(b) THEN Blank(s) ELSE s \notin made

\* The conversation starts with a copy of the page, which is no longer the
\* draft if the user went elsewhere, and is shown when the navigation is done.
\* (The events that page has read are not of this conversation.)
Creates(r, s) ==
  /\ post[r] = "creating" /\ Offered(s)
  /\ made' = made \cup {s}
  /\ view' = [view EXCEPT ![s] = [Here EXCEPT !.read = <<>>]]
  /\ text' = [text EXCEPT ![s] = IF text[Draft] = "empty" THEN r ELSE text[Draft]]
  /\ target' = [target EXCEPT ![r] = s] /\ post' = [post EXCEPT ![r] = "sent"]
  /\ UNCHANGED <<switches, shown, submitted, sending, astray, asks, stream, drops, server>>

DoneStuck(r) == post' = [post EXCEPT ![r] = "none"] /\ UNCHANGED sending

Done(r) == sending' = None /\ post' = [post EXCEPT ![r] = "none"]

Fails(r) == Local([Marked(Here, r, "failed") EXCEPT !.active = FALSE])

CreateFails(r) ==
  /\ post[r] = "creating"
  /\ Fails(r) /\ Done(r)
  /\ UNCHANGED <<made, switches, shown, text, submitted, target, astray, asks, stream, drops, server>>

-----------------------------------------------------------------------------
(* The server: POST of a message, its receipt and its run *)

\* How many texts the runs have written.
Texts ==
  Cardinality(UNION {{<<s, i>> : i \in {j \in DOMAIN log[s] : log[s][j].kind = "text"}} : s \in Sessions})

Event(kind, r, committed) == [kind |-> kind, of |-> r, committed |-> committed]

\* The receipt, the event and the run commit together.
Admits(r, s) ==
  IF Receipt(r, s) \/ run[s] # None
  THEN UNCHANGED server
  ELSE /\ log' = [log EXCEPT ![s] = Append(@, Event("user", r, TRUE))]
       /\ run' = [run EXCEPT ![s] = r]
       /\ UNCHANGED late

\* An active run makes the manager answer 409.
Answers(r) ==
  /\ post[r] = "sent"
  /\ Admits(r, target[r])
  /\ post' = [post EXCEPT ![r] = IF Receipt(r, target[r]) \/ run[target[r]] = None
                                 THEN "accepted" ELSE "unsure"]
  /\ UNCHANGED <<page, sending, target, astray, asks, stream, drops>>

\* The request is refused for good, or for now: the limit of messages, or
\* something of the server is not there.
Refuses(r) ==
  /\ post[r] = "sent"
  /\ \E how \in {"refused", "unsure"} : post' = [post EXCEPT ![r] = how]
  /\ UNCHANGED <<page, sending, target, astray, asks, stream, drops, server>>

\* The browser loses the connection, but the server may have the request.
LosesPost(r) ==
  /\ post[r] = "sent" /\ drops < MaxDrops /\ drops' = drops + 1
  /\ post' = [post EXCEPT ![r] = "unsure"]
  /\ \/ astray' = astray \cup {<<r, target[r]>>} /\ UNCHANGED server
     \/ Admits(r, target[r]) /\ UNCHANGED astray
  /\ UNCHANGED <<page, sending, target, asks, stream>>

Arrives(r, s) ==
  /\ <<r, s>> \in astray
  /\ astray' = astray \ {<<r, s>>}
  /\ Admits(r, s)
  /\ UNCHANGED <<page, sending, target, post, asks, stream, drops>>

\* Another page of the user sends a message.
Elsewhere(o, s) ==
  /\ s \in made /\ run[s] = None /\ \A t \in Sessions : ~Receipt(o, t)
  /\ Admits(o, s)
  /\ UNCHANGED <<page, sends, asks, stream, drops>>

\* The run journals a text; another writer may come between its id and its
\* commit.
Writes(s) ==
  /\ run[s] # None
  /\ Texts < MaxTexts /\ \A r \in Requests : checks[r] + clicks + Texts < MaxExtras
  /\ \A i \in DOMAIN log[s] : log[s][i] # Event("text", run[s], FALSE)
  /\ log' = [log EXCEPT ![s] = Append(@, Event("text", run[s], FALSE))]
  /\ UNCHANGED <<page, sends, asks, stream, drops, run, late>>

Commits(s) ==
  /\ \E i \in DOMAIN log[s] :
       /\ ~log[s][i].committed
       /\ log' = [log EXCEPT ![s][i].committed = TRUE]
       /\ late' = IF (shown = s /\ i < stream.sent) \/ (\E j \in Range(view[s].read) : i < j)
                  THEN [late EXCEPT ![s] = @ \cup {i}] ELSE late
  /\ UNCHANGED <<page, sends, asks, stream, drops, run>>

\* The run ends, or is stopped.
Ends(s) ==
  /\ run[s] # None
  /\ log' = [log EXCEPT ![s] = Append(@, Event("end", run[s], TRUE))]
  /\ run' = [run EXCEPT ![s] = None]
  /\ UNCHANGED <<page, sends, asks, stream, drops, late>>

-----------------------------------------------------------------------------
(* The answer to POST *)

AcknowledgedAnyText(r, s) ==
  /\ text' = IF submitted[r] = None THEN text
             ELSE [k \in Keys |-> IF k \in {submitted[r], s} THEN "empty" ELSE text[k]]
  /\ submitted' = [submitted EXCEPT ![r] = None]

\* clearAcceptedDrafts: the draft it came from is emptied unless it was
\* changed meanwhile.
Acknowledged(r, s) ==
  /\ text' = IF submitted[r] = None THEN text
             ELSE [k \in Keys |-> IF k \in {submitted[r], s} /\ text[k] = r
                                  THEN "empty" ELSE text[k]]
  /\ submitted' = [submitted EXCEPT ![r] = None]

Succeeds(r) ==
  /\ post[r] = "accepted"
  /\ Local(IF HasPending(Here, r) THEN Marked(Here, r, "accepted") ELSE Here)
  /\ Acknowledged(r, target[r])
  /\ Done(r)
  /\ UNCHANGED <<made, switches, shown, target, astray, asks, stream, drops, server>>

\* The event of the message came before the error.
KnownIn(r, k) == \E i \in DOMAIN view[k].blocks : view[k].blocks[i] = Block(r, "no")

SucceedsAnyway(r) ==
  /\ post[r] \in {"refused", "unsure"} /\ KnownIn(r, shown)
  /\ Acknowledged(r, target[r])
  /\ Done(r)
  /\ UNCHANGED <<made, switches, shown, view, target, astray, asks, stream, drops, server>>

Rejected(r) ==
  /\ post[r] = "refused" /\ ~KnownIn(r, shown)
  /\ Fails(r) /\ Done(r)
  /\ UNCHANGED <<made, switches, shown, text, submitted, target, astray, asks, stream, drops, server>>

\* Nobody knows: the server is asked.
Doubts(r) ==
  /\ post[r] = "unsure" /\ ~KnownIn(r, shown)
  /\ Local(Marked(Here, r, "verifying"))
  /\ post' = [post EXCEPT ![r] = "asked"]
  /\ check' = [check EXCEPT ![r] = @ \cup {Asked("submit", target[r])}]
  /\ UNCHANGED <<made, switches, shown, text, submitted, sending, target, astray, checks, clicks, stream, drops, server>>

-----------------------------------------------------------------------------
(* The status of a message *)

Awaits(r) == \E i \in DOMAIN Here.blocks : Here.blocks[i] \in {Block(r, "verifying"), Block(r, "accepted")}

Asks(r, by) ==
  /\ shown # Draft
  /\ checks[r] + clicks < MaxAsks /\ checks[r] + clicks + Texts < MaxExtras
  /\ check' = [check EXCEPT ![r] = @ \cup {Asked(by, shown)}]
  /\ UNCHANGED <<page, sends, stream, drops, server>>

\* The timer asks a few times, while the stream is open.
Checks(r) ==
  /\ Awaits(r) /\ stream.open /\ checks[r] < MaxChecks
  /\ checks' = [checks EXCEPT ![r] = @ + 1] /\ UNCHANGED clicks
  /\ Asks(r, "timer")

\* The button at the last message, or in the composer of a page at rest, asks
\* whenever the user wants, whatever else was asked.
ChecksByHand(r) ==
  /\ \/ Awaits(r) /\ Last(Here.blocks).of = r
     \/ /\ sending = None /\ ~Here.active
        /\ \E i \in DOMAIN Here.blocks :
             /\ Here.blocks[i].of = r /\ Here.blocks[i].pending \notin {"no", "failed"}
             /\ \A j \in DOMAIN Here.blocks : j > i => Here.blocks[j].pending \in {"no", "failed"}
  /\ clicks' = clicks + 1 /\ UNCHANGED checks
  /\ Asks(r, "button")

\* messageStatus, under the workspace lock.
Reports(r, c) ==
  LET status ==
        CASE Receipt(r, c.of) -> IF run[c.of] = r THEN "running"
                                 ELSE IF run[c.of] = None THEN "ended" ELSE "overtaken"
          [] ~Receipt(r, c.of) /\ run[c.of] = None -> "absent"
          [] OTHER -> "busy"
  IN /\ c.at = "asked"
     /\ check' = [check EXCEPT ![r] = (@ \ {c}) \cup {[c EXCEPT !.at = status]}]
     /\ UNCHANGED <<page, sends, checks, clicks, stream, drops, server>>

Told(r, c) ==
  /\ check' = [check EXCEPT ![r] = @ \ {c}]
  /\ IF c.by = "submit" THEN Done(r) ELSE UNCHANGED <<sending, post>>

AppliesAlways(v, r) == TRUE

Applies(v, r) == HasPending(v, r)

\* Its answer counts only while the message is still pending on the page.
TellsAccepted(r, c) ==
  LET lastCheck == c.by = "timer" /\ checks[r] = MaxChecks /\ c.at # "running"
      now == [Here EXCEPT !.active = c.at # "ended"]
  IN /\ c.at \in {"running", "ended", "overtaken"}
     /\ IF Applies(Here, r)
        THEN /\ Acknowledged(r, c.of)
             /\ Local(Marked(now, r, IF lastCheck THEN "no" ELSE "accepted"))
             /\ stream' = IF lastCheck THEN Cut(0)
                          ELSE IF c.by # "timer" THEN Cut(stream.last) ELSE stream
        ELSE UNCHANGED <<view, text, submitted, stream>>
     /\ Told(r, c)
     /\ UNCHANGED <<made, switches, shown, target, astray, checks, clicks, drops, server>>

TellsAbsent(r, c) ==
  /\ c.at = "absent"
  /\ Local(IF Applies(Here, r) THEN [Marked(Here, r, "failed") EXCEPT !.active = FALSE] ELSE Here)
  /\ Told(r, c)
  /\ UNCHANGED <<made, switches, shown, text, submitted, target, astray, checks, clicks, stream, drops, server>>

\* The conversation is busy with another message, or the answer is lost.
TellsNothing(r, c) ==
  /\ \/ c.at = "busy" /\ UNCHANGED drops
     \/ drops < MaxDrops /\ drops' = drops + 1
  /\ Local(IF Applies(Here, r) THEN Marked(Here, r, "verifying") ELSE Here)
  /\ stream' = IF Applies(Here, r) /\ c.by # "timer" /\ UNCHANGED drops
               THEN Cut(stream.last) ELSE stream
  /\ Told(r, c)
  /\ UNCHANGED <<made, switches, shown, text, submitted, target, astray, checks, clicks, server>>

-----------------------------------------------------------------------------
(* The stream *)

Connects ==
  /\ shown # Draft /\ ~stream.open
  /\ stream' = [Cut(stream.last) EXCEPT !.open = TRUE]
  /\ UNCHANGED <<page, sends, asks, drops, server>>

Disconnects ==
  /\ stream.open /\ drops < MaxDrops /\ drops' = drops + 1
  /\ stream' = Cut(stream.last)
  /\ UNCHANGED <<page, sends, asks, server>>

\* The server reads what is committed after its cursor, and sends it in the
\* order of ids.
After(s, cursor) == {i \in DOMAIN log[s] : i > cursor /\ log[s][i].committed}

Pages ==
  /\ stream.open /\ stream.wire = {}
  /\ \E last \in After(shown, stream.sent) :
       /\ \A i \in After(shown, stream.sent) : i <= last
       /\ stream' = [stream EXCEPT !.wire = After(shown, stream.sent), !.sent = last]
  /\ UNCHANGED <<page, sends, asks, drops, server>>

\* onmessage: the event of a pending message acknowledges it.
Receives ==
  /\ \E i \in stream.wire :
       LET event == log[shown][i]
       IN /\ \A j \in stream.wire : i <= j
          /\ IF event.kind = "user" /\ HasPending(Here, event.of)
             THEN Acknowledged(event.of, shown) ELSE UNCHANGED <<text, submitted>>
          /\ Local(Reduced(Here, i, event))
          /\ stream' = [stream EXCEPT !.wire = @ \ {i}, !.last = i]
  /\ UNCHANGED <<made, switches, shown, sends, asks, drops, server>>

Next ==
  \/ \E k \in Keys : Switch(k)
  \/ Edits
  \/ \E r \in Requests :
       \/ Send(r) \/ Retry(r) \/ CreateFails(r)
       \/ \E s \in Sessions : Creates(r, s) \/ Arrives(r, s)
       \/ Answers(r) \/ Refuses(r) \/ LosesPost(r)
       \/ Succeeds(r) \/ SucceedsAnyway(r) \/ Rejected(r) \/ Doubts(r)
       \/ Checks(r) \/ ChecksByHand(r)
       \/ \E c \in check[r] :
            Reports(r, c) \/ TellsAccepted(r, c) \/ TellsAbsent(r, c) \/ TellsNothing(r, c)
  \/ \E s \in Sessions, o \in Others : Elsewhere(o, s)
  \/ \E s \in Sessions : Writes(s) \/ Commits(s) \/ Ends(s)
  \/ Connects \/ Disconnects \/ Pages \/ Receives

Spec == Init /\ [][Next]_vars

-----------------------------------------------------------------------------
(* Properties *)

\* A conversation is read as it was journalled: no event twice, and none left
\* out or out of order but those committed behind the place the reader had
\* reached.
LogIsRead ==
  \A s \in Sessions :
    LET read == view[s].read
        inTime(i) == i \notin late[s]
    IN /\ \A i, j \in DOMAIN read : i # j => read[i] # read[j]
       /\ \A i, j \in DOMAIN read :
            i < j /\ inTime(read[i]) /\ inTime(read[j]) => read[i] < read[j]
       /\ \A i \in DOMAIN log[s], j \in Range(read) :
            i < j /\ log[s][i].committed /\ inTime(i) => i \in Range(read)

\* A message is shown once, whether the browser put it there or the log.
ShownOnce ==
  \A k \in Keys : \A i, j \in DOMAIN view[k].blocks :
    view[k].blocks[i].of = view[k].blocks[j].of => i = j

\* A message that the page knows from the log of the conversation, or has
\* confirmed on the draft page, is not shown as pending or failed again,
\* whatever answer comes late, with one exception that the code does not guard:
\* a message that was posted is sent again from the draft page, and the creation
\* of a conversation for it fails, when the first POST has arrived meanwhile.
KnownStaysKnown ==
  [][\A k \in Keys, r \in Requests :
       KnownIn(r, k) /\ (k = Draft \/ Receipt(r, k))
       => KnownIn(r, k)' \/ (CreateFails(r) /\ target[r] # None /\ k = shown)]_vars

\* A draft is emptied only when its text is that of a message the server has
\* accepted: what the user wrote since, or what was not accepted, stays.  (That
\* a new conversation takes over the text of the draft page replaces a text,
\* and is not spoken of here.)
DraftIsKept ==
  [][\A k \in Keys : (text[k] # "empty" /\ text'[k] = "empty") =>
       text[k] \in Requests /\ \E s \in Sessions : Receipt(text[k], s)]_vars
=============================================================================
