---------------------------- MODULE Conversation_proofs ----------------------------
(***************************************************************************)
(* What the page of a conversation promises, for any conversations,        *)
(* messages, drops and switches.  The inductive invariant IInv has two     *)
(* halves.  PageInv is about messages: what a page knows has a receipt,    *)
(* and no message has two blocks.  ReadInv is about events: the cursors    *)
(* are at committed events, and what was committed in time was read, is on *)
(* the wire, or is ahead of what was sent.  The lemmas go from one view,   *)
(* to the log, to the reader, to one step of each kind.                    *)
(***************************************************************************)
EXTENDS Conversation, TLAPS

Once(v) ==
  \A i, j \in DOMAIN v.blocks : v.blocks[i].of = v.blocks[j].of => i = j
Knows(v, r) == \E i \in DOMAIN v.blocks : v.blocks[i] = Block(r, "no")

\* A block that is not known is of a message of this page, and no message has
\* two.
Blocks ==
  \A k \in Keys :
    /\ Once(view[k])
    /\ \A i \in DOMAIN view[k].blocks :
         view[k].blocks[i].pending # "no" => view[k].blocks[i].of \in Requests

\* A status that tells of a receipt tells the truth, and submit() waits for one
\* answer.
Checked ==
  \A r \in Requests : \A c \in check[r] :
    /\ c.at \in {"running", "ended", "overtaken"} => Receipt(r, c.of)
    /\ c.by = "submit" => post[r] = "asked" /\ \A d \in check[r] : d.by = "submit" => d = c

\* A message that is anywhere but on the page was posted to a conversation;
\* what the page was told of its receipt is so.
Posted ==
  /\ Checked
  /\ \A r \in Requests :
       /\ post[r] \in {"sent", "accepted", "refused", "unsure", "asked"} => target[r] # None
       /\ post[r] = "accepted" => Receipt(r, target[r])
       /\ \A s \in Sessions : (Receipt(r, s) \/ <<r, s>> \in astray) => target[r] # None

\* A message the page knows has a receipt.
Known == \A k \in Keys, r \in Requests : Knows(view[k], r) => \E s \in Sessions : Receipt(r, s)

\* Nothing is journalled for a conversation that is not there yet.
Begun == \A s \in Sessions \ made : log[s] = <<>> /\ run[s] = None

Committed(s) == {i \in DOMAIN log[s] : log[s][i].committed}

\* What was read was committed; the draft page reads nothing.
Heard ==
  /\ view[Draft].read = <<>>
  /\ \A s \in Sessions : Range(view[s].read) \subseteq Committed(s)

\* The cursors are at committed events, and the wire carries the events between.
Cursors ==
  /\ ~stream.open => stream = Cut(stream.last)
  /\ shown = Draft => stream = Cut(0)
  /\ stream.last <= stream.sent
  /\ shown # Draft => {stream.last, stream.sent} \subseteq Committed(shown) \cup {0}
  /\ shown # Draft => stream.wire \subseteq Committed(shown)
  /\ \A i \in stream.wire : stream.last < i /\ i <= stream.sent

\* Nothing that was committed in time is behind the stream: it was read, is on
\* the wire, or will be asked for.
Ahead ==
  shown \in Sessions =>
    \A i \in Committed(shown) :
      \/ i \in late[shown] \cup Range(view[shown].read) \cup stream.wire
      \/ stream.sent < i

IInv == TypeOK /\ Blocks /\ Posted /\ Known /\ Begun /\ Heard /\ Cursors /\ Ahead /\ LogIsRead
-----------------------------------------------------------------------------
(* The reducer *)

Sound(v) ==
  /\ Once(v)
  /\ \A i \in DOMAIN v.blocks : v.blocks[i].pending # "no" => v.blocks[i].of \in Requests

Appended(v, r, p) == [v EXCEPT !.blocks = Append(@, Block(r, p)), !.active = TRUE]
Read(v, i) == [v EXCEPT !.read = Append(@, i)]

\* A view with other blocks, or with another status.
LEMMA BlocksView ==
  ASSUME NEW v \in Views, NEW new \in Seq(BlockRecords)
  PROVE  LET w == [v EXCEPT !.blocks = new]
         IN w \in Views /\ w.blocks = new /\ w.active = v.active /\ w.read = v.read
  BY DEF Views

LEMMA ActiveView ==
  ASSUME NEW v \in Views, NEW b \in BOOLEAN
  PROVE  LET w == [v EXCEPT !.active = b]
         IN w \in Views /\ w.blocks = v.blocks /\ w.active = b /\ w.read = v.read
  BY DEF Views

\* Blocks are marked in place.
LEMMA MarkedView ==
  ASSUME NEW v \in Views, NEW r, NEW p \in Delivery
  PROVE  /\ Marked(v, r, p) \in Views
         /\ Marked(v, r, p).read = v.read
         /\ DOMAIN Marked(v, r, p).blocks = DOMAIN v.blocks
         /\ \A i \in DOMAIN v.blocks :
              Marked(v, r, p).blocks[i] = IF v.blocks[i].of = r THEN Block(r, p) ELSE v.blocks[i]
<1> DEFINE new == [i \in DOMAIN v.blocks |-> IF v.blocks[i].of = r THEN Block(r, p) ELSE v.blocks[i]]
<1>1. v.blocks \in Seq(BlockRecords)
  BY DEF Views
<1>2. Len(v.blocks) \in Nat /\ DOMAIN v.blocks = 1..Len(v.blocks)
      /\ \A i \in DOMAIN v.blocks : v.blocks[i] \in BlockRecords
  BY <1>1
<1>3. \A i \in DOMAIN v.blocks : new[i] \in BlockRecords
  BY <1>2 DEF Block, BlockRecords
<1>4. new \in Seq(BlockRecords)
  <2>1. new \in [1..Len(v.blocks) -> BlockRecords]
    BY <1>2, <1>3
  <2> QED
    BY <1>2, <2>1
<1>5. Marked(v, r, p) = [v EXCEPT !.blocks = new]
  BY DEF Marked
<1>6. /\ DOMAIN new = DOMAIN v.blocks
      /\ \A i \in DOMAIN v.blocks : new[i] = IF v.blocks[i].of = r THEN Block(r, p) ELSE v.blocks[i]
  OBVIOUS
<1> HIDE DEF new
<1> QED
  BY <1>4, <1>5, <1>6, BlocksView

LEMMA MarkedSound ==
  ASSUME NEW v \in Views, Sound(v), NEW r \in Requests \cup Others, NEW p \in Delivery,
         p = "no" \/ r \in Requests
  PROVE  /\ Sound(Marked(v, r, p))
         /\ \A q : q # r => (Knows(Marked(v, r, p), q) <=> Knows(v, q))
         /\ Knows(Marked(v, r, p), r) => p = "no"
         /\ (Knows(v, r) /\ p = "no") => Knows(Marked(v, r, p), r)
<1> DEFINE w == Marked(v, r, p)
<1>1. /\ DOMAIN w.blocks = DOMAIN v.blocks
      /\ \A i \in DOMAIN v.blocks : w.blocks[i] = IF v.blocks[i].of = r THEN Block(r, p) ELSE v.blocks[i]
  BY MarkedView
<1> HIDE DEF w
<1>2. \A i \in DOMAIN v.blocks : w.blocks[i].of = v.blocks[i].of
  BY <1>1 DEF Block
<1>3. Sound(w)
  BY <1>1, <1>2 DEF Sound, Once, Block
<1>4. \A q : q # r => (Knows(w, q) <=> Knows(v, q))
  BY <1>1 DEF Knows, Block
<1>5. Knows(w, r) => p = "no"
  BY <1>1 DEF Knows, Block
<1>6. (Knows(v, r) /\ p = "no") => Knows(w, r)
  BY <1>1 DEF Knows, Block
<1> QED
  BY <1>3, <1>4, <1>5, <1>6 DEF w

\* A new block, at the end.
LEMMA AppendedView ==
  ASSUME NEW v \in Views, Sound(v), NEW r \in Requests \cup Others, NEW p \in Delivery,
         p = "no" \/ r \in Requests,
         \A i \in DOMAIN v.blocks : v.blocks[i].of # r
  PROVE  LET w == Appended(v, r, p)
         IN
         /\ w \in Views /\ Sound(w) /\ w.read = v.read
         /\ \A q : Knows(w, q) <=> (Knows(v, q) \/ (q = r /\ p = "no"))
<1> DEFINE w == Appended(v, r, p)
           u == [v EXCEPT !.active = TRUE]
           new == Append(v.blocks, Block(r, p))
           n == Len(v.blocks)
<1>1. v.blocks \in Seq(BlockRecords) /\ Block(r, p) \in BlockRecords /\ TRUE \in BOOLEAN
  BY DEF Views, Block, BlockRecords
<1>2. n \in Nat /\ DOMAIN v.blocks = 1..n
  BY <1>1
<1>3. new \in Seq(BlockRecords) /\ DOMAIN new = 1..(n + 1) /\ new[n + 1] = Block(r, p)
      /\ \A i \in 1..n : new[i] = v.blocks[i]
  BY <1>1, <1>2
<1>4. u \in Views /\ u.blocks = v.blocks /\ u.read = v.read
  BY <1>1, ActiveView
<1>5. w \in Views /\ w.read = v.read /\ w.blocks = new
  <2>1. w = [u EXCEPT !.blocks = new]
    BY DEF Appended, Views
  <2> HIDE DEF w, u, new
  <2> QED
    BY <1>3, <1>4, <2>1, BlocksView
<1> HIDE DEF w, u, new
<1>6. \A i \in 1..(n + 1) : i = n + 1 \/ i \in 1..n
  BY <1>2
<1>7. Once(w)
  <2> SUFFICES ASSUME NEW i \in 1..(n + 1), NEW j \in 1..(n + 1), new[i].of = new[j].of PROVE i = j
    BY <1>3, <1>5 DEF Once
  <2> QED
    BY <1>2, <1>3, <1>6 DEF Sound, Once, Block
<1>8. \A i \in DOMAIN w.blocks : w.blocks[i].pending # "no" => w.blocks[i].of \in Requests
  BY <1>2, <1>3, <1>5, <1>6 DEF Sound, Block
<1>9. \A q : Knows(w, q) <=> (Knows(v, q) \/ (q = r /\ p = "no"))
  <2> SUFFICES ASSUME NEW q PROVE Knows(w, q) <=> (Knows(v, q) \/ (q = r /\ p = "no"))
    OBVIOUS
  <2>1. Knows(w, q) => Knows(v, q) \/ (q = r /\ p = "no")
    BY <1>2, <1>3, <1>5, <1>6 DEF Knows, Block
  <2>2. Knows(v, q) => Knows(w, q)
    <3> SUFFICES ASSUME NEW i \in 1..n, v.blocks[i] = Block(q, "no") PROVE Knows(w, q)
      BY <1>2 DEF Knows
    <3>1. i \in 1..(n + 1)
      BY <1>2
    <3> QED
      BY <3>1, <1>3, <1>5 DEF Knows
  <2>3. q = r /\ p = "no" => Knows(w, q)
    <3>1. n + 1 \in 1..(n + 1)
      BY <1>2
    <3> QED
      BY <3>1, <1>3, <1>5 DEF Knows
  <2> QED
    BY <2>1, <2>2, <2>3
<1> QED
  BY <1>5, <1>7, <1>8, <1>9 DEF Sound, w

\* What the composer adds.
LEMMA ShownView ==
  ASSUME NEW v \in Views, Sound(v), NEW r \in Requests
  PROVE  /\ Shown(v, r) \in Views /\ Sound(Shown(v, r)) /\ Shown(v, r).read = v.read
         /\ \A q : Knows(Shown(v, r), q) => Knows(v, q)
         /\ \A q : q # r /\ Knows(v, q) => Knows(Shown(v, r), q)
<1>0. "sending" \in Delivery /\ TRUE \in BOOLEAN
  BY DEF Delivery
<1>1. CASE \E i \in DOMAIN v.blocks : v.blocks[i].of = r
  <2> DEFINE m == Marked(v, r, "sending")
  <2>1. Shown(v, r) = [m EXCEPT !.active = TRUE]
    BY <1>1 DEF Shown
  <2>2. m \in Views /\ m.read = v.read /\ Sound(m)
        /\ (\A q : q # r => (Knows(m, q) <=> Knows(v, q))) /\ ~Knows(m, r)
    BY <1>0, MarkedView, MarkedSound
  <2> HIDE DEF m
  <2>3. /\ [m EXCEPT !.active = TRUE] \in Views
        /\ [m EXCEPT !.active = TRUE].blocks = m.blocks
        /\ [m EXCEPT !.active = TRUE].read = m.read
    BY <1>0, <2>2, ActiveView
  <2> QED
    BY <2>1, <2>2, <2>3 DEF Sound, Once, Knows
<1>2. CASE ~\E i \in DOMAIN v.blocks : v.blocks[i].of = r
  <2>1. Shown(v, r) = Appended(v, r, "sending")
    BY <1>2 DEF Shown, Appended
  <2> QED
    BY <1>0, <1>2, <2>1, AppendedView
<1> QED
  BY <1>1, <1>2

\* A view that has read one more event.
LEMMA ReadView ==
  ASSUME NEW v \in Views, NEW i \in Nat
  PROVE  /\ Read(v, i) \in Views
         /\ Read(v, i).blocks = v.blocks
         /\ Read(v, i).read = Append(v.read, i)
<1>1. Append(v.read, i) \in Seq(Nat)
  BY DEF Views
<1> QED
  BY <1>1 DEF Views, Read

\* What an event does.
LEMMA EffectView ==
  ASSUME NEW v \in Views, Sound(v), NEW i \in Nat, NEW e \in Events
  PROVE  /\ Effect(v, i, e) \in Views /\ Sound(Effect(v, i, e))
         /\ Effect(v, i, e).read = Append(v.read, i)
         /\ \A q : Knows(Effect(v, i, e), q) => Knows(v, q) \/ (e.kind = "user" /\ q = e.of)
         /\ \A q : Knows(v, q) => Knows(Effect(v, i, e), q)
<1> DEFINE w == Read(v, i)
<1>0. "no" \in Delivery /\ TRUE \in BOOLEAN /\ FALSE \in BOOLEAN
  BY DEF Delivery
<1>1. w \in Views /\ w.blocks = v.blocks /\ w.read = Append(v.read, i)
  BY ReadView
<1> HIDE DEF w
<1>2. Sound(w) /\ \A q : Knows(w, q) <=> Knows(v, q)
  BY <1>1 DEF Sound, Once, Knows
<1>3. e.kind \in {"user", "text", "end"} /\ e.of \in Requests \cup Others
  BY DEF Events
<1>4. CASE e.kind = "user" /\ \E j \in DOMAIN v.blocks : v.blocks[j].of = e.of
  <2> DEFINE m == Marked(w, e.of, "no")
  <2>1. Effect(v, i, e) = [m EXCEPT !.active = TRUE]
    BY <1>4 DEF Effect, Read, w
  <2>2. m \in Views /\ m.read = w.read /\ Sound(m)
        /\ (\A q : q # e.of => (Knows(m, q) <=> Knows(w, q)))
        /\ (Knows(w, e.of) => Knows(m, e.of))
    BY <1>0, <1>1, <1>2, <1>3, MarkedView, MarkedSound
  <2> HIDE DEF m
  <2>3. /\ [m EXCEPT !.active = TRUE] \in Views
        /\ [m EXCEPT !.active = TRUE].blocks = m.blocks
        /\ [m EXCEPT !.active = TRUE].read = m.read
    BY <1>0, <2>2, ActiveView
  <2> QED
    BY <1>1, <1>2, <1>4, <2>1, <2>2, <2>3 DEF Sound, Once, Knows
<1>5. CASE e.kind = "user" /\ ~\E j \in DOMAIN v.blocks : v.blocks[j].of = e.of
  <2>1. Effect(v, i, e) = Appended(w, e.of, "no")
    BY <1>5 DEF Effect, Read, Appended, w
  <2> QED
    BY <1>0, <1>1, <1>2, <1>3, <1>5, <2>1, AppendedView
<1>6. CASE e.kind = "text"
  BY <1>1, <1>2, <1>6 DEF Effect, Read, w
<1>7. CASE e.kind = "end"
  <2>1. Effect(v, i, e) = [w EXCEPT !.active = FALSE]
    BY <1>7 DEF Effect, Read, w
  <2>2. /\ [w EXCEPT !.active = FALSE] \in Views
        /\ [w EXCEPT !.active = FALSE].blocks = w.blocks
        /\ [w EXCEPT !.active = FALSE].read = w.read
    BY <1>0, <1>1, ActiveView
  <2> QED
    BY <1>1, <1>2, <2>1, <2>2 DEF Sound, Once, Knows
<1> QED
  BY <1>3, <1>4, <1>5, <1>6, <1>7

\* The event is ignored if it was read before.
LEMMA ReducedView ==
  ASSUME NEW v \in Views, Sound(v), NEW i \in Nat, NEW e \in Events
  PROVE  /\ Reduced(v, i, e) \in Views /\ Sound(Reduced(v, i, e))
         /\ Reduced(v, i, e).read = IF i \in Range(v.read) THEN v.read ELSE Append(v.read, i)
         /\ \A q : Knows(Reduced(v, i, e), q) => Knows(v, q) \/ (e.kind = "user" /\ q = e.of)
         /\ \A q : Knows(v, q) => Knows(Reduced(v, i, e), q)
<1>1. CASE i \in Range(v.read)
  <2>1. Reduced(v, i, e) = v
    BY <1>1 DEF Reduced
  <2> QED
    BY <1>1, <2>1
<1>2. CASE i \notin Range(v.read)
  <2>1. Reduced(v, i, e) = Effect(v, i, e)
    BY <1>2 DEF Reduced
  <2> QED
    BY <1>2, <2>1, EffectView
<1> QED
  BY <1>1, <1>2

\* A message that is marked as anything but known is not known.
LEMMA PendingView ==
  ASSUME NEW v \in Views, Sound(v), NEW r \in Requests, NEW p \in Delivery, p # "no"
  PROVE  /\ Marked(v, r, p) \in Views /\ Sound(Marked(v, r, p)) /\ Marked(v, r, p).read = v.read
         /\ \A q : Knows(Marked(v, r, p), q) <=> (q # r /\ Knows(v, q))
  BY MarkedView, MarkedSound

\* A message that failed leaves the page at rest.
LEMMA FailedView ==
  ASSUME NEW v \in Views, Sound(v), NEW r \in Requests
  PROVE  LET w == [Marked(v, r, "failed") EXCEPT !.active = FALSE]
         IN /\ w \in Views /\ Sound(w) /\ w.read = v.read
            /\ \A q : Knows(w, q) <=> (q # r /\ Knows(v, q))
<1> DEFINE m == Marked(v, r, "failed")
<1>1. m \in Views /\ Sound(m) /\ m.read = v.read /\ \A q : Knows(m, q) <=> (q # r /\ Knows(v, q))
  BY PendingView DEF Delivery
<1> HIDE DEF m
<1>2. LET w == [m EXCEPT !.active = FALSE]
      IN w \in Views /\ w.blocks = m.blocks /\ w.read = m.read
  BY <1>1, ActiveView
<1> QED
  BY <1>1, <1>2 DEF Sound, Once, Knows, m

LEMMA PendingIsNotKnown ==
  ASSUME NEW v, Sound(v), NEW r, HasPending(v, r)
  PROVE  ~Knows(v, r)
  BY DEF Sound, Once, HasPending, Knows, Block

-----------------------------------------------------------------------------
(* What the page does to its views *)

\* The one step that takes a known message back: it was posted, is sent again
\* from the draft page, and the creation fails.
Lost(r, k) == CreateFails(r) /\ target[r] # None /\ k = shown

\* A step of the page that reads no event: the view shown is marked for r and
\* learns of nothing that has no receipt.
Turns(r) ==
  /\ view' \in [Keys -> Views]
  /\ \A k \in Keys : /\ Sound(view'[k]) /\ view'[k].read = view[k].read
                     /\ \A q \in Requests : Knows(view'[k], q) => \E s \in Sessions : Receipt(q, s)
                     /\ \A q \in Requests : /\ Knows(view[k], q)
                                            /\ ~(q = r /\ Lost(r, k))
                                            => Knows(view'[k], q)

PageInv == TypeOK /\ Blocks /\ Posted /\ Known

LEMMA LocalStep ==
  ASSUME PageInv, NEW r \in Requests, NEW w \in Views, Local(w),
         Sound(w), w.read = Here.read,
         \A q \in Requests : Knows(w, q) => (Knows(Here, q) \/ \E s \in Sessions : Receipt(q, s)),
         \A q \in Requests : Knows(Here, q) =>
            (Knows(w, q) \/ (q = r /\ Lost(r, shown)))
  PROVE  Turns(r)
<1>1. shown \in Keys /\ view \in [Keys -> Views]
  BY DEF PageInv, TypeOK, Keys
<1>2. view' = [view EXCEPT ![shown] = w]
  BY DEF Local
<1>3. view' \in [Keys -> Views]
  BY <1>1, <1>2
<1>4. \A k \in Keys : view'[k] = IF k = shown THEN w ELSE view[k]
  BY <1>1, <1>2
<1>5. \A k \in Keys : Sound(view[k])
  BY DEF PageInv, Blocks, Sound
<1>6. \A k \in Keys, q \in Requests : Knows(view[k], q) => \E s \in Sessions : Receipt(q, s)
  BY DEF PageInv, Known
<1>7. ASSUME NEW k \in Keys, k # shown
      PROVE  /\ Sound(view'[k]) /\ view'[k].read = view[k].read
             /\ \A q \in Requests : Knows(view'[k], q) => \E s \in Sessions : Receipt(q, s)
             /\ \A q \in Requests : /\ Knows(view[k], q)
                                    /\ ~(q = r /\ Lost(r, k))
                                    => Knows(view'[k], q)
  BY <1>4, <1>5, <1>6, <1>7
<1>8. /\ Sound(view'[shown]) /\ view'[shown].read = view[shown].read
      /\ \A q \in Requests : Knows(view'[shown], q) => \E s \in Sessions : Receipt(q, s)
      /\ \A q \in Requests : /\ Knows(view[shown], q)
                             /\ ~(q = r /\ Lost(r, shown))
                             => Knows(view'[shown], q)
  BY <1>1, <1>4, <1>6 DEF Here
<1> QED
  BY <1>3, <1>7, <1>8 DEF Turns

LEMMA HereSound ==
  ASSUME PageInv
  PROVE  Here \in Views /\ Sound(Here) /\ shown \in Keys
  BY DEF PageInv, TypeOK, Blocks, Here, Sound, Keys

\* The view stays as it is.
LEMMA StillStep ==
  ASSUME PageInv, NEW r \in Requests, UNCHANGED view
  PROVE  Turns(r)
<1>1. \A k \in Keys : Sound(view[k])
  BY DEF PageInv, Blocks, Sound
<1>2. \A k \in Keys, q \in Requests : Knows(view[k], q) => \E s \in Sessions : Receipt(q, s)
  BY DEF PageInv, Known
<1> QED
  BY <1>1, <1>2 DEF Turns, PageInv, TypeOK

\* A message that is sent, or sent again, was not known.
LEMMA PostTurns ==
  ASSUME PageInv, NEW r \in Requests, Send(r) \/ Retry(r)
  PROVE  Turns(r)
<1>1. Local(Shown(Here, r))
  BY DEF Send, Retry, Posts
<1>2. ~Knows(Here, r)
  <2>1. CASE Send(r)
    BY <2>1, HereSound DEF Send, Unused, Knows, Block, Here
  <2>2. CASE Retry(r)
    <3>1. Here.blocks # <<>> /\ Here.blocks[Len(Here.blocks)] = Block(r, "failed")
      BY <2>2 DEF Retry, Last
    <3>2. Here.blocks \in Seq(BlockRecords)
      BY HereSound DEF Views
    <3>3. Len(Here.blocks) \in DOMAIN Here.blocks
      BY <3>1, <3>2
    <3> QED
      BY <3>1, <3>3, HereSound DEF Sound, Once, Knows, Block
  <2> QED
    BY <2>1, <2>2
<1> QED
  BY <1>1, <1>2, HereSound, ShownView, LocalStep

LEMMA FailTurns ==
  ASSUME PageInv, NEW r \in Requests, NEW c, CreateFails(r) \/ Rejected(r) \/ TellsAbsent(r, c)
  PROVE  Turns(r)
<1> DEFINE w == [Marked(Here, r, "failed") EXCEPT !.active = FALSE]
<1>1. w \in Views /\ Sound(w) /\ w.read = Here.read /\ \A q : Knows(w, q) <=> (q # r /\ Knows(Here, q))
  BY HereSound, FailedView
<1>2. CASE CreateFails(r)
  <2>1. Local(w)
    BY <1>2 DEF CreateFails, Fails
  <2>2. Knows(Here, r) => Lost(r, shown)
    BY <1>2, HereSound DEF PageInv, Known, Posted, Here, Lost
  <2> HIDE DEF w
  <2> QED
    BY <1>1, <2>1, <2>2, LocalStep
<1>3. CASE Rejected(r)
  <2>1. Local(w) /\ ~Knows(Here, r)
    BY <1>3 DEF Rejected, Fails, KnownIn, Knows, Here
  <2> HIDE DEF w
  <2> QED
    BY <1>1, <2>1, LocalStep
<1>4. CASE TellsAbsent(r, c) /\ HasPending(Here, r)
  <2>1. Local(w) /\ ~Knows(Here, r)
    BY <1>4, HereSound, PendingIsNotKnown DEF TellsAbsent, Applies
  <2> HIDE DEF w
  <2> QED
    BY <1>1, <2>1, LocalStep
<1>5. CASE TellsAbsent(r, c) /\ ~HasPending(Here, r)
  <2>1. Local(Here)
    BY <1>5 DEF TellsAbsent, Applies
  <2> QED
    BY <2>1, HereSound, LocalStep
<1> QED
  BY <1>2, <1>3, <1>4, <1>5

LEMMA MarkTurns ==
  ASSUME PageInv, NEW r \in Requests, NEW c, Succeeds(r) \/ Doubts(r) \/ TellsNothing(r, c)
  PROVE  Turns(r)
<1>1. \/ Local(Here)
      \/ \E p \in {"verifying", "accepted"} : Local(Marked(Here, r, p)) /\ ~Knows(Here, r)
  <2>1. HasPending(Here, r) => ~Knows(Here, r)
    BY HereSound, PendingIsNotKnown
  <2>2. CASE Succeeds(r)
    BY <2>1, <2>2 DEF Succeeds
  <2>3. CASE Doubts(r)
    BY <2>3 DEF Doubts, KnownIn, Knows, Here
  <2>4. CASE TellsNothing(r, c)
    BY <2>1, <2>4 DEF TellsNothing, Applies
  <2> QED
    BY <2>2, <2>3, <2>4
<1>2. CASE Local(Here)
  BY <1>2, HereSound, LocalStep
<1>3. ASSUME NEW p \in {"verifying", "accepted"}, Local(Marked(Here, r, p)), ~Knows(Here, r)
      PROVE  Turns(r)
  <2> DEFINE w == Marked(Here, r, p)
  <2>1. w \in Views /\ Sound(w) /\ w.read = Here.read /\ \A q : Knows(w, q) <=> (q # r /\ Knows(Here, q))
    BY HereSound, PendingView DEF Delivery
  <2>2. Local(w)
    BY <1>3
  <2> HIDE DEF w
  <2> QED
    BY <1>3, <2>1, <2>2, LocalStep
<1> QED
  BY <1>1, <1>2, <1>3

\* A message is confirmed only when its receipt was seen.
LEMMA AcceptTurns ==
  ASSUME PageInv, NEW r \in Requests, NEW c \in check[r], TellsAccepted(r, c)
  PROVE  Turns(r)
<1>1. CASE ~HasPending(Here, r)
  BY <1>1, StillStep DEF TellsAccepted, Applies
<1>2. CASE HasPending(Here, r)
  <2>1. PICK p \in {"no", "accepted"}, b \in BOOLEAN :
           Local(Marked([Here EXCEPT !.active = b], r, p))
    BY <1>2 DEF TellsAccepted, Applies
  <2>2. \E s \in Sessions : Receipt(r, s)
    BY DEF TellsAccepted, PageInv, Posted, Checked, TypeOK, Statuses
  <2> DEFINE v == [Here EXCEPT !.active = b]
             w == Marked(v, r, p)
  <2>3. v \in Views /\ v.blocks = Here.blocks /\ v.read = Here.read
    BY HereSound, ActiveView
  <2> HIDE DEF v
  <2>4. Sound(v) /\ \A q : Knows(v, q) <=> Knows(Here, q)
    BY <2>3, HereSound DEF Sound, Once, Knows
  <2>5. ~Knows(Here, r)
    BY <1>2, HereSound, PendingIsNotKnown
  <2>0. p \in Delivery
    BY DEF Delivery
  <2>6. /\ w \in Views /\ Sound(w) /\ w.read = Here.read
        /\ \A q : q # r => (Knows(w, q) <=> Knows(Here, q))
    <3>1. w \in Views /\ w.read = v.read
      BY <2>0, <2>3, MarkedView
    <3>2. Sound(w) /\ \A q : q # r => (Knows(w, q) <=> Knows(v, q))
      BY <2>0, <2>3, <2>4, MarkedSound
    <3> QED
      BY <2>3, <2>4, <3>1, <3>2
  <2>7. Local(w)
    BY <2>1 DEF v
  <2> HIDE DEF w
  <2> QED
    BY <2>2, <2>5, <2>6, <2>7, LocalStep
<1> QED
  BY <1>1, <1>2

-----------------------------------------------------------------------------
(* The log *)

\* Events stay, and stay committed.
More ==
  /\ log' \in [Sessions -> Seq(Events)]
  /\ \A s \in Sessions : \A i \in DOMAIN log[s] :
       /\ i \in DOMAIN log'[s]
       /\ log'[s][i].kind = log[s][i].kind /\ log'[s][i].of = log[s][i].of
       /\ log[s][i].committed => log'[s][i].committed

Appends(s, e) == log' = [log EXCEPT ![s] = Append(@, e)] /\ UNCHANGED late

\* What a step may do to the log.
LogMoves ==
  \/ UNCHANGED <<log, late>>
  \/ \E s \in Sessions, e \in Events : Appends(s, e)
  \/ \E s \in Sessions : Commits(s)

LEMMA LogType ==
  ASSUME TypeOK, NEW s \in Sessions
  PROVE  /\ log[s] \in Seq(Events) /\ Len(log[s]) \in Nat /\ DOMAIN log[s] = 1..Len(log[s])
         /\ \A i \in DOMAIN log[s] : i \in Nat /\ i # 0 /\ log[s][i] \in Events
<1>1. log[s] \in Seq(Events)
  BY DEF TypeOK
<1>2. Len(log[s]) \in Nat /\ DOMAIN log[s] = 1..Len(log[s])
  BY <1>1
<1>3. \A i \in DOMAIN log[s] : i \in Nat /\ i # 0 /\ log[s][i] \in Events
  BY <1>1, <1>2
<1> QED
  BY <1>1, <1>2, <1>3

LEMMA AppendLog ==
  ASSUME TypeOK, NEW s \in Sessions, NEW e \in Events, Appends(s, e)
  PROVE  /\ More
         /\ \A t \in Sessions : t # s => log'[t] = log[t]
         /\ DOMAIN log'[s] = 1..(Len(log[s]) + 1)
         /\ log'[s][Len(log[s]) + 1] = e
         /\ \A i \in DOMAIN log[s] : log'[s][i] = log[s][i]
<1>1. log \in [Sessions -> Seq(Events)]
  BY DEF TypeOK
<1>2. log[s] \in Seq(Events) /\ Len(log[s]) \in Nat /\ DOMAIN log[s] = 1..Len(log[s])
  BY LogType
<1> DEFINE new == Append(log[s], e)
<1>3. /\ new \in Seq(Events) /\ DOMAIN new = 1..(Len(log[s]) + 1) /\ new[Len(log[s]) + 1] = e
      /\ \A i \in DOMAIN log[s] : new[i] = log[s][i]
  BY <1>2
<1>4. log' = [log EXCEPT ![s] = new]
  BY DEF Appends
<1> HIDE DEF new
<1>5. log' \in [Sessions -> Seq(Events)] /\ log'[s] = new /\ \A t \in Sessions : t # s => log'[t] = log[t]
  BY <1>1, <1>3, <1>4
<1>6. \A i \in DOMAIN log[s] : i \in DOMAIN new
  BY <1>2, <1>3
<1>7. \A t \in Sessions : \A i \in DOMAIN log[t] :
        /\ i \in DOMAIN log'[t]
        /\ log'[t][i].kind = log[t][i].kind /\ log'[t][i].of = log[t][i].of
        /\ log[t][i].committed => log'[t][i].committed
  BY <1>3, <1>5, <1>6
<1> QED
  BY <1>3, <1>5, <1>7 DEF More

LEMMA CommitLog ==
  ASSUME TypeOK, NEW s \in Sessions, Commits(s)
  PROVE  /\ More
         /\ \A t \in Sessions : t # s => log'[t] = log[t]
         /\ DOMAIN log'[s] = DOMAIN log[s]
         /\ \E i \in DOMAIN log[s] :
              /\ ~log[s][i].committed /\ log'[s][i].committed
              /\ \A j \in DOMAIN log[s] : j # i => log'[s][j] = log[s][j]
              /\ late' = IF (shown = s /\ i < stream.sent) \/ (\E j \in Range(view[s].read) : i < j)
                         THEN [late EXCEPT ![s] = @ \cup {i}] ELSE late
<1>1. PICK i \in DOMAIN log[s] :
        /\ ~log[s][i].committed
        /\ log' = [log EXCEPT ![s][i].committed = TRUE]
        /\ late' = IF (shown = s /\ i < stream.sent) \/ (\E j \in Range(view[s].read) : i < j)
                   THEN [late EXCEPT ![s] = @ \cup {i}] ELSE late
  BY DEF Commits
<1>2. log \in [Sessions -> Seq(Events)]
  BY DEF TypeOK
<1>3. log[s] \in Seq(Events) /\ Len(log[s]) \in Nat /\ DOMAIN log[s] = 1..Len(log[s])
      /\ \A j \in DOMAIN log[s] : log[s][j] \in Events
  BY LogType
<1> DEFINE e == [log[s][i] EXCEPT !.committed = TRUE]
           new == [log[s] EXCEPT ![i] = e]
<1>4. e \in Events /\ e.kind = log[s][i].kind /\ e.of = log[s][i].of /\ e.committed = TRUE
  BY <1>3 DEF Events
<1>5. log' = [log EXCEPT ![s] = new]
  BY <1>1
<1> HIDE DEF e
<1>6. new \in Seq(Events) /\ DOMAIN new = DOMAIN log[s] /\ new[i] = e
      /\ \A j \in DOMAIN log[s] : j # i => new[j] = log[s][j]
  <2>1. log[s] \in [1..Len(log[s]) -> Events]
    BY <1>3
  <2>2. new \in [1..Len(log[s]) -> Events] /\ DOMAIN new = DOMAIN log[s]
    BY <1>3, <1>4, <2>1
  <2>3. new \in Seq(Events)
    BY <1>3, <2>2
  <2> QED
    BY <1>3, <2>2, <2>3
<1> HIDE DEF new
<1>7. log' \in [Sessions -> Seq(Events)] /\ log'[s] = new /\ \A t \in Sessions : t # s => log'[t] = log[t]
  BY <1>2, <1>5, <1>6
<1>8. \A t \in Sessions : \A j \in DOMAIN log[t] :
        /\ j \in DOMAIN log'[t]
        /\ log'[t][j].kind = log[t][j].kind /\ log'[t][j].of = log[t][j].of
        /\ log[t][j].committed => log'[t][j].committed
  BY <1>4, <1>6, <1>7
<1>9. More
  BY <1>7, <1>8 DEF More
<1> QED
  BY <1>1, <1>4, <1>6, <1>7, <1>9

LEMMA MovesMore ==
  ASSUME TypeOK, LogMoves
  PROVE  More
<1>1. CASE UNCHANGED <<log, late>>
  BY <1>1 DEF More, TypeOK
<1> QED
  BY <1>1, AppendLog, CommitLog DEF LogMoves

\* Receipts stay.
LEMMA ReceiptsStay ==
  ASSUME More, NEW r, NEW s \in Sessions, Receipt(r, s)
  PROVE  Receipt(r, s)'
  BY DEF More, Receipt

LEMMA CommittedStays ==
  ASSUME More, NEW s \in Sessions
  PROVE  Committed(s) \subseteq Committed(s)'
  BY DEF More, Committed

\* An event that is no message brings no receipt, a message brings its own.
LEMMA AppendReceipts ==
  ASSUME TypeOK, NEW s \in Sessions, NEW e \in Events, Appends(s, e)
  PROVE  \A q, t : t \in Sessions =>
           (Receipt(q, t)' <=> Receipt(q, t) \/ (t = s /\ e.kind = "user" /\ e.of = q))
<1> SUFFICES ASSUME NEW q, NEW t \in Sessions
             PROVE  Receipt(q, t)' <=> Receipt(q, t) \/ (t = s /\ e.kind = "user" /\ e.of = q)
  OBVIOUS
<1>1. CASE t # s
  BY <1>1, AppendLog DEF Receipt
<1>2. CASE t = s
  <2>1. Len(log[s]) \in Nat /\ DOMAIN log[s] = 1..Len(log[s])
    BY LogType
  <2>2. \A i : i \in 1..(Len(log[s]) + 1) <=> (i \in DOMAIN log[s] \/ i = Len(log[s]) + 1)
    BY <2>1
  <2> QED
    BY <1>2, <2>2, AppendLog DEF Receipt
<1> QED
  BY <1>1, <1>2

LEMMA CommitReceipts ==
  ASSUME TypeOK, NEW s \in Sessions, Commits(s)
  PROVE  \A q, t : t \in Sessions => (Receipt(q, t)' <=> Receipt(q, t))
<1> SUFFICES ASSUME NEW q, NEW t \in Sessions PROVE Receipt(q, t)' <=> Receipt(q, t)
  OBVIOUS
<1>1. DOMAIN log'[t] = DOMAIN log[t]
  BY CommitLog
<1>2. \A i \in DOMAIN log[t] : log'[t][i].kind = log[t][i].kind /\ log'[t][i].of = log[t][i].of
  BY CommitLog DEF More
<1> QED
  BY <1>1, <1>2 DEF Receipt

\* A message is admitted once, and only while no other runs.
LEMMA AdmitLog ==
  ASSUME TypeOK, NEW r \in Requests \cup Others, NEW s \in Sessions, Admits(r, s)
  PROVE  /\ LogMoves
         /\ \A q, t : t \in Sessions =>
              (Receipt(q, t)' <=> Receipt(q, t) \/ (q = r /\ t = s /\ run[s] = None))
         /\ run' \in [Sessions -> Requests \cup Others \cup {None}]
         /\ late' = late
         /\ \A t \in Sessions \ {s} : log'[t] = log[t] /\ run'[t] = run[t]
<1>1. CASE Receipt(r, s) \/ run[s] # None
  <2>1. UNCHANGED server
    BY <1>1 DEF Admits
  <2> QED
    BY <1>1, <2>1 DEF server, LogMoves, Receipt, TypeOK
<1>2. CASE ~Receipt(r, s) /\ run[s] = None
  <2> DEFINE e == Event("user", r, TRUE)
  <2>1. e \in Events /\ e.kind = "user" /\ e.of = r
    BY DEF Event, Events
  <2>2. Appends(s, e) /\ run' = [run EXCEPT ![s] = r]
    BY <1>2 DEF Admits, Appends
  <2> HIDE DEF e
  <2>3. LogMoves
    BY <2>1, <2>2 DEF LogMoves
  <2>4. run' \in [Sessions -> Requests \cup Others \cup {None}] /\ \A t \in Sessions \ {s} : run'[t] = run[t]
    BY <2>2 DEF TypeOK
  <2>5. \A t \in Sessions \ {s} : log'[t] = log[t]
    BY <2>1, <2>2, AppendLog
  <2>6. \A q, t : t \in Sessions =>
              (Receipt(q, t)' <=> Receipt(q, t) \/ (q = r /\ t = s /\ run[s] = None))
    BY <1>2, <2>1, <2>2, AppendReceipts
  <2> QED
    BY <2>2, <2>3, <2>4, <2>5, <2>6 DEF Appends
<1> QED
  BY <1>1, <1>2

-----------------------------------------------------------------------------
(* Reading while the log grows *)

ReadInv == Heard /\ Cursors /\ Ahead /\ LogIsRead

LEMMA ReadType ==
  ASSUME TypeOK, NEW k \in Keys
  PROVE  /\ view[k].read \in Seq(Nat) /\ Len(view[k].read) \in Nat
         /\ DOMAIN view[k].read = 1..Len(view[k].read)
         /\ Range(view[k].read) \subseteq Nat
         /\ \A i \in DOMAIN view[k].read : view[k].read[i] \in Range(view[k].read) /\ i \in Nat
<1>1. view[k].read \in Seq(Nat)
  BY DEF TypeOK, Views
<1>2. Len(view[k].read) \in Nat /\ DOMAIN view[k].read = 1..Len(view[k].read)
  BY <1>1
<1>3. \A i \in DOMAIN view[k].read : view[k].read[i] \in Nat /\ i \in Nat
  BY <1>1, <1>2
<1> QED
  BY <1>1, <1>2, <1>3 DEF Range

\* An event that is new has a number beyond all that were read or sent.
LEMMA AppendReads ==
  ASSUME TypeOK, ReadInv, NEW s \in Sessions, NEW e \in Events, Appends(s, e), UNCHANGED <<page, stream>>
  PROVE  ReadInv'
<1> DEFINE n == Len(log[s]) + 1
<1>0. /\ shown' = shown /\ view' = view /\ stream' = stream /\ late' = late
  BY DEF page, Appends
<1>1. /\ \A t \in Sessions : t # s => log'[t] = log[t]
      /\ DOMAIN log'[s] = 1..n /\ log'[s][n] = e /\ \A i \in DOMAIN log[s] : log'[s][i] = log[s][i]
  BY AppendLog
<1>2. Len(log[s]) \in Nat /\ DOMAIN log[s] = 1..Len(log[s])
  BY LogType
<1>3. n \in Nat /\ \A i \in 1..n : i = n \/ i \in DOMAIN log[s]
  BY <1>2
<1> HIDE DEF n
<1>4. \A t \in Sessions : Committed(t) \subseteq Committed(t)'
  BY AppendLog, CommittedStays
<1>5. \A t \in Sessions : \A i \in Committed(t)' : i \in Committed(t) \/ (t = s /\ i = n)
  BY <1>1, <1>3 DEF Committed
<1>6. \A i \in Committed(s) : i < n
  BY <1>2 DEF Committed, n
<1>7. Heard'
  BY <1>0, <1>4 DEF ReadInv, Heard
<1>8. Cursors'
  BY <1>0, <1>4 DEF ReadInv, Cursors, TypeOK
<1>9. Ahead'
  <2> SUFFICES ASSUME shown \in Sessions, NEW i \in Committed(shown)'
               PROVE  \/ i \in late[shown] \cup Range(view[shown].read) \cup stream.wire
                      \/ stream.sent < i
    BY <1>0 DEF Ahead
  <2>1. CASE i \in Committed(shown)
    BY <2>1 DEF ReadInv, Ahead
  <2>2. CASE shown = s /\ i = n
    <3>1. shown # Draft
      BY ConversationAssumption
    <3>2. stream.sent = 0 \/ stream.sent \in Committed(s)
      BY <2>2, <3>1 DEF ReadInv, Cursors
    <3> QED
      BY <1>6, <2>2, <3>2, <1>2 DEF n
  <2>3. i \in Committed(shown) \/ (shown = s /\ i = n)
    BY <1>0, <1>5 DEF Committed
  <2> QED
    BY <2>1, <2>2, <2>3
<1>10. LogIsRead'
  <2> SUFFICES ASSUME NEW t \in Sessions, NEW i \in DOMAIN log'[t], NEW j \in Range(view[t].read),
                      i < j, log'[t][i].committed, i \notin late[t]
               PROVE  i \in Range(view[t].read)
    BY <1>0 DEF LogIsRead, ReadInv
  <2>1. i \in Committed(t)'
    BY DEF Committed
  <2>2. j \in Committed(t)
    BY DEF ReadInv, Heard
  <2>3. CASE i \in Committed(t)
    BY <2>3 DEF ReadInv, LogIsRead, Committed
  <2>4. CASE t = s /\ i = n
    <3>1. j < n
      BY <1>6, <2>2, <2>4
    <3>2. j \in Nat
      BY <2>2, LogType DEF Committed
    <3> QED
      BY <1>3, <2>4, <3>1, <3>2
  <2> QED
    BY <1>5, <2>1, <2>3, <2>4
<1> QED
  BY <1>7, <1>8, <1>9, <1>10 DEF ReadInv

\* An event committed behind a reader is late.
LEMMA CommitReads ==
  ASSUME TypeOK, ReadInv, NEW s \in Sessions, Commits(s), UNCHANGED stream
  PROVE  ReadInv'
<1>0. shown' = shown /\ view' = view /\ stream' = stream
  BY DEF Commits, page
<1>1. \A t \in Sessions : t # s => log'[t] = log[t]
  BY CommitLog
<1>2. PICK c \in DOMAIN log[s] :
        /\ ~log[s][c].committed /\ log'[s][c].committed
        /\ \A j \in DOMAIN log[s] : j # c => log'[s][j] = log[s][j]
        /\ late' = IF (shown = s /\ c < stream.sent) \/ (\E j \in Range(view[s].read) : c < j)
                   THEN [late EXCEPT ![s] = @ \cup {c}] ELSE late
  BY CommitLog
<1>3. \A t \in Sessions : DOMAIN log'[t] = DOMAIN log[t]
  BY CommitLog
<1>4. \A t \in Sessions : Committed(t) \subseteq Committed(t)'
  BY CommitLog, CommittedStays
<1>5. \A t \in Sessions : \A i \in Committed(t)' : i \in Committed(t) \/ (t = s /\ i = c)
  BY <1>1, <1>2, <1>3 DEF Committed
<1>6. c \notin Committed(s) /\ c \in Nat /\ c # 0
  BY <1>2, LogType DEF Committed
<1>7. /\ \A t \in Sessions : late[t] \subseteq late'[t]
      /\ \A t \in Sessions : \A i \in late'[t] : i \in late[t] \/ (t = s /\ i = c)
      /\ (shown = s /\ c < stream.sent) \/ (\E j \in Range(view[s].read) : c < j) => c \in late'[s]
  BY <1>2 DEF TypeOK
<1>8. Heard'
  BY <1>0, <1>4 DEF ReadInv, Heard
<1>9. Cursors'
  BY <1>0, <1>4 DEF ReadInv, Cursors, TypeOK
<1>10. Ahead'
  <2> SUFFICES ASSUME shown \in Sessions, NEW i \in Committed(shown)'
               PROVE  \/ i \in late'[shown] \cup Range(view[shown].read) \cup stream.wire
                      \/ stream.sent < i
    BY <1>0 DEF Ahead
  <2>1. CASE i \in Committed(shown)
    BY <1>7, <2>1 DEF ReadInv, Ahead
  <2>2. CASE shown = s /\ i = c
    <3>1. shown # Draft
      BY ConversationAssumption
    <3>2. stream.sent # c
      BY <1>6, <2>2, <3>1 DEF ReadInv, Cursors
    <3>3. stream.sent \in Nat
      BY DEF TypeOK, Streams
    <3> QED
      BY <1>6, <1>7, <2>2, <3>2, <3>3
  <2>3. i \in Committed(shown) \/ (shown = s /\ i = c)
    BY <1>0, <1>5 DEF Committed
  <2> QED
    BY <2>1, <2>2, <2>3
<1>11. LogIsRead'
  <2> SUFFICES ASSUME NEW t \in Sessions
               PROVE  /\ \A i, j \in DOMAIN view[t].read : i # j => view[t].read[i] # view[t].read[j]
                      /\ \A i, j \in DOMAIN view[t].read :
                           i < j /\ view[t].read[i] \notin late'[t] /\ view[t].read[j] \notin late'[t]
                           => view[t].read[i] < view[t].read[j]
                      /\ \A i \in DOMAIN log'[t], j \in Range(view[t].read) :
                           i < j /\ log'[t][i].committed /\ i \notin late'[t] => i \in Range(view[t].read)
    BY <1>0 DEF LogIsRead
  <2>1. \A i, j \in DOMAIN view[t].read : i # j => view[t].read[i] # view[t].read[j]
    BY DEF ReadInv, LogIsRead
  <2>2. \A i, j \in DOMAIN view[t].read :
          i < j /\ view[t].read[i] \notin late'[t] /\ view[t].read[j] \notin late'[t]
          => view[t].read[i] < view[t].read[j]
    BY <1>7 DEF ReadInv, LogIsRead
  <2>3. ASSUME NEW i \in DOMAIN log'[t], NEW j \in Range(view[t].read),
               i < j, log'[t][i].committed, i \notin late'[t]
        PROVE  i \in Range(view[t].read)
    <3>1. i \in Committed(t)'
      BY <2>3 DEF Committed
    <3>2. ~(t = s /\ i = c)
      BY <1>7, <2>3
    <3>3. i \in Committed(t)
      BY <1>5, <3>1, <3>2
    <3> QED
      BY <1>7, <2>3, <3>3 DEF ReadInv, LogIsRead, Committed
  <2> QED
    BY <2>1, <2>2, <2>3
<1> QED
  BY <1>8, <1>9, <1>10, <1>11 DEF ReadInv

LEMMA MovesRead ==
  ASSUME TypeOK, ReadInv, LogMoves, UNCHANGED <<page, stream>>
  PROVE  ReadInv'
<1>1. CASE UNCHANGED <<log, late>>
  BY <1>1 DEF ReadInv, Heard, Cursors, Ahead, LogIsRead, Committed, page, TypeOK
<1> QED
  BY <1>1, AppendReads, CommitReads DEF LogMoves

-----------------------------------------------------------------------------
(* Reading while the page moves *)

LEMMA CutType ==
  ASSUME NEW n \in Nat
  PROVE  /\ Cut(n) \in Streams /\ Cut(n).open = FALSE
         /\ Cut(n).last = n /\ Cut(n).sent = n /\ Cut(n).wire = {}
         /\ LET o == [Cut(n) EXCEPT !.open = TRUE]
            IN o \in Streams /\ o.open /\ o.last = n /\ o.sent = n /\ o.wire = {}
  BY DEF Cut, Streams

LEMMA StreamType ==
  ASSUME TypeOK
  PROVE  /\ stream \in Streams /\ stream.last \in Nat /\ stream.sent \in Nat
         /\ \A i \in stream.wire : i \in Nat
  BY DEF TypeOK, Streams

\* What is read, and where the stream is, stay.
LEMMA QuietReads ==
  ASSUME TypeOK, ReadInv, UNCHANGED <<log, late, stream, shown>>,
         \A k \in Keys : view'[k].read = view[k].read
  PROVE  ReadInv'
<1>1. /\ view'[Draft].read = view[Draft].read /\ \A s \in Sessions : view'[s].read = view[s].read
      /\ log' = log /\ late' = late /\ stream' = stream /\ shown' = shown 
  BY DEF Keys
<1>2. Heard'
  BY <1>1 DEF ReadInv, Heard, Committed
<1>3. Cursors'
  BY <1>1 DEF ReadInv, Cursors, Committed
<1>4. Ahead'
  BY <1>1 DEF ReadInv, Ahead, Committed
<1>5. LogIsRead'
  BY <1>1 DEF ReadInv, LogIsRead
<1> QED
  BY <1>2, <1>3, <1>4, <1>5 DEF ReadInv

\* The stream is cut, or begins anew, at the last event read or at the first.
LEMMA CutReads ==
  ASSUME TypeOK, ReadInv, UNCHANGED <<log, late, shown>>,
         \A k \in Keys : view'[k].read = view[k].read,
         NEW n \in {0, stream.last},
         \/ stream' = Cut(n)
         \/ shown # Draft /\ stream' = [Cut(n) EXCEPT !.open = TRUE]
  PROVE  ReadInv'
<1>1. /\ view'[Draft].read = view[Draft].read /\ \A s \in Sessions : view'[s].read = view[s].read
      /\ log' = log /\ late' = late /\ shown' = shown 
  BY DEF Keys
<1>2. n \in Nat /\ 0 \in Nat /\ stream.last \in Nat /\ stream.sent \in Nat /\ stream.last <= stream.sent
  BY StreamType DEF ReadInv, Cursors
<1>3. /\ stream'.last = n /\ stream'.sent = n /\ stream'.wire = {}
      /\ ~stream'.open => stream' = Cut(n)
      /\ shown = Draft => stream' = Cut(n)
  BY <1>2, CutType
<1>4. Heard'
  BY <1>1 DEF ReadInv, Heard, Committed
<1>5. Cursors'
  <2>1. shown = Draft => n = 0
    BY <1>2, CutType DEF ReadInv, Cursors
  <2>2. shown # Draft => n \in Committed(shown) \cup {0}
    BY DEF ReadInv, Cursors
  <2> QED
    BY <1>1, <1>2, <1>3, <2>1, <2>2 DEF Cursors, Committed
<1>6. Ahead'
  <2> SUFFICES ASSUME shown \in Sessions, NEW i \in Committed(shown),
                      i \notin late[shown] \cup Range(view[shown].read)
               PROVE  n < i
    BY <1>1, <1>3 DEF Ahead, Committed
  <2>1. i \in stream.wire \/ stream.sent < i
    BY DEF ReadInv, Ahead
  <2>2. i \in Nat /\ i # 0
    BY LogType DEF Committed
  <2>3. i \in stream.wire => stream.last < i
    BY DEF ReadInv, Cursors
  <2> QED
    BY <1>2, <2>1, <2>2, <2>3
<1>7. LogIsRead'
  BY <1>1 DEF ReadInv, LogIsRead
<1> QED
  BY <1>4, <1>5, <1>6, <1>7 DEF ReadInv

\* Another conversation is read from its first event.
LEMMA SwitchReads ==
  ASSUME TypeOK, ReadInv, NEW k \in Keys, Switch(k)
  PROVE  ReadInv'
<1>1. /\ shown' = k /\ stream' = Cut(0) /\ UNCHANGED <<view, log, late>>
  BY DEF Switch, server
<1>2. Heard' /\ LogIsRead'
  BY <1>1 DEF ReadInv, Heard, LogIsRead, Committed
<1>3. /\ stream'.last = 0 /\ stream'.sent = 0 /\ stream'.wire = {}
  BY <1>1, CutType
<1>4. Cursors'
  BY <1>1, <1>3 DEF Cursors
<1>5. Ahead'
  <2> SUFFICES ASSUME k \in Sessions, NEW i \in Committed(k) PROVE 0 < i
    BY <1>1, <1>3 DEF Ahead, Committed
  <2>1. i \in Nat /\ i # 0
    BY LogType DEF Committed
  <2> QED
    BY <2>1
<1> QED
  BY <1>2, <1>4, <1>5 DEF ReadInv

\* A page of the log holds all that is committed after the cursor.
LEMMA PageReads ==
  ASSUME TypeOK, ReadInv, Pages
  PROVE  ReadInv'
<1>1. PICK last \in After(shown, stream.sent) :
        /\ \A i \in After(shown, stream.sent) : i <= last
        /\ stream' = [stream EXCEPT !.wire = After(shown, stream.sent), !.sent = last]
  BY DEF Pages
<1>2. UNCHANGED <<shown, view, log, late>> /\ stream.open /\ stream.wire = {}
  BY DEF Pages, page, server
<1>3. shown \in Sessions /\ shown # Draft
  BY <1>2, ConversationAssumption DEF TypeOK
<1>4. After(shown, stream.sent) = {i \in Committed(shown) : i > stream.sent}
  BY DEF After, Committed
<1>5. /\ stream'.wire = After(shown, stream.sent) /\ stream'.sent = last
      /\ stream'.last = stream.last /\ stream'.open = stream.open
  BY <1>1, StreamType DEF Streams
<1>6. /\ last \in Committed(shown) /\ last \in Nat /\ last > stream.sent
      /\ stream.sent \in Nat /\ stream.last \in Nat /\ stream.last <= stream.sent
      /\ \A i \in Committed(shown) : i \in Nat
  BY <1>3, <1>4, LogType, StreamType DEF ReadInv, Cursors, Committed
<1>7. Heard' /\ LogIsRead'
  BY <1>2 DEF ReadInv, Heard, LogIsRead, Committed
<1>8. Cursors'
  <2>1. Committed(shown)' = Committed(shown)
    BY <1>2 DEF Committed
  <2>2. stream.last \in Committed(shown) \cup {0}
    BY <1>3 DEF ReadInv, Cursors
  <2>3. \A i \in stream'.wire : stream'.last < i /\ i <= stream'.sent
    BY <1>1, <1>4, <1>5, <1>6
  <2>4. stream'.last <= stream'.sent
    BY <1>5, <1>6
  <2>5. stream'.wire \subseteq Committed(shown)
    BY <1>4, <1>5
  <2> QED
    BY <1>2, <1>3, <1>5, <1>6, <2>1, <2>2, <2>3, <2>4, <2>5 DEF Cursors
<1>9. Ahead'
  <2> SUFFICES ASSUME NEW i \in Committed(shown)
               PROVE  \/ i \in late[shown] \cup Range(view[shown].read) \cup stream'.wire
                      \/ stream'.sent < i
    BY <1>2, <1>3 DEF Ahead, Committed
  <2>1. \/ i \in late[shown] \cup Range(view[shown].read)
        \/ stream.sent < i
    BY <1>2, <1>3 DEF ReadInv, Ahead
  <2> QED
    BY <1>4, <1>5, <1>6, <2>1
<1> QED
  BY <1>7, <1>8, <1>9 DEF ReadInv

\* A conversation that begins with a copy of the page has read nothing.
LEMMA CreateReads ==
  ASSUME TypeOK, ReadInv, Begun, NEW r \in Requests, NEW s \in Sessions, Creates(r, s)
  PROVE  ReadInv'
<1>1. view' = [view EXCEPT ![s] = [Here EXCEPT !.read = <<>>]] /\ UNCHANGED <<shown, stream, log, late>>
  BY DEF Creates, server
<1>2. Committed(s) = {}
  BY DEF Creates, Offered, Blank, Begun, Committed
<1>3. s # Draft /\ Draft \in Keys /\ Sessions \subseteq Keys /\ s \in Keys /\ shown \in Keys
  BY ConversationAssumption DEF Keys, TypeOK
<1>4. view'[s].read = <<>> /\ \A k \in Keys : k # s => view'[k] = view[k]
  BY <1>1, <1>3 DEF TypeOK, Views, Here
<1>5. Range(<<>>) = {} /\ DOMAIN <<>> = {}
  BY DEF Range
<1>6. Heard'
  BY <1>1, <1>3, <1>4, <1>5 DEF ReadInv, Heard, Committed
<1>7. Cursors'
  BY <1>1 DEF ReadInv, Cursors, Committed
<1>8. Ahead'
  BY <1>1, <1>2, <1>3, <1>4 DEF ReadInv, Ahead, Committed
<1>9. LogIsRead'
  <2> SUFFICES ASSUME NEW t \in Sessions
               PROVE  /\ \A i, j \in DOMAIN view'[t].read : i # j => view'[t].read[i] # view'[t].read[j]
                      /\ \A i, j \in DOMAIN view'[t].read :
                           i < j /\ view'[t].read[i] \notin late[t] /\ view'[t].read[j] \notin late[t]
                           => view'[t].read[i] < view'[t].read[j]
                      /\ \A i \in DOMAIN log[t], j \in Range(view'[t].read) :
                           i < j /\ log[t][i].committed /\ i \notin late[t] => i \in Range(view'[t].read)
    BY <1>1 DEF LogIsRead
  <2>1. CASE t = s
    BY <1>4, <1>5, <2>1
  <2>2. CASE t # s
    BY <1>3, <1>4, <2>2 DEF ReadInv, LogIsRead
  <2> QED
    BY <2>1, <2>2
<1> QED
  BY <1>6, <1>7, <1>8, <1>9 DEF ReadInv

LEMMA AppendRange ==
  ASSUME NEW s \in Seq(Nat), NEW i \in Nat
  PROVE  /\ Range(Append(s, i)) = Range(s) \cup {i}
         /\ DOMAIN Append(s, i) = 1..(Len(s) + 1) /\ Append(s, i)[Len(s) + 1] = i
         /\ \A j \in DOMAIN s : Append(s, i)[j] = s[j]
<1>1. Len(s) \in Nat /\ DOMAIN s = 1..Len(s)
  OBVIOUS
<1>2. /\ DOMAIN Append(s, i) = 1..(Len(s) + 1) /\ Append(s, i)[Len(s) + 1] = i
      /\ \A j \in DOMAIN s : Append(s, i)[j] = s[j]
  BY <1>1
<1>3. \A j : j \in 1..(Len(s) + 1) <=> (j \in DOMAIN s \/ j = Len(s) + 1)
  BY <1>1
<1> QED
  BY <1>2, <1>3 DEF Range

\* The event received is the first of those on the wire.
LEMMA ReceivedEvent ==
  ASSUME PageInv, ReadInv, Receives
  PROVE  \E i \in stream.wire :
           LET e == log[shown][i]
               w == Reduced(Here, i, e)
           IN /\ \A j \in stream.wire : i <= j
              /\ shown \in Sessions /\ i \in Committed(shown) /\ i \in Nat /\ e \in Events
              /\ w \in Views /\ Sound(w)
              /\ w.read = IF i \in Range(Here.read) THEN Here.read ELSE Append(Here.read, i)
              /\ \A q : Knows(w, q) => Knows(Here, q) \/ Receipt(q, shown)
              /\ \A q : Knows(Here, q) => Knows(w, q)
              /\ \A k \in Keys : view'[k] = IF k = shown THEN w ELSE view[k]
              /\ view' \in [Keys -> Views]
              /\ stream'.wire = stream.wire \ {i} /\ stream'.last = i
              /\ stream'.sent = stream.sent /\ stream'.open = stream.open /\ stream' \in Streams
              /\ IF e.kind = "user" /\ HasPending(Here, e.of)
                 THEN Acknowledged(e.of, shown) ELSE UNCHANGED <<text, submitted>>
<1>1. PICK i \in stream.wire :
        /\ \A j \in stream.wire : i <= j
        /\ IF log[shown][i].kind = "user" /\ HasPending(Here, log[shown][i].of)
           THEN Acknowledged(log[shown][i].of, shown) ELSE UNCHANGED <<text, submitted>>
        /\ Local(Reduced(Here, i, log[shown][i]))
        /\ stream' = [stream EXCEPT !.wire = @ \ {i}, !.last = i]
  BY DEF Receives
<1> DEFINE e == log[shown][i]
           w == Reduced(Here, i, e)
<1>2. TypeOK /\ Here \in Views /\ Sound(Here) /\ shown \in Keys
  BY HereSound DEF PageInv
<1>3. shown # Draft
  BY <1>1, CutType DEF ReadInv, Cursors
<1>4. shown \in Sessions
  BY <1>2, <1>3 DEF Keys
<1>5. i \in Committed(shown)
  BY <1>1, <1>3 DEF ReadInv, Cursors
<1>6. i \in Nat /\ e \in Events
  BY <1>2, <1>4, <1>5, LogType DEF Committed
<1>7. /\ w \in Views /\ Sound(w)
      /\ w.read = IF i \in Range(Here.read) THEN Here.read ELSE Append(Here.read, i)
      /\ \A q : Knows(w, q) => Knows(Here, q) \/ (e.kind = "user" /\ q = e.of)
      /\ \A q : Knows(Here, q) => Knows(w, q)
  BY <1>2, <1>6, ReducedView
<1>8. e.kind = "user" => Receipt(e.of, shown)
  BY <1>5 DEF Receipt, Committed
<1>9. Local(w)
  BY <1>1
<1> HIDE DEF w
<1>10. view' \in [Keys -> Views] /\ \A k \in Keys : view'[k] = IF k = shown THEN w ELSE view[k]
  BY <1>2, <1>7, <1>9 DEF Local, TypeOK
<1>11. /\ stream'.wire = stream.wire \ {i} /\ stream'.last = i
       /\ stream'.sent = stream.sent /\ stream'.open = stream.open /\ stream' \in Streams
  BY <1>1, <1>2, <1>6, StreamType DEF Streams
<1> QED
  BY <1>1, <1>4, <1>5, <1>6, <1>7, <1>8, <1>10, <1>11 DEF w

\* All that comes after it was not read: it is on the wire, or not yet asked for.
LEMMA ReceiveReads ==
  ASSUME PageInv, ReadInv, Receives
  PROVE  ReadInv'
<1>1. PICK i \in stream.wire :
        /\ \A j \in stream.wire : i <= j
        /\ shown \in Sessions /\ i \in Committed(shown) /\ i \in Nat
        /\ \A k \in Keys : k # shown => view'[k] = view[k]
        /\ view'[shown].read = IF i \in Range(Here.read) THEN Here.read ELSE Append(Here.read, i)
        /\ stream'.wire = stream.wire \ {i} /\ stream'.last = i
        /\ stream'.sent = stream.sent /\ stream'.open = stream.open
  BY ReceivedEvent, HereSound
<1>2. UNCHANGED <<shown, log, late>>
  BY DEF Receives, server
<1>3. TypeOK /\ Draft \in Keys /\ Sessions \subseteq Keys /\ shown # Draft /\ shown \in Keys
  BY <1>1, ConversationAssumption DEF PageInv, Keys
<1> DEFINE read == view[shown].read
           R == Range(view[shown].read)
           S == Range(view'[shown].read)
<1>4. /\ read \in Seq(Nat) /\ Len(read) \in Nat /\ DOMAIN read = 1..Len(read) /\ R \subseteq Nat
      /\ \A j \in DOMAIN read : read[j] \in R
  BY <1>3, ReadType
<1>5. S = R \cup {i}
  BY <1>1, <1>4, AppendRange DEF Here
<1>6. \A j \in Committed(shown) : j \in Nat
  BY <1>1, <1>3, LogType DEF Committed
<1>7. /\ stream.sent \in Nat /\ stream.last \in Nat /\ i <= stream.sent /\ stream.last < i
  BY <1>3, StreamType DEF ReadInv, Cursors
\* An event that was committed in time and is not the one received comes later.
<1>8. ASSUME NEW j \in Committed(shown), j \notin late[shown], j \notin R
      PROVE  i <= j /\ (j \in stream.wire \/ stream.sent < j)
  <2>1. j \in stream.wire \/ stream.sent < j
    BY <1>1, <1>8 DEF ReadInv, Ahead
  <2>2. j \in stream.wire => i <= j
    BY <1>1
  <2>3. i \in Nat /\ j \in Nat /\ stream.sent \in Nat /\ i <= stream.sent
    BY <1>1, <1>6, <1>7, <1>8
  <2> QED
    BY <2>1, <2>2, <2>3
<1>9. view'[Draft] = view[Draft] /\ \A s \in Sessions : s # shown => view'[s] = view[s]
  BY <1>1, <1>3
<1>10. Heard'
  BY <1>1, <1>2, <1>5, <1>9 DEF ReadInv, Heard, Committed
<1>11. Cursors'
  <2>1. stream.open
    BY <1>1, CutType, <1>7 DEF ReadInv, Cursors
  <2>2. \A j \in stream'.wire : i < j /\ j <= stream.sent
    <3>1. \A j \in stream.wire : j <= stream.sent /\ j \in Nat
      BY <1>3, StreamType DEF ReadInv, Cursors
    <3> QED
      BY <1>1, <3>1
  <2>3. stream.wire \subseteq Committed(shown) /\ stream.sent \in Committed(shown) \cup {0}
    BY <1>3 DEF ReadInv, Cursors
  <2>4. Committed(shown)' = Committed(shown)
    BY <1>2 DEF Committed
  <2> QED
    BY <1>1, <1>2, <1>3, <1>7, <2>1, <2>2, <2>3, <2>4 DEF Cursors
<1>12. Ahead'
  <2> SUFFICES ASSUME NEW j \in Committed(shown)
               PROVE  \/ j \in late[shown] \cup S \cup stream'.wire
                      \/ stream'.sent < j
    BY <1>2 DEF Ahead, Committed
  <2> QED
    BY <1>1, <1>5, <1>8
<1>13. LogIsRead'
  <2> SUFFICES ASSUME NEW t \in Sessions
               PROVE  /\ \A j, k \in DOMAIN view'[t].read : j # k => view'[t].read[j] # view'[t].read[k]
                      /\ \A j, k \in DOMAIN view'[t].read :
                           j < k /\ view'[t].read[j] \notin late[t] /\ view'[t].read[k] \notin late[t]
                           => view'[t].read[j] < view'[t].read[k]
                      /\ \A j \in DOMAIN log[t], k \in Range(view'[t].read) :
                           j < k /\ log[t][j].committed /\ j \notin late[t] => j \in Range(view'[t].read)
    BY <1>2 DEF LogIsRead
  <2>1. CASE t # shown
    BY <1>9, <2>1 DEF ReadInv, LogIsRead
  <2>2. CASE t = shown /\ i \in R
    <3>1. view'[t].read = view[t].read
      BY <1>1, <2>2 DEF Here
    <3> QED
      BY <3>1 DEF ReadInv, LogIsRead
  <2>3. CASE t = shown /\ i \notin R
    <3> DEFINE new == view'[t].read
               n == Len(read) + 1
    <3>1. new = Append(read, i)
      BY <1>1, <2>3 DEF Here
    <3>2. /\ DOMAIN new = 1..n /\ new[n] = i /\ \A j \in DOMAIN read : new[j] = read[j]
      BY <1>1, <1>4, <3>1, AppendRange
    <3>3. n \in Nat /\ (\A j \in 1..n : j = n \/ j \in DOMAIN read) /\ \A j \in DOMAIN read : j < n /\ j \in Nat
      BY <1>4
    <3>4. /\ \A j, k \in DOMAIN read : j # k => read[j] # read[k]
          /\ \A j, k \in DOMAIN read :
               j < k /\ read[j] \notin late[t] /\ read[k] \notin late[t] => read[j] < read[k]
          /\ \A j \in DOMAIN log[t], k \in R :
               j < k /\ log[t][j].committed /\ j \notin late[t] => j \in R
      BY <2>3 DEF ReadInv, LogIsRead
    <3>5. i \in DOMAIN log[t] /\ log[t][i].committed
      BY <1>1, <2>3 DEF Committed
    <3>6. \A j \in R : i \notin late[t] => j < i
      BY <1>1, <1>4, <2>3, <3>4, <3>5
    <3> HIDE DEF new, n
    <3>7. \A j, k \in DOMAIN new : j # k => new[j] # new[k]
      BY <1>4, <2>3, <3>2, <3>3, <3>4
    <3>8. \A j, k \in DOMAIN new :
            j < k /\ new[j] \notin late[t] /\ new[k] \notin late[t] => new[j] < new[k]
      <4> SUFFICES ASSUME NEW j \in DOMAIN new, NEW k \in DOMAIN new, j < k,
                          new[j] \notin late[t], new[k] \notin late[t]
                   PROVE  new[j] < new[k]
        OBVIOUS
      <4>1. j \in DOMAIN read
        BY <3>2, <3>3
      <4>2. CASE k \in DOMAIN read
        BY <3>2, <3>4, <4>1, <4>2
      <4>3. CASE k = n
        BY <1>4, <3>2, <3>6, <4>1, <4>3
      <4> QED
        BY <3>2, <3>3, <4>2, <4>3
    <3>9. \A j \in DOMAIN log[t], k \in S :
            j < k /\ log[t][j].committed /\ j \notin late[t] => j \in S
      <4> SUFFICES ASSUME NEW j \in DOMAIN log[t], NEW k \in S, j < k, log[t][j].committed,
                          j \notin late[t], j \notin R
                   PROVE  FALSE
        BY <1>5
      <4>1. j \in Committed(shown) /\ j \in Nat
        BY <1>6, <2>3 DEF Committed
      <4>2. i <= j
        BY <1>8, <2>3, <4>1
      <4>3. k \notin R
        BY <3>4
      <4> QED
        BY <1>1, <1>5, <4>1, <4>2, <4>3
    <3> QED
      BY <2>3, <3>7, <3>8, <3>9 DEF new
  <2> QED
    BY <2>1, <2>2, <2>3
<1> QED
  BY <1>10, <1>11, <1>12, <1>13 DEF ReadInv

-----------------------------------------------------------------------------
(* Every step keeps the invariant *)

\* No text is emptied but that of the message that is acknowledged.
LEMMA AcknowledgedText ==
  ASSUME TypeOK, NEW r \in Requests, NEW s, Acknowledged(r, s)
  PROVE  /\ text' \in [Keys -> {"empty", "edited"} \cup Requests]
         /\ submitted' \in [Requests -> Keys \cup {None}]
         /\ \A k \in Keys : text'[k] = text[k] \/ (text[k] = r /\ text'[k] = "empty")
  BY DEF Acknowledged, TypeOK

LEMMA DonePost ==
  ASSUME TypeOK, NEW r \in Requests, post[r] # "none", Done(r)
  PROVE  /\ sending' = None
         /\ post' \in [Requests -> {"none", "creating", "sent", "accepted", "refused", "unsure", "asked"}]
         /\ \A q \in Requests : post'[q] = "none"
  BY ConversationAssumption DEF Done, TypeOK

LEMMA ToldPost ==
  ASSUME TypeOK, Posted, NEW r \in Requests, NEW c \in check[r], Told(r, c)
  PROVE  /\ sending' \in Requests \cup {None}
         /\ post' \in [Requests -> {"none", "creating", "sent", "accepted", "refused", "unsure", "asked"}]
         /\ \A q \in Requests : post'[q] # "none" <=> sending' = q
         /\ \A q \in Requests : post'[q] = post[q] \/ post'[q] = "none"
         /\ check' \in [Requests -> SUBSET Statuses]
         /\ \A q \in Requests : check'[q] \subseteq check[q]
         /\ \A q \in Requests : \A d \in check'[q] : d.by = "submit" => post'[q] = "asked"
<1>1. /\ check' \in [Requests -> SUBSET Statuses]
      /\ check'[r] = check[r] \ {c} /\ \A q \in Requests : q # r => check'[q] = check[q]
  BY DEF Told, TypeOK
<1>2. CASE c.by = "submit"
  <2>1. Done(r) /\ post[r] = "asked" /\ \A d \in check'[r] : d.by # "submit"
    BY <1>1, <1>2 DEF Told, Posted, Checked
  <2>2. \A q \in Requests : q # r => post[q] = "none"
    BY <2>1 DEF TypeOK
  <2>3. \A q \in Requests : \A d \in check'[q] : d.by # "submit"
    BY <1>1, <2>1, <2>2 DEF Posted, Checked
  <2> QED
    BY <1>1, <2>1, <2>3, DonePost, ConversationAssumption
<1>3. CASE c.by # "submit"
  <2>1. UNCHANGED <<sending, post>>
    BY <1>3 DEF Told
  <2> QED
    BY <1>1, <2>1 DEF TypeOK, Posted, Checked
<1> QED
  BY <1>2, <1>3

\* The statuses asked for stay true while receipts stay, and submit() waits.
LEMMA CheckedStays ==
  ASSUME Checked, \A q \in Requests : check'[q] \subseteq check[q],
         \A q \in Requests, s \in Sessions : Receipt(q, s) => Receipt(q, s)',
         TypeOK,
         \A q \in Requests : \A d \in check'[q] : d.by = "submit" => post'[q] = "asked"
  PROVE  Checked'
<1> SUFFICES ASSUME NEW q \in Requests, NEW d \in check'[q]
             PROVE  /\ d.at \in {"running", "ended", "overtaken"} => Receipt(q, d.of)'
                    /\ d.by = "submit" => post'[q] = "asked" /\ \A e \in check'[q] : e.by = "submit" => e = d
  BY DEF Checked, Receipt
<1>1. d \in check[q] /\ d.of \in Sessions
  BY DEF TypeOK, Statuses
<1> QED
  BY <1>1 DEF Checked

LEMMA CheckedKept ==
  ASSUME TypeOK, Checked, UNCHANGED <<check, log>>,
         \A q \in Requests : post[q] = "asked" => post'[q] = "asked"
  PROVE  Checked'
<1>1. \A q, s : Receipt(q, s)' <=> Receipt(q, s)
  BY DEF Receipt
<1>2. \A q \in Requests : \A d \in check'[q] : d.by = "submit" => post'[q] = "asked"
  BY DEF Checked
<1> QED
  BY <1>1, <1>2, CheckedStays

\* What a turn of the page leaves true.
LEMMA TurnKeeps ==
  ASSUME PageInv, NEW r \in Requests, Turns(r), UNCHANGED log
  PROVE  Blocks' /\ Known'
<1>1. Blocks'
  BY DEF Turns, Blocks, Sound
<1>2. Known'
  BY DEF Turns, Known, Receipt
<1> QED
  BY <1>1, <1>2

\* What a growing log leaves true.
LEMMA GrowthKeeps ==
  ASSUME PageInv, More, UNCHANGED view
  PROVE  Blocks' /\ Known'
<1>1. Blocks'
  BY DEF PageInv, Blocks
<1>2. Known'
  BY ReceiptsStay DEF PageInv, Known
<1> QED
  BY <1>1, <1>2


LEMMA PostsPost ==
  ASSUME TypeOK, NEW r \in Requests, sending = None, Posts(r)
  PROVE  /\ sending' = r
         /\ post' \in [Requests -> {"none", "creating", "sent", "accepted", "refused", "unsure", "asked"}]
         /\ \A q \in Requests : post'[q] # "none" <=> q = r
         /\ target' \in [Requests -> made \cup {None}]
         /\ \A q \in Requests : target'[q] = target[q] \/ target'[q] # None
         /\ \/ post'[r] = "creating"
            \/ post'[r] = "sent" /\ target'[r] # None
<1>1. \A q \in Requests : post[q] = "none"
  BY ConversationAssumption DEF TypeOK
<1>2. sending' = r
  BY DEF Posts
<1>3. CASE shown = Draft
  <2>1. post' = [post EXCEPT ![r] = "creating"] /\ target' = target
    BY <1>3 DEF Posts
  <2> QED
    BY <1>1, <1>2, <2>1 DEF TypeOK
<1>4. CASE shown # Draft
  <2>1. post' = [post EXCEPT ![r] = "sent"] /\ target' = [target EXCEPT ![r] = shown]
    BY <1>4 DEF Posts
  <2>2. shown \in made /\ shown # None
    BY <1>4, ConversationAssumption DEF TypeOK
  <2> QED
    BY <1>1, <1>2, <2>1, <2>2 DEF TypeOK
<1> QED
  BY <1>3, <1>4

\* A step of the page that reads no event.
LEMMA TurnStep ==
  ASSUME IInv, NEW r \in Requests, Turns(r), UNCHANGED <<made, shown, log, run, late>>,
         stream' \in {stream, Cut(stream.last), Cut(0)}, TypeOK', Posted'
  PROVE  IInv'
<1>0. PageInv /\ ReadInv /\ TypeOK /\ Begun
  BY DEF IInv, PageInv, ReadInv
<1>1. Blocks' /\ Known'
  BY <1>0, TurnKeeps
<1>2. Begun'
  BY <1>0 DEF Begun
<1>3. ReadInv'
  BY <1>0, QuietReads, CutReads DEF Turns
<1> QED
  BY <1>1, <1>2, <1>3 DEF IInv, ReadInv

LEMMA SendStep ==
  ASSUME IInv, NEW r \in Requests, Send(r)
  PROVE  IInv'
<1>0. PageInv /\ TypeOK /\ Posted
  BY DEF IInv, PageInv
<1>1. Turns(r)
  BY <1>0, PostTurns
<1>2. UNCHANGED <<made, shown, log, run, late, stream>>
  BY DEF Send, page, server, Posts
<1>3. TypeOK'
  <2>1. sending = None /\ Posts(r) /\ UNCHANGED <<astray, check, checks, clicks, drops, switches>>
    BY DEF Send, CanSend, Posts, asks
  <2>2. /\ text' \in [Keys -> {"empty", "edited"} \cup Requests]
        /\ submitted' \in [Requests -> Keys \cup {None}]
    BY <1>0 DEF Send, TypeOK, Keys
  <2> QED
    BY <1>0, <1>1, <1>2, <2>1, <2>2, PostsPost DEF TypeOK, Turns
<1>4. Posted'
  <2>1. sending = None /\ Posts(r) /\ UNCHANGED <<astray, check>>
    BY DEF Send, CanSend, Posts, asks
  <2>2. \A q \in Requests : post[q] = "none"
    BY <1>0, <2>1, ConversationAssumption DEF TypeOK
  <2>3. Checked'
    BY <1>0, <1>2, <2>1, <2>2, CheckedKept DEF Posted
  <2> QED
    BY <1>0, <1>2, <2>1, <2>3, PostsPost DEF Posted, Receipt
<1> QED
  BY <1>1, <1>2, <1>3, <1>4, TurnStep

LEMMA RetryStep ==
  ASSUME IInv, NEW r \in Requests, Retry(r)
  PROVE  IInv'
<1>0. PageInv /\ TypeOK /\ Posted
  BY DEF IInv, PageInv
<1>1. Turns(r)
  BY <1>0, PostTurns
<1>2. UNCHANGED <<made, shown, log, run, late, stream>>
  BY DEF Retry, page, server, Posts
<1>3. TypeOK'
  <2>1. sending = None /\ Posts(r) /\ UNCHANGED <<astray, check, checks, clicks, drops, switches>>
    BY DEF Retry, CanSend, Posts, asks
  <2>2. /\ text' \in [Keys -> {"empty", "edited"} \cup Requests]
        /\ submitted' \in [Requests -> Keys \cup {None}]
    BY <1>0 DEF Retry, TypeOK, Keys
  <2> QED
    BY <1>0, <1>1, <1>2, <2>1, <2>2, PostsPost DEF TypeOK, Turns
<1>4. Posted'
  <2>1. sending = None /\ Posts(r) /\ UNCHANGED <<astray, check>>
    BY DEF Retry, CanSend, Posts, asks
  <2>2. \A q \in Requests : post[q] = "none"
    BY <1>0, <2>1, ConversationAssumption DEF TypeOK
  <2>3. Checked'
    BY <1>0, <1>2, <2>1, <2>2, CheckedKept DEF Posted
  <2> QED
    BY <1>0, <1>2, <2>1, <2>3, PostsPost DEF Posted, Receipt
<1> QED
  BY <1>1, <1>2, <1>3, <1>4, TurnStep

LEMMA CreateFailsStep ==
  ASSUME IInv, NEW r \in Requests, CreateFails(r)
  PROVE  IInv'
<1>0. PageInv /\ TypeOK /\ Posted
  BY DEF IInv, PageInv
<1>1. Turns(r)
  BY <1>0, FailTurns
<1>2. UNCHANGED <<made, shown, log, run, late, stream>>
  BY DEF CreateFails, page, server
<1>3. TypeOK'
  <2>2. /\ sending' = None
        /\ post' \in [Requests -> {"none", "creating", "sent", "accepted", "refused", "unsure", "asked"}]
        /\ \A q \in Requests : post'[q] = "none"
    BY <1>0, DonePost DEF CreateFails
  <2> QED
    BY <1>0, <1>1, <1>2, <2>2, ConversationAssumption DEF TypeOK, Turns, CreateFails, asks
<1>4. Posted'
  <2>1. Checked'
    <3>1. post[r] # "none" /\ post[r] # "asked" /\ UNCHANGED check
      BY DEF CreateFails, asks
    <3>2. \A q \in Requests : q # r => post[q] = "none"
      BY <1>0, <3>1 DEF TypeOK
    <3> QED
      BY <1>0, <1>2, <3>1, <3>2, CheckedKept DEF Posted
  <2> QED
    BY <1>0, <1>2, <2>1 DEF TypeOK, Posted, Receipt, CreateFails, asks, Done
<1> QED
  BY <1>1, <1>2, <1>3, <1>4, TurnStep

LEMMA RejectedStep ==
  ASSUME IInv, NEW r \in Requests, Rejected(r)
  PROVE  IInv'
<1>0. PageInv /\ TypeOK /\ Posted
  BY DEF IInv, PageInv
<1>1. Turns(r)
  BY <1>0, FailTurns
<1>2. UNCHANGED <<made, shown, log, run, late, stream>>
  BY DEF Rejected, page, server
<1>3. TypeOK'
  <2>2. /\ sending' = None
        /\ post' \in [Requests -> {"none", "creating", "sent", "accepted", "refused", "unsure", "asked"}]
        /\ \A q \in Requests : post'[q] = "none"
    BY <1>0, DonePost DEF Rejected
  <2> QED
    BY <1>0, <1>1, <1>2, <2>2, ConversationAssumption DEF TypeOK, Turns, Rejected, asks
<1>4. Posted'
  <2>1. Checked'
    <3>1. post[r] # "none" /\ post[r] # "asked" /\ UNCHANGED check
      BY DEF Rejected, asks
    <3>2. \A q \in Requests : q # r => post[q] = "none"
      BY <1>0, <3>1 DEF TypeOK
    <3> QED
      BY <1>0, <1>2, <3>1, <3>2, CheckedKept DEF Posted
  <2> QED
    BY <1>0, <1>2, <2>1 DEF TypeOK, Posted, Receipt, Rejected, asks, Done
<1> QED
  BY <1>1, <1>2, <1>3, <1>4, TurnStep

LEMMA SucceedsStep ==
  ASSUME IInv, NEW r \in Requests, Succeeds(r)
  PROVE  IInv'
<1>0. PageInv /\ TypeOK /\ Posted
  BY DEF IInv, PageInv
<1>1. Turns(r)
  BY <1>0, MarkTurns
<1>2. UNCHANGED <<made, shown, log, run, late, stream>>
  BY DEF Succeeds, page, server
<1>3. TypeOK'
  <2>1. /\ text' \in [Keys -> {"empty", "edited"} \cup Requests]
        /\ submitted' \in [Requests -> Keys \cup {None}]
    BY <1>0, AcknowledgedText DEF Succeeds
  <2>2. /\ sending' = None
        /\ post' \in [Requests -> {"none", "creating", "sent", "accepted", "refused", "unsure", "asked"}]
        /\ \A q \in Requests : post'[q] = "none"
    BY <1>0, DonePost DEF Succeeds
  <2> QED
    BY <1>0, <1>1, <1>2, <2>1, <2>2, ConversationAssumption DEF TypeOK, Turns, Succeeds, asks
<1>4. Posted'
  <2>1. Checked'
    <3>1. post[r] # "none" /\ post[r] # "asked" /\ UNCHANGED check
      BY DEF Succeeds, asks
    <3>2. \A q \in Requests : q # r => post[q] = "none"
      BY <1>0, <3>1 DEF TypeOK
    <3> QED
      BY <1>0, <1>2, <3>1, <3>2, CheckedKept DEF Posted
  <2> QED
    BY <1>0, <1>2, <2>1 DEF TypeOK, Posted, Receipt, Succeeds, asks, Done
<1> QED
  BY <1>1, <1>2, <1>3, <1>4, TurnStep

LEMMA DoubtsStep ==
  ASSUME IInv, NEW r \in Requests, Doubts(r)
  PROVE  IInv'
<1>0. PageInv /\ TypeOK /\ Posted
  BY DEF IInv, PageInv
<1>1. Turns(r)
  BY <1>0, MarkTurns
<1>2. UNCHANGED <<made, shown, log, run, late, stream>>
  BY DEF Doubts, page, server
<1>3. TypeOK'
  <2>1. Asked("submit", target[r]) \in Statuses
    BY <1>0, ConversationAssumption DEF Doubts, Posted, TypeOK, Asked, Statuses
  <2> QED
    BY <1>0, <1>1, <1>2, <2>1, ConversationAssumption DEF TypeOK, Turns, Doubts
<1>4. Posted'
  <2> DEFINE new == Asked("submit", target[r])
  <2>1. /\ post[r] = "unsure" /\ post' = [post EXCEPT ![r] = "asked"]
        /\ check' = [check EXCEPT ![r] = @ \cup {new}]
    BY DEF Doubts
  <2>2. \A q, s : Receipt(q, s)' <=> Receipt(q, s)
    BY <1>2 DEF Receipt
  <2>3. new.at = "asked"
    BY DEF Asked
  <2> HIDE DEF new
  <2>4. \A d \in check[r] : d.by # "submit"
    BY <1>0, <2>1 DEF Posted, Checked
  <2>5. Checked'
    <3> SUFFICES ASSUME NEW q \in Requests, NEW d \in check'[q]
                 PROVE  /\ d.at \in {"running", "ended", "overtaken"} => Receipt(q, d.of)
                        /\ d.by = "submit" => post'[q] = "asked" /\ \A e \in check'[q] : e.by = "submit" => e = d
      BY <2>2 DEF Checked
    <3>1. CASE q = r
      BY <1>0, <2>1, <2>3, <2>4, <3>1 DEF Posted, Checked, TypeOK
    <3>2. CASE q # r
      BY <1>0, <2>1, <3>2 DEF Posted, Checked, TypeOK
    <3> QED
      BY <3>1, <3>2
  <2> QED
    BY <1>0, <1>2, <2>5 DEF TypeOK, Posted, Receipt, Doubts
<1> QED
  BY <1>1, <1>2, <1>3, <1>4, TurnStep

LEMMA SucceedsAnywayStep ==
  ASSUME IInv, NEW r \in Requests, SucceedsAnyway(r)
  PROVE  IInv'
<1>0. PageInv /\ TypeOK /\ Posted
  BY DEF IInv, PageInv
<1>1. Turns(r)
  BY <1>0, StillStep DEF SucceedsAnyway
<1>2. UNCHANGED <<made, shown, log, run, late, stream>>
  BY DEF SucceedsAnyway, page, server
<1>3. TypeOK'
  <2>1. /\ text' \in [Keys -> {"empty", "edited"} \cup Requests]
        /\ submitted' \in [Requests -> Keys \cup {None}]
    BY <1>0, AcknowledgedText DEF SucceedsAnyway
  <2>2. /\ sending' = None
        /\ post' \in [Requests -> {"none", "creating", "sent", "accepted", "refused", "unsure", "asked"}]
        /\ \A q \in Requests : post'[q] = "none"
    BY <1>0, DonePost DEF SucceedsAnyway
  <2> QED
    BY <1>0, <1>1, <1>2, <2>1, <2>2, ConversationAssumption DEF TypeOK, Turns, SucceedsAnyway, asks
<1>4. Posted'
  <2>1. Checked'
    <3>1. post[r] # "none" /\ post[r] # "asked" /\ UNCHANGED check
      BY DEF SucceedsAnyway, asks
    <3>2. \A q \in Requests : q # r => post[q] = "none"
      BY <1>0, <3>1 DEF TypeOK
    <3> QED
      BY <1>0, <1>2, <3>1, <3>2, CheckedKept DEF Posted
  <2> QED
    BY <1>0, <1>2, <2>1 DEF TypeOK, Posted, Receipt, SucceedsAnyway, asks, Done
<1> QED
  BY <1>1, <1>2, <1>3, <1>4, TurnStep

LEMMA TellsAcceptedStep ==
  ASSUME IInv, NEW r \in Requests, NEW c \in check[r], TellsAccepted(r, c)
  PROVE  IInv'
<1>0. PageInv /\ TypeOK /\ Posted
  BY DEF IInv, PageInv
<1>1. Turns(r)
  BY <1>0, AcceptTurns
<1>2. UNCHANGED <<made, shown, log, run, late, astray, target, checks, clicks>> /\ Told(r, c)
  BY DEF TellsAccepted, server
<1>3. /\ text' \in [Keys -> {"empty", "edited"} \cup Requests]
      /\ submitted' \in [Requests -> Keys \cup {None}]
  BY <1>0, AcknowledgedText DEF TellsAccepted, TypeOK
<1>4. stream' \in {stream, Cut(stream.last), Cut(0)}
  BY DEF TellsAccepted
<1>5. stream' \in Streams /\ (stream'.open => shown # Draft)
  <2>1. 0 \in Nat /\ stream.last \in Nat
    BY <1>0, StreamType
  <2>2. \A n \in Nat : Cut(n) \in Streams /\ ~Cut(n).open
    BY CutType
  <2> QED
    BY <1>0, <1>4, <2>1, <2>2 DEF TypeOK
<1>6. TypeOK'
  BY <1>0, <1>1, <1>2, <1>3, <1>5, ToldPost DEF TypeOK, Turns, TellsAccepted
<1>7. Posted'
  <2>1. /\ \A q \in Requests : post'[q] = post[q] \/ post'[q] = "none"
        /\ \A q \in Requests : check'[q] \subseteq check[q]
        /\ \A q \in Requests : \A d \in check'[q] : d.by = "submit" => post'[q] = "asked"
    BY <1>0, <1>2, ToldPost
  <2>2. \A q, s : Receipt(q, s)' <=> Receipt(q, s)
    BY <1>2 DEF Receipt
  <2>3. Checked'
    BY <1>0, <2>1, <2>2, CheckedStays DEF Posted
  <2> QED
    BY <1>0, <1>2, <2>1, <2>2, <2>3 DEF Posted
<1> QED
  BY <1>1, <1>2, <1>4, <1>6, <1>7, TurnStep

LEMMA TellsAbsentStep ==
  ASSUME IInv, NEW r \in Requests, NEW c \in check[r], TellsAbsent(r, c)
  PROVE  IInv'
<1>0. PageInv /\ TypeOK /\ Posted
  BY DEF IInv, PageInv
<1>1. Turns(r)
  BY <1>0, FailTurns
<1>2. UNCHANGED <<made, shown, log, run, late, astray, target, checks, clicks>> /\ Told(r, c)
  BY DEF TellsAbsent, server
<1>3. /\ text' \in [Keys -> {"empty", "edited"} \cup Requests]
      /\ submitted' \in [Requests -> Keys \cup {None}]
  BY <1>0, AcknowledgedText DEF TellsAbsent, TypeOK
<1>4. stream' \in {stream, Cut(stream.last), Cut(0)}
  BY DEF TellsAbsent
<1>5. stream' \in Streams /\ (stream'.open => shown # Draft)
  <2>1. 0 \in Nat /\ stream.last \in Nat
    BY <1>0, StreamType
  <2>2. \A n \in Nat : Cut(n) \in Streams /\ ~Cut(n).open
    BY CutType
  <2> QED
    BY <1>0, <1>4, <2>1, <2>2 DEF TypeOK
<1>6. TypeOK'
  BY <1>0, <1>1, <1>2, <1>3, <1>5, ToldPost DEF TypeOK, Turns, TellsAbsent
<1>7. Posted'
  <2>1. /\ \A q \in Requests : post'[q] = post[q] \/ post'[q] = "none"
        /\ \A q \in Requests : check'[q] \subseteq check[q]
        /\ \A q \in Requests : \A d \in check'[q] : d.by = "submit" => post'[q] = "asked"
    BY <1>0, <1>2, ToldPost
  <2>2. \A q, s : Receipt(q, s)' <=> Receipt(q, s)
    BY <1>2 DEF Receipt
  <2>3. Checked'
    BY <1>0, <2>1, <2>2, CheckedStays DEF Posted
  <2> QED
    BY <1>0, <1>2, <2>1, <2>2, <2>3 DEF Posted
<1> QED
  BY <1>1, <1>2, <1>4, <1>6, <1>7, TurnStep

LEMMA TellsNothingStep ==
  ASSUME IInv, NEW r \in Requests, NEW c \in check[r], TellsNothing(r, c)
  PROVE  IInv'
<1>0. PageInv /\ TypeOK /\ Posted
  BY DEF IInv, PageInv
<1>1. Turns(r)
  BY <1>0, MarkTurns
<1>2. UNCHANGED <<made, shown, log, run, late, astray, target, checks, clicks>> /\ Told(r, c)
  BY DEF TellsNothing, server
<1>3. /\ text' \in [Keys -> {"empty", "edited"} \cup Requests]
      /\ submitted' \in [Requests -> Keys \cup {None}]
  BY <1>0, AcknowledgedText DEF TellsNothing, TypeOK
<1>4. stream' \in {stream, Cut(stream.last), Cut(0)}
  BY DEF TellsNothing
<1>5. stream' \in Streams /\ (stream'.open => shown # Draft)
  <2>1. 0 \in Nat /\ stream.last \in Nat
    BY <1>0, StreamType
  <2>2. \A n \in Nat : Cut(n) \in Streams /\ ~Cut(n).open
    BY CutType
  <2> QED
    BY <1>0, <1>4, <2>1, <2>2 DEF TypeOK
<1>6. TypeOK'
  BY <1>0, <1>1, <1>2, <1>3, <1>5, ToldPost, ConversationAssumption DEF TypeOK, Turns, TellsNothing
<1>7. Posted'
  <2>1. /\ \A q \in Requests : post'[q] = post[q] \/ post'[q] = "none"
        /\ \A q \in Requests : check'[q] \subseteq check[q]
        /\ \A q \in Requests : \A d \in check'[q] : d.by = "submit" => post'[q] = "asked"
    BY <1>0, <1>2, ToldPost
  <2>2. \A q, s : Receipt(q, s)' <=> Receipt(q, s)
    BY <1>2 DEF Receipt
  <2>3. Checked'
    BY <1>0, <2>1, <2>2, CheckedStays DEF Posted
  <2> QED
    BY <1>0, <1>2, <2>1, <2>2, <2>3 DEF Posted
<1> QED
  BY <1>1, <1>2, <1>4, <1>6, <1>7, TurnStep

\* A step that leaves the page and the stream alone.
LEMMA AwayStep ==
  ASSUME IInv, LogMoves, UNCHANGED <<page, stream>>, TypeOK', Posted', Begun'
  PROVE  IInv'
<1>0. PageInv /\ ReadInv /\ TypeOK
  BY DEF IInv, PageInv, ReadInv
<1>1. Blocks' /\ Known'
  BY <1>0, MovesMore, GrowthKeeps DEF page
<1>2. ReadInv'
  BY <1>0, MovesRead
<1> QED
  BY <1>1, <1>2 DEF IInv, ReadInv

\* A message that is admitted, at once or late.
LEMMA AdmitStep ==
  ASSUME IInv, NEW r \in Requests, NEW s \in Sessions,
         ((Answers(r) \/ LosesPost(r)) /\ s = target[r]) \/ Arrives(r, s)
  PROVE  IInv'
<1>0. TypeOK /\ Posted /\ Begun
  BY DEF IInv
<1>1. s \in made /\ target[r] # None
  BY <1>0, ConversationAssumption DEF Answers, LosesPost, Arrives, TypeOK, Posted
<1>2. UNCHANGED <<page, stream, sending, target, checks, clicks, check>>
  BY DEF Answers, LosesPost, Arrives, asks
<1>3. Admits(r, s) \/ UNCHANGED server
  BY DEF Answers, LosesPost, Arrives
<1>4. /\ LogMoves
      /\ \A q, t : t \in Sessions =>
           (Receipt(q, t)' <=> Receipt(q, t) \/ (q = r /\ t = s /\ Admits(r, s) /\ run[s] = None))
      /\ run' \in [Sessions -> Requests \cup Others \cup {None}]
      /\ late' = late
      /\ \A t \in Sessions \ {s} : log'[t] = log[t] /\ run'[t] = run[t]
  <2>1. CASE Admits(r, s)
    BY <1>0, <2>1, AdmitLog
  <2>2. CASE UNCHANGED server /\ ~Admits(r, s)
    BY <1>0, <2>2 DEF server, LogMoves, Receipt, TypeOK
  <2> QED
    BY <1>3, <2>1, <2>2
<1>5. /\ astray' \subseteq Requests \X made
      /\ \A q \in Requests, t \in Sessions : <<q, t>> \in astray' => <<q, t>> \in astray \/ q = r
      /\ drops' \in 0..MaxDrops
  BY <1>0, <1>1, ConversationAssumption DEF Answers, LosesPost, Arrives, TypeOK
<1>6. /\ post' \in [Requests -> {"none", "creating", "sent", "accepted", "refused", "unsure", "asked"}]
      /\ \A q \in Requests : post'[q] = post[q] \/ (post[q] = "sent" /\ post'[q] \in {"accepted", "unsure"})
      /\ \A q \in Requests : post'[q] = post[q]
           \/ (q = r /\ (post'[q] = "accepted" => s = target[r] /\ Admits(r, s) /\ (Receipt(r, s) \/ run[s] = None)))
  <2>1. CASE Answers(r) /\ s = target[r]
    <3>1. PICK p \in {"accepted", "unsure"} :
             /\ post' = [post EXCEPT ![r] = p]
             /\ p = "accepted" => Receipt(r, s) \/ run[s] = None
      BY <2>1 DEF Answers
    <3>2. post[r] = "sent" /\ Admits(r, s)
      BY <2>1 DEF Answers
    <3> QED
      BY <1>0, <2>1, <3>1, <3>2 DEF TypeOK
  <2>2. CASE LosesPost(r)
    <3>1. post[r] = "sent" /\ post' = [post EXCEPT ![r] = "unsure"]
      BY <2>2 DEF LosesPost
    <3> QED
      BY <1>0, <3>1 DEF TypeOK
  <2>3. CASE Arrives(r, s)
    <3>1. post' = post
      BY <2>3 DEF Arrives
    <3>2. post \in [Requests -> {"none", "creating", "sent", "accepted", "refused", "unsure", "asked"}]
      BY <1>0 DEF TypeOK
    <3>3. \A q \in Requests : post'[q] = post[q]
      BY <3>1
    <3> QED
      BY <3>1, <3>2, <3>3
  <2> QED
    BY <2>1, <2>2, <2>3
<1>7. TypeOK'
  <2>1. log' \in [Sessions -> Seq(Events)]
    BY <1>0, <1>4, MovesMore DEF More
  <2> QED
    <3>1. \A q \in Requests : post'[q] # "none" <=> sending' = q
      BY <1>0, <1>2, <1>6 DEF TypeOK
    <3> QED
      BY <1>0, <1>2, <1>4, <1>5, <1>6, <2>1, <3>1 DEF TypeOK, page
<1>8. Posted'
  <2>1. Checked'
    <3>1. \A q \in Requests : \A d \in check'[q] : d.by = "submit" => post'[q] = "asked"
      BY <1>0, <1>2, <1>6 DEF Posted, Checked
    <3>2. \A q \in Requests, t \in Sessions : Receipt(q, t) => Receipt(q, t)'
      BY <1>4
    <3> QED
      BY <1>0, <1>2, <3>1, <3>2, CheckedStays DEF Posted
  <2> QED
    BY <1>0, <1>1, <1>2, <1>4, <1>5, <1>6, <2>1 DEF TypeOK, Posted
<1>9. Begun'
  BY <1>0, <1>1, <1>2, <1>4 DEF Begun, page
<1> QED
  BY <1>2, <1>4, <1>7, <1>8, <1>9, AwayStep

\* A message of another page.
LEMMA ElsewhereStep ==
  ASSUME IInv, NEW o \in Others, NEW s \in Sessions, Elsewhere(o, s)
  PROVE  IInv'
<1>0. TypeOK /\ Posted /\ Begun
  BY DEF IInv
<1>1. UNCHANGED <<page, stream, sends, asks, drops>> /\ Admits(o, s) /\ s \in made
  BY DEF Elsewhere
<1>2. /\ LogMoves
      /\ \A q \in Requests, t \in Sessions : Receipt(q, t)' <=> Receipt(q, t)
      /\ run' \in [Sessions -> Requests \cup Others \cup {None}] /\ late' = late
      /\ \A t \in Sessions \ {s} : log'[t] = log[t] /\ run'[t] = run[t]
  BY <1>0, <1>1, AdmitLog, ConversationAssumption
<1>3. TypeOK'
  <2>1. log' \in [Sessions -> Seq(Events)]
    BY <1>0, <1>2, MovesMore DEF More
  <2> QED
    BY <1>0, <1>1, <1>2, <2>1 DEF TypeOK, page, sends, asks
<1>4. Posted'
  <2>1. Checked'
    BY <1>0, <1>1, <1>2, CheckedStays DEF Posted, Checked, sends, asks
  <2> QED
    BY <1>0, <1>1, <1>2, <2>1 DEF TypeOK, Posted, sends, asks
<1>5. Begun'
  BY <1>0, <1>1, <1>2 DEF Begun, page
<1> QED
  BY <1>1, <1>2, <1>3, <1>4, <1>5, AwayStep

\* A run writes, commits and ends.
LEMMA RunStep ==
  ASSUME IInv, NEW s \in Sessions, Writes(s) \/ Commits(s) \/ Ends(s)
  PROVE  IInv'
<1>0. TypeOK /\ Posted /\ Begun
  BY DEF IInv
<1>1. UNCHANGED <<page, stream, sends, asks, drops>>
  BY DEF Writes, Commits, Ends
<1>2. /\ LogMoves
      /\ \A q \in Requests, t \in Sessions : Receipt(q, t)' <=> Receipt(q, t)
      /\ \A t \in Sessions \ {s} : log'[t] = log[t]
  <2>1. ASSUME NEW kind \in {"text", "end"}, NEW c \in BOOLEAN, run[s] # None,
               log' = [log EXCEPT ![s] = Append(@, Event(kind, run[s], c))], UNCHANGED late
        PROVE  /\ LogMoves
               /\ \A q \in Requests, t \in Sessions : Receipt(q, t)' <=> Receipt(q, t)
               /\ \A t \in Sessions \ {s} : log'[t] = log[t]
    <3> DEFINE e == Event(kind, run[s], c)
    <3>1. e \in Events /\ e.kind = kind
      BY <1>0, <2>1 DEF Event, Events, TypeOK
    <3>2. Appends(s, e)
      BY <2>1 DEF Appends
    <3> HIDE DEF e
    <3>3. e.kind # "user"
      BY <3>1
    <3>4. \A q \in Requests, t \in Sessions : Receipt(q, t)' <=> Receipt(q, t)
      BY <1>0, <3>1, <3>2, <3>3, AppendReceipts
    <3> QED
      BY <1>0, <3>1, <3>2, <3>4, AppendLog DEF LogMoves
  <2>2. CASE Commits(s)
    BY <1>0, <2>2, CommitLog, CommitReceipts DEF LogMoves
  <2>3. CASE Writes(s)
    BY <2>1, <2>3 DEF Writes
  <2>4. CASE Ends(s)
    BY <2>1, <2>4 DEF Ends
  <2> QED
    BY <2>2, <2>3, <2>4
<1>3. /\ run' \in [Sessions -> Requests \cup Others \cup {None}]
      /\ \A t \in Sessions \ {s} : run'[t] = run[t]
      /\ run'[s] \in {run[s], None}
      /\ late' \in [Sessions -> SUBSET Nat]
  <2>1. CASE Commits(s)
    <3>1. run' = run
      BY <2>1 DEF Commits
    <3>2. PICK i \in DOMAIN log[s] : late' \in {late, [late EXCEPT ![s] = @ \cup {i}]}
      BY <1>0, <2>1, CommitLog
    <3>3. i \in Nat
      BY <1>0, LogType
    <3>4. late \in [Sessions -> SUBSET Nat] /\ late[s] \cup {i} \in SUBSET Nat
      BY <1>0, <3>3 DEF TypeOK
    <3>5. late' \in [Sessions -> SUBSET Nat]
      BY <3>2, <3>4
    <3> QED
      BY <1>0, <3>1, <3>5 DEF TypeOK
  <2>2. CASE Writes(s) \/ Ends(s)
    BY <1>0, <2>2 DEF TypeOK, Writes, Ends
  <2> QED
    BY <2>1, <2>2
<1>4. s \notin made => log'[s] = <<>>
  <2>1. s \notin made => log[s] = <<>> /\ run[s] = None /\ DOMAIN log[s] = {}
    BY <1>0 DEF Begun
  <2> QED
    BY <2>1 DEF Writes, Commits, Ends
<1>5. TypeOK'
  <2>1. log' \in [Sessions -> Seq(Events)]
    BY <1>0, <1>2, MovesMore DEF More
  <2> QED
    BY <1>0, <1>1, <1>3, <2>1 DEF TypeOK, page, sends, asks
<1>6. Posted'
  <2>1. Checked'
    BY <1>0, <1>1, <1>2, CheckedStays DEF Posted, Checked, sends, asks
  <2> QED
    BY <1>0, <1>1, <1>2, <2>1 DEF TypeOK, Posted, sends, asks
<1>7. Begun'
  BY <1>0, <1>1, <1>2, <1>3, <1>4 DEF Begun, page
<1> QED
  BY <1>1, <1>2, <1>5, <1>6, <1>7, AwayStep

\* A request is refused; the status of a message is asked for and reported.
LEMMA AskStep ==
  ASSUME IInv, NEW r \in Requests,
         Refuses(r) \/ Checks(r) \/ ChecksByHand(r) \/ \E c \in check[r] : Reports(r, c)
  PROVE  IInv'
<1>0. TypeOK /\ Posted /\ Begun
  BY DEF IInv
<1>1. UNCHANGED <<page, stream, sending, target, astray, drops, server>>
  BY DEF Refuses, Checks, ChecksByHand, Asks, Reports, sends
<1>2. /\ post' \in [Requests -> {"none", "creating", "sent", "accepted", "refused", "unsure", "asked"}]
      /\ \A q \in Requests : post'[q] = post[q] \/ (post[q] = "sent" /\ post'[q] \in {"refused", "unsure"})
  <2>1. CASE Refuses(r)
    <3>1. PICK how \in {"refused", "unsure"} : post' = [post EXCEPT ![r] = how]
      BY <2>1 DEF Refuses
    <3> QED
      BY <1>0, <2>1, <3>1 DEF Refuses, TypeOK
  <2>2. CASE UNCHANGED post
    BY <1>0, <2>2 DEF TypeOK
  <2> QED
    BY <2>1, <2>2 DEF Checks, ChecksByHand, Asks, Reports, sends
<1>3. checks' \in [Requests -> 0..MaxChecks] /\ clicks' \in 0..MaxAsks
  <2>1. CASE Checks(r)
    <3>1. checks' = [checks EXCEPT ![r] = @ + 1] /\ checks[r] < MaxChecks /\ clicks' = clicks
      BY <2>1 DEF Checks
    <3>2. checks[r] + 1 \in 0..MaxChecks
      BY <1>0, <3>1, ConversationAssumption DEF TypeOK
    <3> QED
      BY <1>0, <3>1, <3>2 DEF TypeOK
  <2>2. CASE ChecksByHand(r)
    <3>1. clicks' = clicks + 1 /\ checks' = checks /\ checks[r] + clicks < MaxAsks
      BY <2>2 DEF ChecksByHand, Asks
    <3>2. checks[r] \in Nat /\ clicks \in Nat
      BY <1>0, ConversationAssumption DEF TypeOK
    <3>3. clicks + 1 \in 0..MaxAsks
      BY <3>1, <3>2, ConversationAssumption
    <3> QED
      BY <1>0, <3>1, <3>3 DEF TypeOK
  <2>3. CASE UNCHANGED <<checks, clicks>>
    BY <1>0, <2>3 DEF TypeOK
  <2> QED
    BY <2>1, <2>2, <2>3 DEF Refuses, Reports, asks
<1>4. /\ check' \in [Requests -> SUBSET Statuses]
      /\ \A q \in Requests : \A d \in check'[q] :
           \/ d \in check[q]
           \/ d.by # "submit" /\ d.at = "asked"
           \/ \E c \in check[q] : /\ check'[q] = (check[q] \ {c}) \cup {d}
                                  /\ d.by = c.by /\ d.of = c.of
                                  /\ d.at \in {"running", "ended", "overtaken"} => Receipt(q, d.of)
  <2>1. CASE Refuses(r)
    BY <1>0, <2>1 DEF Refuses, asks, TypeOK
  <2>2. CASE Checks(r) \/ ChecksByHand(r)
    <3>1. PICK by \in {"timer", "button"} :
             check' = [check EXCEPT ![r] = @ \cup {Asked(by, shown)}] /\ shown # Draft
      BY <2>2 DEF Checks, ChecksByHand, Asks
    <3>2. Asked(by, shown) \in Statuses /\ Asked(by, shown).by # "submit" /\ Asked(by, shown).at = "asked"
      BY <1>0, <3>1 DEF Asked, Statuses, TypeOK
    <3> QED
      BY <1>0, <3>1, <3>2 DEF TypeOK
  <2>3. ASSUME NEW c \in check[r], Reports(r, c)
        PROVE  /\ check' \in [Requests -> SUBSET Statuses]
               /\ \A q \in Requests : \A d \in check'[q] :
                    \/ d \in check[q]
                    \/ \E e \in check[q] : /\ check'[q] = (check[q] \ {e}) \cup {d}
                                           /\ d.by = e.by /\ d.of = e.of
                                           /\ d.at \in {"running", "ended", "overtaken"} => Receipt(q, d.of)
    <3>1. PICK a \in {"running", "ended", "overtaken", "absent", "busy"} :
             /\ check' = [check EXCEPT ![r] = (@ \ {c}) \cup {[c EXCEPT !.at = a]}]
             /\ a \in {"running", "ended", "overtaken"} => Receipt(r, c.of)
      BY <2>3 DEF Reports
    <3> DEFINE d == [c EXCEPT !.at = a]
    <3>2. d \in Statuses /\ d.by = c.by /\ d.of = c.of /\ d.at = a
      <4>1. c \in Statuses
        BY <1>0 DEF TypeOK
      <4> QED
        BY <4>1 DEF Statuses
    <3> HIDE DEF d
    <3>3. check'[r] = (check[r] \ {c}) \cup {d} /\ \A q \in Requests : q # r => check'[q] = check[q]
      BY <1>0, <3>1 DEF TypeOK, d
    <3>4. check' \in [Requests -> SUBSET Statuses]
      BY <1>0, <3>1, <3>2 DEF TypeOK, d
    <3> QED
      BY <3>1, <3>2, <3>3, <3>4
  <2> QED
    BY <2>1, <2>2, <2>3
<1>5. TypeOK'
  BY <1>0, <1>1, <1>2, <1>3, <1>4 DEF TypeOK, page, server
<1>6. Posted'
  <2>1. target' = target /\ astray' = astray /\ log' = log
    BY <1>1 DEF server
  <2>2. \A q, t : Receipt(q, t)' <=> Receipt(q, t)
    BY <2>1 DEF Receipt
  <2>3. \A q \in Requests : /\ post'[q] \in {"sent", "accepted", "refused", "unsure", "asked"} => target[q] # None
                            /\ post'[q] = "accepted" => Receipt(q, target[q])
    BY <1>0, <1>2 DEF Posted
  <2>4. Checked'
    <3> SUFFICES ASSUME NEW q \in Requests, NEW d \in check'[q]
                 PROVE  /\ d.at \in {"running", "ended", "overtaken"} => Receipt(q, d.of)
                        /\ d.by = "submit" => post'[q] = "asked" /\ \A e \in check'[q] : e.by = "submit" => e = d
      BY <2>2 DEF Checked
    <3>1. post[q] = "asked" => post'[q] = "asked"
      BY <1>2
    <3> DEFINE Takes(c, e) ==
          /\ check'[q] = (check[q] \ {c}) \cup {e} /\ e.by = c.by
          /\ e.at \in {"running", "ended", "overtaken"} => Receipt(q, e.of)
    <3>2. \A e \in check'[q] :
            \/ e \in check[q]
            \/ e.by # "submit" /\ e.at = "asked"
            \/ \E c \in check[q] : Takes(c, e)
      BY <1>4
    <3> HIDE DEF Takes
    <3>3. \A c, e \in check[q] : c.by = "submit" /\ e.by = "submit" => c = e
      BY <1>0 DEF Posted, Checked
    <3>4. ASSUME NEW e \in check'[q], e.by = "submit", d.by = "submit"
          PROVE  e = d
      <4>1. CASE e \in check[q] /\ d \in check[q]
        BY <3>3, <3>4, <4>1
      <4>2. ASSUME NEW c \in check[q], Takes(c, e) \/ Takes(c, d)
            PROVE  e = d
        BY <3>2, <3>3, <3>4, <4>2 DEF Takes
      <4> QED
        BY <3>2, <3>4, <4>1, <4>2
    <3>5. d.by = "submit" => post'[q] = "asked"
      BY <1>0, <3>1, <3>2 DEF Posted, Checked, Takes
    <3>6. d.at \in {"running", "ended", "overtaken"} => Receipt(q, d.of)
      BY <1>0, <3>2 DEF Posted, Checked, Takes
    <3> QED
      BY <3>4, <3>5, <3>6
  <2> QED
    BY <1>0, <2>1, <2>2, <2>3, <2>4 DEF Posted
<1>7. Begun' /\ LogMoves
  BY <1>0, <1>1 DEF Begun, page, server, LogMoves
<1> QED
  BY <1>1, <1>5, <1>6, <1>7, AwayStep

\* The conversation that is made takes the page over.
LEMMA CreatesStep ==
  ASSUME IInv, NEW r \in Requests, NEW s \in Sessions, Creates(r, s)
  PROVE  IInv'
<1>0. PageInv /\ ReadInv /\ TypeOK /\ Blocks /\ Posted /\ Known /\ Begun
  BY DEF IInv, PageInv, ReadInv
<1>1. /\ made' = made \cup {s} /\ view' = [view EXCEPT ![s] = [Here EXCEPT !.read = <<>>]]
      /\ target' = [target EXCEPT ![r] = s] /\ post' = [post EXCEPT ![r] = "sent"]
      /\ post[r] = "creating"
      /\ UNCHANGED <<switches, shown, submitted, sending, astray, check, checks, clicks, stream, drops, log, run, late>>
  BY DEF Creates, asks, server
<1>2. Here \in Views /\ Sound(Here) /\ shown \in Keys /\ s \in Keys /\ s # None /\ r # None
  BY <1>0, HereSound, ConversationAssumption DEF Keys
<1> DEFINE copy == [Here EXCEPT !.read = <<>>]
<1>c. copy \in Views /\ copy.blocks = Here.blocks
  <2>1. <<>> \in Seq(Nat)
    OBVIOUS
  <2> QED
    BY <1>2, <2>1 DEF Views
<1>3. view' \in [Keys -> Views] /\ \A k \in Keys : view'[k] = IF k = s THEN copy ELSE view[k]
  BY <1>0, <1>1, <1>2, <1>c DEF TypeOK
<1> HIDE DEF copy
<1>d. Sound(copy) /\ \A q : Knows(copy, q) <=> Knows(Here, q)
  BY <1>2, <1>c DEF Sound, Once, Knows
<1>4. Blocks'
  BY <1>0, <1>3, <1>d DEF Blocks, Sound
<1>5. Known'
  BY <1>0, <1>1, <1>2, <1>3, <1>d DEF Known, Receipt, Here
<1>6. TypeOK'
  <2>1. text' \in [Keys -> {"empty", "edited"} \cup Requests]
    BY <1>0, <1>2 DEF Creates, TypeOK, Keys
  <2>2. /\ target' \in [Requests -> made' \cup {None}]
        /\ post' \in [Requests -> {"none", "creating", "sent", "accepted", "refused", "unsure", "asked"}]
        /\ \A q \in Requests : post'[q] # "none" <=> sending = q
    BY <1>0, <1>1 DEF TypeOK
  <2>3. /\ astray \subseteq Requests \X made' /\ First \in made' /\ made' \subseteq Sessions
        /\ shown \in made' \cup {Draft}
    BY <1>0, <1>1 DEF TypeOK
  <2> QED
    BY <1>0, <1>1, <1>3, <2>1, <2>2, <2>3 DEF TypeOK
<1>7. Posted'
  <2>1. Checked'
    BY <1>0, <1>1, CheckedKept DEF Posted, TypeOK
  <2> QED
    BY <1>0, <1>1, <1>2, <2>1 DEF TypeOK, Posted, Receipt
<1>8. Begun'
  BY <1>0, <1>1 DEF Begun
<1>9. ReadInv'
  BY <1>0, CreateReads
<1> QED
  BY <1>4, <1>5, <1>6, <1>7, <1>8, <1>9 DEF IInv, ReadInv

\* The user moves, or types; the stream opens, breaks, or brings a page.
LEMMA IdleStep ==
  ASSUME IInv,
         Edits \/ Connects \/ Disconnects \/ Pages \/ \E k \in Keys : Switch(k)
  PROVE  IInv'
<1>0. TypeOK /\ ReadInv /\ Blocks /\ Posted /\ Known /\ Begun
  BY DEF IInv, ReadInv
<1>1. UNCHANGED <<made, view, submitted, sending, target, post, astray, check, checks, clicks, log, run, late>>
  BY DEF Edits, Connects, Disconnects, Pages, Switch, page, sends, asks, server
<1>2. Blocks' /\ Posted' /\ Known' /\ Begun'
  BY <1>0, <1>1 DEF Blocks, Posted, Checked, Known, Begun, Receipt
<1>3. ReadInv'
  <2>1. CASE Edits
    BY <1>0, <1>1, <2>1, QuietReads DEF Edits
  <2>2. CASE Connects
    BY <1>0, <1>1, <2>2, CutReads DEF Connects, page
  <2>3. CASE Disconnects
    BY <1>0, <1>1, <2>3, CutReads DEF Disconnects, page
  <2>4. CASE Pages
    BY <1>0, <2>4, PageReads
  <2>5. ASSUME NEW k \in Keys, Switch(k) PROVE ReadInv'
    BY <1>0, <2>5, SwitchReads
  <2> QED
    BY <2>1, <2>2, <2>3, <2>4, <2>5
<1>4. /\ stream' \in Streams /\ (stream'.open => shown' # Draft)
      /\ shown' \in made \cup {Draft} /\ switches' \in 0..MaxSwitches /\ drops' \in 0..MaxDrops
      /\ text' \in [Keys -> {"empty", "edited"} \cup Requests]
  <2>0. 0 \in Nat /\ stream.last \in Nat
    BY <1>0, StreamType
  <2>1. CASE Edits
    BY <1>0, <2>1 DEF Edits, TypeOK
  <2>2. CASE Connects
    BY <1>0, <2>0, <2>2, CutType DEF Connects, page, TypeOK
  <2>3. CASE Disconnects
    <3>1. stream' \in Streams /\ ~stream'.open
      BY <2>0, <2>3, CutType DEF Disconnects
    <3> QED
      BY <1>0, <2>3, <3>1, ConversationAssumption DEF Disconnects, page, TypeOK
  <2>4. CASE Pages
    <3>1. PICK last \in After(shown, stream.sent) :
             stream' = [stream EXCEPT !.wire = After(shown, stream.sent), !.sent = last]
      BY <2>4 DEF Pages
    <3>2. shown \in Sessions /\ shown # Draft
      BY <1>0, <2>4, ConversationAssumption DEF Pages, TypeOK
    <3>3. After(shown, stream.sent) \subseteq Nat
      BY <1>0, <3>2, LogType DEF After
    <3>4. stream' \in Streams
      BY <1>0, <3>1, <3>3, StreamType DEF Streams
    <3> QED
      BY <1>0, <2>4, <3>2, <3>4 DEF Pages, page, TypeOK
  <2>5. ASSUME NEW k \in Keys, Switch(k)
        PROVE  /\ stream' \in Streams /\ ~stream'.open /\ drops' = drops /\ text' = text
               /\ shown' \in made \cup {Draft} /\ switches' \in 0..MaxSwitches
    <3>1. stream' \in Streams /\ ~stream'.open
      BY <2>0, <2>5, CutType DEF Switch
    <3> QED
      BY <1>0, <2>5, <3>1, ConversationAssumption DEF Switch, TypeOK
  <2> QED
    BY <1>0, <2>1, <2>2, <2>3, <2>4, <2>5 DEF TypeOK
<1>5. TypeOK'
  BY <1>0, <1>1, <1>4 DEF TypeOK
<1> QED
  BY <1>2, <1>3, <1>5 DEF IInv, ReadInv

\* An event is received.
LEMMA ReceivesStep ==
  ASSUME IInv, Receives
  PROVE  IInv'
<1>0. PageInv /\ ReadInv /\ TypeOK /\ Blocks /\ Posted /\ Known /\ Begun
  BY DEF IInv, PageInv, ReadInv
<1>1. PICK i \in stream.wire :
        LET e == log[shown][i]
            w == Reduced(Here, i, e)
        IN /\ shown \in Sessions /\ e \in Events /\ w \in Views /\ Sound(w)
           /\ \A q : Knows(w, q) => Knows(Here, q) \/ Receipt(q, shown)
           /\ \A k \in Keys : view'[k] = IF k = shown THEN w ELSE view[k]
           /\ view' \in [Keys -> Views]
           /\ stream'.open = stream.open /\ stream' \in Streams
           /\ IF e.kind = "user" /\ HasPending(Here, e.of)
              THEN Acknowledged(e.of, shown) ELSE UNCHANGED <<text, submitted>>
  BY <1>0, ReceivedEvent
<1> DEFINE e == log[shown][i]
           w == Reduced(Here, i, e)
<1>2. UNCHANGED <<made, switches, shown, sends, asks, drops, server>>
  BY DEF Receives
<1>3. HasPending(Here, e.of) => e.of \in Requests
  BY <1>0, HereSound DEF Sound, HasPending
<1>4. /\ text' \in [Keys -> {"empty", "edited"} \cup Requests]
      /\ submitted' \in [Requests -> Keys \cup {None}]
  <2>1. CASE e.kind = "user" /\ HasPending(Here, e.of)
    BY <1>0, <1>1, <1>3, <2>1, AcknowledgedText
  <2>2. CASE ~(e.kind = "user" /\ HasPending(Here, e.of))
    BY <1>0, <1>1, <2>2 DEF TypeOK
  <2> QED
    BY <2>1, <2>2
<1> HIDE DEF w
<1>5. /\ view' \in [Keys -> Views] /\ shown \in Sessions /\ Sound(w)
      /\ \A k \in Keys : view'[k] = IF k = shown THEN w ELSE view[k]
      /\ \A q : Knows(w, q) => Knows(Here, q) \/ Receipt(q, shown)
      /\ stream'.open = stream.open /\ stream' \in Streams
  BY <1>1 DEF w
<1>6. Blocks'
  BY <1>0, <1>5 DEF Blocks, Sound
<1>7. Known'
  <2> SUFFICES ASSUME NEW k \in Keys, NEW q \in Requests, Knows(view'[k], q)
               PROVE  \E s \in Sessions : Receipt(q, s)
    BY <1>2 DEF Known, Receipt, server
  <2>1. \A m \in Keys : Knows(view[m], q) => \E s \in Sessions : Receipt(q, s)
    BY <1>0 DEF Known
  <2> QED
    BY <1>5, <2>1 DEF Here, Keys
<1>8. TypeOK'
  BY <1>0, <1>2, <1>4, <1>5 DEF TypeOK, sends, asks, server
<1>9. Posted' /\ Begun'
  BY <1>0, <1>2 DEF Posted, Checked, Begun, Receipt, sends, asks, server
<1>10. ReadInv'
  BY <1>0, ReceiveReads
<1> QED
  BY <1>6, <1>7, <1>8, <1>9, <1>10 DEF IInv, ReadInv

LEMMA InitIInv == Init => IInv
<1> SUFFICES ASSUME Init PROVE IInv
  OBVIOUS
<1>0. Draft \in Keys /\ Sessions \subseteq Keys /\ First \in Sessions
  BY ConversationAssumption DEF Keys
<1>1. Empty \in Views /\ Empty.blocks = <<>> /\ Empty.read = <<>>
  BY DEF Empty, Views
<1>2. DOMAIN <<>> = {} /\ Range(<<>>) = {}
  BY DEF Range
<1>3. \A r, s : s \in Sessions => ~Receipt(r, s)
  BY <1>2 DEF Init, Receipt
<1>4. Cut(0) \in Streams /\ ~Cut(0).open /\ Cut(0).last = 0 /\ Cut(0).sent = 0 /\ Cut(0).wire = {}
  BY CutType
<1>5. \A k \in Keys : view[k] = Empty
  BY DEF Init
<1>6. TypeOK
  <2>1. log \in [Sessions -> Seq(Events)] /\ late \in [Sessions -> SUBSET Nat] /\ view \in [Keys -> Views]
    BY <1>1 DEF Init
  <2> QED
    BY <1>0, <1>4, <2>1, ConversationAssumption DEF Init, TypeOK
<1>7. Blocks /\ Known
  BY <1>1, <1>2, <1>5 DEF Blocks, Once, Known, Knows
<1>8. Posted
  BY <1>3 DEF Init, Posted, Checked
<1>9. Begun
  BY DEF Init, Begun
<1>10. Heard /\ LogIsRead
  BY <1>0, <1>1, <1>2, <1>5 DEF Heard, LogIsRead
<1>11. Cursors
  BY <1>4 DEF Init, Cursors
<1>12. Ahead
  BY <1>2 DEF Init, Ahead, Committed
<1> QED
  BY <1>6, <1>7, <1>8, <1>9, <1>10, <1>11, <1>12 DEF IInv

LEMMA NextIInv ==
  ASSUME IInv, [Next]_vars
  PROVE  IInv'
<1>1. CASE UNCHANGED vars
  <2>1. UNCHANGED <<page, stream, sends, asks, drops, server>>
    BY <1>1 DEF vars
  <2>2. TypeOK' /\ Posted' /\ Begun' /\ LogMoves
    BY <2>1 DEF IInv, TypeOK, Posted, Checked, Begun, LogMoves, Receipt, page, sends, asks, server
  <2> QED
    BY <2>1, <2>2, AwayStep
<1>2. ASSUME NEW r \in Requests,
             \/ Send(r) \/ Retry(r) \/ CreateFails(r)
             \/ \E s \in Sessions : Creates(r, s) \/ Arrives(r, s)
             \/ Answers(r) \/ Refuses(r) \/ LosesPost(r)
             \/ Succeeds(r) \/ SucceedsAnyway(r) \/ Rejected(r) \/ Doubts(r)
             \/ Checks(r) \/ ChecksByHand(r)
             \/ \E c \in check[r] :
                  Reports(r, c) \/ TellsAccepted(r, c) \/ TellsAbsent(r, c) \/ TellsNothing(r, c)
      PROVE  IInv'
  <2>1. CASE Answers(r) \/ LosesPost(r)
    <3>1. target[r] \in Sessions
      BY <2>1 DEF IInv, TypeOK, Posted, Answers, LosesPost
    <3> QED
      BY <2>1, <3>1, AdmitStep
  <2> QED
    BY <1>2, <2>1, SendStep, RetryStep, CreateFailsStep, CreatesStep, AdmitStep, AskStep,
       SucceedsStep, SucceedsAnywayStep, RejectedStep, DoubtsStep,
       TellsAcceptedStep, TellsAbsentStep, TellsNothingStep
<1>3. CASE \/ Edits \/ Connects \/ Disconnects \/ Pages \/ \E k \in Keys : Switch(k)
  BY <1>3, IdleStep
<1>4. CASE Receives
  BY <1>4, ReceivesStep
<1>5. CASE \E s \in Sessions, o \in Others : Elsewhere(o, s)
  BY <1>5, ElsewhereStep
<1>6. CASE \E s \in Sessions : Writes(s) \/ Commits(s) \/ Ends(s)
  BY <1>6, RunStep
<1> QED
  BY <1>1, <1>2, <1>3, <1>4, <1>5, <1>6 DEF Next

\* The inductive invariant of the page, the stream and the log.
THEOREM ConversationInvariant == Spec => []IInv
  BY InitIInv, NextIInv, PTL DEF Spec

-----------------------------------------------------------------------------
(* What the page promises *)

\* Every variable of the page, of its requests, of the stream and of the log
\* has its type; the request in flight is the one submit() works on.
THEOREM ConversationTypeCorrect == Spec => []TypeOK
  BY ConversationInvariant, PTL DEF IInv

\* Every conversation is read as it was journalled (the cursor of the stream in
\* conversation.tsx, the paging of the manager): no event twice, and none left
\* out or out of order but those committed behind the reader.
THEOREM LogIsReadInOrder == Spec => []LogIsRead
  BY ConversationInvariant, PTL DEF IInv

\* No message has two blocks on a page, whether the browser put it there before
\* it was sent, sent it again, or the log brought it (conversation-state.ts).
THEOREM MessagesShownOnce == Spec => []ShownOnce
<1>1. IInv => ShownOnce
  BY DEF IInv, Blocks, Once, ShownOnce
<1> QED
  BY <1>1, ConversationInvariant, PTL

\* A message that is known is not taken back: steps of the page that read no
\* event mark only messages that are not known.
LEMMA TurnsKeep ==
  ASSUME NEW q \in Requests, Turns(q), NEW k \in Keys, NEW r \in Requests, Knows(view[k], r)
  PROVE  Knows(view'[k], r) \/ Lost(r, k)
  BY DEF Turns

LEMMA NextKeeps ==
  ASSUME IInv, [Next]_vars, NEW k \in Keys, NEW r \in Requests, Knows(view[k], r),
         k = Draft \/ Receipt(r, k)
  PROVE  Knows(view'[k], r) \/ Lost(r, k)
<1>0. PageInv /\ ReadInv /\ Begun
  BY DEF IInv, PageInv, ReadInv
<1>1. CASE UNCHANGED view
  BY <1>1
<1>2. ASSUME NEW q \in Requests,
             \/ Send(q) \/ Retry(q) \/ CreateFails(q) \/ Rejected(q) \/ Succeeds(q) \/ Doubts(q)
             \/ \E c \in check[q] : TellsAbsent(q, c) \/ TellsNothing(q, c) \/ TellsAccepted(q, c)
      PROVE  Knows(view'[k], r) \/ Lost(r, k)
  BY <1>0, <1>2, PostTurns, FailTurns, MarkTurns, AcceptTurns, TurnsKeep
<1>3. ASSUME NEW q \in Requests, NEW s \in Sessions, Creates(q, s)
      PROVE  Knows(view'[k], r)
  <2>1. view' = [view EXCEPT ![s] = [Here EXCEPT !.read = <<>>]] /\ log[s] = <<>>
    BY <1>0, <1>3 DEF Creates, Offered, Blank, Begun
  <2>2. k # s
    BY <2>1, ConversationAssumption DEF Receipt
  <2> QED
    BY <1>0, <2>1, <2>2 DEF PageInv, TypeOK
<1>4. CASE Receives
  <2>1. PICK i \in stream.wire :
          LET w == Reduced(Here, i, log[shown][i])
          IN /\ \A q : Knows(Here, q) => Knows(w, q)
             /\ \A m \in Keys : view'[m] = IF m = shown THEN w ELSE view[m]
    BY <1>0, <1>4, ReceivedEvent
  <2> QED
    BY <2>1 DEF Here
<1>5. \/ UNCHANGED view
      \/ Receives
      \/ \E q \in Requests :
           \/ Send(q) \/ Retry(q) \/ CreateFails(q) \/ Rejected(q) \/ Succeeds(q) \/ Doubts(q)
           \/ \E c \in check[q] : TellsAbsent(q, c) \/ TellsNothing(q, c) \/ TellsAccepted(q, c)
      \/ \E q \in Requests, s \in Sessions : Creates(q, s)
  <2>1. CASE UNCHANGED vars
    BY <2>1 DEF vars, page
  <2>2. CASE \/ Edits \/ Connects \/ Disconnects \/ Pages
             \/ \E m \in Keys : Switch(m)
             \/ \E s \in Sessions, o \in Others : Elsewhere(o, s)
             \/ \E s \in Sessions : Writes(s) \/ Commits(s) \/ Ends(s)
    BY <2>2 DEF Edits, Connects, Disconnects, Pages, Switch, Elsewhere, Writes, Commits, Ends, page
  <2>3. CASE \E q \in Requests :
               \/ \E s \in Sessions : Arrives(q, s)
               \/ Answers(q) \/ Refuses(q) \/ LosesPost(q) \/ SucceedsAnyway(q)
               \/ Checks(q) \/ ChecksByHand(q) \/ \E c \in check[q] : Reports(q, c)
    BY <2>3 DEF Arrives, Answers, Refuses, LosesPost, SucceedsAnyway, Checks, ChecksByHand, Asks, Reports, page
  <2> QED
    BY <2>1, <2>2, <2>3 DEF Next
<1> QED
  BY <1>1, <1>2, <1>3, <1>4, <1>5

\* A message known from the log, or confirmed on the draft page, is not shown as
\* pending or failed again: a late answer to its POST or to a check of its
\* status finds it settled (conversation.tsx, HasPending and KnownIn).  The one
\* exception is stated: the creation of a conversation for a message that was
\* posted before and is sent again from the draft page, which fails without
\* looking (conversation.tsx:233-235).
THEOREM KnownMessagesStayKnown == Spec => KnownStaysKnown
<1> DEFINE Keeps ==
      \A k \in Keys, r \in Requests :
        KnownIn(r, k) /\ (k = Draft \/ Receipt(r, k))
        => KnownIn(r, k)' \/ (CreateFails(r) /\ target[r] # None /\ k = shown)
<1>1. IInv /\ [Next]_vars => Keeps
  BY NextKeeps DEF KnownIn, Knows, Lost
<1>2. IInv /\ [Next]_vars => [Keeps]_vars
  BY <1>1
<1> QED
  BY <1>2, ConversationInvariant, PTL DEF Spec, KnownStaysKnown

-----------------------------------------------------------------------------
(* Drafts *)

LEMMA NextKeepsDrafts ==
  ASSUME IInv, [Next]_vars, NEW k \in Keys, text[k] # "empty", text'[k] = "empty"
  PROVE  text[k] \in Requests /\ \E s \in Sessions : Receipt(text[k], s)
<1>0. PageInv /\ ReadInv /\ TypeOK /\ Posted /\ Known
  BY DEF IInv, PageInv, ReadInv
<1> DEFINE Kept(r) == text[k] = r /\ \E s \in Sessions : Receipt(r, s)
<1>1. ASSUME NEW r \in Requests, NEW s, Acknowledged(r, s), \E t \in Sessions : Receipt(r, t)
      PROVE  Kept(r)
  BY <1>0, <1>1, AcknowledgedText
<1>2. ASSUME NEW r \in Requests, Succeeds(r)
      PROVE  Kept(r)
  <2>1. Receipt(r, target[r]) /\ target[r] \in Sessions
    BY <1>0, <1>2, ConversationAssumption DEF Succeeds, Posted, TypeOK
  <2> QED
    BY <1>1, <1>2, <2>1 DEF Succeeds
<1>3. ASSUME NEW r \in Requests, SucceedsAnyway(r)
      PROVE  Kept(r)
  <2>1. Knows(view[shown], r) /\ shown \in Keys
    BY <1>0, <1>3, HereSound DEF SucceedsAnyway, KnownIn, Knows
  <2>2. \E t \in Sessions : Receipt(r, t)
    BY <1>0, <2>1 DEF Known
  <2> QED
    BY <1>1, <1>3, <2>2 DEF SucceedsAnyway
<1>4. ASSUME NEW r \in Requests, NEW c \in check[r], TellsAccepted(r, c)
      PROVE  Kept(r)
  <2>1. Receipt(r, c.of) /\ c.of \in Sessions
    BY <1>0, <1>4 DEF TellsAccepted, Posted, Checked, TypeOK, Statuses
  <2>2. Acknowledged(r, c.of)
    BY <1>4 DEF TellsAccepted
  <2> QED
    BY <1>1, <2>1, <2>2
<1>5. CASE Receives
  <2>1. PICK i \in stream.wire :
          /\ shown \in Sessions /\ i \in Committed(shown)
          /\ IF log[shown][i].kind = "user" /\ HasPending(Here, log[shown][i].of)
             THEN Acknowledged(log[shown][i].of, shown) ELSE UNCHANGED <<text, submitted>>
    BY <1>0, <1>5, ReceivedEvent
  <2> DEFINE r == log[shown][i].of
  <2>2. log[shown][i].kind = "user" /\ HasPending(Here, r) /\ Acknowledged(r, shown)
    BY <2>1
  <2>3. r \in Requests
    BY <1>0, <2>2, HereSound DEF Sound, HasPending
  <2>4. Receipt(r, shown)
    BY <2>1, <2>2 DEF Receipt, Committed
  <2> QED
    BY <1>1, <2>1, <2>2, <2>3, <2>4
<1>6. ASSUME NEW r \in Requests, Send(r)
      PROVE  FALSE
  BY <1>0, <1>6, ConversationAssumption DEF Send, TypeOK
<1>7. ASSUME NEW r \in Requests, NEW s \in Sessions, Creates(r, s)
      PROVE  FALSE
  BY <1>0, <1>7, ConversationAssumption DEF Creates, TypeOK
<1>8. CASE Edits
  BY <1>0, <1>8 DEF Edits, TypeOK
<1>9. \/ UNCHANGED text
      \/ Edits \/ Receives
      \/ \E r \in Requests : Send(r) \/ Succeeds(r) \/ SucceedsAnyway(r)
      \/ \E r \in Requests : \E c \in check[r] : TellsAccepted(r, c)
      \/ \E r \in Requests, s \in Sessions : Creates(r, s)
  <2>1. CASE UNCHANGED vars
    BY <2>1 DEF vars, page
  <2>2. CASE \/ Connects \/ Disconnects \/ Pages
             \/ \E m \in Keys : Switch(m)
             \/ \E s \in Sessions, o \in Others : Elsewhere(o, s)
             \/ \E s \in Sessions : Writes(s) \/ Commits(s) \/ Ends(s)
    BY <2>2 DEF Connects, Disconnects, Pages, Switch, Elsewhere, Writes, Commits, Ends, page
  <2>3. CASE \E q \in Requests :
               \/ \E s \in Sessions : Arrives(q, s)
               \/ Answers(q) \/ Refuses(q) \/ LosesPost(q)
               \/ Checks(q) \/ ChecksByHand(q) \/ \E c \in check[q] : Reports(q, c)
    BY <2>3 DEF Arrives, Answers, Refuses, LosesPost, Checks, ChecksByHand, Asks, Reports, page
  <2>4. CASE \E q \in Requests :
               \/ Retry(q) \/ CreateFails(q) \/ Rejected(q) \/ Doubts(q)
               \/ \E c \in check[q] : TellsAbsent(q, c) \/ TellsNothing(q, c)
    BY <2>4 DEF Retry, CreateFails, Rejected, Doubts, TellsAbsent, TellsNothing
  <2> QED
    BY <2>1, <2>2, <2>3, <2>4 DEF Next
<1> QED
  BY <1>2, <1>3, <1>4, <1>5, <1>6, <1>7, <1>8, <1>9

\* What the user wrote is not lost: a composer is emptied (clearAcceptedDrafts)
\* only of the text of a message the server has a receipt of, never of what was
\* written since or of a message that was not accepted.
THEOREM DraftsAreKept == Spec => DraftIsKept
<1> DEFINE Keeps ==
      \A k \in Keys : (text[k] # "empty" /\ text'[k] = "empty") =>
        text[k] \in Requests /\ \E s \in Sessions : Receipt(text[k], s)
<1>1. IInv /\ [Next]_vars => Keeps
  BY NextKeepsDrafts
<1>2. IInv /\ [Next]_vars => [Keeps]_vars
  BY <1>1
<1> QED
  BY <1>2, ConversationInvariant, PTL DEF Spec, DraftIsKept
=============================================================================
