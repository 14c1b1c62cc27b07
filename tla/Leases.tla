------------------------------- MODULE Leases -------------------------------
(***************************************************************************)
(* Leases.withLock (leases.ts) for one Redis key: the lock under which     *)
(* sessions, workspaces and runtimes are changed.  A client takes the key  *)
(* with a fresh token and a TTL, renews it from a timer four times per TTL *)
(* while its operation runs, renews it once more when the operation has    *)
(* ended, and only then reports the result.  The key expires on Redis'     *)
(* clock, so a client that cannot reach Redis may be overtaken while its   *)
(* operation still runs.                                                   *)
(***************************************************************************)
EXTENDS Naturals, FiniteSets

CONSTANTS
  Clients,     \* concurrent withLock calls, of any manager
  Tokens,      \* the random tokens they draw
  NoToken,
  TTL, Beat,   \* ttlMs and the renewal period
  Patience,    \* how long a call waits for the key
  MaxTime,     \* bound: the clock
  MaxCuts      \* bound: how often a client loses its connection to Redis

ASSUME TokenAssumption == NoToken \notin Tokens

ASSUME TimeAssumption ==
  /\ TTL \in Nat /\ Beat \in Nat /\ 0 < Beat /\ Beat < TTL
  /\ Patience \in Nat /\ MaxTime \in Nat /\ MaxCuts \in Nat

VARIABLES
  now,        \* the time, on every clock
  owner,      \* the value of the key, NoToken when deleted
  expires,    \* when Redis drops the key
  pc,         \* of each client
  token,      \* the token it acquired with
  due,        \* when its timer next renews; its deadline while it waits
  lost,       \* the clients whose timer saw an error
  cut,        \* the clients that cannot reach Redis
  cuts,
  suspect,    \* history: the clients cut off at some time of their operation
  used,       \* history: the tokens drawn
  overtaken   \* history: the tokens whose operation ran when another acquired

call == <<pc, token, due, lost>>
key == <<owner, expires>>
leaseVars == <<now, key, call, cut, cuts, suspect, used, overtaken>>

Running == {c \in Clients : pc[c] \in {"operation", "confirm"}}

LeaseTypeOK ==
  /\ now \in 0..MaxTime
  /\ owner \in Tokens \cup {NoToken}
  /\ expires \in 0..(MaxTime + TTL)
  /\ pc \in [Clients -> {"idle", "waiting", "operation", "confirm", "leave", "fail",
                         "returned", "threw"}]
  /\ token \in [Clients -> Tokens \cup {NoToken}]
  /\ due \in [Clients -> 0..(MaxTime + Beat + Patience)]
  /\ lost \in SUBSET Clients
  /\ cut \in SUBSET Clients
  /\ cuts \in 0..MaxCuts
  /\ suspect \in SUBSET Clients
  /\ used \in SUBSET Tokens
  /\ overtaken \in SUBSET Tokens

LeaseInit ==
  /\ now = 0
  /\ owner = NoToken
  /\ expires = 0
  /\ pc = [c \in Clients |-> "idle"]
  /\ token = [c \in Clients |-> NoToken]
  /\ due = [c \in Clients |-> 0]
  /\ lost = {}
  /\ cut = {}
  /\ cuts = 0
  /\ suspect = {}
  /\ used = {}
  /\ overtaken = {}

Held == owner # NoToken /\ now < expires
Holds(c) == Held /\ owner = token[c]
Goto(c, label) == pc' = [pc EXCEPT ![c] = label]
-----------------------------------------------------------------------------
Call(c) ==
  /\ pc[c] = "idle"
  /\ Goto(c, "waiting")
  /\ due' = [due EXCEPT ![c] = now + Patience]
  /\ UNCHANGED <<now, key, token, lost, cut, cuts, suspect, used, overtaken>>

\* SET key token PX ttl NX succeeds.
TakeKey(t) ==
  /\ ~Held
  /\ t \notin used
  /\ owner' = t
  /\ expires' = now + TTL
  /\ used' = used \cup {t}
  /\ overtaken' = overtaken \cup {token[d] : d \in Running}

Acquire(c, t) ==
  /\ pc[c] = "waiting"
  /\ c \notin cut
  /\ TakeKey(t)
  /\ Goto(c, "operation")
  /\ token' = [token EXCEPT ![c] = t]
  /\ due' = [due EXCEPT ![c] = now + Beat]
  /\ lost' = lost \ {c}
  /\ suspect' = suspect \ {c}
  /\ UNCHANGED <<now, cut, cuts>>

\* The key is set and the answer lost: nobody knows the token.
AcquireUnanswered(c, t) ==
  /\ pc[c] = "waiting"
  /\ c \in cut
  /\ TakeKey(t)
  /\ Goto(c, "threw")
  /\ UNCHANGED <<now, token, due, lost, cut, cuts, suspect>>

\* The key is held and the deadline has passed, or Redis fails.
GiveUp(c) ==
  /\ pc[c] = "waiting"
  /\ c \in cut \/ (Held /\ now > due[c])
  /\ Goto(c, "threw")
  /\ UNCHANGED <<now, key, token, due, lost, cut, cuts, suspect, used, overtaken>>

\* Mutant: the script answers and does not extend.
ExtendNothing(c) == c \in Clients /\ UNCHANGED key

\* RENEW: extend the key if it is still ours.
Extend(c) == expires' = (IF Holds(c) THEN now + TTL ELSE expires) /\ UNCHANGED owner

\* The timer renews; a refusal or an error only sets lost.  A client that is
\* cut off gets an error or no answer, whether Redis extended the key or not.
Renew(c) ==
  /\ c \in Running
  /\ now = due[c]
  /\ \/ /\ c \notin cut
        /\ Extend(c)
        /\ lost' = IF Holds(c) THEN lost ELSE lost \cup {c}
     \/ /\ c \in cut
        /\ Extend(c) \/ UNCHANGED key
        /\ lost' \in {lost, lost \cup {c}}
  /\ due' = [due EXCEPT ![c] = now + Beat]
  /\ UNCHANGED <<now, pc, token, cut, cuts, suspect, used, overtaken>>

\* Mutant: the result is reported without a last renewal.
ConfirmUnrenewed(c) ==
  /\ pc[c] = "confirm"
  /\ Goto(c, IF c \in lost THEN "fail" ELSE "leave")
  /\ UNCHANGED <<now, key, token, due, lost, cut, cuts, suspect, used, overtaken>>

\* The operation returns, or throws.
OperationEnds(c) ==
  /\ pc[c] = "operation"
  /\ \/ c \notin lost /\ Goto(c, "confirm")
     \/ Goto(c, "fail")
  /\ UNCHANGED <<now, key, token, due, lost, cut, cuts, suspect, used, overtaken>>

Confirm(c) ==
  /\ pc[c] = "confirm"
  /\ \/ /\ c \notin cut
        /\ Extend(c)
        /\ Goto(c, IF Holds(c) THEN "leave" ELSE "fail")
     \/ /\ c \in cut
        /\ Goto(c, "fail")
        /\ Extend(c) \/ UNCHANGED key
  /\ UNCHANGED <<now, token, due, lost, cut, cuts, suspect, used, overtaken>>

\* Mutant: the key is deleted whoever holds it.
DeleteKey(c) == c \in Clients /\ owner' = NoToken

\* RELEASE: delete the key if it is still ours.
DeleteOwn(c) == owner' = IF Holds(c) THEN NoToken ELSE owner

\* The finally block; a release that fails throws, and the key is left to its TTL.
Release(c) ==
  /\ pc[c] \in {"leave", "fail"}
  /\ \/ /\ c \notin cut
        /\ DeleteOwn(c)
        /\ Goto(c, IF pc[c] = "leave" THEN "returned" ELSE "threw")
     \/ /\ c \in cut
        /\ Goto(c, "threw")
        /\ DeleteOwn(c) \/ UNCHANGED owner
  /\ UNCHANGED <<now, expires, token, due, lost, cut, cuts, suspect, used, overtaken>>

\* The caller calls again.
Again(c) ==
  /\ pc[c] \in {"returned", "threw"}
  /\ Goto(c, "idle")
  /\ UNCHANGED <<now, key, token, due, lost, cut, cuts, suspect, used, overtaken>>

\* Time passes; the timer of a client that is not blocked fires when due.
Tick ==
  /\ now < MaxTime
  /\ \A c \in Running : now < due[c]
  /\ now' = now + 1
  /\ UNCHANGED <<key, call, cut, cuts, suspect, used, overtaken>>

Disconnect(c) ==
  /\ c \notin cut
  /\ cuts < MaxCuts
  /\ cut' = cut \cup {c}
  /\ cuts' = cuts + 1
  /\ suspect' = suspect \cup {c}
  /\ UNCHANGED <<now, key, call, used, overtaken>>

Reconnect(c) ==
  /\ c \in cut
  /\ cut' = cut \ {c}
  /\ UNCHANGED <<now, key, call, cuts, suspect, used, overtaken>>

LeaseNext ==
  \/ Tick
  \/ \E c \in Clients :
       \/ Call(c) \/ GiveUp(c) \/ Renew(c) \/ OperationEnds(c) \/ Confirm(c) \/ Release(c)
       \/ Again(c) \/ Disconnect(c) \/ Reconnect(c)
       \/ \E t \in Tokens : Acquire(c, t) \/ AcquireUnanswered(c, t)

LeaseSpec == LeaseInit /\ [][LeaseNext]_leaseVars
-----------------------------------------------------------------------------
\* The key of an operation whose client reaches Redis in time is its own until
\* it ends: no late renewal or release of a client that was cut off frees it.
ConnectedHolds ==
  \A c \in Running \ suspect : Holds(c)

\* Two such operations never run together.
Exclusive ==
  \A c, d \in Running \ suspect : c = d

\* An operation that another client overtook, because its key had expired,
\* is never reported as a success: withLock throws its result away.
OvertakenFails ==
  \A c \in Clients : pc[c] \in {"leave", "returned"} => token[c] \notin overtaken
=============================================================================
