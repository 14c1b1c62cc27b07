------------------------------ MODULE RunSlots ------------------------------
(***************************************************************************)
(* What the manager and the Runtime server rely on of each other: a        *)
(* conversation has one slot for a run.  The manager takes it, a run       *)
(* starts in it only while it is taken and nothing is left of an earlier   *)
(* one, and the manager lets go of it only when the run is over.  A run    *)
(* that was asked for and given up may start late, until the container is  *)
(* stopped.                                                                *)
(***************************************************************************)
CONSTANT Sessions

VARIABLES
  slot,     \* of each session: "over", "starting", or "running"
  held,     \* the sessions whose slot the manager has taken
  strays    \* those that a request reached which the manager had given up

slotVars == <<slot, held, strays>>

Init == slot = [s \in Sessions |-> "over"] /\ held = {} /\ strays = {}

Takes(s) ==
  /\ s \notin held
  /\ held' = held \cup {s}
  /\ UNCHANGED <<slot, strays>>

Starts(s) ==
  /\ slot[s] = "over"
  /\ slot' = [slot EXCEPT ![s] = "starting"]

StartsInTime(s) == s \in held /\ Starts(s) /\ UNCHANGED <<held, strays>>

ComesLate(s) ==
  /\ strays' = strays \cup {s}
  /\ Starts(s) \/ UNCHANGED slot
  /\ UNCHANGED held

Goes(s) ==
  /\ slot[s] = "starting"
  /\ slot' = [slot EXCEPT ![s] = "running"]
  /\ UNCHANGED <<held, strays>>

Ends(s) ==
  /\ slot[s] # "over"
  /\ slot' = [slot EXCEPT ![s] = "over"]
  /\ UNCHANGED <<held, strays>>

LetsGo(s) ==
  /\ s \in held
  /\ s \in strays \/ slot[s] = "over"
  /\ held' = held \ {s}
  /\ UNCHANGED <<slot, strays>>

\* The container is stopped for the sake of one session, with all the runs;
\* others may hear of it as the end of their own.
Stops(s) ==
  /\ s \in held
  /\ slot' = [t \in Sessions |-> "over"]
  /\ \E told \in SUBSET held : held' = held \ (told \cup {s})
  /\ strays' = {}

Next ==
  \E s \in Sessions :
    \/ Takes(s) \/ StartsInTime(s) \/ ComesLate(s) \/ Goes(s) \/ Ends(s)
    \/ LetsGo(s) \/ Stops(s)

Spec == Init /\ [][Next]_slotVars
=============================================================================
