\* Two clients, three tokens; one may be cut off from Redis for as long as it likes.
\* The clock and the tokens are bounded, so behaviours end.
SPECIFICATION LeaseSpec
CONSTANTS
  Clients = {c1, c2}
  Tokens = {t1, t2, t3}
  NoToken = NoToken
  TTL = 4
  Beat = 1
  Patience = 3
  MaxTime = 9
  MaxCuts = 1
SYMMETRY Symmetry
INVARIANTS ConnectedHolds Exclusive OvertakenFails
CHECK_DEADLOCK FALSE
