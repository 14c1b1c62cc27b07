\* Two conversations, one of them created from the draft, a message of the
\* page and one of another page.
SPECIFICATION Spec
CONSTANTS
  Sessions = {s1, s2}
  First = s1
  Draft = draft
  Requests = {r1}
  Others = {o1}
  None = none
  MaxChecks = 1
  MaxAsks = 1
  MaxTexts = 1
  MaxExtras = 1
  MaxSwitches = 2
  MaxDrops = 1
INVARIANTS TypeOK LogIsRead ShownOnce
PROPERTIES KnownStaysKnown DraftIsKept
CHECK_DEADLOCK FALSE
