\* Two files, two texts, a page that saves twice with one request to read at a
\* time, one new file, rename or deletion, and one change by others.
SPECIFICATION Spec
CONSTANTS
  Paths = {p, q}
  Texts = {x, y}
  Empty = empty
  Torn = torn
  None = none
  MaxSaves = 2
  MaxReads = 1
  MaxActions = 1
  MaxForeign = 1
SYMMETRY Alike
INVARIANTS TypeOK
PROPERTIES NothingUnseenIsLost DraftIsKept NoFileIsRevived ArchiveIsOfOneMoment
CHECK_DEADLOCK FALSE
