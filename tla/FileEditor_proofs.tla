-------------------------- MODULE FileEditor_proofs --------------------------
(***************************************************************************)
(* Theorems about FileEditor, for any files and texts, any number of saves *)
(* and of requests at a time, and any number of changes by the others.  A  *)
(* save compares the version it was sent with, and what is sent is what    *)
(* the page showed (Remembered); from the comparison to the write only an  *)
(* agent can change the file (Compared), because a save that has compared  *)
(* holds the lock that other pages, actions and downloads need (Locked).   *)
(* An archive is checked against the same steadiness file by file          *)
(* (Steady), so that its parts were there together when the scan ended.    *)
(***************************************************************************)
EXTENDS FileEditor, TLAPS

\* A request that was sent and is not over names a file and two contents; one
\* that was not, or is, names no file.
Named ==
  \A n \in Saves :
    IF puts[n].stage \in {"none", "done"} THEN puts[n].path = None
    ELSE puts[n].path \in Paths /\ puts[n].content \in Contents /\ puts[n].expected \in Contents

\* What the page would send as the version of the open file, and what it has
\* sent with a save that may still write, was shown as a content of that file.
Remembered ==
  /\ editor # None => editor.original \in seen[editor.path]
  /\ \A n \in Saves :
       puts[n].stage \in {"sent", "checked"} => puts[n].expected \in seen[puts[n].path]

Holds(n) == puts[n].stage \in {"checked", "truncated"}

\* The lock of the workspace: one save at a time, none beside a download, and
\* neither beside a rename.
Locked ==
  /\ \A n, m \in Saves : Holds(n) /\ Holds(m) => n = m
  /\ download # None => \A n \in Saves : ~Holds(n)
  /\ action # None /\ action.stage = "checked" => download = None /\ \A n \in Saves : ~Holds(n)

\* The file that a save opened is there, with the version that was compared,
\* unless an agent replaced, deleted or wrote it since.
Compared ==
  \A n \in Saves : Holds(n) =>
    /\ puts[n].mixed # "unlinked" => disk[puts[n].path] # None
    /\ puts[n].stage = "checked" /\ puts[n].mixed = "no" => disk[puts[n].path] = puts[n].expected

\* Nothing is read before the last file was looked at; what has been read, is
\* being read, and is still to be read and unchanged, is what was looked at.
Steady ==
  download # None =>
    /\ download.scan = None => download.path = None /\ \A p \in Paths : download.archive[p] = None
    /\ download.path # None => download.text # None
    /\ download.scan # None => \A p \in Paths :
         /\ download.archive[p] \in {None, download.scan[p]}
         /\ download.stat[p] = "same" /\ download.path = p => download.text = download.scan[p]
         /\ download.stat[p] = "same" /\ download.path # p /\ download.archive[p] = None
              => disk[p] = download.scan[p]

IInv == TypeOK /\ Named /\ Remembered /\ Locked /\ Compared /\ Steady

\* The steps that may change a file.
WritesDisk ==
  \/ \E n \in Saves : Truncate(n) \/ Write(n)
  \/ Create \/ Rename \/ Delete
  \/ \E p \in Paths, t \in Texts : AnotherPage(p, t)
  \/ \E p \in Paths, t \in Texts \cup {None}, b \in BOOLEAN : Agent(p, t, b)

\* The steps that may change what the page shows.
Displays ==
  \/ \E p \in Paths : Open(p)
  \/ \E r \in reads : ReadFails(r) \/ OpenTold(r) \/ RefreshTold(r) \/ ConflictTold(r)
  \/ \E t \in Texts : Type(t)
  \/ Discard \/ UseLatest \/ KeepDraft \/ Close \/ Preview \/ Leave \/ ActionTold
  \/ \E n \in Saves : SaveTold(n)

\* The steps of the requests that read.
AsksOrTells ==
  \/ \E p \in Paths : Open(p)
  \/ Refresh \/ Leave
  \/ \E r \in reads : Answers(r) \/ ReadFails(r) \/ OpenTold(r) \/ RefreshTold(r)
  \/ \E r \in reads : ConflictTold(r)
  \/ \E n \in Saves : SaveRefused(n)

\* The steps that may change which save is waited for.
StopsWaiting ==
  \/ \E r \in reads : ReadFails(r) \/ ConflictTold(r)
  \/ Leave \/ Save
  \/ \E n \in Saves : SaveTold(n) \/ SaveFails(n) \/ GivesUp(n)

\* The steps of the requests that write.
MovesPut ==
  \/ Leave \/ Save
  \/ \E n \in Saves : Check(n) \/ Truncate(n) \/ Write(n) \/ SaveFails(n)
  \/ \E n \in Saves : SaveTold(n) \/ SaveRefused(n)
  \/ \E p \in Paths, t \in Texts \cup {None}, b \in BOOLEAN : Agent(p, t, b)

\* The steps of a new file, a rename or a deletion.
MovesAction ==
  \/ Leave \/ Lists \/ Create \/ RenameChecks \/ Rename \/ Delete \/ ActionFails \/ ActionTold
  \/ \E k \in {"new", "rename", "delete"}, p, q \in Paths : Begin(k, p, q)

\* The steps of a download.
MovesDownload ==
  \/ \E p \in Paths : DownloadFile(p) \/ Scans(p) \/ Reads(p)
  \/ DownloadAll \/ Zips \/ Ends \/ BreaksOff
  \/ \E p \in Paths, t \in Texts \cup {None}, b \in BOOLEAN : Agent(p, t, b)

\* The steps that count toward a bound.
Counts ==
  \/ \E k \in {"new", "rename", "delete"}, p, q \in Paths : Begin(k, p, q)
  \/ \E p \in Paths : DownloadFile(p)
  \/ DownloadAll
  \/ \E p \in Paths, t \in Texts : AnotherPage(p, t)
  \/ \E p \in Paths, t \in Texts \cup {None}, b \in BOOLEAN : Agent(p, t, b)

\* Which steps may change which part of the state.
LEMMA Frame ==
  ASSUME [Next]_vars
  PROVE  /\ UNCHANGED disk \/ WritesDisk
         /\ UNCHANGED client \/ Displays
         /\ UNCHANGED reads \/ AsksOrTells
         /\ UNCHANGED saving \/ StopsWaiting
         /\ UNCHANGED puts \/ MovesPut
         /\ UNCHANGED action \/ MovesAction
         /\ UNCHANGED download \/ MovesDownload
         /\ UNCHANGED <<actions, foreign>> \/ Counts
<1>1. CASE \E p \in Paths : Open(p)
  BY <1>1 DEF Displays, AsksOrTells, Open, Asks
<1>2. CASE Refresh
  BY <1>2 DEF AsksOrTells, Refresh, Asks, client
<1>3. CASE \E r \in reads : Answers(r)
  BY <1>3 DEF AsksOrTells, Answers, client
<1>4. CASE \E r \in reads : ReadFails(r)
  BY <1>4 DEF Displays, AsksOrTells, StopsWaiting, ReadFails, Over
<1>5. CASE \E r \in reads : OpenTold(r)
  BY <1>5 DEF Displays, AsksOrTells, OpenTold, Told, Over
<1>6. CASE \E r \in reads : RefreshTold(r)
  BY <1>6 DEF Displays, AsksOrTells, RefreshTold, Told, Over
<1>7. CASE \E r \in reads : ConflictTold(r)
  BY <1>7 DEF Displays, AsksOrTells, StopsWaiting, ConflictTold, Told, Over
<1>8. CASE \E t \in Texts : Type(t)
  BY <1>8 DEF Displays, Type, Page
<1>9. CASE Discard
  BY <1>9 DEF Displays, Discard, Page
<1>10. CASE UseLatest
  BY <1>10 DEF Displays, UseLatest, Page
<1>11. CASE KeepDraft
  BY <1>11 DEF Displays, KeepDraft, Page
<1>12. CASE Close
  BY <1>12 DEF Displays, Close, Page
<1>13. CASE Preview
  BY <1>13 DEF Displays, Preview, Page
<1>14. CASE Leave
  BY <1>14 DEF Displays, AsksOrTells, StopsWaiting, MovesPut, MovesAction, Leave
<1>15. CASE Save
  BY <1>15 DEF StopsWaiting, MovesPut, Save, client
<1>16. CASE \E n \in Saves : Check(n)
  BY <1>16 DEF MovesPut, Check, client
<1>17. CASE \E n \in Saves : Truncate(n)
  BY <1>17 DEF WritesDisk, MovesPut, Truncate, client
<1>18. CASE \E n \in Saves : Write(n)
  BY <1>18 DEF WritesDisk, MovesPut, Write, client
<1>19. CASE \E n \in Saves : SaveFails(n)
  BY <1>19 DEF StopsWaiting, MovesPut, SaveFails, client
<1>20. CASE \E n \in Saves : SaveTold(n)
  BY <1>20 DEF Displays, StopsWaiting, MovesPut, SaveTold
<1>21. CASE \E n \in Saves : SaveRefused(n)
  BY <1>21 DEF AsksOrTells, MovesPut, SaveRefused, Asks, client
<1>22. CASE \E n \in Saves : GivesUp(n)
  BY <1>22 DEF StopsWaiting, GivesUp, client
<1>23. CASE \E k \in {"new", "rename", "delete"}, p, q \in Paths : Begin(k, p, q)
  BY <1>23 DEF MovesAction, Counts, Begin, client
<1>24. CASE Lists
  BY <1>24 DEF MovesAction, Lists, Rest, client
<1>25. CASE Create
  BY <1>25 DEF WritesDisk, MovesAction, Create, Rest, client
<1>26. CASE Rename
  BY <1>26 DEF WritesDisk, MovesAction, Rename, Rest, client
<1>27. CASE Delete
  BY <1>27 DEF WritesDisk, MovesAction, Delete, Rest, client
<1>28. CASE ActionFails
  BY <1>28 DEF MovesAction, ActionFails, Rest, client
<1>29. CASE ActionTold
  BY <1>29 DEF Displays, MovesAction, ActionTold, Rest
<1>30. CASE \E p \in Paths : DownloadFile(p)
  BY <1>30 DEF MovesDownload, Counts, DownloadFile, Starts, client
<1>31. CASE \E p \in Paths : Scans(p)
  BY <1>31 DEF MovesDownload, Scans, Sends, client
<1>32. CASE \E p \in Paths : Reads(p)
  BY <1>32 DEF MovesDownload, Reads, Sends, client
<1>33. CASE DownloadAll
  BY <1>33 DEF MovesDownload, Counts, DownloadAll, Starts, client
<1>34. CASE Zips
  BY <1>34 DEF MovesDownload, Zips, Sends, client
<1>35. CASE Ends
  BY <1>35 DEF MovesDownload, Ends, Sends, client
<1>36. CASE BreaksOff
  BY <1>36 DEF MovesDownload, BreaksOff, Sends, client
<1>37. CASE \E p \in Paths, t \in Texts : AnotherPage(p, t)
  BY <1>37 DEF WritesDisk, Counts, AnotherPage, Foreign, client
<1>38. CASE \E p \in Paths, t \in Texts \cup {None}, b \in BOOLEAN : Agent(p, t, b)
  BY <1>38 DEF WritesDisk, MovesPut, MovesDownload, Counts, Agent, Foreign, client
<1>39. CASE UNCHANGED vars
  BY <1>39 DEF vars, client
<1>40. CASE RenameChecks
  BY <1>40 DEF MovesAction, RenameChecks, Rest, client
<1> QED
  BY <1>1, <1>2, <1>3, <1>4, <1>5, <1>6, <1>7, <1>8, <1>9, <1>10, <1>11, <1>12, <1>13, <1>14,
     <1>15, <1>16, <1>17, <1>18, <1>19, <1>20, <1>21, <1>22, <1>23, <1>24, <1>25, <1>26, <1>27,
     <1>28, <1>29, <1>30, <1>31, <1>32, <1>33, <1>34, <1>35, <1>36, <1>37, <1>38, <1>39, <1>40 DEF Next

\* What the theorem on drafts says of a step.
DraftGoesByChoice ==
  Dirty /\ (editor' = None \/ editor'.content # editor.content)
  => \/ Discard \/ UseLatest \/ Close \/ Preview \/ Leave \/ \E t \in Texts : Type(t)
     \/ \E r \in reads : OpenTold(r) \/ (r.why = "open" /\ ReadFails(r))
     \/ ActionTold /\ (action.kind = "new" \/ (action.kind = "delete" /\ action.open))

\* What a step leaves of the save that is waited for.
SavingSent == saving' \in 0..MaxSaves /\ (saving' # 0 => puts'[saving'].stage # "none")

\* What the theorem on revived files says of a step.
NobodyRevives ==
  \A p \in Paths : disk[p] = None /\ disk'[p] # None
    => foreign' # foreign \/ (action # None /\ p \in {action.path, action.to} /\ action.kind # "delete"
                              /\ action'.stage = "done")

\* The editor is shown with the version that its original content has.
Pictured(e) == e \in {None} \cup Editors /\ (e # None => e.version = e.original)

\* What a step leaves of what is known of the editor and of what it showed.
ClientKept ==
  /\ Pictured(editor') /\ conflict' \in {None} \cup Contents /\ seen' \in [Paths -> SUBSET Contents]
  /\ editor' # None => editor'.original \in seen'[editor'.path]
  /\ \A n \in Saves : puts[n].path \in Paths => seen[puts[n].path] \subseteq seen'[puts[n].path]

\* What is shown is remembered, and with it what any save under way was sent for.
LEMMA ShownIsKept ==
  ASSUME IInv, NEW e, NEW c, Pictured(e), c \in {None} \cup Contents, Shows(e, c)
  PROVE  ClientKept
<1>1. /\ editor' = e /\ conflict' = c
      /\ seen' = [p \in Paths |->
           IF e = None \/ e.path # p THEN Awaited(p)
           ELSE (IF IsOpen(p) THEN seen[p] ELSE Awaited(p)) \cup {e.original} \cup ({c} \ {None})]
  BY DEF Shows
<1>2. \A p \in Paths : Awaited(p) \in SUBSET Contents /\ seen[p] \in SUBSET Contents
  BY DEF IInv, TypeOK, Awaited
<1>3. e # None => e.path \in Paths /\ e.original \in Contents
  BY DEF Pictured, Editors
<1>4. seen' \in [Paths -> SUBSET Contents]
  BY <1>1, <1>2, <1>3
<1>5. e # None => e.original \in seen'[e.path]
  BY <1>1, <1>3
<1>6. ASSUME NEW n \in Saves, puts[n].path \in Paths
      PROVE  seen[puts[n].path] \subseteq seen'[puts[n].path]
  <2>1. Awaited(puts[n].path) = seen[puts[n].path]
    BY <1>6 DEF Awaited
  <2> QED
    BY <1>1, <1>6, <2>1
<1> QED
  BY <1>1, <1>4, <1>5, <1>6 DEF ClientKept

\* Nothing is forgotten while the page stays as it is.
LEMMA StaysKept == IInv /\ UNCHANGED client => ClientKept
BY DEF IInv, TypeOK, Remembered, ClientKept, Pictured, client

\* Whatever the page shows next is well-formed and remembered.
LEMMA ClientStep == IInv /\ [Next]_vars => ClientKept
<1> SUFFICES ASSUME IInv, [Next]_vars PROVE ClientKept
  OBVIOUS
<1> USE DEF IInv, TypeOK, ReadRecords, PutRecords, ActionRecords, Contents, Remembered,
          Pictured, Editors
<1>a. Pictured(editor) /\ Pictured(None) /\ conflict \in {None} \cup Contents
  OBVIOUS
<1>1. CASE \E p \in Paths : Open(p)
  BY <1>1, ShownIsKept, StaysKept DEF Open, Opened, Refreshed, Saved
<1>2. CASE \E r \in reads : ReadFails(r)
  BY <1>2, ShownIsKept, StaysKept DEF ReadFails, Opened, Refreshed, Saved
<1>3. CASE \E r \in reads : OpenTold(r)
  BY <1>3, ShownIsKept, StaysKept DEF OpenTold, Told, Over, Opened, Refreshed, Saved
<1>4. CASE \E r \in reads : RefreshTold(r)
  BY <1>4, ShownIsKept, StaysKept DEF RefreshTold, Told, Over, Opened, Refreshed, Saved
<1>5. CASE \E r \in reads : ConflictTold(r)
  BY <1>5, ShownIsKept, StaysKept DEF ConflictTold, Told, Over, Opened, Refreshed, Saved
<1>6. CASE \E t \in Texts : Type(t)
  BY <1>6, ShownIsKept, StaysKept DEF Type, Opened, Refreshed, Saved
<1>7. CASE Discard
  <2>1. editor # None /\ Pictured([editor EXCEPT !.content = editor.original])
    BY <1>7 DEF Discard, Dirty
  <2> QED
    BY <1>7, <2>1, ShownIsKept DEF Discard
<1>8. CASE UseLatest
  BY <1>8, ShownIsKept, StaysKept DEF UseLatest, Opened, Refreshed, Saved
<1>9. CASE KeepDraft
  BY <1>9, ShownIsKept, StaysKept DEF KeepDraft, Opened, Refreshed, Saved
<1>10. CASE Close
  BY <1>10, ShownIsKept, StaysKept DEF Close, Opened, Refreshed, Saved
<1>11. CASE Preview
  BY <1>11, ShownIsKept, StaysKept DEF Preview, Opened, Refreshed, Saved
<1>12. CASE Leave
  BY <1>12, ShownIsKept, StaysKept DEF Leave, Opened, Refreshed, Saved
<1>13. CASE \E n \in Saves : SaveTold(n)
  <2>1. PICK n \in Saves : SaveTold(n)
    BY <1>13
  <2>2. puts[n].path \in Paths /\ puts[n].content \in Contents
    BY <2>1 DEF SaveTold, Named
  <2>3. CASE IsOpen(puts[n].path)
    <3> DEFINE e == [editor EXCEPT !.original = puts[n].content, !.version = puts[n].content]
    <3>1. Shows(e, conflict) /\ Pictured(e)
      BY <2>1, <2>2, <2>3 DEF SaveTold, Saved, IsOpen
    <3> QED
      BY <3>1, ShownIsKept
  <2>4. CASE ~IsOpen(puts[n].path)
    BY <2>1, <2>4, StaysKept DEF SaveTold, Saved
  <2> QED
    BY <2>3, <2>4
<1>14. CASE ActionTold
  <2>1. CASE Under("new", "done")
    <3>1. Shows(Opened(action.path, Empty), conflict) /\ Pictured(Opened(action.path, Empty))
      BY <1>14, <2>1 DEF ActionTold, Under, Opened
    <3> QED
      BY <3>1, ShownIsKept
  <2>2. CASE Under("rename", "done")
    BY <1>14, <2>2 DEF ActionTold, Under, Moves, ClientKept, IsOpen
  <2>3. CASE Under("delete", "done")
    BY <1>14, <2>3, ShownIsKept DEF ActionTold, Under, Deleted
  <2> QED
    BY <1>14, <2>1, <2>2, <2>3 DEF ActionTold, Under
<1>15. CASE UNCHANGED <<client>>
  BY <1>15, StaysKept
<1> QED
  BY Frame, <1>1, <1>2, <1>3, <1>4, <1>5, <1>6, <1>7, <1>8, <1>9, <1>10, <1>11, <1>12, <1>13,
     <1>14, <1>15 DEF Displays

\* What a step leaves of the requests that write: none is unsent again, and one
\* that may still write was sent for what the page showed, now or earlier.
PutsKept ==
  /\ puts' \in [Saves -> PutRecords]
  /\ \A n \in Saves : puts'[n].mixed # "no" => puts'[n].stage \in {"checked", "truncated", "ok"}
  /\ \A n \in Saves : puts[n].stage # "none" => puts'[n].stage # "none"
  /\ \A n \in Saves : puts'[n].stage \in {"sent", "checked"} =>
       \/ /\ puts[n].stage \in {"sent", "checked"}
          /\ puts'[n].path = puts[n].path /\ puts'[n].expected = puts[n].expected
       \/ /\ editor # None /\ UNCHANGED client
          /\ puts'[n].path = editor.path /\ puts'[n].expected = editor.original

\* A request is sent for the version of the open file, and keeps it.
LEMMA PutsStep == IInv /\ [Next]_vars => PutsKept /\ Named'
<1> SUFFICES ASSUME IInv, [Next]_vars PROVE PutsKept /\ Named'
  OBVIOUS
<1> USE DEF PutRecords, IInv, TypeOK, Named, Saves, Stages, PutsKept, Done, Unsent
<1>1. CASE Leave
  BY <1>1 DEF Leave, Put, Heard
<1>2. CASE Save
  <2>1. PICK n \in Saves :
          /\ puts[n].stage = "none" /\ editor # None /\ UNCHANGED client
          /\ puts' = [puts EXCEPT ![n] = [@ EXCEPT !.stage = "sent", !.path = editor.path,
                                         !.content = editor.content, !.expected = editor.version]]
    BY <1>2 DEF Save, Dirty
  <2>2. /\ editor.path \in Paths /\ editor.content \in Contents
        /\ editor.version \in Contents /\ editor.version = editor.original
    BY <2>1 DEF Editors
  <2>3. puts' \in [Saves -> PutRecords]
    <3> DEFINE put == [puts[n] EXCEPT !.stage = "sent", !.path = editor.path,
                                      !.content = editor.content, !.expected = editor.version]
    <3>1. put \in PutRecords
      <4>1. puts[n] \in PutRecords
        BY <2>1
      <4>2. editor.path \in Paths \cup {None} /\ editor.content \in Contents \cup {None}
            /\ editor.version \in Contents \cup {None}
        BY <2>2
      <4> QED
        BY <4>1, <4>2
    <3>2. puts' = [puts EXCEPT ![n] = put]
      BY <2>1
    <3> QED
      BY <3>1, <3>2
  <2>4. /\ puts'[n].stage = "sent" /\ puts'[n].mixed = puts[n].mixed /\ puts[n].mixed = "no"
        /\ puts'[n].path = editor.path /\ puts'[n].content = editor.content
        /\ puts'[n].expected = editor.original
    BY <2>1, <2>2
  <2>5. \A m \in Saves : m # n => puts'[m] = puts[m]
    BY <2>1
  <2>6. Named'
    BY <2>2, <2>4, <2>5
  <2> QED
    BY <2>1, <2>3, <2>4, <2>5, <2>6
<1>3. CASE \E n \in Saves : Check(n)
  BY <1>3 DEF Check, Put, Heard
<1>4. CASE \E n \in Saves : Truncate(n)
  BY <1>4 DEF Truncate, Put, Heard
<1>5. CASE \E n \in Saves : Write(n)
  BY <1>5 DEF Write, Put, Heard
<1>6. CASE \E n \in Saves : SaveFails(n)
  BY <1>6 DEF SaveFails, Put, Heard
<1>7. CASE \E n \in Saves : SaveTold(n)
  BY <1>7 DEF SaveTold, Put, Heard
<1>8. CASE \E n \in Saves : SaveRefused(n)
  BY <1>8 DEF SaveRefused, Asks, Put, Heard
<1>9. CASE \E p \in Paths, t \in Texts \cup {None}, b \in BOOLEAN : Agent(p, t, b)
  BY <1>9 DEF Agent, Foreign
<1>10. CASE UNCHANGED <<puts>>
  BY <1>10
<1> QED
  BY Frame, <1>1, <1>2, <1>3, <1>4, <1>5, <1>6, <1>7, <1>8, <1>9, <1>10 DEF MovesPut

\* The page waits for nothing, or for a request that was sent.
LEMMA SavingStep == IInv /\ [Next]_vars => SavingSent
<1> SUFFICES ASSUME IInv, [Next]_vars PROVE SavingSent
  OBVIOUS
<1> USE DEF IInv, TypeOK, PutRecords, Saves, PutsKept, SavingSent
<1>a. MaxSaves \in Nat /\ \A n \in Saves : puts[n].stage # "none" => puts'[n].stage # "none"
  BY PutsStep, FileEditorAssumption
<1>1. CASE \E r \in reads : ReadFails(r)
  BY <1>1, <1>a DEF ReadFails, Over, Heard
<1>2. CASE \E r \in reads : ConflictTold(r)
  BY <1>2, <1>a DEF ConflictTold, Told, Over, Heard
<1>3. CASE Leave
  BY <1>3, <1>a DEF Leave, Heard
<1>4. CASE Save
  BY <1>4, <1>a DEF Save, Heard
<1>5. CASE \E n \in Saves : SaveFails(n)
  BY <1>5, <1>a DEF SaveFails, Heard
<1>6. CASE \E n \in Saves : SaveTold(n)
  BY <1>6, <1>a DEF SaveTold, Heard
<1>7. CASE \E n \in Saves : GivesUp(n)
  BY <1>7, <1>a DEF GivesUp, Heard
<1>8. CASE UNCHANGED <<saving>>
  BY <1>8, <1>a
<1> QED
  BY Frame, <1>1, <1>2, <1>3, <1>4, <1>5, <1>6, <1>7, <1>8 DEF StopsWaiting

\* The lock is taken by one save or one download.
LEMMA LockedStep == IInv /\ [Next]_vars => Locked'
<1> SUFFICES ASSUME IInv, [Next]_vars PROVE Locked'
  OBVIOUS
<1> USE DEF IInv, TypeOK, PutRecords, DownloadRecords, Locked, Unlocked, Holds, Put, Heard,
          Done, Unsent
<1>1. CASE Leave
  BY <1>1 DEF Leave
<1>2. CASE Save
  BY <1>2 DEF Save
<1>3. CASE \E n \in Saves : Check(n)
  BY <1>3 DEF Check
<1>4. CASE \E n \in Saves : Truncate(n)
  BY <1>4 DEF Truncate
<1>5. CASE \E n \in Saves : Write(n)
  BY <1>5 DEF Write
<1>6. CASE \E n \in Saves : SaveFails(n)
  BY <1>6 DEF SaveFails
<1>7. CASE \E n \in Saves : SaveTold(n)
  BY <1>7 DEF SaveTold
<1>8. CASE \E n \in Saves : SaveRefused(n)
  BY <1>8 DEF SaveRefused, Asks
<1>9. CASE \E p \in Paths : DownloadFile(p)
  BY <1>9 DEF DownloadFile, Starts
<1>10. CASE \E p \in Paths : Scans(p)
  BY <1>10 DEF Scans, Sends
<1>11. CASE \E p \in Paths : Reads(p)
  BY <1>11 DEF Reads, Sends
<1>12. CASE DownloadAll
  BY <1>12 DEF DownloadAll, Starts
<1>13. CASE Zips
  BY <1>13 DEF Zips, Sends
<1>14. CASE Ends
  BY <1>14 DEF Ends, Sends
<1>15. CASE BreaksOff
  BY <1>15 DEF BreaksOff, Sends
<1>16. CASE \E p \in Paths, t \in Texts \cup {None}, b \in BOOLEAN : Agent(p, t, b)
  BY <1>16 DEF Agent, Foreign, Touched
<1>17. CASE RenameChecks
  BY <1>17 DEF RenameChecks, Rest, Becomes
<1>18. CASE Lists \/ Create \/ Rename \/ Delete
  BY <1>18 DEF Lists, Create, Rename, Delete, Rest, Becomes, Under, ActionRecords
<1>19. CASE ActionFails \/ ActionTold
  BY <1>19 DEF ActionFails, ActionTold, Rest
<1>20. CASE \E k \in {"new", "rename", "delete"}, p, q \in Paths : Begin(k, p, q)
  BY <1>20 DEF Begin
<1>21. CASE UNCHANGED <<puts, download, action>>
  BY <1>21
<1> QED
  BY Frame, <1>1, <1>2, <1>3, <1>4, <1>5, <1>6, <1>7, <1>8, <1>9, <1>10, <1>11, <1>12, <1>13,
     <1>14, <1>15, <1>16, <1>17, <1>18, <1>19, <1>20, <1>21 DEF MovesPut, MovesDownload, MovesAction

\* Only an agent changes a file between the comparison and the write.
LEMMA ComparedStep == IInv /\ [Next]_vars => Compared'
<1> SUFFICES ASSUME IInv, [Next]_vars PROVE Compared'
  OBVIOUS
<1> USE DEF IInv, TypeOK, PutRecords, Named, Locked, Compared, Saves, Unlocked, Holds, Put,
          Heard, Done, Unsent
<1>a. /\ None \notin Paths \cup Texts \cup {Empty, Torn}
      /\ None \notin Editors \cup [Paths -> Contents \cup {None}]
  BY FileEditorAssumption
<1>1. CASE Leave
  BY <1>1 DEF Leave, Changed, Lands
<1>2. CASE Save
  BY <1>2 DEF Save, Changed, Lands
<1>3. CASE \E n \in Saves : Check(n)
  BY <1>3 DEF Check, Changed, Lands
<1>4. CASE \E n \in Saves : Truncate(n)
  <2>1. PICK n \in Saves : Truncate(n)
    BY <1>4
  <2>2. puts[n].path \in Paths /\ puts[n].stage = "checked"
    BY <2>1 DEF Truncate
  <2>3. puts' = [puts EXCEPT ![n] = [@ EXCEPT !.stage = "truncated"]]
    BY <2>1 DEF Truncate
  <2>4. \A m \in Saves : puts'[m].stage \in {"checked", "truncated"} =>
          /\ m = n /\ puts'[m].stage = "truncated" /\ puts'[m].mixed = puts[n].mixed
          /\ puts'[m].path = puts[n].path
    BY <2>2, <2>3
  <2>5. puts[n].mixed # "unlinked" => disk' = [disk EXCEPT ![puts[n].path] = Empty]
    BY <2>1 DEF Truncate, Lands
  <2>6. puts[n].mixed # "unlinked" => disk'[puts[n].path] # None
    BY <1>a, <2>2, <2>5
  <2> QED
    BY <2>4, <2>6
<1>5. CASE \E n \in Saves : Write(n)
  BY <1>5 DEF Write, Changed, Lands
<1>6. CASE \E n \in Saves : SaveFails(n)
  BY <1>6 DEF SaveFails, Changed, Lands
<1>7. CASE \E n \in Saves : SaveTold(n)
  BY <1>7 DEF SaveTold, Changed, Lands
<1>8. CASE \E n \in Saves : SaveRefused(n)
  BY <1>8 DEF SaveRefused, Asks, Changed, Lands
<1>9. CASE Create
  BY <1>9 DEF Create, Rest, Changed, Lands
<1>10. CASE Rename
  <2>1. UNCHANGED puts /\ \A n \in Saves : ~Holds(n)
    BY <1>10 DEF Rename, Under, Rest
  <2> QED
    BY <2>1
<1>11. CASE Delete
  BY <1>11 DEF Delete, Rest, Changed, Lands
<1>12. CASE \E p \in Paths, t \in Texts : AnotherPage(p, t)
  BY <1>12 DEF AnotherPage, Foreign, Changed, Lands
<1>13. CASE \E p \in Paths, t \in Texts \cup {None}, b \in BOOLEAN : Agent(p, t, b)
  BY <1>13 DEF Agent, Foreign, Changed, Lands
<1>14. CASE UNCHANGED <<disk, puts>>
  BY <1>14
<1> QED
  BY Frame, <1>1, <1>2, <1>3, <1>4, <1>5, <1>6, <1>7, <1>8, <1>9, <1>10, <1>11, <1>12, <1>13,
     <1>14 DEF WritesDisk, MovesPut

\* Only an agent changes a file while it is being sent, and the next look shows it.
LEMMA SteadyStep == IInv /\ [Next]_vars => Steady'
<1> SUFFICES ASSUME IInv, [Next]_vars PROVE Steady'
  OBVIOUS
<1> USE DEF IInv, TypeOK, PutRecords, DownloadRecords, ActionRecords, Contents, Locked, Steady,
          Saves, Unlocked, Holds
<1>a. /\ None \notin Paths \cup Texts \cup {Empty, Torn}
      /\ None \notin Editors \cup [Paths -> Contents \cup {None}]
  BY FileEditorAssumption
<1>1. CASE \E n \in Saves : Truncate(n)
  BY <1>1 DEF Truncate
<1>2. CASE \E n \in Saves : Write(n)
  BY <1>2 DEF Write
<1>3. CASE Create
  BY <1>3 DEF Create, Rest
<1>4. CASE Rename
  BY <1>4 DEF Rename, Under, Rest
<1>5. CASE Delete
  BY <1>5 DEF Delete, Rest
<1>6. CASE \E p \in Paths : DownloadFile(p)
  <2>1. PICK p \in Paths : DownloadFile(p)
    BY <1>6
  <2>2. /\ disk[p] # None /\ UNCHANGED disk
        /\ download' = [kind |-> "file", stat |-> [Nothing EXCEPT ![p] = "same"], scan |-> disk,
                        path |-> p, text |-> disk[p], archive |-> Nothing]
    BY <2>1 DEF DownloadFile, Starts
  <2>3. disk # None /\ \A q \in Paths : Nothing[q] = None
    BY <1>a DEF Nothing
  <2> QED
    BY <2>2, <2>3
<1>7. CASE \E p \in Paths : Scans(p)
  <2>1. PICK p \in Paths : Scans(p)
    BY <1>7
  <2>2. /\ download # None /\ download.scan = None /\ UNCHANGED disk
        /\ download'.path = download.path /\ download'.text = download.text
        /\ download'.archive = download.archive /\ download'.scan \in {None, disk}
    BY <2>1 DEF Scans, Sends
  <2> QED
    BY <1>a, <2>2
<1>8. CASE \E p \in Paths : Reads(p)
  <2>1. PICK p \in Paths : Reads(p)
    BY <1>8
  <2>2. /\ download # None /\ download.scan # None /\ download.path = None /\ disk[p] # None
        /\ download.archive[p] = None /\ download.stat[p] = "same" /\ UNCHANGED disk
        /\ download'.path = p /\ download'.text = disk[p] /\ download'.scan = download.scan
        /\ download'.archive = download.archive /\ download'.stat = download.stat
    BY <2>1 DEF Reads, Sends, IsUnchanged
  <2>3. disk[p] = download.scan[p] /\ p # None
    BY <1>a, <2>2
  <2> QED
    BY <1>a, <2>2, <2>3
<1>9. CASE DownloadAll
  BY <1>9 DEF DownloadAll, Starts, Nothing
<1>10. CASE Zips
  <2> DEFINE q == download.path
  <2>1. /\ download # None /\ q # None /\ q \in Paths /\ download.stat[q] = "same" /\ UNCHANGED disk
        /\ download' = [download EXCEPT !.path = None, !.text = None, !.archive[q] = download.text]
    BY <1>10 DEF Zips, Sends, IsUnchanged
  <2>2. /\ download'.path = None /\ download'.scan = download.scan /\ download'.stat = download.stat
        /\ download'.archive = [download.archive EXCEPT ![q] = download.text]
    BY <2>1
  <2>3. download.scan # None /\ download.text = download.scan[q] /\ download.text # None
    BY <2>1
  <2>4. /\ download'.archive[q] = download.scan[q] /\ download'.archive[q] # None
        /\ \A p \in Paths : p # q => download'.archive[p] = download.archive[p]
    BY <2>1, <2>2, <2>3
  <2> QED
    BY <1>a, <2>1, <2>2, <2>3, <2>4
<1>11. CASE Ends
  BY <1>11 DEF Ends, Sends
<1>12. CASE BreaksOff
  BY <1>12 DEF BreaksOff, Sends
<1>13. CASE \E p \in Paths, t \in Texts : AnotherPage(p, t)
  BY <1>13 DEF AnotherPage, Foreign
<1>14. CASE \E p \in Paths, t \in Texts \cup {None}, b \in BOOLEAN : Agent(p, t, b)
  <2>1. PICK p \in Paths, t \in Texts \cup {None}, b \in BOOLEAN : Agent(p, t, b)
    BY <1>14
  <2>2. disk' = [disk EXCEPT ![p] = t] /\ Touched(p, b /\ t # None)
    BY <2>1 DEF Agent
  <2>3. \A q \in Paths : q # p => disk'[q] = disk[q]
    BY <2>2
  <2>4. CASE UNCHANGED download /\ (download = None \/ download.stat[p] # "same"
                                    \/ download.archive[p] # None \/ download.path = p)
    BY <2>3, <2>4
  <2>5. CASE /\ download # None
             /\ download' = [download EXCEPT !.stat[p] = "changed",
                                             !.text = IF download.path = p THEN Torn ELSE @]
    <3>1. /\ download'.scan = download.scan /\ download'.path = download.path
          /\ download'.archive = download.archive /\ download'.text \in {download.text, Torn}
          /\ download.path # p => download'.text = download.text
          /\ download'.stat = [download.stat EXCEPT ![p] = "changed"]
      BY <2>5
    <3>2. /\ download'.stat[p] = "changed"
          /\ \A q \in Paths : q # p => download'.stat[q] = download.stat[q]
      BY <2>5, <3>1
    <3> QED
      BY <1>a, <2>3, <2>5, <3>1, <3>2
  <2> QED
    BY <2>2, <2>4, <2>5 DEF Touched
<1>15. CASE UNCHANGED <<disk, download>>
  BY <1>15
<1> QED
  BY Frame, <1>1, <1>2, <1>3, <1>4, <1>5, <1>6, <1>7, <1>8, <1>9, <1>10, <1>11, <1>12, <1>13,
     <1>14, <1>15 DEF WritesDisk, MovesDownload

\* What is written is a content, and a file is deleted by its name.
LEMMA DiskStep == IInv /\ [Next]_vars => disk' \in [Paths -> Contents \cup {None}]
<1> SUFFICES ASSUME IInv, [Next]_vars PROVE disk' \in [Paths -> Contents \cup {None}]
  OBVIOUS
<1> USE DEF IInv, TypeOK, PutRecords, ActionRecords, Named, Contents, Saves
<1>1. CASE \E n \in Saves : Truncate(n)
  BY <1>1 DEF Truncate, Lands
<1>2. CASE \E n \in Saves : Write(n)
  BY <1>2 DEF Write, Lands
<1>3. CASE Create
  BY <1>3 DEF Create, Rest, Lands
<1>4. CASE Rename
  <2>1. /\ action # None /\ action.kind = "rename" /\ action.path \in Paths /\ action.to \in Paths
        /\ disk[action.path] # None /\ action'.stage = "done"
        /\ disk' = [disk EXCEPT ![action.to] = disk[action.path], ![action.path] = None]
    BY <1>4 DEF Rename, Under, Becomes
  <2>2. disk[action.path] \in Contents \cup {None} /\ None \in Contents \cup {None}
    BY <2>1
  <2>3. [disk EXCEPT ![action.to] = disk[action.path]] \in [Paths -> Contents \cup {None}]
    BY <2>1, <2>2
  <2> QED
    BY <2>1, <2>2, <2>3
<1>5. CASE Delete
  BY <1>5 DEF Delete, Rest, Lands
<1>6. CASE \E p \in Paths, t \in Texts : AnotherPage(p, t)
  BY <1>6 DEF AnotherPage, Foreign, Lands
<1>7. CASE \E p \in Paths, t \in Texts \cup {None}, b \in BOOLEAN : Agent(p, t, b)
  BY <1>7 DEF Agent, Foreign, Lands
<1>8. CASE UNCHANGED <<disk>>
  BY <1>8
<1> QED
  BY Frame, <1>1, <1>2, <1>3, <1>4, <1>5, <1>6, <1>7, <1>8 DEF WritesDisk

\* The types of the requests that read.
LEMMA ReadsStep == IInv /\ [Next]_vars => reads' \subseteq ReadRecords
<1> SUFFICES ASSUME IInv, [Next]_vars PROVE reads' \subseteq ReadRecords
  OBVIOUS
<1> USE DEF IInv, TypeOK, Named, ReadRecords, Saves
<1>1. CASE \E p \in Paths : Open(p)
  BY <1>1 DEF Open, Asks, Asked
<1>2. CASE Refresh
  BY <1>2 DEF Refresh, Asks, Asked, Editors
<1>3. CASE \E r \in reads : Answers(r)
  BY <1>3 DEF Answers, Asked
<1>4. CASE \E r \in reads : ReadFails(r)
  BY <1>4 DEF ReadFails, Over, Asked
<1>5. CASE \E r \in reads : OpenTold(r)
  BY <1>5 DEF OpenTold, Told, Over, Asked
<1>6. CASE \E r \in reads : RefreshTold(r)
  BY <1>6 DEF RefreshTold, Told, Over, Asked
<1>7. CASE \E r \in reads : ConflictTold(r)
  BY <1>7 DEF ConflictTold, Told, Over, Asked
<1>8. CASE Leave
  BY <1>8 DEF Leave, Asked
<1>9. CASE \E n \in Saves : SaveRefused(n)
  BY <1>9 DEF SaveRefused, Asks, Asked
<1>10. CASE UNCHANGED <<reads>>
  BY <1>10
<1> QED
  BY Frame, <1>1, <1>2, <1>3, <1>4, <1>5, <1>6, <1>7, <1>8, <1>9, <1>10 DEF AsksOrTells

\* The types of the action.
LEMMA ActionStep == IInv /\ [Next]_vars => action' \in {None} \cup ActionRecords
<1> SUFFICES ASSUME IInv, [Next]_vars PROVE action' \in {None} \cup ActionRecords
  OBVIOUS
<1> USE DEF IInv, TypeOK, ActionRecords
<1>1. CASE Leave
  BY <1>1 DEF Leave, Under, Becomes
<1>2. CASE \E k \in {"new", "rename", "delete"}, p, q \in Paths : Begin(k, p, q)
  <2>1. PICK k \in {"new", "rename", "delete"}, p, q \in Paths : Begin(k, p, q)
    BY <1>2
  <2>2. IsOpen(p) \in BOOLEAN
    BY DEF IsOpen
  <2>3. action' = [kind |-> k, path |-> p, to |-> q, stage |-> "asked", open |-> IsOpen(p)]
    BY <2>1 DEF Begin
  <2> QED
    BY <2>2, <2>3
<1>3. CASE Lists
  BY <1>3 DEF Lists, Rest, Under, Becomes
<1>4. CASE Create
  BY <1>4 DEF Create, Rest, Under, Becomes
<1>5. CASE Rename
  BY <1>5 DEF Rename, Rest, Under, Becomes
<1>6. CASE Delete
  BY <1>6 DEF Delete, Rest, Under, Becomes
<1>7. CASE ActionFails
  BY <1>7 DEF ActionFails, Rest, Under, Becomes
<1>8. CASE ActionTold
  BY <1>8 DEF ActionTold, Rest, Under, Becomes
<1>9. CASE RenameChecks
  BY <1>9 DEF RenameChecks, Rest, Under, Becomes
<1>10. CASE UNCHANGED <<action>>
  BY <1>10
<1> QED
  BY Frame, <1>1, <1>2, <1>3, <1>4, <1>5, <1>6, <1>7, <1>8, <1>9, <1>10 DEF MovesAction

\* The types of the download.
LEMMA DownloadStep == IInv /\ [Next]_vars => download' \in {None} \cup DownloadRecords
<1> SUFFICES ASSUME IInv, [Next]_vars PROVE download' \in {None} \cup DownloadRecords
  OBVIOUS
<1> USE DEF IInv, TypeOK, Contents, DownloadRecords
<1>1. CASE \E p \in Paths : DownloadFile(p)
  BY <1>1 DEF DownloadFile, Starts, Nothing
<1>2. CASE \E p \in Paths : Scans(p)
  <2>1. PICK p \in Paths : Scans(p)
    BY <1>2
  <2> DEFINE stat == [download.stat EXCEPT ![p] = IF disk[p] = None THEN None ELSE "same"]
             scan == IF \E q \in Paths : stat[q] = "unread" THEN None ELSE disk
  <2>2. download # None /\ download' = [download EXCEPT !.stat = stat, !.scan = scan]
    BY <2>1 DEF Scans, Sends
  <2>3. stat \in [Paths -> {None, "unread", "same", "changed"}]
    BY <2>2
  <2>4. scan \in {None} \cup [Paths -> Contents \cup {None}]
    OBVIOUS
  <2> HIDE DEF stat, scan
  <2> QED
    BY <2>2, <2>3, <2>4
<1>3. CASE \E p \in Paths : Reads(p)
  BY <1>3 DEF Reads, Sends
<1>4. CASE DownloadAll
  BY <1>4 DEF DownloadAll, Starts, Nothing
<1>5. CASE Zips
  BY <1>5 DEF Zips, Sends
<1>6. CASE Ends
  BY <1>6 DEF Ends, Sends
<1>7. CASE BreaksOff
  BY <1>7 DEF BreaksOff, Sends
<1>8. CASE \E p \in Paths, t \in Texts \cup {None}, b \in BOOLEAN : Agent(p, t, b)
  <2>1. PICK p \in Paths, t \in Texts \cup {None}, b \in BOOLEAN : Agent(p, t, b)
    BY <1>8
  <2>2. CASE UNCHANGED download
    BY <2>2
  <2>3. CASE ~UNCHANGED download
    <3> DEFINE stat == [download.stat EXCEPT ![p] = "changed"]
               text == IF download.path = p THEN Torn ELSE download.text
    <3>1. download # None /\ download' = [download EXCEPT !.stat = stat, !.text = text]
      BY <2>1, <2>3 DEF Agent, Touched
    <3>2. stat \in [Paths -> {None, "unread", "same", "changed"}] /\ text \in Contents \cup {None}
      BY <3>1
    <3> HIDE DEF stat, text
    <3> QED
      BY <3>1, <3>2
  <2> QED
    BY <2>2, <2>3
<1>9. CASE UNCHANGED <<download>>
  BY <1>9
<1> QED
  BY Frame, <1>1, <1>2, <1>3, <1>4, <1>5, <1>6, <1>7, <1>8, <1>9 DEF MovesDownload

\* The bounds.
LEMMA CountStep == IInv /\ [Next]_vars => actions' \in 0..MaxActions /\ foreign' \in 0..MaxForeign
<1> SUFFICES ASSUME IInv, [Next]_vars PROVE actions' \in 0..MaxActions /\ foreign' \in 0..MaxForeign
  OBVIOUS
<1> USE DEF IInv, TypeOK
<1>a. MaxActions \in Nat /\ MaxForeign \in Nat
  BY FileEditorAssumption
<1>1. CASE \E k \in {"new", "rename", "delete"}, p, q \in Paths : Begin(k, p, q)
  BY <1>1, <1>a DEF Begin
<1>2. CASE \E p \in Paths : DownloadFile(p)
  BY <1>2, <1>a DEF DownloadFile, Starts
<1>3. CASE DownloadAll
  BY <1>3, <1>a DEF DownloadAll, Starts
<1>4. CASE \E p \in Paths, t \in Texts : AnotherPage(p, t)
  BY <1>4, <1>a DEF AnotherPage, Foreign
<1>5. CASE \E p \in Paths, t \in Texts \cup {None}, b \in BOOLEAN : Agent(p, t, b)
  BY <1>5, <1>a DEF Agent, Foreign
<1>6. CASE UNCHANGED <<actions, foreign>>
  BY <1>6
<1> QED
  BY Frame, <1>1, <1>2, <1>3, <1>4, <1>5, <1>6 DEF Counts

\* Every step that shows something else keeps the draft, or is the user's choice.
LEMMA DraftStep == IInv /\ [Next]_vars => DraftGoesByChoice
<1> SUFFICES ASSUME IInv, [Next]_vars PROVE DraftGoesByChoice
  OBVIOUS
<1> USE DEF IInv, TypeOK, ReadRecords, PutRecords, ActionRecords, Named, Saves, Dirty,
          DraftGoesByChoice, Editors
<1>a. /\ None \notin Paths \cup Texts \cup {Empty, Torn}
      /\ None \notin Editors \cup [Paths -> Contents \cup {None}]
  BY FileEditorAssumption
<1>1. CASE \E p \in Paths : Open(p)
  BY <1>1, <1>a DEF Open, Asks, Shows
<1>2. CASE \E r \in reads : ReadFails(r)
  <2>1. PICK r \in reads : ReadFails(r)
    BY <1>2
  <2>2. r.why = "open" \/ UNCHANGED client
    BY <2>1 DEF ReadFails
  <2> QED
    BY <1>a, <2>1, <2>2 DEF client
<1>3. CASE \E r \in reads : OpenTold(r)
  BY <1>3, <1>a DEF OpenTold, Told, Over, Shows
<1>4. CASE \E r \in reads : RefreshTold(r)
  <2>1. PICK r \in reads : RefreshTold(r)
    BY <1>4
  <2>2. SUFFICES ASSUME editor # None, editor.content # editor.original
                 PROVE  editor' # None /\ editor'.content = editor.content
    OBVIOUS
  <2>3. UNCHANGED client \/ Shows(editor, r.answer)
    BY <2>1, <2>2 DEF RefreshTold, Refreshed
  <2> QED
    BY <2>2, <2>3 DEF client, Shows
<1>5. CASE \E r \in reads : ConflictTold(r)
  BY <1>5, <1>a DEF ConflictTold, Told, Over, Shows
<1>6. CASE \E t \in Texts : Type(t)
  BY <1>6, <1>a DEF Type, Page, Shows
<1>7. CASE Discard
  BY <1>7, <1>a DEF Discard, Page, Shows
<1>8. CASE UseLatest
  BY <1>8, <1>a DEF UseLatest, Page, Shows
<1>9. CASE KeepDraft
  BY <1>9, <1>a DEF KeepDraft, Page, Shows
<1>10. CASE Close
  BY <1>10, <1>a DEF Close, Page, Shows
<1>11. CASE Preview
  BY <1>11, <1>a DEF Preview, Page, Shows
<1>12. CASE Leave
  BY <1>12, <1>a DEF Leave, Shows
<1>13. CASE \E n \in Saves : SaveTold(n)
  <2>1. PICK n \in Saves : SaveTold(n)
    BY <1>13
  <2> DEFINE e == [editor EXCEPT !.original = puts[n].content, !.version = puts[n].content]
  <2>2. UNCHANGED client \/ (editor # None /\ Shows(e, conflict))
    BY <2>1 DEF SaveTold, Saved, IsOpen
  <2>3. puts[n].content \in Contents
    BY <2>1 DEF SaveTold, Named
  <2>4. editor # None => e \in Editors /\ e.content = editor.content
    BY <2>3
  <2> HIDE DEF e
  <2> QED
    BY <1>a, <2>2, <2>4 DEF client, Shows
<1>14. CASE ActionTold
  <2>1. CASE action.kind = "new" \/ (action.kind = "delete" /\ action.open)
    BY <1>14, <2>1
  <2>2. CASE Under("rename", "done")
    BY <1>a, <1>14, <2>2 DEF ActionTold, Under, Moves, IsOpen
  <2>3. CASE Under("delete", "done") /\ ~action.open
    BY <1>14, <2>3 DEF ActionTold, Under, Deleted, Shows
  <2> QED
    BY <1>14, <2>1, <2>2, <2>3 DEF ActionTold, Under
<1>15. CASE UNCHANGED <<client>>
  BY <1>15 DEF client
<1> QED
  BY Frame, <1>1, <1>2, <1>3, <1>4, <1>5, <1>6, <1>7, <1>8, <1>9, <1>10, <1>11, <1>12, <1>13,
     <1>14, <1>15 DEF Displays

\* Every step that writes a file finds it there, or creates it as it was asked to.
LEMMA RevivedStep == IInv /\ [Next]_vars => NobodyRevives
<1> SUFFICES ASSUME IInv, [Next]_vars PROVE NobodyRevives
  OBVIOUS
<1> USE DEF IInv, TypeOK, PutRecords, ActionRecords, Named, Compared, Locked, Holds, Saves,
          NobodyRevives
<1>a. /\ None \notin Paths \cup Texts \cup {Empty, Torn}
      /\ None \notin Editors \cup [Paths -> Contents \cup {None}]
  BY FileEditorAssumption
<1>1. CASE \E n \in Saves : Truncate(n)
  BY <1>1, <1>a DEF Truncate, Lands, Becomes
<1>2. CASE \E n \in Saves : Write(n)
  BY <1>2, <1>a DEF Write, Lands, Becomes
<1>3. CASE Create
  <2>1. /\ action # None /\ action.kind = "new" /\ action.path \in Paths /\ action'.stage = "done"
        /\ disk' = [disk EXCEPT ![action.path] = Empty]
    BY <1>3 DEF Create, Under, Becomes
  <2> QED
    BY <2>1
<1>4. CASE Rename
  <2>1. /\ action # None /\ action.kind = "rename" /\ action.path \in Paths /\ action.to \in Paths
        /\ disk[action.path] # None /\ action'.stage = "done"
        /\ disk' = [disk EXCEPT ![action.to] = disk[action.path], ![action.path] = None]
    BY <1>4 DEF Rename, Under, Becomes
  <2>2. \A p \in Paths : p \notin {action.path, action.to} => disk'[p] = disk[p]
    BY <2>1
  <2>3. disk'[action.path] = None
    BY <2>1
  <2> QED
    BY <2>1, <2>2, <2>3
<1>5. CASE Delete
  BY <1>5, <1>a DEF Delete, Rest, Lands, Becomes
<1>6. CASE \E p \in Paths, t \in Texts : AnotherPage(p, t)
  BY <1>6, <1>a DEF AnotherPage, Foreign, Lands, Becomes
<1>7. CASE \E p \in Paths, t \in Texts \cup {None}, b \in BOOLEAN : Agent(p, t, b)
  BY <1>7, <1>a DEF Agent, Foreign, Lands, Becomes
<1>8. CASE UNCHANGED <<disk>>
  BY <1>8
<1> QED
  BY Frame, <1>1, <1>2, <1>3, <1>4, <1>5, <1>6, <1>7, <1>8 DEF WritesDisk

\* At first nothing is open and nothing is asked for.
LEMMA InitInv == Init => IInv
<1> SUFFICES ASSUME Init PROVE IInv
  OBVIOUS
<1> USE DEF Init, Unsent
<1>1. /\ puts = [n \in Saves |-> Unsent]
      /\ MaxSaves \in Nat /\ MaxActions \in Nat /\ MaxForeign \in Nat
  BY FileEditorAssumption
<1>2. TypeOK
  <2>1. disk \in [Paths -> Contents \cup {None}]
    BY DEF Contents
  <2> QED
    BY <1>1, <2>1 DEF TypeOK, Stages, Contents, PutRecords
<1>3. Named /\ Remembered /\ Locked /\ Compared /\ Steady
  BY <1>1 DEF Named, Remembered, Locked, Compared, Steady, Holds
<1> QED
  BY <1>2, <1>3 DEF IInv

\* Every step keeps the invariant.
LEMMA InvStep == IInv /\ [Next]_vars => IInv'
<1> SUFFICES ASSUME IInv, [Next]_vars PROVE IInv'
  OBVIOUS
<1>1. ClientKept /\ PutsKept /\ Named'
  BY ClientStep, PutsStep
<1>2. TypeOK'
  BY <1>1, SavingStep, DiskStep, ReadsStep, ActionStep, DownloadStep, CountStep
  DEF TypeOK, ClientKept, PutsKept, SavingSent, Pictured
<1>3. Remembered'
  <2>1. \A n \in Saves : puts[n].stage \in {"sent", "checked"} => puts[n].path \in Paths
    BY DEF IInv, Named
  <2>2. ASSUME NEW n \in Saves, puts'[n].stage \in {"sent", "checked"}
        PROVE  puts'[n].expected \in seen'[puts'[n].path]
    <3>1. CASE /\ puts[n].stage \in {"sent", "checked"}
               /\ puts'[n].path = puts[n].path /\ puts'[n].expected = puts[n].expected
      BY <1>1, <2>1, <3>1 DEF ClientKept, IInv, Remembered
    <3>2. CASE /\ editor # None /\ UNCHANGED client
               /\ puts'[n].path = editor.path /\ puts'[n].expected = editor.original
      BY <3>2 DEF IInv, Remembered, client
    <3> QED
      BY <1>1, <2>2, <3>1, <3>2 DEF PutsKept
  <2> QED
    BY <1>1, <2>2 DEF Remembered, ClientKept
<1> QED
  BY <1>1, <1>2, <1>3, LockedStep, ComparedStep, SteadyStep DEF IInv

\* The invariant: types, what was shown, the lock, the comparison and the archive.
THEOREM EditorInvariant == Spec => []IInv
BY InitInv, InvStep, PTL DEF Spec

\* Type correctness of the editor and its requests, writeFileContent() and the
\* downloads, with a version that always stands for the original content.
THEOREM EditorTypeCorrect == Spec => []TypeOK
<1>1. IInv => TypeOK
  BY DEF IInv
<1> QED
  BY <1>1, EditorInvariant, PTL

\* A save, from save() in the page to writeFileContent(), truncates a file only over
\* a content that this page showed of it, if no agent wrote in between.
THEOREM SavesReplaceWhatWasShown == Spec => NothingUnseenIsLost
<1>1. ASSUME IInv, NEW n \in Saves,
             puts[n].stage = "checked" /\ puts'[n].stage = "truncated" /\ puts[n].mixed = "no"
      PROVE  disk[puts[n].path] \in seen[puts[n].path]
  BY <1>1 DEF IInv, Compared, Remembered, Holds
<1>2. IInv => \A n \in Saves :
        puts[n].stage = "checked" /\ puts'[n].stage = "truncated" /\ puts[n].mixed = "no"
        => disk[puts[n].path] \in seen[puts[n].path]
  BY <1>1
<1> QED
  BY <1>2, EditorInvariant, PTL DEF NothingUnseenIsLost

\* In the file browser no answer takes a draft away but that of openEntry(), of a
\* new file, or of remove() for a file that was open when it was called.
THEOREM DraftsGoByChoice == Spec => DraftIsKept
<1>1. IInv /\ [Next]_vars => DraftGoesByChoice
  BY DraftStep
<1> QED
  BY <1>1, EditorInvariant, PTL DEF Spec, DraftIsKept, DraftGoesByChoice

\* writeFileContent() never creates a file: what was renamed or deleted stays away.
THEOREM SavesReviveNoFile == Spec => NoFileIsRevived
<1>1. IInv /\ [Next]_vars => NobodyRevives
  BY RevivedStep
<1> QED
  BY <1>1, EditorInvariant, PTL DEF Spec, NoFileIsRevived, NobodyRevives

\* A complete archive holds files that were all there at the end of its scan.
THEOREM ArchivesAreSnapshots == Spec => ArchiveIsOfOneMoment
<1>1. IInv => (Ends => \A p \in Paths : download.archive[p] \in {None, download.scan[p]})
  BY DEF IInv, Steady, Ends
<1> QED
  BY <1>1, EditorInvariant, PTL DEF ArchiveIsOfOneMoment
===============================================================================
