----------------------------- MODULE FileEditor -----------------------------
(***************************************************************************)
(* The editor of the file browser: files are opened, refreshed while the   *)
(* agent works, edited, saved against the version they were read in, and   *)
(* created, renamed, deleted or downloaded.  A version is the hash of a    *)
(* content, so it is the content here.  The requests of the user's pages   *)
(* to the Runtime hold the lock of the workspace, a download until its     *)
(* bytes have passed; the agent in the container does not.                 *)
(***************************************************************************)
EXTENDS FiniteSets, Naturals, TLC

CONSTANTS
  Paths,       \* files of the workspace
  Texts,       \* what is typed or written
  Empty,       \* the empty content
  Torn,        \* a content with the rest of another one behind it
  None,        \* no file, content or action
  MaxSaves,    \* how often the page saves: a bound for TLC
  MaxReads,    \* requests that read a file at one time: a bound for TLC
  MaxActions,  \* new files, renames, deletions and downloads: a bound for TLC
  MaxForeign   \* how often others change a file: a bound for TLC

Contents == Texts \cup {Empty, Torn}
Editors == [path : Paths, original : Contents, content : Contents, version : Contents]

\* None is a value of its own.
ASSUME FileEditorAssumption ==
  /\ Empty \notin Texts /\ Torn \notin Texts \cup {Empty}
  /\ None \notin Paths \cup Texts \cup {Empty, Torn}
  /\ None \notin Editors \cup [Paths -> Contents \cup {None}]
  /\ MaxSaves \in Nat \ {0} /\ MaxReads \in Nat /\ MaxActions \in Nat /\ MaxForeign \in Nat

VARIABLES
  disk,      \* the files
  editor,    \* the open file: its path, original (and version) and content
  conflict,  \* the newer content that was shown beside the draft
  reads,     \* requests for a content: to open a file, to refresh, after a 409
  saving,    \* the save the page waits for, 0 if none
  puts,      \* the requests that write a content
  action,    \* the new file, rename or deletion under way
  download,  \* the file or the archive that is being sent
  actions,   \* how many of either there were
  foreign,   \* how often others changed a file
  seen       \* the contents that the page showed of the open file and of those it saves (history)

vars == <<disk, editor, conflict, reads, saving, puts, action, download, actions, foreign, seen>>
client == <<editor, conflict, seen>>

Saves == 1..MaxSaves
Stages == {"none", "sent", "checked", "truncated", "ok", "conflict", "done"}
Unsent == [stage |-> "none", path |-> None, content |-> None, expected |-> None, mixed |-> "no"]
Done == [Unsent EXCEPT !.stage = "done"]

Dirty == editor # None /\ editor.content # editor.original
IsOpen(p) == editor # None /\ editor.path = p
Opened(p, c) == [path |-> p, original |-> c, content |-> c, version |-> c]

\* What was shown of a file counts while it is open or a save of it is under way.
Awaited(p) == IF \E n \in Saves : puts[n].path = p THEN seen[p] ELSE {}

\* What the page shows next, and what of the file the user can have read by then.
Shows(e, c) ==
  /\ editor' = e /\ conflict' = c
  /\ seen' = [p \in Paths |->
       IF e = None \/ e.path # p THEN Awaited(p)
       ELSE (IF IsOpen(p) THEN seen[p] ELSE Awaited(p)) \cup {e.original} \cup ({c} \ {None})]

Unlocked ==
  /\ download = None /\ (action # None => action.stage # "checked")
  /\ \A n \in Saves : puts[n].stage \notin {"checked", "truncated"}

Init ==
  /\ disk \in {[p \in Paths |-> IF p \in here THEN Empty ELSE None] : here \in SUBSET Paths \ {{}}}
  /\ editor = None /\ conflict = None /\ reads = {} /\ saving = 0
  /\ puts = [n \in Saves |-> Unsent]
  /\ action = None /\ download = None /\ actions = 0 /\ foreign = 0 /\ seen = [p \in Paths |-> {}]

-----------------------------------------------------------------------------
(* Reading: the user opens a file, the page refreshes the open one, or a   *)
(* refused save reads what is there.  Several may be under way.            *)

Asked(why, p) == [why |-> why, path |-> p, answer |-> "none"]
Asks(why, p) ==
  /\ Cardinality(reads) < MaxReads /\ Asked(why, p) \notin reads
  /\ reads' = reads \cup {Asked(why, p)}

\* openEntry(): the user agrees to lose a draft here, before the answer.
Open(p) ==
  /\ ~IsOpen(p)
  /\ Asks("open", p) /\ Shows(editor, None)
  /\ UNCHANGED <<disk, saving, puts, action, download, actions, foreign>>

\* The effect that runs whenever the list may be stale.
Refresh ==
  /\ editor # None /\ Asks("refresh", editor.path)
  /\ UNCHANGED <<disk, client, saving, puts, action, download, actions, foreign>>

Answers(r) ==
  /\ r.answer = "none" /\ Unlocked /\ disk[r.path] # None
  /\ reads' = (reads \ {r}) \cup {[r EXCEPT !.answer = disk[r.path]]}
  /\ UNCHANGED <<disk, client, saving, puts, action, download, actions, foreign>>

Over(r) == reads' = reads \ {r} /\ UNCHANGED <<disk, puts, action, download, actions, foreign>>
Told(r) == r.answer # "none" /\ Over(r)

OpenTold(r) == r.why = "open" /\ Told(r) /\ Shows(Opened(r.path, r.answer), conflict) /\ UNCHANGED saving

\* A refresh replaces a file without a draft, and shows its content beside one.
RefreshedAlways(r) ==
  IF IsOpen(r.path) THEN Shows(Opened(r.path, r.answer), None) ELSE UNCHANGED client
Refreshed(r) ==
  IF ~IsOpen(r.path) \/ (IsOpen(r.path) /\ editor.version = r.answer)
  THEN UNCHANGED client
  ELSE IF Dirty THEN Shows(editor, r.answer) ELSE Shows(Opened(r.path, r.answer), None)

RefreshTold(r) == r.why = "refresh" /\ Told(r) /\ Refreshed(r) /\ UNCHANGED saving

\* After a 409 the page shows what is there, whichever file is open by then.
ConflictTold(r) == r.why = "conflict" /\ Told(r) /\ Shows(editor, r.answer) /\ saving' = 0

\* The file is gone or the request fails: what cannot be opened is previewed.
ReadFails(r) ==
  /\ Over(r)
  /\ IF r.why = "open" THEN Shows(None, conflict) ELSE UNCHANGED client
  /\ saving' = IF r.why = "conflict" THEN 0 ELSE saving

-----------------------------------------------------------------------------
(* Editing.  A dialog keeps the user from the text.                        *)

Page == UNCHANGED <<disk, reads, saving, puts, action, download, actions, foreign>>

Type(t) ==
  /\ editor # None /\ editor.content # t /\ (action # None => action.kind = "delete")
  /\ Shows([editor EXCEPT !.content = t], conflict)
  /\ Page

Discard == Dirty /\ saving = 0 /\ Shows([editor EXCEPT !.content = editor.original], None) /\ Page

UseLatest ==
  /\ editor # None /\ conflict # None
  /\ Shows(Opened(editor.path, conflict), None)
  /\ Page

KeepDraft ==
  /\ editor # None /\ conflict # None
  /\ Shows([editor EXCEPT !.original = conflict, !.version = conflict], None)
  /\ Page

\* The user closes the file, or looks at one that is no text.
Close == editor # None /\ saving = 0 /\ Shows(None, conflict) /\ Page
Preview == editor # None /\ Shows(None, None) /\ Page

\* The user agrees to lose a draft, if there is one, and goes elsewhere: the
\* requests go on, but nobody waits for them.
Leave ==
  /\ Shows(None, None) /\ reads' = {} /\ saving' = 0 /\ action' = None
  /\ <<editor, conflict, reads, saving, action>> # <<None, None, {}, 0, None>>
  /\ puts' = [n \in Saves |-> IF puts[n].stage \in {"ok", "conflict"} THEN Done ELSE puts[n]]
  /\ UNCHANGED <<disk, download, actions, foreign>>

-----------------------------------------------------------------------------
(* Saving.                                                                 *)

Save ==
  /\ Dirty /\ saving = 0 /\ conflict = None
  /\ \E n \in Saves :
       /\ puts[n].stage = "none" /\ \A m \in 1..(n - 1) : puts[m].stage # "none"
       /\ saving' = n
       /\ puts' = [puts EXCEPT ![n] = [@ EXCEPT !.stage = "sent", !.path = editor.path,
                                       !.content = editor.content, !.expected = editor.version]]
  /\ UNCHANGED <<disk, client, reads, action, download, actions, foreign>>

\* An answer nobody waits for is forgotten.
Put(n, stage) ==
  puts' = [puts EXCEPT ![n] = IF saving # n /\ stage \in {"ok", "conflict"} THEN Done
                              ELSE [@ EXCEPT !.stage = stage]]
Heard(n) == saving = n /\ puts' = [puts EXCEPT ![n] = Done]

\* writeFileContent() holds the lock of the workspace from its first look at
\* the file; only a file that is there is opened.
Never(n) == FALSE
Changed(n) == disk[puts[n].path] # puts[n].expected

Check(n) ==
  /\ puts[n].stage = "sent" /\ Unlocked /\ disk[puts[n].path] # None
  /\ Put(n, IF Changed(n) THEN "conflict" ELSE "checked")
  /\ UNCHANGED <<disk, client, reads, saving, action, download, actions, foreign>>

LandsByName(n, c) == disk' = [disk EXCEPT ![puts[n].path] = c]
\* A file that was replaced or deleted since it was opened is not reached.
Lands(n, c) == disk' = IF puts[n].mixed = "unlinked" THEN disk ELSE [disk EXCEPT ![puts[n].path] = c]

Truncate(n) ==
  /\ puts[n].stage = "checked" /\ Put(n, "truncated") /\ Lands(n, Empty)
  /\ UNCHANGED <<client, reads, saving, action, download, actions, foreign>>

Write(n) ==
  /\ puts[n].stage = "truncated" /\ Put(n, "ok")
  /\ \E c \in {puts[n].content} \cup (IF puts[n].mixed = "changed" THEN {Torn} ELSE {}) : Lands(n, c)
  /\ UNCHANGED <<client, reads, saving, action, download, actions, foreign>>

\* The file is what was sent; what was typed meanwhile is a draft.
SavedAsShown(n) ==
  IF IsOpen(puts[n].path)
  THEN Shows([editor EXCEPT !.original = editor.content, !.version = puts[n].content], conflict)
  ELSE UNCHANGED client
Saved(n) ==
  IF IsOpen(puts[n].path)
  THEN Shows([editor EXCEPT !.original = puts[n].content, !.version = puts[n].content], conflict)
  ELSE UNCHANGED client

SaveTold(n) ==
  /\ puts[n].stage = "ok" /\ Heard(n) /\ saving' = 0 /\ Saved(n)
  /\ UNCHANGED <<disk, reads, action, download, actions, foreign>>

SaveRefused(n) ==
  /\ puts[n].stage = "conflict" /\ Heard(n) /\ Asks("conflict", puts[n].path)
  /\ UNCHANGED <<disk, client, saving, action, download, actions, foreign>>

\* The file is not there, the Runtime is killed or the answer is lost.
SaveFails(n) ==
  /\ puts[n].stage \in {"sent", "checked", "truncated", "ok", "conflict"}
  /\ puts' = [puts EXCEPT ![n] = Done] /\ saving' = IF saving = n THEN 0 ELSE saving
  /\ UNCHANGED <<disk, client, reads, action, download, actions, foreign>>

\* The page gives up, whatever becomes of the request.
GivesUp(n) ==
  /\ saving = n /\ puts[n].stage \in {"sent", "checked", "truncated"} /\ saving' = 0
  /\ UNCHANGED <<disk, client, reads, puts, action, download, actions, foreign>>

-----------------------------------------------------------------------------
(* New files, renames and deletions, one at a time.                        *)

Rest == UNCHANGED <<reads, saving, puts, download, actions, foreign>>
Under(kind, stage) == action # None /\ action.kind = kind /\ action.stage = stage
Becomes(stage) == action' = [action EXCEPT !.stage = stage]

\* "open" is what the handler of the click knew of the editor.
Begin(kind, p, q) ==
  /\ action = None /\ actions < MaxActions /\ actions' = actions + 1
  /\ IF kind = "rename" THEN p # q ELSE p = q
  /\ action' = [kind |-> kind, path |-> p, to |-> q, stage |-> "asked",
                open |-> IsOpen(p)]
  /\ UNCHANGED <<disk, client, reads, saving, puts, download, foreign>>

\* performAction() looks for the name before it writes without a version.
Listed(p) == disk[p] # None
Lists ==
  /\ Under("new", "asked") /\ Unlocked /\ ~Listed(action.path) /\ Becomes("listed")
  /\ UNCHANGED <<disk, client>> /\ Rest

Create ==
  /\ Under("new", "listed") /\ Unlocked
  /\ disk' = [disk EXCEPT ![action.path] = Empty] /\ Becomes("done")
  /\ UNCHANGED client /\ Rest

\* renameEntry() looks for the name and renames under the lock; an agent may
\* create or delete a file in between.
RenameChecks ==
  /\ Under("rename", "asked") /\ Unlocked /\ disk[action.to] = None /\ Becomes("checked")
  /\ UNCHANGED <<disk, client>> /\ Rest

Rename ==
  /\ Under("rename", "checked") /\ disk[action.path] # None
  /\ disk' = [disk EXCEPT ![action.to] = disk[action.path], ![action.path] = None] /\ Becomes("done")
  /\ UNCHANGED client /\ Rest

Delete ==
  /\ Under("delete", "asked") /\ Unlocked
  /\ disk[action.path] # None /\ disk' = [disk EXCEPT ![action.path] = None] /\ Becomes("done")
  /\ UNCHANGED client /\ Rest

\* Refused (the name is taken, the file is not there), or not answered.
ActionFails ==
  /\ action # None /\ action' = None
  /\ UNCHANGED <<disk, client>> /\ Rest

\* The open file goes along with its name, and what was read of it.
Moves ==
  /\ editor' = IF IsOpen(action.path) THEN [editor EXCEPT !.path = action.to] ELSE editor
  /\ seen' = [seen EXCEPT ![action.to] = @ \cup seen[action.path]]
  /\ UNCHANGED conflict

\* remove() closes what was open when it was called.
Deleted == Shows(IF action.open THEN None ELSE editor, conflict)

ActionTold ==
  /\ action # None /\ action.stage = "done" /\ action' = None
  /\ CASE Under("new", "done") -> Shows(Opened(action.path, Empty), conflict)
       [] Under("rename", "done") -> Moves
       [] Under("delete", "done") -> Deleted
  /\ UNCHANGED disk /\ Rest

-----------------------------------------------------------------------------
(* Downloads of a file, or of all files as an archive.  Every file of an   *)
(* archive is looked at before the first is read; a look at a file is its  *)
(* stat, which tells whether the file was changed or replaced since.       *)
(* Bounds for TLC: none starts when the others have made their last        *)
(* change, or while the page waits for a save, whose request would wait.   *)

Starts(d) ==
  /\ Unlocked /\ actions < MaxActions /\ actions' = actions + 1 /\ foreign < MaxForeign /\ saving = 0
  /\ download' = d
  /\ UNCHANGED <<disk, client, reads, saving, puts, action, foreign>>

Nothing == [p \in Paths |-> None]

DownloadFile(p) ==
  /\ disk[p] # None
  /\ Starts([kind |-> "file", stat |-> [Nothing EXCEPT ![p] = "same"], scan |-> disk,
             path |-> p, text |-> disk[p], archive |-> Nothing])

DownloadAll ==
  Starts([kind |-> "archive", stat |-> [p \in Paths |-> "unread"], scan |-> None,
          path |-> None, text |-> None, archive |-> Nothing])

Sends(d) == download' = d /\ UNCHANGED <<disk, client, reads, saving, puts, action, actions, foreign>>

\* The files as they are when the last has been looked at are kept (history).
Scans(p) ==
  /\ download # None /\ download.scan = None /\ download.stat[p] = "unread"
  /\ LET stat == [download.stat EXCEPT ![p] = IF disk[p] = None THEN None ELSE "same"]
     IN Sends([download EXCEPT !.stat = stat,
                               !.scan = IF \E q \in Paths : stat[q] = "unread" THEN None ELSE disk])

IsUnchangedAnyway(p) == TRUE
IsUnchanged(p) == download.stat[p] = "same"

\* A file is opened, and read as the receiver takes the bytes.
Reads(p) ==
  /\ download # None /\ download.scan # None /\ download.path = None
  /\ download.stat[p] # None /\ download.archive[p] = None /\ IsUnchanged(p) /\ disk[p] # None
  /\ Sends([download EXCEPT !.path = p, !.text = disk[p]])

Zips ==
  /\ download # None /\ download.kind = "archive" /\ download.path # None /\ IsUnchanged(download.path)
  /\ Sends([download EXCEPT !.path = None, !.text = None, !.archive[download.path] = download.text])

\* The archive is complete.
Ends ==
  /\ download # None /\ download.scan # None /\ download.path = None
  /\ \A p \in Paths : download.stat[p] # None => download.archive[p] # None
  /\ Sends(None)

\* The receiver of a file has all its bytes before the last look at it; an
\* archive that is broken off has no end.
BreaksOff == download # None /\ Sends(None)

\* A change is seen by the next look, unless another file was put in the place
\* of one that is open.
Touched(p, inPlace) ==
  IF download = None \/ download.stat[p] # "same" \/ download.archive[p] # None \/ (download.path = p /\ ~inPlace)
  THEN UNCHANGED download
  ELSE download' = [download EXCEPT !.stat[p] = "changed", !.text = IF download.path = p THEN Torn ELSE @]

-----------------------------------------------------------------------------
(* The others: another page of the user, and the agent, which needs no     *)
(* lock and may replace a file that is being written.                      *)

Foreign == foreign < MaxForeign /\ foreign' = foreign + 1 /\ UNCHANGED <<client, reads, saving, action, actions>>

AnotherPage(p, t) ==
  /\ Unlocked /\ disk[p] \notin {t, None} /\ disk' = [disk EXCEPT ![p] = t]
  /\ Foreign /\ UNCHANGED <<puts, download>>

Agent(p, t, inPlace) ==
  /\ disk[p] # t /\ disk' = [disk EXCEPT ![p] = t]
  /\ puts' = [n \in Saves |->
       IF puts[n].stage \in {"checked", "truncated"} /\ puts[n].path = p /\ puts[n].mixed # "unlinked"
       THEN [puts[n] EXCEPT !.mixed = IF inPlace /\ t # None THEN "changed" ELSE "unlinked"]
       ELSE puts[n]]
  /\ Touched(p, inPlace /\ t # None)
  /\ Foreign

-----------------------------------------------------------------------------
Next ==
  \/ \E p \in Paths : Open(p)
  \/ Refresh
  \/ \E r \in reads : Answers(r) \/ ReadFails(r) \/ OpenTold(r) \/ RefreshTold(r) \/ ConflictTold(r)
  \/ \E t \in Texts : Type(t)
  \/ Discard \/ UseLatest \/ KeepDraft \/ Close \/ Preview \/ Leave \/ Save
  \/ \E n \in Saves : Check(n) \/ Truncate(n) \/ Write(n) \/ SaveFails(n)
                      \/ SaveTold(n) \/ SaveRefused(n) \/ GivesUp(n)
  \/ \E k \in {"new", "rename", "delete"}, p, q \in Paths : Begin(k, p, q)
  \/ Lists \/ Create \/ RenameChecks \/ Rename \/ Delete \/ ActionFails \/ ActionTold
  \/ \E p \in Paths : DownloadFile(p) \/ Scans(p) \/ Reads(p)
  \/ DownloadAll \/ Zips \/ Ends \/ BreaksOff
  \/ \E p \in Paths, t \in Texts : AnotherPage(p, t)
  \/ \E p \in Paths, t \in Texts \cup {None}, b \in BOOLEAN : Agent(p, t, b)

Spec == Init /\ [][Next]_vars

-----------------------------------------------------------------------------
\* The requests and the actions, as they are remembered.
ReadRecords == [why : {"open", "refresh", "conflict"}, path : Paths, answer : {"none"} \cup Contents]
PutRecords ==
  [stage : Stages, path : Paths \cup {None}, content : Contents \cup {None},
   expected : Contents \cup {None}, mixed : {"no", "changed", "unlinked"}]
ActionRecords ==
  [kind : {"new", "rename", "delete"}, path : Paths, to : Paths,
   stage : {"asked", "listed", "checked", "done"}, open : BOOLEAN]
DownloadRecords ==
  [kind : {"file", "archive"}, stat : [Paths -> {None, "unread", "same", "changed"}],
   scan : {None} \cup [Paths -> Contents \cup {None}], path : Paths \cup {None},
   text : Contents \cup {None}, archive : [Paths -> Contents \cup {None}]]

\* The types.  What the editor takes for saved is what its version stands for,
\* also when the user typed on while the save was under way; the page waits for
\* a save that was sent.
TypeOK ==
  /\ disk \in [Paths -> Contents \cup {None}]
  /\ editor \in {None} \cup Editors /\ (editor # None => editor.version = editor.original)
  /\ conflict \in {None} \cup Contents
  /\ reads \subseteq ReadRecords
  /\ saving \in 0..MaxSaves /\ (saving # 0 => puts[saving].stage # "none")
  /\ puts \in [Saves -> PutRecords]
  /\ \A n \in Saves : puts[n].mixed # "no" => puts[n].stage \in {"checked", "truncated", "ok"}
  /\ action \in {None} \cup ActionRecords
  /\ download \in {None} \cup DownloadRecords
  /\ actions \in 0..MaxActions /\ foreign \in 0..MaxForeign /\ seen \in [Paths -> SUBSET Contents]

\* A save replaces only what the page had shown as the content of that file,
\* in whatever order refreshes, refusals, renames and the saves of other pages
\* came: except what an agent writes between the check and the write.
NothingUnseenIsLost ==
  [][\A n \in Saves :
       puts[n].stage = "checked" /\ puts'[n].stage = "truncated" /\ puts[n].mixed = "no"
       => disk[puts[n].path] \in seen[puts[n].path]]_vars

\* A draft goes only by the user's own typing or choice, or because another file
\* was asked for or created; of the other answers, in any order, only that to
\* the deletion of a file that was open when it was asked for takes one away:
\* whatever is open, and was typed, by then.
DraftIsKept ==
  [][Dirty /\ (editor' = None \/ editor'.content # editor.content)
     => \/ Discard \/ UseLatest \/ Close \/ Preview \/ Leave \/ \E t \in Texts : Type(t)
        \/ \E r \in reads : OpenTold(r) \/ (r.why = "open" /\ ReadFails(r))
        \/ ActionTold /\ (action.kind = "new" \/ (action.kind = "delete" /\ action.open))]_vars

\* A save does not bring a file back that was renamed or deleted meanwhile:
\* files appear only because someone creates or renames one.
NoFileIsRevived ==
  [][\A p \in Paths : disk[p] = None /\ disk'[p] # None
       => foreign' # foreign \/ (action # None /\ p \in {action.path, action.to} /\ action.kind # "delete"
                                 /\ action'.stage = "done")]_vars

\* An archive that is complete holds its files as they were all at one moment,
\* the end of the scan, whatever the agent did while it was being sent.
ArchiveIsOfOneMoment ==
  [][Ends => \A p \in Paths : download.archive[p] \in {None, download.scan[p]}]_vars

-----------------------------------------------------------------------------
Alike == Permutations(Paths) \cup Permutations(Texts)   \* for TLC
=============================================================================
