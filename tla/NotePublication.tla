-------------------------- MODULE NotePublication --------------------------
(***************************************************************************)
(* One note and its publications: the rows of notes, note_revisions and    *)
(* assets that belong to it, the generated files, the API requests that    *)
(* publish, delete, restore, purge and revert it, and the browser tab that *)
(* edits it and publishes it by itself (auto_publish).                     *)
(*                                                                         *)
(* publishNote is no transaction: it is nine statements and service calls  *)
(* in a row with a catch block of three more, and nothing keeps two        *)
(* requests for one note apart. A pc names what a request does next.       *)
(***************************************************************************)
EXTENDS Naturals, FiniteSets

CONSTANTS
    Assets,       \* ids of assets the note's publications may create
    Requests,     \* API requests handled concurrently
    NoAsset,
    MaxTexts,     \* bound: number of different contents of the note
    MaxVersion,   \* bound: notes.version, that is edits and reverts
    MaxRevisions, \* bound: revisions of the note
    MaxFaults,    \* bound: number of injected faults
    Ops,          \* Ops[r] are the requests that r may be
    Faults        \* the kinds of fault that may strike

AllOps    == {"autoPublish", "publish", "delete", "restore", "purge", "revert"}
AllFaults == {"crash", "db", "gbrain", "library"}

ASSUME NoteAssumption ==
    /\ NoAsset \notin Assets
    /\ IsFiniteSet(Assets) /\ IsFiniteSet(Requests)
    /\ MaxTexts \in Nat \ {0}
    /\ MaxVersion \in Nat \ {0}
    /\ MaxRevisions \in Nat
    /\ MaxFaults \in Nat
    /\ Ops \in [Requests -> SUBSET AllOps]
    /\ Faults \subseteq AllFaults

VARIABLES
    note,      \* the row of notes
    revision,  \* note_revisions: the text of each version, or 0
    asset,     \* rows of assets
    files,     \* generated Markdown files on storage
    request,   \* the API requests
    tab,       \* the tab's copy of the note: its version and sync_status
    strayed,   \* the last 'synced' was written over an unpublished text (history)
    faults     \* faults injected so far

vars == <<note, revision, asset, files, request, tab, strayed, faults>>
rows == <<note, revision, asset>>

Texts    == 1 .. MaxTexts
Revisions == 1 .. MaxRevisions

\* names for files: more than rows and requests can refer to
Files == 1 .. (Cardinality(Assets) + 2 * Cardinality(Requests) + 1)

Publishing == {"stage", "update", "insert", "index", "ready", "revise", "mark",
               "tags", "clean"}
Catching   == {"failNote", "failNoteOnly", "failAsset", "dropFile"}
Others     == {"trash", "deleteNote", "untrash", "reindex", "reready", "retrash",
               "activate", "purgeTrash", "purgeAsset", "purgeNote", "revert"}

NoNote    == [status |-> "none", version |-> 0, text |-> 0, published |-> 0, hash |-> 0,
              asset |-> NoAsset, sync |-> "pending"]
NoRow     == [status |-> "none", trashed |-> FALSE, text |-> 0, shown |-> 0, file |-> 0]
NoRequest == [pc |-> "idle", tab |-> FALSE, text |-> 0, base |-> 0, asset |-> NoAsset,
              file |-> 0, prev |-> 0]

NoteType    == [status : {"none", "active", "deleted", "purged"},
                version : Nat, text : 0 .. MaxTexts,
                published : 0 .. MaxRevisions, hash : 0 .. MaxTexts,
                asset : Assets \cup {NoAsset}, sync : {"pending", "synced", "failed"}]
AssetType   == [status : {"none", "indexing", "ready", "failed", "deleted"},
                trashed : BOOLEAN, text : 0 .. MaxTexts, shown : 0 .. MaxTexts,
                file : Files \cup {0}]
RequestType == [pc : {"idle"} \cup Publishing \cup Catching \cup Others, tab : BOOLEAN,
                text : 0 .. MaxTexts, base : Nat,
                asset : Assets \cup {NoAsset}, file : Files \cup {0}, prev : Files \cup {0}]
TabType     == [sync : {"none", "pending", "synced", "failed"}, version : Nat]

\* Every variable has its type: statuses are those the tables allow.
TypeOK ==
    /\ note \in NoteType
    /\ revision \in [Revisions -> 0 .. MaxTexts]
    /\ asset \in [Assets -> AssetType]
    /\ files \in SUBSET Files
    /\ request \in [Requests -> RequestType]
    /\ tab \in TabType
    /\ strayed \in BOOLEAN
    /\ faults \in 0 .. MaxFaults

Init ==
    /\ note = NoNote
    /\ revision = [v \in Revisions |-> 0]
    /\ asset = [a \in Assets |-> NoRow]
    /\ files = {}
    /\ request = [r \in Requests |-> NoRequest]
    /\ tab = [sync |-> "none", version |-> 0]
    /\ strayed = FALSE
    /\ faults = 0

-----------------------------------------------------------------------------
(* Shared vocabulary *)

Strike(kind) == /\ kind \in Faults
                /\ faults < MaxFaults
                /\ faults' = faults + 1

NoteExists == note.status \in {"active", "deleted"}
HasRow(a)  == a # NoAsset /\ asset[a].status # "none"
Live(a)    == HasRow(a) /\ ~asset[a].trashed

\* idx_assets_dedupe: another live row holds a file of this text
Duplicate(a, t) == \E b \in Assets : b # a /\ Live(b) /\ asset[b].text = t

\* "update notes .. where id", "update assets .. where id": no row, no change
SetNote(n)     == note' = IF NoteExists THEN n ELSE note
SetAsset(a, x) == asset' = IF HasRow(a) THEN [asset EXCEPT ![a] = x] ELSE asset

Goto(r, pc) == request' = [request EXCEPT ![r].pc = pc]
Leave(r)    == request' = [request EXCEPT ![r] = NoRequest]

Named(f) == \/ \E a \in Assets : asset[a].file = f
            \/ \E r \in Requests : f \in {request[r].file, request[r].prev}
NewFile == CHOOSE f \in Files : ~Named(f)
NewAsset == CHOOSE a \in Assets : asset[a].status = "none"

\* asset ids that a publication may still need
Unused == {a \in Assets : asset[a].status = "none"}
Inserting == {r \in Requests : request[r].pc \in {"stage", "update", "insert"}}

\* the note is in the knowledge base as it is written
Served(a) == /\ Live(a)
             /\ asset[a].status = "ready"
             /\ asset[a].shown = note.text
             /\ asset[a].file \in files

-----------------------------------------------------------------------------
(* The tab: frontend/src/features/notes/NotesPage.tsx *)

Create ==
    /\ note.status = "none"
    /\ note' = [NoNote EXCEPT !.status = "active", !.version = 1, !.text = 1]
    /\ tab' = [sync |-> "pending", version |-> 1]
    /\ UNCHANGED <<revision, asset, files, request, strayed, faults>>

\* versions that reverts under way will use up
Reverting == Cardinality({r \in Requests : request[r].pc = "revert"})

\* Mutant of Edit: sync_status is left as it is.
EditStillSynced(t) ==
    /\ note.status = "active"
    /\ tab.version = note.version
    /\ note.version + Reverting < MaxVersion
    /\ note' = [note EXCEPT !.text = t, !.version = @ + 1]
    /\ tab' = [sync |-> note.sync, version |-> note.version + 1]
    /\ UNCHANGED <<revision, asset, files, request, strayed, faults>>

\* updateNote; with an old expectedVersion it changes nothing.
Edit(t) ==
    /\ note.status = "active"
    /\ tab.version = note.version
    /\ note.version + Reverting < MaxVersion
    /\ note' = [note EXCEPT !.text = t, !.version = @ + 1, !.sync = "pending"]
    /\ tab' = [sync |-> "pending", version |-> note.version + 1]
    /\ UNCHANGED <<revision, asset, files, request, strayed, faults>>

\* The list is loaded again, and the note with it.
Reload ==
    /\ note.status = "active"
    /\ tab' = [sync |-> note.sync, version |-> note.version]
    /\ UNCHANGED <<rows, files, request, strayed, faults>>

-----------------------------------------------------------------------------
(* publishNote *)

\* Mutant of Unchanged: published_asset_id is not asked for.
UnchangedText == note.hash = note.text

\* The text is the published one, and there is, or was, an asset.
Unchanged == note.hash = note.text /\ note.asset # NoAsset

\* The row is read and a new file written, unless the text is unchanged; the tab
\* asks when its copy has been 'pending' for 45 seconds, anybody else at any time.
\* Files that nothing names any more are forgotten here.
Publish(r, byTab) ==
    /\ request[r].pc = "idle"
    /\ note.status = "active"
    /\ IF byTab THEN /\ "autoPublish" \in Ops[r]
                     /\ tab.sync = "pending"
                     /\ ~\E q \in Requests : request[q].tab
                ELSE "publish" \in Ops[r]
    /\ Cardinality(Inserting) < Cardinality(Unused)
    /\ IF Unchanged
       THEN /\ tab' = IF byTab THEN [sync |-> note.sync, version |-> note.version] ELSE tab
            /\ UNCHANGED <<files, request>>
       ELSE /\ note.published < MaxRevisions
            /\ files' = {f \in files : Named(f)} \cup {NewFile}
            /\ request' = [request EXCEPT ![r] =
                 [pc |-> "stage", tab |-> byTab, text |-> note.text, base |-> note.published,
                  asset |-> note.asset, file |-> NewFile, prev |-> 0]]
            /\ UNCHANGED tab
    /\ UNCHANGED <<rows, strayed, faults>>

\* stagePublishedAsset looks for a live asset of the note ..
Stage(r) ==
    /\ request[r].pc = "stage"
    /\ LET a == request[r].asset IN
       request' = [request EXCEPT ![r] =
                     IF Live(a) THEN [@ EXCEPT !.pc = "update", !.prev = asset[a].file]
                                ELSE [@ EXCEPT !.pc = "insert", !.asset = NoAsset]]
    /\ UNCHANGED <<rows, files, tab, strayed, faults>>

\* .. and lets it name the new file, where it is still there ..
Update(r) ==
    /\ request[r].pc = "update"
    /\ LET a == request[r].asset
           q == request[r]
       IN IF ~HasRow(a) THEN Goto(r, "failNoteOnly") /\ UNCHANGED asset
          ELSE IF Live(a) /\ Duplicate(a, q.text)
          THEN /\ request' = [request EXCEPT ![r] = [@ EXCEPT !.pc = "failNote", !.asset = NoAsset]]
               /\ UNCHANGED asset
          ELSE /\ SetAsset(a, [asset[a] EXCEPT !.status = "indexing", !.text = q.text,
                                               !.file = q.file])
               /\ Goto(r, "index")
    /\ UNCHANGED <<note, revision, files, tab, strayed, faults>>

\* .. or inserts a row.
Insert(r) ==
    /\ request[r].pc = "insert"
    /\ Unused # {}
    /\ LET q == request[r] IN
       IF Duplicate(NoAsset, q.text)
       THEN Goto(r, "failNote") /\ UNCHANGED asset
       ELSE /\ asset' = [asset EXCEPT ![NewAsset] =
                           [status |-> "indexing", trashed |-> FALSE, text |-> q.text,
                            shown |-> 0, file |-> q.file]]
            /\ request' = [request EXCEPT ![r] = [@ EXCEPT !.pc = "index", !.asset = NewAsset]]
    /\ UNCHANGED <<note, revision, files, tab, strayed, faults>>

\* indexKnowledgeAsset, of a publication or a restore: the chunks hold the text, or
\* it fails, before or after they are written.
Index(r) ==
    /\ request[r].pc \in {"index", "reindex"}
    /\ LET a == request[r].asset
           done == request[r].pc = "index"
           write == SetAsset(a, [asset[a] EXCEPT !.shown = request[r].text])
       IN \/ HasRow(a) /\ write /\ Goto(r, IF done THEN "ready" ELSE "reready") /\ UNCHANGED faults
          \/ /\ Goto(r, IF done THEN "failNote" ELSE "retrash")
             /\ IF HasRow(a) THEN (write \/ UNCHANGED asset) /\ Strike("gbrain")
                             ELSE UNCHANGED <<asset, faults>>
    /\ UNCHANGED <<note, revision, files, tab, strayed>>

\* The asset is ready; a row that is gone is found out by the next statement.
MarkReady(r) ==
    /\ request[r].pc \in {"ready", "reready"}
    /\ LET a == request[r].asset IN
       /\ SetAsset(a, [asset[a] EXCEPT !.status = "ready"])
       /\ Goto(r, IF request[r].pc = "reready" THEN "activate"
                  ELSE IF HasRow(a) THEN "revise" ELSE "failNote")
    /\ UNCHANGED <<note, revision, files, tab, strayed, faults>>

\* Mutant of Revise: without unique(note_id, version).
ReviseAnyway(r) ==
    /\ request[r].pc = "revise"
    /\ LET v == request[r].base + 1 IN
       IF NoteExists /\ HasRow(request[r].asset)
       THEN revision' = [revision EXCEPT ![v] = request[r].text] /\ Goto(r, "mark")
       ELSE Goto(r, "failNote") /\ UNCHANGED revision
    /\ UNCHANGED <<note, asset, files, tab, strayed, faults>>

\* The revision gets the next number; unique(note_id, version) and the foreign keys
\* may refuse it.
Revise(r) ==
    /\ request[r].pc = "revise"
    /\ LET v == request[r].base + 1 IN
       IF NoteExists /\ HasRow(request[r].asset) /\ revision[v] = 0
       THEN revision' = [revision EXCEPT ![v] = request[r].text] /\ Goto(r, "mark")
       ELSE Goto(r, "failNote") /\ UNCHANGED revision
    /\ UNCHANGED <<note, asset, files, tab, strayed, faults>>

\* The note is published, and 'synced' whatever it has become in the meantime.
Mark(r) ==
    /\ request[r].pc = "mark"
    /\ LET q == request[r] IN
       IF NoteExists /\ ~HasRow(q.asset)
       THEN Goto(r, "failNote") /\ UNCHANGED <<note, strayed>>
       ELSE /\ SetNote([note EXCEPT !.asset = q.asset, !.published = q.base + 1,
                                    !.hash = q.text, !.sync = "synced"])
            /\ strayed' = IF NoteExists THEN note.text # q.text ELSE strayed
            /\ request' = [request EXCEPT ![r] = [@ EXCEPT !.pc = "tags", !.base = note.version]]
    /\ UNCHANGED <<revision, asset, files, tab, faults>>

\* syncTags and the timeline entry, both at GBrain
Tags(r) ==
    /\ request[r].pc = "tags"
    /\ \/ Goto(r, "clean") /\ UNCHANGED faults
       \/ Goto(r, "failNote") /\ Strike("gbrain")
    /\ UNCHANGED <<rows, files, tab, strayed>>

\* Mutant of Clean: the file just written is removed.
CleanNew(r) ==
    /\ request[r].pc = "clean"
    /\ files' = files \ {request[r].file}
    /\ Leave(r)
    /\ tab' = IF request[r].tab THEN [sync |-> "synced", version |-> request[r].base] ELSE tab
    /\ UNCHANGED <<rows, strayed, faults>>

\* The file of the version before is removed; a tab that asked takes over the row
\* as it was when it was marked.
Clean(r) ==
    /\ request[r].pc = "clean"
    /\ files' = files \ {request[r].prev}
    /\ Leave(r)
    /\ tab' = IF request[r].tab THEN [sync |-> "synced", version |-> request[r].base] ELSE tab
    /\ UNCHANGED <<rows, strayed, faults>>

\* The catch block: the note has failed, ..
FailNote(r) ==
    /\ request[r].pc \in {"failNote", "failNoteOnly"}
    /\ SetNote([note EXCEPT !.sync = "failed"])
    /\ IF request[r].pc = "failNoteOnly" THEN Leave(r)
       ELSE Goto(r, IF request[r].asset = NoAsset THEN "dropFile" ELSE "failAsset")
    /\ UNCHANGED <<revision, asset, files, tab, strayed, faults>>

\* Mutant of FailAsset: a status that the table does not know.
FailAssetUnknown(r) ==
    /\ request[r].pc = "failAsset"
    /\ LET a == request[r].asset IN SetAsset(a, [asset[a] EXCEPT !.status = "error"])
    /\ Goto(r, "dropFile")
    /\ UNCHANGED <<note, revision, files, tab, strayed, faults>>

\* .. so has its asset ..
FailAsset(r) ==
    /\ request[r].pc = "failAsset"
    /\ LET a == request[r].asset IN SetAsset(a, [asset[a] EXCEPT !.status = "failed"])
    /\ Goto(r, "dropFile")
    /\ UNCHANGED <<note, revision, files, tab, strayed, faults>>

\* .. and the new file is removed, although the row names it.
DropFile(r) ==
    /\ request[r].pc = "dropFile"
    /\ files' = files \ {request[r].file}
    /\ Leave(r)
    /\ UNCHANGED <<rows, tab, strayed, faults>>

-----------------------------------------------------------------------------
(* deleteNote, restoreNote, purgeNote and revertNote *)

\* a request that has read the note
Started(pc, a, t) == [NoRequest EXCEPT !.pc = pc, !.asset = a, !.text = t]

Delete(r) ==
    /\ request[r].pc = "idle"
    /\ "delete" \in Ops[r]
    /\ note.status = "active"
    /\ request' = [request EXCEPT ![r] =
                     Started(IF Live(note.asset) THEN "trash" ELSE "deleteNote", note.asset, 0)]
    /\ UNCHANGED <<rows, files, tab, strayed, faults>>

\* deleteKnowledgeAsset: the page at GBrain first, then one transaction
Trash(r) ==
    /\ request[r].pc \in {"trash", "purgeTrash"}
    /\ LET a == request[r].asset IN
       \/ /\ SetAsset(a, [asset[a] EXCEPT !.status = "deleted", !.trashed = TRUE, !.shown = 0])
          /\ Goto(r, IF request[r].pc = "trash" THEN "deleteNote" ELSE "purgeAsset")
          /\ UNCHANGED faults
       \/ Leave(r) /\ Strike("gbrain") /\ UNCHANGED asset
    /\ UNCHANGED <<note, revision, files, tab, strayed>>

DeleteNote(r) ==
    /\ request[r].pc = "deleteNote"
    /\ SetNote([note EXCEPT !.status = "deleted", !.sync = "synced"])
    /\ Leave(r)
    /\ UNCHANGED <<revision, asset, files, tab, strayed, faults>>

\* The trash is not asked for: an active note may be restored as well.
Restore(r) ==
    /\ request[r].pc = "idle"
    /\ "restore" \in Ops[r]
    /\ NoteExists
    /\ request' = [request EXCEPT ![r] =
                     Started(IF HasRow(note.asset) /\ ~Live(note.asset)
                             THEN "untrash" ELSE "activate", note.asset, note.text)]
    /\ UNCHANGED <<rows, files, tab, strayed, faults>>

\* The row comes back, to be indexed with the draft; the unique index may refuse it.
Untrash(r) ==
    /\ request[r].pc = "untrash"
    /\ LET a == request[r].asset IN
       IF HasRow(a) /\ ~Duplicate(a, asset[a].text)
       THEN /\ SetAsset(a, [asset[a] EXCEPT !.status = "indexing", !.trashed = FALSE])
            /\ Goto(r, "reindex")
       ELSE Leave(r) /\ UNCHANGED asset
    /\ UNCHANGED <<note, revision, files, tab, strayed, faults>>

Retrash(r) ==
    /\ request[r].pc = "retrash"
    /\ LET a == request[r].asset IN
       SetAsset(a, [asset[a] EXCEPT !.status = "deleted", !.trashed = TRUE])
    /\ Leave(r)
    /\ UNCHANGED <<note, revision, files, tab, strayed, faults>>

Activate(r) ==
    /\ request[r].pc = "activate"
    /\ SetNote([note EXCEPT !.status = "active", !.sync = "synced"])
    /\ strayed' = IF NoteExists THEN note.hash # note.text ELSE strayed
    /\ Leave(r)
    /\ UNCHANGED <<revision, asset, files, tab, faults>>

Purge(r) ==
    /\ request[r].pc = "idle"
    /\ "purge" \in Ops[r]
    /\ note.status = "deleted"
    /\ LET a == note.asset IN
       request' = [request EXCEPT ![r] =
                     Started(IF Live(a) THEN "purgeTrash"
                             ELSE IF HasRow(a) THEN "purgeAsset" ELSE "purgeNote", a, 0)]
    /\ UNCHANGED <<rows, files, tab, strayed, faults>>

\* purgeKnowledgeAsset: the row, the references to it, and the file it names
PurgeAsset(r) ==
    /\ request[r].pc = "purgeAsset"
    /\ LET a == request[r].asset IN
       IF HasRow(a)
       THEN /\ asset' = [asset EXCEPT ![a] = NoRow]
            /\ note' = IF note.asset = a THEN [note EXCEPT !.asset = NoAsset] ELSE note
            /\ files' = files \ {asset[a].file}
       ELSE UNCHANGED <<asset, note, files>>
    /\ Goto(r, "purgeNote")
    /\ UNCHANGED <<revision, tab, strayed, faults>>

\* The note goes, where it is still in the trash, and its revisions with it.
PurgeNote(r) ==
    /\ request[r].pc = "purgeNote"
    /\ IF note.status = "deleted"
       THEN /\ note' = [note EXCEPT !.status = "purged", !.asset = NoAsset]
            /\ revision' = [v \in Revisions |-> 0]
       ELSE UNCHANGED <<note, revision>>
    /\ Leave(r)
    /\ UNCHANGED <<asset, files, tab, strayed, faults>>

\* GBrain goes back to a version it holds, and is asked for its text.
Revert(r) ==
    /\ request[r].pc = "idle"
    /\ "revert" \in Ops[r]
    /\ note.status = "active"
    /\ note.version + Reverting < MaxVersion
    /\ \E v \in Revisions :
          /\ revision[v] # 0
          /\ request' = [request EXCEPT ![r] = Started("revert", NoAsset, revision[v])]
    /\ UNCHANGED <<rows, files, tab, strayed, faults>>

\* The text is written by id, whatever has been saved in between.
RevertNote(r) ==
    /\ request[r].pc = "revert"
    /\ SetNote([note EXCEPT !.text = request[r].text, !.version = @ + 1, !.sync = "synced"])
    /\ strayed' = IF NoteExists THEN note.hash # request[r].text ELSE strayed
    /\ Leave(r)
    /\ UNCHANGED <<revision, asset, files, tab, faults>>

-----------------------------------------------------------------------------
(* Faults *)

\* The database refuses a statement: a publication goes to its catch block, with
\* the asset it has staged; everything else ends where it is.
Throws(r) ==
    /\ request[r].pc \in Publishing \cup Catching \cup Others
    /\ Strike("db")
    /\ IF request[r].pc \in Publishing
       THEN request' = [request EXCEPT ![r] = [@ EXCEPT !.pc = "failNote",
                          !.asset = IF request[r].pc \in {"stage", "update", "insert"}
                                    THEN NoAsset ELSE request[r].asset]]
       ELSE IF request[r].pc \in {"reindex", "reready"} THEN Goto(r, "retrash")
       ELSE Leave(r)
    /\ files' = IF request[r].pc = "clean" THEN files \ {request[r].prev} ELSE files
    /\ UNCHANGED <<rows, tab, strayed>>

\* The API process dies, and all its requests with it.
Crash ==
    /\ \E r \in Requests : request[r].pc # "idle"
    /\ Strike("crash")
    /\ request' = [r \in Requests |-> NoRequest]
    /\ UNCHANGED <<rows, files, tab, strayed>>

\* Somebody trashes the note's asset in the library.
LibraryTrash ==
    /\ Live(note.asset)
    /\ Strike("library")
    /\ asset' = [asset EXCEPT ![note.asset] =
                   [@ EXCEPT !.status = "deleted", !.trashed = TRUE, !.shown = 0]]
    /\ UNCHANGED <<note, revision, files, request, tab, strayed>>

-----------------------------------------------------------------------------
Step(r) ==
    \/ Stage(r) \/ Update(r) \/ Insert(r) \/ Index(r) \/ MarkReady(r) \/ Revise(r)
    \/ Mark(r) \/ Tags(r) \/ Clean(r) \/ FailNote(r) \/ FailAsset(r) \/ DropFile(r)
    \/ Trash(r) \/ DeleteNote(r) \/ Untrash(r) \/ Retrash(r) \/ Activate(r)
    \/ PurgeAsset(r) \/ PurgeNote(r) \/ RevertNote(r)

Call(r) == Delete(r) \/ Restore(r) \/ Purge(r) \/ Revert(r)

Next ==
    \/ Create \/ Reload \/ Crash \/ LibraryTrash
    \/ \E t \in Texts : Edit(t)
    \/ \E r \in Requests : \/ \E byTab \in BOOLEAN : Publish(r, byTab)
                           \/ Call(r) \/ Step(r) \/ Throws(r)

Spec == Init /\ [][Next]_vars

\* A request goes on, and the tab's timer fires for as long as the tab is open.
LiveSpec == /\ Spec
            /\ WF_vars(\E r \in Requests : Publish(r, TRUE))
            /\ \A r \in Requests : WF_vars(Step(r))

-----------------------------------------------------------------------------
(* Properties *)

\* a revision whose publication ended before the note was marked
Numbered == revision[note.published + 1] # 0

\* an asset of a publication that failed, which keeps another of the same text out
Orphaned == Duplicate(note.asset, note.text)

\* the shortcut of publishNote does not look at the asset
Shadowed == note.hash = note.text /\ HasRow(note.asset) /\ ~Served(note.asset)

\* the model has run out of revisions or asset ids
AtBound == note.published = MaxRevisions \/ Unused = {}

\* The tab publishes what is written: a draft that the tab has saved and left alone
\* becomes a version that is served, through failures, crashes and other requests,
\* except that three states make every further attempt fail or end as 'unchanged',
\* and that the tab has been told something else.
Republished ==
    []<>(\/ note.status # "active"
         \/ note.hash = note.text /\ Served(note.asset)
         \/ AtBound \/ Numbered
         \/ Orphaned \/ Shadowed
         \/ tab.sync # "pending")

\* The revisions of a note are numbered without a gap and the published version is
\* the last of them, or the one before while a publication is between its two
\* statements or has ended there.
HistoryIsWhole ==
    NoteExists =>
        /\ \A v \in Revisions : v =< note.published => revision[v] # 0
        /\ \A v \in Revisions : v > note.published + 1 => revision[v] = 0
        /\ note.published # 0 => revision[note.published] = note.hash

\* A file that a row names goes only in the catch block of the publication that
\* wrote it: no publication that succeeds, and no purge, takes a file in use.
FilesKept ==
    [][\A a \in Assets :
         HasRow(a) /\ asset[a].file \in files /\ HasRow(a)' /\ asset'[a].file \notin files' =>
            \E r \in Requests : /\ request[r].pc = "dropFile"
                                /\ request[r].file = asset[a].file]_vars

\* A note that says 'synced' has its text published, unless what said so last was a
\* publication of an older text, a revert, or a restore of a draft.
SyncedIsPublished ==
    note.status = "active" /\ note.sync = "synced" /\ ~strayed => note.hash = note.text
=============================================================================
