------------------------ MODULE NotePublicationProofs ------------------------
(* What TLAPS proves of NotePublication, for any number of requests, assets, *)
(* texts and revisions.                                                      *)
EXTENDS NotePublication, FiniteSetTheorems, TLAPS

-----------------------------------------------------------------------------
(* There is always a name for a new file.                                     *)

\* A set of values of a function on a finite set is no larger than the set.
LEMMA ValuesFew ==
  ASSUME NEW S, IsFiniteSet(S), NEW f, f = [x \in S |-> f[x]]
  PROVE  /\ IsFiniteSet({f[x] : x \in S})
         /\ Cardinality({f[x] : x \in S}) <= Cardinality(S)
  <1> DEFINE T == {f[x] : x \in S}
  <1>1. f \in Surjection(S, T)
    BY DEF Surjection
  <1> QED BY <1>1, FS_Surjection

LEMMA UnionFew ==
  ASSUME NEW S, IsFiniteSet(S), NEW T, IsFiniteSet(T)
  PROVE  /\ IsFiniteSet(S \cup T)
         /\ Cardinality(S \cup T) <= Cardinality(S) + Cardinality(T)
  <1>1. IsFiniteSet(S \cap T)
    BY FS_Subset
  <1>2. Cardinality(S) \in Nat /\ Cardinality(T) \in Nat /\ Cardinality(S \cap T) \in Nat
    BY <1>1, FS_CardinalityType
  <1>3. IsFiniteSet(S \cup T)
        /\ Cardinality(S \cup T) = Cardinality(S) + Cardinality(T) - Cardinality(S \cap T)
    BY FS_Union
  <1> QED BY <1>2, <1>3

\* Rows and requests name fewer files than there are names.
LEMMA NewFileIsNew == NewFile \in Files /\ ~Named(NewFile)
  <1> DEFINE f == [a \in Assets |-> asset[a].file]
             g == [r \in Requests |-> request[r].file]
             h == [r \in Requests |-> request[r].prev]
             F == {f[a] : a \in Assets}
             G == {g[r] : r \in Requests}
             H == {h[r] : r \in Requests}
  <1>0. IsFiniteSet(Assets) /\ IsFiniteSet(Requests)
        /\ Cardinality(Assets) \in Nat /\ Cardinality(Requests) \in Nat
    BY NoteAssumption, FS_CardinalityType
  <1>1. /\ IsFiniteSet(F) /\ Cardinality(F) <= Cardinality(Assets)
        /\ IsFiniteSet(G) /\ Cardinality(G) <= Cardinality(Requests)
        /\ IsFiniteSet(H) /\ Cardinality(H) <= Cardinality(Requests)
    <2>1. f = [x \in Assets |-> f[x]] /\ g = [x \in Requests |-> g[x]]
          /\ h = [x \in Requests |-> h[x]]
      OBVIOUS
    <2> HIDE DEF f, g, h
    <2> QED BY <1>0, <2>1, ValuesFew
  <1>2. \A x : x \in F \cup G \cup H <=> Named(x)
    BY DEF Named
  <1> HIDE DEF F, G, H
  <1>3. IsFiniteSet(F \cup G) /\ Cardinality(F \cup G) <= Cardinality(F) + Cardinality(G)
    BY <1>1, UnionFew
  <1>4. IsFiniteSet(F \cup G \cup H)
        /\ Cardinality(F \cup G \cup H) <= Cardinality(F \cup G) + Cardinality(H)
    BY <1>1, <1>3, UnionFew
  <1>5. /\ Cardinality(F) \in Nat /\ Cardinality(G) \in Nat /\ Cardinality(H) \in Nat
        /\ Cardinality(F \cup G) \in Nat /\ Cardinality(F \cup G \cup H) \in Nat
    BY <1>1, <1>3, <1>4, FS_CardinalityType
  <1>6. IsFiniteSet(Files)
        /\ Cardinality(Files) = Cardinality(Assets) + 2 * Cardinality(Requests) + 1
    <2> DEFINE n == Cardinality(Assets) + 2 * Cardinality(Requests) + 1
    <2>1. n \in Nat /\ n >= 1
      BY <1>0
    <2>2. Files = 1 .. n
      BY DEF Files
    <2> HIDE DEF n
    <2>3. IsFiniteSet(1 .. n) /\ Cardinality(1 .. n) = n
      BY <2>1, FS_Interval
    <2>4. IsFiniteSet(Files) /\ Cardinality(Files) = n
      BY <2>2, <2>3
    <2> QED BY <2>4 DEF n
  <1>7. ~(Files \subseteq F \cup G \cup H)
    <2> SUFFICES ASSUME Files \subseteq F \cup G \cup H PROVE FALSE
      OBVIOUS
    <2>1. Cardinality(Files) <= Cardinality(F \cup G \cup H)
      BY <1>4, FS_Subset
    <2> QED BY <1>0, <1>1, <1>3, <1>4, <1>5, <1>6, <2>1
  <1>8. \E x \in Files : ~Named(x)
    BY <1>2, <1>7
  <1> QED BY <1>8 DEF NewFile
-----------------------------------------------------------------------------
(* Types, and what a request carries. *)

NoteTyped     == note \in NoteType
RevisionTyped == revision \in [Revisions -> 0 .. MaxTexts]
AssetsTyped   == asset \in [Assets -> AssetType]
FilesTyped    == files \in SUBSET Files
RestTyped     == tab \in TabType /\ strayed \in BOOLEAN /\ faults \in 0 .. MaxFaults

\* up to the statement that marks the note
Numbering == {"stage", "update", "insert", "index", "ready", "revise", "mark"}

\* A request that will number a revision has room for it and a text; so has a revert.
Sound == {q \in RequestType : /\ q.pc \in Numbering => q.base < MaxRevisions /\ q.text # 0
                              /\ q.pc = "revert" => q.text # 0}

NoteWritten   == NoteExists => note.text # 0
RequestsSound == request \in [Requests -> Sound]

TInv == /\ NoteTyped /\ RevisionTyped /\ AssetsTyped /\ FilesTyped /\ RestTyped
        /\ NoteWritten /\ RequestsSound

USE DEF rows

LEMMA SoundTyped == RequestsSound => request \in [Requests -> RequestType]
  BY DEF RequestsSound, Sound

LEMMA Types == TInv => TypeOK
  BY SoundTyped DEF TInv, TypeOK, NoteTyped, RevisionTyped, AssetsTyped, FilesTyped, RestTyped

-----------------------------------------------------------------------------
(* What a step does to the requests, the rows' files and the files.           *)

\* Before a publication names its file, and from then to its end.
Unnamed == {"stage", "update", "insert"}
Late    == {"index", "ready", "revise", "mark", "tags", "clean"}

SameFiles == \A a \in Assets : asset'[a].file = asset[a].file

\* a request r goes on to be q
Becomes(r, q) == q \in Sound /\ request' = [request EXCEPT ![r] = q]

\* A new publication writes its file.
Begins(r) ==
    /\ files' = {f \in files : Named(f)} \cup {NewFile}
    /\ SameFiles
    /\ \E q : Becomes(r, q) /\ q.pc = "stage" /\ q.file = NewFile /\ q.prev = 0

\* It finds what it will update, and with it the file of the version before.
Looks(r) ==
    /\ request[r].pc = "stage"
    /\ SameFiles /\ files' = files
    /\ \E q : /\ Becomes(r, q)
              /\ q.file = request[r].file
              /\ \/ q.pc = "update" /\ q.asset \in Assets /\ q.prev = asset[q.asset].file
                 \/ q.pc = "insert" /\ q.prev = request[r].prev

\* Its asset a names the new file.
Names(r, a) ==
    /\ \/ request[r].pc = "update" /\ a = request[r].asset
       \/ request[r].pc = "insert"
    /\ \E x \in AssetType : x.file = request[r].file /\ asset' = [asset EXCEPT ![a] = x]
    /\ \E q : /\ Becomes(r, q)
              /\ q.pc = "index" /\ q.file = request[r].file /\ q.prev = request[r].prev
    /\ files' = files

\* It goes on with the files it has; the file before is removed at the end.
Onward(r) ==
    /\ SameFiles
    /\ \/ files' = files
       \/ request[r].pc = "clean" /\ files' = files \ {request[r].prev}
    /\ \E q : /\ Becomes(r, q)
              /\ q.file = request[r].file /\ q.prev = request[r].prev
              /\ q.pc \notin Unnamed
              /\ q.pc \in Late => request[r].pc \in Late

\* A request without files begins, or a request ends.
Plain(r) ==
    /\ SameFiles
    /\ \/ files' = files
       \/ request[r].pc = "clean" /\ files' = files \ {request[r].prev}
       \/ request[r].pc = "dropFile" /\ files' = files \ {request[r].file}
    /\ \E q : Becomes(r, q) /\ q.file = 0 /\ q.prev = 0 /\ q.pc \notin Unnamed \cup Late

\* A row goes, and the file it names.
Removes(r, a) ==
    /\ asset' = [asset EXCEPT ![a] = NoRow]
    /\ files' = files \ {asset[a].file}
    /\ \E q : /\ Becomes(r, q)
              /\ q.file = request[r].file /\ q.prev = request[r].prev
              /\ q.pc \notin Unnamed \cup Late

Idles == request' = request /\ SameFiles /\ files' = files
Dies  == request' = [r \in Requests |-> NoRequest] /\ SameFiles /\ files' = files

Moves(r) == \/ Begins(r) \/ Looks(r) \/ Onward(r) \/ Plain(r)
            \/ \E a \in Assets : Names(r, a) \/ Removes(r, a)

FileStep == Idles \/ Dies \/ \E r \in Requests : Moves(r)

-----------------------------------------------------------------------------
(* The ways a step writes request and asset. *)

LEMMA GotoGoes ==
  ASSUME RequestsSound, NEW r \in Requests, NEW pc, Goto(r, pc),
         pc \in {"idle"} \cup Publishing \cup Catching \cup Others,
         pc \in Numbering => request[r].pc \in Numbering,
         pc # "revert"
  PROVE  \E q : /\ Becomes(r, q) /\ q.pc = pc
                /\ q.file = request[r].file /\ q.prev = request[r].prev
                /\ q.asset = request[r].asset /\ q.text = request[r].text
                /\ q.base = request[r].base
  <1> DEFINE q == [request[r] EXCEPT !.pc = pc]
  <1>1. request' = [request EXCEPT ![r] = q]
    BY DEF Goto
  <1>2. /\ q \in RequestType /\ q.pc = pc
        /\ q.file = request[r].file /\ q.prev = request[r].prev
        /\ q.asset = request[r].asset /\ q.text = request[r].text
        /\ q.base = request[r].base
    BY SoundTyped DEF RequestType
  <1>3. request[r] \in Sound
    BY DEF RequestsSound
  <1> HIDE DEF q
  <1>4. q \in Sound
    BY <1>2, <1>3 DEF Sound
  <1> QED BY <1>1, <1>2, <1>4 DEF Becomes

LEMMA LeaveGoes ==
  ASSUME NoteAssumption, NEW r \in Requests, Leave(r)
  PROVE  \E q : Becomes(r, q) /\ q.pc = "idle" /\ q.file = 0 /\ q.prev = 0
  <1>1. NoRequest \in Sound
    <2>1. NoRequest \in RequestType
      BY NoteAssumption DEF NoRequest, RequestType
    <2>2. NoRequest.pc = "idle"
      BY DEF NoRequest
    <2> QED BY <2>1, <2>2 DEF Sound, Numbering
  <1>2. Becomes(r, NoRequest)
    BY <1>1 DEF Leave, Becomes
  <1>3. NoRequest.pc = "idle" /\ NoRequest.file = 0 /\ NoRequest.prev = 0
    BY DEF NoRequest
  <1> QED BY <1>2, <1>3

\* A row is written, if it is there, without a change of its file.
LEMMA RowWritten ==
  ASSUME AssetsTyped, NEW a \in Assets \cup {NoAsset}, NEW x, SetAsset(a, x),
         HasRow(a) => x \in AssetType /\ x.file = asset[a].file
  PROVE  AssetsTyped' /\ SameFiles
  <1>1. CASE HasRow(a)
    <2>1. a \in Assets /\ asset' = [asset EXCEPT ![a] = x]
      BY <1>1 DEF HasRow, SetAsset
    <2> QED BY <1>1, <2>1 DEF AssetsTyped, SameFiles
  <1>2. CASE ~HasRow(a)
    BY <1>2 DEF SetAsset, AssetsTyped, SameFiles
  <1> QED BY <1>1, <1>2

LEMMA RowsKept == ASSUME AssetsTyped, asset' = asset PROVE AssetsTyped' /\ SameFiles
  BY DEF AssetsTyped, SameFiles

\* The note is written, if it exists, or left alone.
LEMMA NoteWrite ==
  ASSUME NoteTyped, NoteWritten, NEW n, SetNote(n),
         NoteExists => n \in NoteType /\ n.text # 0
  PROVE  NoteTyped' /\ NoteWritten'
  <1>1. CASE NoteExists
    BY <1>1 DEF SetNote, NoteTyped, NoteWritten, NoteExists
  <1>2. CASE ~NoteExists
    BY <1>2 DEF SetNote, NoteTyped, NoteWritten, NoteExists
  <1> QED BY <1>1, <1>2

LEMMA NoteKept == ASSUME NoteTyped, NoteWritten, note' = note PROVE NoteTyped' /\ NoteWritten'
  BY DEF NoteTyped, NoteWritten, NoteExists
LEMMA SoundKept ==
  ASSUME NoteAssumption, RequestsSound, FileStep PROVE RequestsSound'
  <1>1. NoRequest \in Sound
    <2>1. NoRequest \in RequestType
      BY NoteAssumption DEF NoRequest, RequestType
    <2>2. NoRequest.pc = "idle"
      BY DEF NoRequest
    <2> QED BY <2>1, <2>2 DEF Sound, Numbering
  <1>2. ASSUME NEW r \in Requests, NEW q, Becomes(r, q) PROVE RequestsSound'
    BY <1>2 DEF Becomes, RequestsSound
  <1>3. ASSUME NEW r \in Requests, Moves(r) PROVE \E q : Becomes(r, q)
    BY <1>3 DEF Moves, Begins, Looks, Names, Onward, Plain, Removes
  <1>4. CASE Idles
    BY <1>4 DEF Idles, RequestsSound
  <1>5. CASE Dies
    BY <1>1, <1>5 DEF Dies, RequestsSound
  <1> QED BY <1>2, <1>3, <1>4, <1>5 DEF FileStep

LEMMA FilesTypedKept == ASSUME FilesTyped, FileStep PROVE FilesTyped'
  <1>1. ASSUME NEW r \in Requests, Moves(r) PROVE FilesTyped'
    BY <1>1, NewFileIsNew DEF Moves, Begins, Looks, Names, Onward, Plain, Removes, FilesTyped
  <1> QED BY <1>1 DEF FileStep, Idles, Dies, FilesTyped

-----------------------------------------------------------------------------
(* Each request's steps, as moves.                                            *)

LEMMA PublishMoves ==
  ASSUME NoteAssumption, TInv, NEW r \in Requests, NEW byTab \in BOOLEAN, Publish(r, byTab)
  PROVE  FileStep /\ AssetsTyped'
  <1>0. AssetsTyped' /\ SameFiles
    BY RowsKept DEF Publish, TInv
  <1>1. CASE Unchanged
    BY <1>0, <1>1 DEF Publish, FileStep, Idles
  <1>2. CASE ~Unchanged
    <2> DEFINE q == [pc |-> "stage", tab |-> byTab, text |-> note.text,
                     base |-> note.published, asset |-> note.asset, file |-> NewFile,
                     prev |-> 0]
    <2>1. /\ request' = [request EXCEPT ![r] = q]
          /\ files' = {f \in files : Named(f)} \cup {NewFile}
          /\ note.published < MaxRevisions /\ note.status = "active"
      BY <1>2 DEF Publish
    <2>2. note \in NoteType /\ note.text # 0
      BY <2>1 DEF TInv, NoteTyped, NoteWritten, NoteExists
    <2>3. note.text \in 0 .. MaxTexts /\ note.published \in Nat
          /\ note.asset \in Assets \cup {NoAsset}
      BY <2>2, NoteAssumption DEF NoteType
    <2>4. q \in RequestType
      BY <2>3, NewFileIsNew DEF RequestType, Publishing
    <2>5. q.pc = "stage" /\ q.file = NewFile /\ q.prev = 0
          /\ q.text = note.text /\ q.base = note.published
      OBVIOUS
    <2> HIDE DEF q
    <2>6. q \in Sound
      BY <2>1, <2>2, <2>4, <2>5 DEF Sound, Numbering
    <2>7. Begins(r)
      BY <1>0, <2>1, <2>5, <2>6 DEF Begins, Becomes
    <2> QED BY <1>0, <2>7 DEF FileStep, Moves
  <1> QED BY <1>1, <1>2

LEMMA StageMoves ==
  ASSUME TInv, NEW r \in Requests, Stage(r) PROVE Moves(r) /\ AssetsTyped'
  <1> DEFINE a == request[r].asset
             p == [request[r] EXCEPT !.pc = "update", !.prev = asset[a].file]
             q == [request[r] EXCEPT !.pc = "insert", !.asset = NoAsset]
  <1>0. AssetsTyped' /\ SameFiles
    BY RowsKept DEF Stage, TInv
  <1>1. request[r] \in Sound /\ request[r].pc = "stage"
    BY DEF TInv, RequestsSound, Stage
  <1>2. request[r] \in RequestType /\ request[r].base < MaxRevisions /\ request[r].text # 0
    BY <1>1 DEF Sound, Numbering
  <1>3. CASE Live(a)
    <2>1. a \in Assets
      BY <1>2, <1>3 DEF Live, HasRow, RequestType
    <2>2. asset[a].file \in Files \cup {0}
      BY <2>1 DEF TInv, AssetsTyped, AssetType
    <2>3. p \in RequestType /\ p.pc = "update" /\ p.prev = asset[a].file /\ p.asset = a
          /\ p.file = request[r].file /\ p.text = request[r].text /\ p.base = request[r].base
      BY <1>2, <2>2 DEF RequestType, Publishing
    <2>4. request' = [request EXCEPT ![r] = p]
      BY <1>3 DEF Stage
    <2> HIDE DEF p
    <2>5. p \in Sound
      BY <1>2, <2>3 DEF Sound
    <2>6. Becomes(r, p) /\ p.asset \in Assets /\ p.prev = asset[p.asset].file
      BY <2>1, <2>3, <2>4, <2>5 DEF Becomes
    <2>7. files' = files
      BY DEF Stage
    <2>8. Looks(r)
      BY <1>0, <1>1, <2>3, <2>6, <2>7 DEF Looks
    <2> QED BY <1>0, <2>8 DEF Moves
  <1>4. CASE ~Live(a)
    <2>3. q \in RequestType /\ q.pc = "insert" /\ q.prev = request[r].prev
          /\ q.file = request[r].file /\ q.text = request[r].text /\ q.base = request[r].base
      BY <1>2 DEF RequestType, Publishing
    <2>4. request' = [request EXCEPT ![r] = q]
      BY <1>4 DEF Stage
    <2> HIDE DEF q
    <2>5. q \in Sound
      BY <1>2, <2>3 DEF Sound
    <2>6. Looks(r)
      BY <1>0, <1>1, <2>3, <2>4, <2>5 DEF Looks, Becomes, Stage
    <2> QED BY <1>0, <2>6 DEF Moves
  <1> QED BY <1>3, <1>4

LEMMA UpdateMoves ==
  ASSUME TInv, NEW r \in Requests, Update(r) PROVE Moves(r) /\ AssetsTyped'
  <1> DEFINE a == request[r].asset
             x == [asset[a] EXCEPT !.status = "indexing", !.text = request[r].text,
                                   !.file = request[r].file]
             q == [request[r] EXCEPT !.pc = "failNote", !.asset = NoAsset]
  <1>0. ASSUME asset' = asset PROVE AssetsTyped' /\ SameFiles
    BY <1>0, RowsKept DEF TInv
  <1>1. request[r] \in Sound /\ request[r].pc = "update" /\ files' = files
    BY DEF TInv, RequestsSound, Update
  <1>2. request[r] \in RequestType
    BY <1>1 DEF Sound
  <1>3. CASE ~HasRow(a)
    <2>1. Goto(r, "failNoteOnly") /\ asset' = asset
      BY <1>3 DEF Update
    <2>2. \E p : /\ Becomes(r, p) /\ p.pc = "failNoteOnly"
                 /\ p.file = request[r].file /\ p.prev = request[r].prev
      BY <2>1, GotoGoes DEF TInv, Catching, Numbering
    <2>3. Onward(r)
      BY <1>0, <1>1, <2>1, <2>2 DEF Onward, Unnamed, Late
    <2> QED BY <1>0, <2>1, <2>3 DEF Moves
  <1>4. CASE HasRow(a) /\ Live(a) /\ Duplicate(a, request[r].text)
    <2>1. request' = [request EXCEPT ![r] = q] /\ asset' = asset
      BY <1>4 DEF Update
    <2>2. q \in RequestType /\ q.pc = "failNote"
          /\ q.file = request[r].file /\ q.prev = request[r].prev
      BY <1>2 DEF RequestType, Catching
    <2> HIDE DEF q
    <2>3. q \in Sound
      BY <2>2 DEF Sound, Numbering
    <2>4. Onward(r)
      BY <1>0, <1>1, <2>1, <2>2, <2>3 DEF Onward, Becomes, Unnamed, Late
    <2> QED BY <1>0, <2>1, <2>4 DEF Moves
  <1>5. CASE HasRow(a) /\ ~(Live(a) /\ Duplicate(a, request[r].text))
    <2>1. Goto(r, "index") /\ SetAsset(a, x)
      BY <1>5 DEF Update
    <2>2. \E p : /\ Becomes(r, p) /\ p.pc = "index"
                 /\ p.file = request[r].file /\ p.prev = request[r].prev
      BY <1>1, <2>1, GotoGoes DEF TInv, Publishing, Numbering
    <2>3. a \in Assets
      BY <1>2, <1>5 DEF HasRow, RequestType
    <2>4. asset[a] \in AssetType /\ request[r].text \in 0 .. MaxTexts
          /\ request[r].file \in Files \cup {0}
      BY <1>2, <2>3 DEF TInv, AssetsTyped, RequestType
    <2>5. x \in AssetType /\ x.file = request[r].file
      BY <2>4 DEF AssetType
    <2>6. asset' = [asset EXCEPT ![a] = x]
      BY <1>5, <2>1 DEF SetAsset
    <2> HIDE DEF x
    <2>7. Names(r, a)
      BY <1>1, <2>2, <2>5, <2>6 DEF Names
    <2>8. AssetsTyped'
      BY <2>5, <2>6 DEF TInv, AssetsTyped
    <2> QED BY <2>3, <2>7, <2>8 DEF Moves
  <1> QED BY <1>3, <1>4, <1>5

LEMMA InsertMoves ==
  ASSUME TInv, NEW r \in Requests, Insert(r) PROVE Moves(r) /\ AssetsTyped'
  <1> DEFINE a == NewAsset
             x == [status |-> "indexing", trashed |-> FALSE, text |-> request[r].text,
                   shown |-> 0, file |-> request[r].file]
             q == [request[r] EXCEPT !.pc = "index", !.asset = NewAsset]
  <1>1. request[r] \in Sound /\ request[r].pc = "insert" /\ files' = files
    BY DEF TInv, RequestsSound, Insert
  <1>2. request[r] \in RequestType /\ request[r].base < MaxRevisions /\ request[r].text # 0
    BY <1>1 DEF Sound, Numbering
  <1>3. CASE Duplicate(NoAsset, request[r].text)
    <2>1. Goto(r, "failNote") /\ asset' = asset
      BY <1>3 DEF Insert
    <2>2. \E p : /\ Becomes(r, p) /\ p.pc = "failNote"
                 /\ p.file = request[r].file /\ p.prev = request[r].prev
      BY <2>1, GotoGoes DEF TInv, Catching, Numbering
    <2>3. AssetsTyped' /\ SameFiles
      BY <2>1, RowsKept DEF TInv
    <2>4. Onward(r)
      BY <1>1, <2>2, <2>3 DEF Onward, Unnamed, Late
    <2> QED BY <2>3, <2>4 DEF Moves
  <1>4. CASE ~Duplicate(NoAsset, request[r].text)
    <2>1. request' = [request EXCEPT ![r] = q] /\ asset' = [asset EXCEPT ![a] = x]
      BY <1>4 DEF Insert
    <2>2. a \in Assets
      BY DEF Insert, Unused, NewAsset
    <2>3. q \in RequestType /\ q.pc = "index"
          /\ q.file = request[r].file /\ q.prev = request[r].prev
          /\ q.text = request[r].text /\ q.base = request[r].base
      BY <1>2, <2>2 DEF RequestType, Publishing
    <2>4. request[r].text \in 0 .. MaxTexts /\ request[r].file \in Files \cup {0}
          /\ 0 \in 0 .. MaxTexts
      BY <1>2, NoteAssumption DEF RequestType
    <2>5. x \in AssetType /\ x.file = request[r].file
      BY <2>4 DEF AssetType
    <2> HIDE DEF x, q, a
    <2>6. q \in Sound
      BY <1>2, <2>3 DEF Sound
    <2>7. Names(r, a)
      BY <1>1, <2>1, <2>3, <2>5, <2>6 DEF Names, Becomes
    <2>8. AssetsTyped'
      BY <2>1, <2>2, <2>5 DEF TInv, AssetsTyped
    <2> QED BY <2>2, <2>7, <2>8 DEF Moves
  <1> QED BY <1>3, <1>4
\* A request that goes on with its files and leaves files and their names alone.
LEMMA GoesOn ==
  ASSUME TInv, NEW r \in Requests, NEW pc, Goto(r, pc),
         pc \in {"idle"} \cup Publishing \cup Catching \cup Others,
         pc \in Numbering => request[r].pc \in Numbering, pc # "revert",
         pc \notin Unnamed, pc \in Late => request[r].pc \in Late,
         AssetsTyped' /\ SameFiles, files' = files
  PROVE  Moves(r) /\ AssetsTyped'
  <1>1. \E q : /\ Becomes(r, q) /\ q.pc = pc
               /\ q.file = request[r].file /\ q.prev = request[r].prev
    BY GotoGoes DEF TInv
  <1>2. Onward(r)
    BY <1>1 DEF Onward
  <1> QED BY <1>2 DEF Moves

\* A request that ends, with the files it may remove.
LEMMA Stops ==
  ASSUME NoteAssumption, NEW r \in Requests, Leave(r), AssetsTyped' /\ SameFiles,
         \/ files' = files
         \/ request[r].pc = "clean" /\ files' = files \ {request[r].prev}
         \/ request[r].pc = "dropFile" /\ files' = files \ {request[r].file}
  PROVE  Moves(r) /\ AssetsTyped'
  <1>1. \E q : Becomes(r, q) /\ q.file = 0 /\ q.prev = 0 /\ q.pc \notin Unnamed \cup Late
    BY LeaveGoes DEF Unnamed, Late
  <1>2. Plain(r)
    BY <1>1 DEF Plain
  <1> QED BY <1>2 DEF Moves

\* A request that begins without files.
LEMMA Calls ==
  ASSUME NoteAssumption, TInv, NEW r \in Requests, NEW pc \in Others,
         NEW a \in Assets \cup {NoAsset}, NEW t \in 0 .. MaxTexts,
         pc = "revert" => t # 0,
         request' = [request EXCEPT ![r] = Started(pc, a, t)],
         asset' = asset, files' = files
  PROVE  Moves(r) /\ AssetsTyped'
  <1> DEFINE q == Started(pc, a, t)
  <1>0. /\ q \in RequestType
        /\ q.pc = pc /\ q.file = 0 /\ q.prev = 0 /\ q.text = t
    BY NoteAssumption DEF NoRequest, Started, RequestType
  <1>1. Becomes(r, q)
    BY <1>0 DEF Sound, Others, Numbering, Becomes
  <1>2. pc \notin Unnamed \cup Late
    BY DEF Others, Unnamed, Late
  <1>3. AssetsTyped' /\ SameFiles
    BY RowsKept DEF TInv
  <1>4. Plain(r)
    BY <1>0, <1>1, <1>2, <1>3 DEF Plain
  <1> QED BY <1>3, <1>4 DEF Moves

LEMMA IndexMoves ==
  ASSUME TInv, NEW r \in Requests, Index(r) PROVE Moves(r) /\ AssetsTyped'
  <1> DEFINE a == request[r].asset
             x == [asset[a] EXCEPT !.shown = request[r].text]
  <1>1. /\ a \in Assets \cup {NoAsset} /\ request[r].text \in 0 .. MaxTexts
        /\ AssetsTyped /\ files' = files /\ request[r].pc \in {"index", "reindex"}
    BY SoundTyped DEF TInv, RequestType, Index
  <1>2. ASSUME SetAsset(a, x) \/ asset' = asset PROVE AssetsTyped' /\ SameFiles
    <2>1. ASSUME HasRow(a) PROVE x \in AssetType /\ x.file = asset[a].file
      <3>1. a \in Assets
        BY <2>1, <1>1 DEF HasRow
      <3>2. asset[a] \in AssetType
        BY <3>1, <1>1 DEF AssetsTyped
      <3> QED BY <3>2, <1>1 DEF AssetType
    <2> HIDE DEF x
    <2> QED BY <1>1, <1>2, <2>1, RowWritten, RowsKept
  <1>3. /\ SetAsset(a, x) \/ asset' = asset
        /\ \/ request[r].pc = "index" /\ (Goto(r, "ready") \/ Goto(r, "failNote"))
           \/ request[r].pc = "reindex" /\ (Goto(r, "reready") \/ Goto(r, "retrash"))
    BY DEF Index
  <1>4. AssetsTyped' /\ SameFiles
    BY <1>2, <1>3
  <1> HIDE DEF a, x
  <1>5. CASE request[r].pc = "index" /\ Goto(r, "ready")
    BY <1>1, <1>4, <1>5, GoesOn DEF Publishing, Numbering, Unnamed, Late
  <1>6. CASE request[r].pc = "index" /\ Goto(r, "failNote")
    BY <1>1, <1>4, <1>6, GoesOn DEF Catching, Numbering, Unnamed, Late
  <1>7. CASE request[r].pc = "reindex" /\ Goto(r, "reready")
    BY <1>1, <1>4, <1>7, GoesOn DEF Others, Numbering, Unnamed, Late
  <1>8. CASE request[r].pc = "reindex" /\ Goto(r, "retrash")
    BY <1>1, <1>4, <1>8, GoesOn DEF Others, Numbering, Unnamed, Late
  <1> QED BY <1>3, <1>5, <1>6, <1>7, <1>8

LEMMA MarkReadyMoves ==
  ASSUME TInv, NEW r \in Requests, MarkReady(r) PROVE Moves(r) /\ AssetsTyped'
  <1> DEFINE a == request[r].asset
             x == [asset[a] EXCEPT !.status = "ready"]
  <1>1. /\ a \in Assets \cup {NoAsset}
        /\ AssetsTyped /\ files' = files /\ request[r].pc \in {"ready", "reready"}
        /\ SetAsset(a, x)
    BY SoundTyped DEF TInv, RequestType, MarkReady
  <1>2. AssetsTyped' /\ SameFiles
    <2>1. ASSUME HasRow(a) PROVE x \in AssetType /\ x.file = asset[a].file
      <3>1. a \in Assets
        BY <2>1, <1>1 DEF HasRow
      <3>2. asset[a] \in AssetType
        BY <3>1, <1>1 DEF AssetsTyped
      <3> QED BY <3>2, <1>1 DEF AssetType
    <2> HIDE DEF x
    <2> QED BY <1>1, <2>1, RowWritten
  <1>3. \/ request[r].pc = "ready" /\ (Goto(r, "revise") \/ Goto(r, "failNote"))
        \/ request[r].pc = "reready" /\ Goto(r, "activate")
    BY DEF MarkReady
  <1> HIDE DEF a, x
  <1>5. CASE request[r].pc = "ready" /\ Goto(r, "revise")
    BY <1>1, <1>2, <1>5, GoesOn DEF Publishing, Numbering, Unnamed, Late
  <1>6. CASE request[r].pc = "ready" /\ Goto(r, "failNote")
    BY <1>1, <1>2, <1>6, GoesOn DEF Catching, Numbering, Unnamed, Late
  <1>7. CASE request[r].pc = "reready" /\ Goto(r, "activate")
    BY <1>1, <1>2, <1>7, GoesOn DEF Others, Numbering, Unnamed, Late
  <1> QED BY <1>3, <1>5, <1>6, <1>7

LEMMA ReviseMoves ==
  ASSUME TInv, NEW r \in Requests, Revise(r) PROVE Moves(r) /\ AssetsTyped'
  <1>1. request[r].pc = "revise" /\ asset' = asset /\ files' = files
        /\ (Goto(r, "mark") \/ Goto(r, "failNote"))
    BY DEF Revise
  <1>2. AssetsTyped' /\ SameFiles
    BY <1>1, RowsKept DEF TInv
  <1>3. CASE Goto(r, "mark")
    BY <1>1, <1>2, <1>3, GoesOn DEF Publishing, Numbering, Unnamed, Late
  <1>4. CASE Goto(r, "failNote")
    BY <1>1, <1>2, <1>4, GoesOn DEF Catching, Numbering, Unnamed, Late
  <1> QED BY <1>1, <1>3, <1>4

LEMMA MarkMoves ==
  ASSUME NoteAssumption, TInv, NEW r \in Requests, Mark(r) PROVE Moves(r) /\ AssetsTyped'
  <1> DEFINE q == [request[r] EXCEPT !.pc = "tags", !.base = note.version]
  <1>1. /\ request[r].pc = "mark" /\ asset' = asset /\ files' = files
        /\ request[r] \in RequestType /\ note.version \in Nat
    BY SoundTyped DEF TInv, NoteTyped, NoteType, Mark
  <1>2. AssetsTyped' /\ SameFiles
    BY <1>1, RowsKept DEF TInv
  <1>3. CASE request' = [request EXCEPT ![r] = q]
    <2>1. q \in RequestType /\ q.pc = "tags"
          /\ q.file = request[r].file /\ q.prev = request[r].prev
      BY <1>1 DEF RequestType, Publishing
    <2> HIDE DEF q
    <2>2. q \in Sound
      BY <2>1 DEF Sound, Numbering
    <2>3. Onward(r)
      BY <1>1, <1>2, <1>3, <2>1, <2>2 DEF Onward, Becomes, Unnamed, Late
    <2> QED BY <1>2, <2>3 DEF Moves
  <1>4. CASE Goto(r, "failNote")
    BY <1>1, <1>2, <1>4, GoesOn DEF Catching, Numbering, Unnamed, Late
  <1> QED BY <1>3, <1>4 DEF Mark

LEMMA FinishMoves ==
  ASSUME NoteAssumption, TInv, NEW r \in Requests,
         Tags(r) \/ Clean(r) \/ FailNote(r) \/ FailAsset(r) \/ DropFile(r)
  PROVE  Moves(r) /\ AssetsTyped'
  <1>0. ASSUME asset' = asset PROVE AssetsTyped' /\ SameFiles
    BY <1>0, RowsKept DEF TInv
  <1>1. CASE Tags(r)
    <2>1. request[r].pc = "tags" /\ asset' = asset /\ files' = files
          /\ (Goto(r, "clean") \/ Goto(r, "failNote"))
      BY <1>1 DEF Tags
    <2>2. CASE Goto(r, "clean")
      BY <1>0, <2>1, <2>2, GoesOn DEF Publishing, Numbering, Unnamed, Late
    <2>3. CASE Goto(r, "failNote")
      BY <1>0, <2>1, <2>3, GoesOn DEF Catching, Numbering, Unnamed, Late
    <2> QED BY <2>1, <2>2, <2>3
  <1>2. CASE Clean(r)
    <2>1. Leave(r) /\ asset' = asset
          /\ request[r].pc = "clean" /\ files' = files \ {request[r].prev}
      BY <1>2 DEF Clean
    <2> QED BY <1>0, <2>1, Stops
  <1>3. CASE FailNote(r)
    <2>1. asset' = asset /\ files' = files
          /\ (Leave(r) \/ Goto(r, "dropFile") \/ Goto(r, "failAsset"))
      BY <1>3 DEF FailNote
    <2>2. CASE Leave(r)
      BY <1>0, <2>1, <2>2, Stops
    <2>3. CASE Goto(r, "dropFile")
      BY <1>0, <2>1, <2>3, GoesOn DEF Catching, Numbering, Unnamed, Late
    <2>4. CASE Goto(r, "failAsset")
      BY <1>0, <2>1, <2>4, GoesOn DEF Catching, Numbering, Unnamed, Late
    <2> QED BY <2>1, <2>2, <2>3, <2>4
  <1>4. CASE FailAsset(r)
    <2> DEFINE a == request[r].asset
               x == [asset[a] EXCEPT !.status = "failed"]
    <2>1. a \in Assets \cup {NoAsset} /\ AssetsTyped /\ files' = files /\ SetAsset(a, x)
          /\ Goto(r, "dropFile")
      BY <1>4, SoundTyped DEF TInv, RequestType, FailAsset
    <2>2. ASSUME HasRow(a) PROVE x \in AssetType /\ x.file = asset[a].file
      <3>1. a \in Assets
        BY <2>1, <2>2 DEF HasRow
      <3>2. asset[a] \in AssetType
        BY <2>1, <3>1 DEF AssetsTyped
      <3> QED BY <3>2 DEF AssetType
    <2> HIDE DEF a, x
    <2>3. AssetsTyped' /\ SameFiles
      BY <2>1, <2>2, RowWritten
    <2> QED BY <2>1, <2>3, GoesOn DEF Catching, Numbering, Unnamed, Late
  <1>5. CASE DropFile(r)
    <2>1. Leave(r) /\ asset' = asset
          /\ request[r].pc = "dropFile" /\ files' = files \ {request[r].file}
      BY <1>5 DEF DropFile
    <2> QED BY <1>0, <2>1, Stops
  <1> QED BY <1>1, <1>2, <1>3, <1>4, <1>5
LEMMA TrashMoves ==
  ASSUME NoteAssumption, TInv, NEW r \in Requests,
         Trash(r) \/ DeleteNote(r) \/ Untrash(r) \/ Retrash(r) \/ Activate(r)
  PROVE  Moves(r) /\ AssetsTyped'
  <1> DEFINE a == request[r].asset
  <1>0. ASSUME asset' = asset PROVE AssetsTyped' /\ SameFiles
    BY <1>0, RowsKept DEF TInv
  <1>1. a \in Assets \cup {NoAsset} /\ AssetsTyped
    BY SoundTyped DEF TInv, RequestType
  <1>2. ASSUME HasRow(a) PROVE asset[a] \in AssetType /\ 0 \in 0 .. MaxTexts
    BY <1>1, <1>2, NoteAssumption DEF HasRow, AssetsTyped
  <1>3. CASE Trash(r)
    <2> DEFINE x == [asset[a] EXCEPT !.status = "deleted", !.trashed = TRUE, !.shown = 0]
    <2>1. /\ files' = files
          /\ \/ SetAsset(a, x) /\ (Goto(r, "deleteNote") \/ Goto(r, "purgeAsset"))
             \/ Leave(r) /\ asset' = asset
      BY <1>3 DEF Trash
    <2>2. ASSUME HasRow(a) PROVE x \in AssetType /\ x.file = asset[a].file
      BY <1>2, <2>2 DEF AssetType
    <2> HIDE DEF x, a
    <2>3. ASSUME SetAsset(a, x) PROVE AssetsTyped' /\ SameFiles
      BY <1>1, <2>2, <2>3, RowWritten
    <2>4. CASE SetAsset(a, x) /\ Goto(r, "deleteNote")
      BY <2>1, <2>3, <2>4, GoesOn DEF Others, Numbering, Unnamed, Late
    <2>5. CASE SetAsset(a, x) /\ Goto(r, "purgeAsset")
      BY <2>1, <2>3, <2>5, GoesOn DEF Others, Numbering, Unnamed, Late
    <2>6. CASE Leave(r) /\ asset' = asset
      BY <1>0, <2>1, <2>6, Stops
    <2> QED BY <2>1, <2>4, <2>5, <2>6
  <1>4. CASE DeleteNote(r) \/ Activate(r)
    <2>1. Leave(r) /\ asset' = asset /\ files' = files
      BY <1>4 DEF DeleteNote, Activate
    <2> QED BY <1>0, <2>1, Stops
  <1>5. CASE Untrash(r)
    <2> DEFINE x == [asset[a] EXCEPT !.status = "indexing", !.trashed = FALSE]
    <2>1. /\ files' = files
          /\ \/ SetAsset(a, x) /\ Goto(r, "reindex")
             \/ Leave(r) /\ asset' = asset
      BY <1>5 DEF Untrash
    <2>2. ASSUME HasRow(a) PROVE x \in AssetType /\ x.file = asset[a].file
      BY <1>2, <2>2 DEF AssetType
    <2> HIDE DEF x, a
    <2>3. ASSUME SetAsset(a, x) PROVE AssetsTyped' /\ SameFiles
      BY <1>1, <2>2, <2>3, RowWritten
    <2>4. CASE SetAsset(a, x) /\ Goto(r, "reindex")
      BY <2>1, <2>3, <2>4, GoesOn DEF Others, Numbering, Unnamed, Late
    <2>6. CASE Leave(r) /\ asset' = asset
      BY <1>0, <2>1, <2>6, Stops
    <2> QED BY <2>1, <2>4, <2>6
  <1>6. CASE Retrash(r)
    <2> DEFINE x == [asset[a] EXCEPT !.status = "deleted", !.trashed = TRUE]
    <2>1. files' = files /\ SetAsset(a, x) /\ Leave(r)
      BY <1>6 DEF Retrash
    <2>2. ASSUME HasRow(a) PROVE x \in AssetType /\ x.file = asset[a].file
      BY <1>2, <2>2 DEF AssetType
    <2> HIDE DEF x, a
    <2>3. AssetsTyped' /\ SameFiles
      BY <1>1, <2>1, <2>2, RowWritten
    <2> QED BY <2>1, <2>3, Stops
  <1> QED BY <1>3, <1>4, <1>5, <1>6

LEMMA PurgeMoves ==
  ASSUME NoteAssumption, TInv, NEW r \in Requests,
         PurgeAsset(r) \/ PurgeNote(r) \/ RevertNote(r)
  PROVE  Moves(r) /\ AssetsTyped'
  <1>0. ASSUME asset' = asset PROVE AssetsTyped' /\ SameFiles
    BY <1>0, RowsKept DEF TInv
  <1>1. CASE PurgeNote(r) \/ RevertNote(r)
    <2>1. Leave(r) /\ asset' = asset /\ files' = files
      BY <1>1 DEF PurgeNote, RevertNote
    <2> QED BY <1>0, <2>1, Stops
  <1>2. CASE PurgeAsset(r)
    <2> DEFINE a == request[r].asset
    <2>1. a \in Assets \cup {NoAsset} /\ request[r].pc = "purgeAsset" /\ Goto(r, "purgeNote")
      BY <1>2, SoundTyped DEF TInv, RequestType, PurgeAsset
    <2>2. CASE HasRow(a)
      <3>1. /\ a \in Assets /\ asset' = [asset EXCEPT ![a] = NoRow]
            /\ files' = files \ {asset[a].file}
        BY <1>2, <2>1, <2>2 DEF PurgeAsset, HasRow
      <3>2. NoRow \in AssetType
        BY NoteAssumption DEF NoRow, AssetType
      <3>3. AssetsTyped'
        BY <3>1, <3>2 DEF TInv, AssetsTyped
      <3>4. \E q : /\ Becomes(r, q) /\ q.pc = "purgeNote"
                   /\ q.file = request[r].file /\ q.prev = request[r].prev
        BY <2>1, GotoGoes DEF TInv, Others, Numbering
      <3>5. Removes(r, a)
        BY <3>1, <3>4 DEF Removes, Unnamed, Late
      <3> QED BY <3>1, <3>3, <3>5 DEF Moves
    <2>3. CASE ~HasRow(a)
      <3>1. asset' = asset /\ files' = files
        BY <1>2, <2>3 DEF PurgeAsset
      <3> QED BY <1>0, <2>1, <3>1, GoesOn DEF Others, Numbering, Unnamed, Late
    <2> QED BY <2>2, <2>3
  <1> QED BY <1>1, <1>2

LEMMA CallMoves ==
  ASSUME NoteAssumption, TInv, NEW r \in Requests, Call(r)
  PROVE  Moves(r) /\ AssetsTyped'
  <1> DEFINE Begun(pc, a, t) == request' = [request EXCEPT ![r] = Started(pc, a, t)]
  <1>1. /\ asset' = asset /\ files' = files
        /\ \/ \E pc \in {"trash", "deleteNote", "untrash", "activate", "purgeTrash",
                         "purgeAsset", "purgeNote"}, t \in {0, note.text} :
                 Begun(pc, note.asset, t)
           \/ \E v \in Revisions : revision[v] # 0 /\ Begun("revert", NoAsset, revision[v])
    <2>1. CASE Delete(r)
      BY <2>1 DEF Delete
    <2>2. CASE Restore(r)
      BY <2>2 DEF Restore
    <2>3. CASE Purge(r)
      BY <2>3 DEF Purge
    <2>4. CASE Revert(r)
      BY <2>4 DEF Revert
    <2> QED BY <2>1, <2>2, <2>3, <2>4 DEF Call
  <1>2. /\ note.asset \in Assets \cup {NoAsset}
        /\ 0 \in 0 .. MaxTexts /\ note.text \in 0 .. MaxTexts
        /\ \A v \in Revisions : revision[v] \in 0 .. MaxTexts
    BY NoteAssumption DEF TInv, NoteTyped, NoteType, RevisionTyped
  <1>3. ASSUME NEW pc \in {"trash", "deleteNote", "untrash", "activate", "purgeTrash",
                           "purgeAsset", "purgeNote"},
               NEW t \in {0, note.text}, Begun(pc, note.asset, t)
        PROVE  Moves(r) /\ AssetsTyped'
    <2>1. pc \in Others /\ pc # "revert" /\ t \in 0 .. MaxTexts
      BY <1>2 DEF Others
    <2> QED BY <1>1, <1>2, <1>3, <2>1, Calls
  <1>4. ASSUME NEW v \in Revisions, revision[v] # 0, Begun("revert", NoAsset, revision[v])
        PROVE  Moves(r) /\ AssetsTyped'
    <2>1. "revert" \in Others /\ revision[v] \in 0 .. MaxTexts /\ NoAsset \in Assets \cup {NoAsset}
      BY <1>2 DEF Others
    <2> QED BY <1>1, <1>4, <2>1, Calls
  <1> QED BY <1>1, <1>3, <1>4

LEMMA ThrowsMoves ==
  ASSUME NoteAssumption, TInv, NEW r \in Requests, Throws(r)
  PROVE  Moves(r) /\ AssetsTyped'
  <1> DEFINE q == [request[r] EXCEPT !.pc = "failNote",
                     !.asset = IF request[r].pc \in {"stage", "update", "insert"}
                               THEN NoAsset ELSE request[r].asset]
  <1>1. AssetsTyped' /\ SameFiles
    BY RowsKept DEF TInv, Throws
  <1>2. \/ files' = files
        \/ request[r].pc = "clean" /\ files' = files \ {request[r].prev}
    BY DEF Throws
  <1>3. CASE request[r].pc \in Publishing
    <2>1. request' = [request EXCEPT ![r] = q]
      BY <1>3 DEF Throws
    <2>2. request[r] \in RequestType
      BY SoundTyped DEF TInv
    <2>3. q \in RequestType /\ q.pc = "failNote"
          /\ q.file = request[r].file /\ q.prev = request[r].prev
      BY <2>2 DEF RequestType, Catching
    <2> HIDE DEF q
    <2>4. q \in Sound
      BY <2>3 DEF Sound, Numbering
    <2>5. Onward(r)
      BY <1>1, <1>2, <2>1, <2>3, <2>4 DEF Onward, Becomes, Unnamed, Late
    <2> QED BY <1>1, <2>5 DEF Moves
  <1>4. CASE request[r].pc \in {"reindex", "reready"}
    <2>1. Goto(r, "retrash") /\ files' = files
      BY <1>4 DEF Throws, Publishing
    <2> QED BY <1>1, <2>1, GoesOn DEF Others, Numbering, Unnamed, Late
  <1>5. CASE request[r].pc \notin Publishing \cup {"reindex", "reready"}
    <2>1. Leave(r)
      BY <1>5 DEF Throws
    <2> QED BY <1>1, <1>2, <2>1, Stops
  <1> QED BY <1>3, <1>4, <1>5

\* Every step is one of the moves, and rows keep their types.
LEMMA RowsStep ==
  ASSUME NoteAssumption, TInv, [Next]_vars PROVE FileStep /\ AssetsTyped'
  <1>0. ASSUME asset' = asset PROVE AssetsTyped' /\ SameFiles
    BY <1>0, RowsKept DEF TInv
  <1>1. CASE Create \/ Reload \/ (\E t \in Texts : Edit(t)) \/ UNCHANGED vars
    BY <1>0, <1>1 DEF Create, Reload, Edit, vars, FileStep, Idles
  <1>2. CASE Crash
    BY <1>0, <1>2 DEF Crash, FileStep, Dies
  <1>3. CASE LibraryTrash
    <2> DEFINE a == note.asset
               x == [asset[a] EXCEPT !.status = "deleted", !.trashed = TRUE, !.shown = 0]
    <2>1. /\ asset' = [asset EXCEPT ![a] = x] /\ request' = request /\ files' = files
          /\ a \in Assets
      BY <1>3 DEF LibraryTrash, Live, HasRow, TInv, NoteTyped, NoteType
    <2>2. asset[a] \in AssetType /\ 0 \in 0 .. MaxTexts
      BY <2>1, NoteAssumption DEF TInv, AssetsTyped
    <2>3. x \in AssetType /\ x.file = asset[a].file
      BY <2>2 DEF AssetType
    <2> HIDE DEF a, x
    <2>4. AssetsTyped' /\ SameFiles
      BY <2>1, <2>3 DEF TInv, AssetsTyped, SameFiles
    <2> QED BY <2>1, <2>4 DEF FileStep, Idles
  <1>4. ASSUME NEW r \in Requests, Step(r) PROVE Moves(r) /\ AssetsTyped'
    <2>1. CASE Stage(r) \/ Update(r) \/ Insert(r)
      BY <2>1, StageMoves, UpdateMoves, InsertMoves
    <2>2. CASE Index(r) \/ MarkReady(r) \/ Revise(r) \/ Mark(r)
      BY <2>2, IndexMoves, MarkReadyMoves, ReviseMoves, MarkMoves
    <2>3. CASE Tags(r) \/ Clean(r) \/ FailNote(r) \/ FailAsset(r) \/ DropFile(r)
      BY <2>3, FinishMoves
    <2>4. CASE Trash(r) \/ DeleteNote(r) \/ Untrash(r) \/ Retrash(r) \/ Activate(r)
      BY <2>4, TrashMoves
    <2>5. CASE PurgeAsset(r) \/ PurgeNote(r) \/ RevertNote(r)
      BY <2>5, PurgeMoves
    <2> QED BY <1>4, <2>1, <2>2, <2>3, <2>4, <2>5 DEF Step
  <1>5. ASSUME NEW r \in Requests, NEW byTab \in BOOLEAN, Publish(r, byTab)
        PROVE  FileStep /\ AssetsTyped'
    BY <1>5, PublishMoves
  <1>6. ASSUME NEW r \in Requests, Call(r) \/ Throws(r) PROVE Moves(r) /\ AssetsTyped'
    BY <1>6, CallMoves, ThrowsMoves
  <1> QED BY <1>1, <1>2, <1>3, <1>4, <1>5, <1>6 DEF Next, FileStep
-----------------------------------------------------------------------------
(* The note, its revisions, the tab and the history variables keep their types. *)

LEMMA NoteStep ==
  ASSUME NoteAssumption, TInv, [Next]_vars PROVE NoteTyped' /\ NoteWritten'
  <1>0. /\ NoteTyped /\ NoteWritten /\ note \in NoteType
        /\ 1 \in Texts /\ Texts \subseteq 0 .. MaxTexts /\ 0 \notin Texts
    BY NoteAssumption DEF TInv, NoteTyped, Texts
  <1>1. CASE Create
    <2> DEFINE n == [NoNote EXCEPT !.status = "active", !.version = 1, !.text = 1]
    <2>1. note' = n
      BY <1>1 DEF Create
    <2>2. 0 \in 0 .. MaxRevisions /\ 1 \in 0 .. MaxTexts /\ 0 \in 0 .. MaxTexts
      BY NoteAssumption
    <2>3. n \in NoteType /\ n.text = 1
      BY <2>2 DEF NoNote, NoteType
    <2> HIDE DEF n
    <2> QED BY <2>1, <2>3 DEF NoteTyped, NoteWritten
  <1>2. ASSUME NEW t \in Texts, Edit(t) PROVE NoteTyped' /\ NoteWritten'
    <2> DEFINE n == [note EXCEPT !.text = t, !.version = note.version + 1, !.sync = "pending"]
    <2>1. note' = n
      BY <1>2 DEF Edit
    <2>2. note.version + 1 \in Nat /\ t \in 0 .. MaxTexts /\ t # 0
      BY <1>0 DEF NoteType
    <2>3. n \in NoteType /\ n.text = t
      BY <1>0, <2>2 DEF NoteType
    <2> HIDE DEF n
    <2> QED BY <2>1, <2>2, <2>3 DEF NoteTyped, NoteWritten
  <1>3. ASSUME NEW r \in Requests, Step(r) PROVE NoteTyped' /\ NoteWritten'
    <2>0. request[r] \in Sound /\ request[r] \in RequestType
      BY DEF TInv, RequestsSound, Sound
    <2>1. CASE Mark(r)
      <3> DEFINE n == [note EXCEPT !.asset = request[r].asset,
                                   !.published = request[r].base + 1,
                                   !.hash = request[r].text, !.sync = "synced"]
      <3>1. SetNote(n) \/ note' = note
        BY <2>1 DEF Mark
      <3>2. request[r].base < MaxRevisions
        BY <2>0, <2>1 DEF Mark, Sound, Numbering
      <3>4. /\ request[r].base + 1 \in 0 .. MaxRevisions
            /\ request[r].text \in 0 .. MaxTexts /\ request[r].asset \in Assets \cup {NoAsset}
        BY <2>0, <3>2, NoteAssumption DEF RequestType
      <3>3. n \in NoteType /\ n.text = note.text
        BY <1>0, <3>4 DEF NoteType
      <3> HIDE DEF n
      <3> QED BY <1>0, <3>1, <3>3, NoteWrite, NoteKept DEF NoteWritten
    <2>2. CASE FailNote(r)
      <3> DEFINE n == [note EXCEPT !.sync = "failed"]
      <3>1. n \in NoteType /\ n.text = note.text
        BY <1>0 DEF NoteType
      <3>2. SetNote(n)
        BY <2>2 DEF FailNote
      <3> HIDE DEF n
      <3> QED BY <1>0, <3>1, <3>2, NoteWrite DEF NoteWritten
    <2>3. CASE DeleteNote(r)
      <3> DEFINE n == [note EXCEPT !.status = "deleted", !.sync = "synced"]
      <3>1. n \in NoteType /\ n.text = note.text
        BY <1>0 DEF NoteType
      <3>2. SetNote(n)
        BY <2>3 DEF DeleteNote
      <3> HIDE DEF n
      <3> QED BY <1>0, <3>1, <3>2, NoteWrite DEF NoteWritten
    <2>4. CASE Activate(r)
      <3> DEFINE n == [note EXCEPT !.status = "active", !.sync = "synced"]
      <3>1. n \in NoteType /\ n.text = note.text
        BY <1>0 DEF NoteType
      <3>2. SetNote(n)
        BY <2>4 DEF Activate
      <3> HIDE DEF n
      <3> QED BY <1>0, <3>1, <3>2, NoteWrite DEF NoteWritten
    <2>5. CASE PurgeAsset(r)
      <3>1. note' = note \/ note' = [note EXCEPT !.asset = NoAsset]
        BY <2>5 DEF PurgeAsset
      <3> QED BY <1>0, <3>1 DEF NoteType, NoteTyped, NoteWritten, NoteExists
    <2>6. CASE PurgeNote(r)
      <3>1. note' = note \/ note' = [note EXCEPT !.status = "purged", !.asset = NoAsset]
        BY <2>6 DEF PurgeNote
      <3> QED BY <1>0, <3>1 DEF NoteType, NoteTyped, NoteWritten, NoteExists
    <2>7. CASE RevertNote(r)
      <3> DEFINE n == [note EXCEPT !.text = request[r].text, !.version = note.version + 1,
                                   !.sync = "synced"]
      <3>1. SetNote(n)
        BY <2>7 DEF RevertNote
      <3>2. request[r].text # 0 /\ request[r].text \in 0 .. MaxTexts
        BY <2>0, <2>7 DEF RevertNote, Sound, RequestType
      <3>4. note.version + 1 \in Nat
        BY <1>0 DEF NoteType
      <3>3. n \in NoteType /\ n.text # 0
        BY <1>0, <3>2, <3>4 DEF NoteType
      <3> HIDE DEF n
      <3> QED BY <1>0, <3>1, <3>3, NoteWrite
    <2>8. CASE \/ Stage(r) \/ Update(r) \/ Insert(r) \/ Index(r) \/ MarkReady(r) \/ Revise(r)
               \/ Tags(r) \/ Clean(r) \/ FailAsset(r) \/ DropFile(r)
               \/ Trash(r) \/ Untrash(r) \/ Retrash(r)
      <3>1. note' = note
        BY <2>8 DEF Stage, Update, Insert, Index, MarkReady, Revise, Tags, Clean, FailAsset,
                    DropFile, Trash, Untrash, Retrash
      <3> QED BY <1>0, <3>1, NoteKept
    <2> QED BY <1>3, <2>1, <2>2, <2>3, <2>4, <2>5, <2>6, <2>7, <2>8 DEF Step
  <1>4. ASSUME NEW r \in Requests, (\E byTab \in BOOLEAN : Publish(r, byTab)) \/ Call(r) \/ Throws(r)
        PROVE  NoteTyped' /\ NoteWritten'
    <2>1. note' = note
      BY <1>4 DEF Publish, Call, Delete, Restore, Purge, Revert, Throws
    <2> QED BY <1>0, <2>1, NoteKept
  <1>5. CASE Reload \/ Crash \/ LibraryTrash \/ UNCHANGED vars
    <2>1. note' = note
      BY <1>5 DEF Reload, Crash, LibraryTrash, vars
    <2> QED BY <1>0, <2>1, NoteKept
  <1> QED BY <1>1, <1>2, <1>3, <1>4, <1>5 DEF Next

\* Only two statements write revisions.
LEMMA OthersKeepRevisions ==
  ASSUME [Next]_vars
  PROVE  \/ revision' = revision
         \/ \E r \in Requests : Revise(r) \/ PurgeNote(r)
  <1>1. ASSUME NEW r \in Requests, Step(r), ~Revise(r), ~PurgeNote(r)
        PROVE  revision' = revision
    BY <1>1 DEF Step, Stage, Update, Insert, Index, MarkReady, Mark, Tags, Clean, FailNote,
                FailAsset, DropFile, Trash, DeleteNote, Untrash, Retrash, Activate,
                PurgeAsset, RevertNote
  <1>2. ASSUME NEW r \in Requests, (\E byTab \in BOOLEAN : Publish(r, byTab)) \/ Call(r) \/ Throws(r)
        PROVE  revision' = revision
    BY <1>2 DEF Publish, Call, Delete, Restore, Purge, Revert, Throws
  <1>3. ASSUME Create \/ Reload \/ Crash \/ LibraryTrash \/ (\E t \in Texts : Edit(t))
        PROVE  revision' = revision
    BY <1>3 DEF Create, Reload, Crash, LibraryTrash, Edit
  <1> QED BY <1>1, <1>2, <1>3 DEF Next, vars

LEMMA RevisionStep ==
  ASSUME NoteAssumption, TInv, [Next]_vars PROVE RevisionTyped'
  <1>0. RevisionTyped /\ 0 \in 0 .. MaxTexts
    BY NoteAssumption DEF TInv
  <1>1. ASSUME NEW r \in Requests, Revise(r) PROVE RevisionTyped'
    <2>1. request[r].text \in 0 .. MaxTexts
      BY SoundTyped DEF TInv, RequestType
    <2> QED BY <1>0, <1>1, <2>1 DEF Revise, RevisionTyped
  <1>2. ASSUME NEW r \in Requests, PurgeNote(r) PROVE RevisionTyped'
    BY <1>0, <1>2 DEF PurgeNote, RevisionTyped
  <1>3. CASE revision' = revision
    BY <1>0, <1>3 DEF RevisionTyped
  <1> QED BY <1>1, <1>2, <1>3, OthersKeepRevisions

LEMMA RestStep ==
  ASSUME NoteAssumption, TInv, [Next]_vars PROVE RestTyped'
  <1>0. /\ tab \in TabType /\ strayed \in BOOLEAN /\ faults \in 0 .. MaxFaults
        /\ MaxFaults \in Nat
        /\ note.sync \in {"pending", "synced", "failed"} /\ note.version \in Nat
    BY NoteAssumption DEF TInv, RestTyped, NoteTyped, NoteType
  <1>1. tab' \in TabType
    <2>1. \/ tab' = tab \/ tab' = [sync |-> note.sync, version |-> note.version]
          \/ tab' = [sync |-> "pending", version |-> note.version + 1]
          \/ tab' = [sync |-> "pending", version |-> 1]
          \/ \E r \in Requests : tab' = [sync |-> "synced", version |-> request[r].base]
      <3>1. ASSUME NEW r \in Requests, Step(r)
            PROVE  tab' = tab \/ tab' = [sync |-> "synced", version |-> request[r].base]
        BY <3>1 DEF Step, Stage, Update, Insert, Index, MarkReady, Revise, Mark, Tags, Clean,
                    FailNote, FailAsset, DropFile, Trash, DeleteNote, Untrash, Retrash,
                    Activate, PurgeAsset, PurgeNote, RevertNote
      <3>2. ASSUME NEW r \in Requests, NEW byTab \in BOOLEAN, Publish(r, byTab)
            PROVE  tab' = tab \/ tab' = [sync |-> note.sync, version |-> note.version]
        BY <3>2 DEF Publish
      <3>3. ASSUME NEW r \in Requests, Call(r) \/ Throws(r) PROVE tab' = tab
        BY <3>3 DEF Call, Delete, Restore, Purge, Revert, Throws
      <3>4. CASE Crash \/ LibraryTrash \/ UNCHANGED vars
        BY <3>4 DEF Crash, LibraryTrash, vars
      <3>5. CASE Create \/ Reload \/ (\E t \in Texts : Edit(t))
        BY <3>5 DEF Create, Reload, Edit
      <3> QED BY <3>1, <3>2, <3>3, <3>4, <3>5 DEF Next
    <2>2. \A r \in Requests : request[r].base \in Nat
      BY SoundTyped DEF TInv, RequestType
    <2> QED BY <1>0, <2>1, <2>2 DEF TabType
  <1>2. strayed' \in BOOLEAN
    <2>1. ASSUME NEW r \in Requests, Step(r) PROVE strayed' \in BOOLEAN
      BY <1>0, <2>1 DEF Step, Stage, Update, Insert, Index, MarkReady, Revise, Mark, Tags, Clean,
                    FailNote, FailAsset, DropFile, Trash, DeleteNote, Untrash, Retrash,
                    Activate, PurgeAsset, PurgeNote, RevertNote
    <2>2. ASSUME NEW r \in Requests, (\E byTab \in BOOLEAN : Publish(r, byTab)) \/ Call(r) \/ Throws(r)
          PROVE  strayed' = strayed
      BY <2>2 DEF Publish, Call, Delete, Restore, Purge, Revert, Throws
    <2>3. CASE \/ Create \/ Reload \/ Crash \/ LibraryTrash \/ (\E t \in Texts : Edit(t))
               \/ UNCHANGED vars
      BY <1>0, <2>3 DEF Create, Reload, Crash, LibraryTrash, Edit, vars
    <2> QED BY <1>0, <2>1, <2>2, <2>3 DEF Next
  <1>3. faults' \in 0 .. MaxFaults
    <2>1. faults' = faults \/ (faults < MaxFaults /\ faults' = faults + 1)
      <3>1. ASSUME NEW r \in Requests, Step(r)
            PROVE  faults' = faults \/ (faults < MaxFaults /\ faults' = faults + 1)
        BY <3>1 DEF Step, Stage, Update, Insert, Index, MarkReady, Revise, Mark, Tags, Clean,
                    FailNote, FailAsset, DropFile, Trash, DeleteNote, Untrash, Retrash,
                    Activate, PurgeAsset, PurgeNote, RevertNote, Strike
      <3>2. ASSUME NEW r \in Requests,
                   (\E byTab \in BOOLEAN : Publish(r, byTab)) \/ Call(r) \/ Throws(r)
            PROVE  faults' = faults \/ (faults < MaxFaults /\ faults' = faults + 1)
        BY <3>2 DEF Publish, Call, Delete, Restore, Purge, Revert, Throws, Strike
      <3>3. CASE \/ Create \/ Reload \/ Crash \/ LibraryTrash \/ (\E t \in Texts : Edit(t))
                 \/ UNCHANGED vars
        BY <3>3 DEF Create, Reload, Crash, LibraryTrash, Edit, vars, Strike
      <3> QED BY <3>1, <3>2, <3>3 DEF Next
    <2> QED BY <1>0, <2>1
  <1> QED BY <1>1, <1>2, <1>3 DEF RestTyped

LEMMA TypeInit == ASSUME NoteAssumption, Init PROVE TInv
  <1>1. NoRequest \in Sound
    <2>1. NoRequest \in RequestType
      BY NoteAssumption DEF NoRequest, RequestType
    <2>2. NoRequest.pc = "idle"
      BY DEF NoRequest
    <2> QED BY <2>1, <2>2 DEF Sound, Numbering
  <1>2. NoNote \in NoteType /\ NoNote.status = "none"
    BY NoteAssumption DEF NoNote, NoteType
  <1>3. NoRow \in AssetType /\ 0 \in 0 .. MaxTexts /\ 0 \in 0 .. MaxFaults /\ 0 \in Nat
    BY NoteAssumption DEF NoRow, AssetType
  <1>4. [sync |-> "none", version |-> 0] \in TabType
    BY <1>3 DEF TabType
  <1> QED BY <1>1, <1>2, <1>3, <1>4
          DEF Init, TInv, NoteTyped, RevisionTyped, AssetsTyped, FilesTyped, RestTyped,
              NoteWritten, NoteExists, RequestsSound

LEMMA TypeStep == ASSUME NoteAssumption, TInv, [Next]_vars PROVE TInv'
  <1>1. FileStep /\ AssetsTyped'
    BY RowsStep
  <1>2. RequestsSound' /\ FilesTyped'
    BY <1>1, SoundKept, FilesTypedKept DEF TInv
  <1> QED BY <1>1, <1>2, NoteStep, RevisionStep, RestStep DEF TInv

\* Every variable has its type, whatever requests, faults and edits come together:
\* no publication is numbered past the last revision the model has room for.
THEOREM TypeCorrect == Spec => []TypeOK
  <1>1. Init => TInv
    BY NoteAssumption, TypeInit
  <1>2. TInv /\ [Next]_vars => TInv'
    BY NoteAssumption, TypeStep
  <1> QED BY <1>1, <1>2, Types, PTL DEF Spec
-----------------------------------------------------------------------------
(* Which files the requests and the rows name.                                *)

\* no two requests write the same file, and no two rows name the same
OwnFiles == \A r, s \in Requests :
               r # s /\ request[r].file # 0 => request[r].file # request[s].file
OwnNames == \A a, b \in Assets : a # b /\ asset[a].file # 0 => asset[a].file # asset[b].file

\* a file that no row names yet is there, and nobody is about to remove it
NewKept == \A r \in Requests : request[r].pc \in Unnamed =>
              /\ request[r].file \in files
              /\ request[r].file # 0
              /\ \A a \in Assets : asset[a].file # request[r].file
              /\ \A s \in Requests : request[s].prev # request[r].file

\* the file before is named by the row it was found in, and later by none
PrevFound == \A r \in Requests : request[r].pc = "update" /\ request[r].prev # 0 =>
                \A a \in Assets : asset[a].file = request[r].prev => a = request[r].asset
PrevFree  == \A r \in Requests : request[r].pc \in Late /\ request[r].prev # 0 =>
                \A a \in Assets : asset[a].file # request[r].prev
NoPrev    == \A r \in Requests : request[r].pc \in {"stage", "insert"} => request[r].prev = 0

FInv == OwnFiles /\ OwnNames /\ NewKept /\ PrevFound /\ PrevFree /\ NoPrev

\* What a request becomes, seen pointwise.
LEMMA BecomesAt ==
  ASSUME TInv, NEW r \in Requests, NEW q, Becomes(r, q)
  PROVE  \A s \in Requests : request'[s] = IF s = r THEN q ELSE request[s]
  BY DEF TInv, RequestsSound, Becomes

LEMMA FilesInit == ASSUME Init PROVE FInv
  <1>1. \A r \in Requests : request[r].pc = "idle" /\ request[r].file = 0 /\ request[r].prev = 0
    BY DEF Init, NoRequest
  <1>2. \A a \in Assets : asset[a].file = 0
    BY DEF Init, NoRow
  <1> QED BY <1>1, <1>2 DEF FInv, OwnFiles, OwnNames, NewKept, PrevFound, PrevFree, NoPrev,
                            Unnamed, Late

LEMMA FilesBegins ==
  ASSUME NoteAssumption, TInv, FInv, NEW r \in Requests, Begins(r) PROVE FInv'
  <1>1. PICK q : Becomes(r, q) /\ q.pc = "stage" /\ q.file = NewFile /\ q.prev = 0
    BY DEF Begins
  <1>2. \A s \in Requests : request'[s] = IF s = r THEN q ELSE request[s]
    BY <1>1, BecomesAt
  <1>3. /\ NewFile \in Files /\ NewFile # 0
        /\ \A a \in Assets : asset[a].file # NewFile
        /\ \A s \in Requests : request[s].file # NewFile /\ request[s].prev # NewFile
    BY NewFileIsNew DEF Named, Files
  <1>4. /\ NewFile \in files'
        /\ \A f \in files : Named(f) => f \in files'
    BY DEF Begins
  <1>5. \A s \in Requests : Named(request[s].file)
    BY DEF Named
  <1>6. \A a \in Assets : asset'[a].file = asset[a].file
    BY DEF Begins, SameFiles
  <1>7. OwnFiles' /\ OwnNames'
    BY <1>1, <1>2, <1>3, <1>6 DEF FInv, OwnFiles, OwnNames
  <1>8. NewKept'
    BY <1>1, <1>2, <1>3, <1>4, <1>5, <1>6 DEF FInv, NewKept
  <1>9. PrevFound' /\ PrevFree' /\ NoPrev'
    BY <1>1, <1>2, <1>6 DEF FInv, PrevFound, PrevFree, NoPrev, Late
  <1> QED BY <1>7, <1>8, <1>9 DEF FInv

LEMMA FilesLooks ==
  ASSUME NoteAssumption, TInv, FInv, NEW r \in Requests, Looks(r) PROVE FInv'
  <1>1. PICK q : /\ Becomes(r, q)
                 /\ q.file = request[r].file
                 /\ \/ q.pc = "update" /\ q.asset \in Assets /\ q.prev = asset[q.asset].file
                    \/ q.pc = "insert" /\ q.prev = request[r].prev
    BY DEF Looks
  <1>2. \A s \in Requests : request'[s] = IF s = r THEN q ELSE request[s]
    BY <1>1, BecomesAt
  <1>3. /\ request[r].pc = "stage" /\ files' = files
        /\ \A a \in Assets : asset'[a].file = asset[a].file
    BY DEF Looks, SameFiles
  <1>4. OwnFiles' /\ OwnNames'
    BY <1>1, <1>2, <1>3 DEF FInv, OwnFiles, OwnNames
  <1>5. NewKept'
    BY <1>1, <1>2, <1>3 DEF FInv, NewKept, Unnamed
  <1>6. PrevFound'
    BY <1>1, <1>2, <1>3 DEF FInv, PrevFound, OwnNames
  <1>7. PrevFree' /\ NoPrev'
    BY <1>1, <1>2, <1>3 DEF FInv, PrevFree, NoPrev, Late
  <1> QED BY <1>4, <1>5, <1>6, <1>7 DEF FInv

LEMMA FilesNames ==
  ASSUME NoteAssumption, TInv, FInv, NEW r \in Requests, NEW a \in Assets, Names(r, a)
  PROVE  FInv'
  <1>1. PICK q : /\ Becomes(r, q)
                 /\ q.pc = "index" /\ q.file = request[r].file /\ q.prev = request[r].prev
    BY DEF Names
  <1>2. \A s \in Requests : request'[s] = IF s = r THEN q ELSE request[s]
    BY <1>1, BecomesAt
  <1>3. PICK x \in AssetType : x.file = request[r].file /\ asset' = [asset EXCEPT ![a] = x]
    BY DEF Names
  <1>4. \A b \in Assets : asset'[b].file = IF b = a THEN request[r].file ELSE asset[b].file
    BY <1>3 DEF TInv, AssetsTyped
  <1>5. /\ files' = files
        /\ \/ request[r].pc = "update" /\ a = request[r].asset
           \/ request[r].pc = "insert"
    BY DEF Names
  <1>6. /\ request[r].file \in files /\ request[r].file # 0
        /\ \A b \in Assets : asset[b].file # request[r].file
        /\ \A s \in Requests : request[s].prev # request[r].file
        /\ \A s \in Requests : s # r => request[s].file # request[r].file
    BY <1>5 DEF FInv, NewKept, OwnFiles, Unnamed
  <1>7. OwnFiles' /\ OwnNames'
    BY <1>1, <1>2, <1>4, <1>6 DEF FInv, OwnFiles, OwnNames
  <1>8. NewKept'
    BY <1>1, <1>2, <1>4, <1>5, <1>6 DEF FInv, NewKept, Unnamed
  <1>9. PrevFound' /\ NoPrev'
    BY <1>1, <1>2, <1>4, <1>6 DEF FInv, PrevFound, NoPrev
  <1>10. PrevFree'
    <2> SUFFICES ASSUME NEW s \in Requests, request'[s].pc \in Late, request'[s].prev # 0,
                        NEW b \in Assets
                 PROVE  asset'[b].file # request'[s].prev
      BY DEF PrevFree
    <2>1. CASE s # r
      BY <1>2, <1>4, <1>6, <2>1 DEF FInv, PrevFree
    <2>2. CASE s = r
      <3>1. request'[s].prev = request[r].prev /\ request[r].prev # 0
        BY <1>1, <1>2, <2>2
      <3>2. request[r].pc = "update" /\ a = request[r].asset
        BY <1>5, <3>1 DEF FInv, NoPrev
      <3> QED BY <1>4, <1>6, <3>1, <3>2 DEF FInv, PrevFound
    <2> QED BY <2>1, <2>2
  <1> QED BY <1>7, <1>8, <1>9, <1>10 DEF FInv

\* The file before that is removed is named by nobody, and so is a file dropped by
\* the request that wrote it, except perhaps by the row it was given to.
LEMMA FilesOnward ==
  ASSUME NoteAssumption, TInv, FInv, NEW r \in Requests, Onward(r) PROVE FInv'
  <1>1. PICK q : /\ Becomes(r, q)
                 /\ q.file = request[r].file /\ q.prev = request[r].prev
                 /\ q.pc \notin Unnamed
                 /\ q.pc \in Late => request[r].pc \in Late
    BY DEF Onward
  <1>2. \A s \in Requests : request'[s] = IF s = r THEN q ELSE request[s]
    BY <1>1, BecomesAt
  <1>3. /\ \A a \in Assets : asset'[a].file = asset[a].file
        /\ \A f \in files : f # request[r].prev => f \in files'
    BY DEF Onward, SameFiles
  <1>4. OwnFiles' /\ OwnNames'
    BY <1>1, <1>2, <1>3 DEF FInv, OwnFiles, OwnNames
  <1>5. NewKept'
    BY <1>1, <1>2, <1>3 DEF FInv, NewKept
  <1>6. PrevFound' /\ PrevFree' /\ NoPrev'
    BY <1>1, <1>2, <1>3 DEF FInv, PrevFound, PrevFree, NoPrev, Unnamed
  <1> QED BY <1>4, <1>5, <1>6 DEF FInv

LEMMA FilesPlain ==
  ASSUME NoteAssumption, TInv, FInv, NEW r \in Requests, Plain(r) PROVE FInv'
  <1>1. PICK q : Becomes(r, q) /\ q.file = 0 /\ q.prev = 0 /\ q.pc \notin Unnamed \cup Late
    BY DEF Plain
  <1>2. \A s \in Requests : request'[s] = IF s = r THEN q ELSE request[s]
    BY <1>1, BecomesAt
  <1>3. /\ \A a \in Assets : asset'[a].file = asset[a].file
        /\ \A f \in files : f # request[r].prev /\ f # request[r].file => f \in files'
    BY DEF Plain, SameFiles
  <1>4. OwnFiles' /\ OwnNames'
    BY <1>1, <1>2, <1>3 DEF FInv, OwnFiles, OwnNames
  <1>5. NewKept'
    BY <1>1, <1>2, <1>3 DEF FInv, NewKept, OwnFiles
  <1>6. PrevFound' /\ PrevFree' /\ NoPrev'
    BY <1>1, <1>2, <1>3 DEF FInv, PrevFound, PrevFree, NoPrev, Unnamed
  <1> QED BY <1>4, <1>5, <1>6 DEF FInv

LEMMA FilesRemoves ==
  ASSUME NoteAssumption, TInv, FInv, NEW r \in Requests, NEW a \in Assets, Removes(r, a)
  PROVE  FInv'
  <1>1. PICK q : /\ Becomes(r, q)
                 /\ q.file = request[r].file /\ q.prev = request[r].prev
                 /\ q.pc \notin Unnamed \cup Late
    BY DEF Removes
  <1>2. \A s \in Requests : request'[s] = IF s = r THEN q ELSE request[s]
    BY <1>1, BecomesAt
  <1>3. /\ \A b \in Assets : asset'[b].file = IF b = a THEN 0 ELSE asset[b].file
        /\ files' = files \ {asset[a].file}
    BY DEF Removes, NoRow, TInv, AssetsTyped
  <1>4. OwnFiles' /\ OwnNames'
    BY <1>1, <1>2, <1>3 DEF FInv, OwnFiles, OwnNames
  <1>5. NewKept'
    BY <1>1, <1>2, <1>3 DEF FInv, NewKept
  <1>6. PrevFound' /\ PrevFree' /\ NoPrev'
    BY <1>1, <1>2, <1>3 DEF FInv, PrevFound, PrevFree, NoPrev, Unnamed
  <1> QED BY <1>4, <1>5, <1>6 DEF FInv

LEMMA FilesStep ==
  ASSUME NoteAssumption, TInv, FInv, [Next]_vars PROVE FInv'
  <1>1. FileStep
    BY RowsStep
  <1>2. CASE Idles
    BY <1>2 DEF Idles, SameFiles, FInv, OwnFiles, OwnNames, NewKept, PrevFound, PrevFree, NoPrev
  <1>3. CASE Dies
    <2>1. \A r \in Requests : /\ request'[r].pc = "idle"
                              /\ request'[r].file = 0 /\ request'[r].prev = 0
      BY <1>3 DEF Dies, NoRequest
    <2> QED BY <1>3, <2>1 DEF Dies, SameFiles, FInv, OwnFiles, OwnNames, NewKept, PrevFound,
                              PrevFree, NoPrev, Unnamed, Late
  <1>4. ASSUME NEW r \in Requests, Moves(r) PROVE FInv'
    BY <1>4, FilesBegins, FilesLooks, FilesNames, FilesOnward, FilesPlain, FilesRemoves
       DEF Moves
  <1> QED BY <1>1, <1>2, <1>3, <1>4 DEF FileStep

\* A file in use goes only in the catch block of the publication that wrote it.
FileStays ==
    \A a \in Assets :
       HasRow(a) /\ asset[a].file \in files /\ HasRow(a)' /\ asset'[a].file \notin files' =>
          \E r \in Requests : request[r].pc = "dropFile" /\ request[r].file = asset[a].file

LEMMA FileStaysStep ==
  ASSUME NoteAssumption, TInv, FInv, [Next]_vars PROVE FileStays
  <1> SUFFICES ASSUME NEW a \in Assets, HasRow(a), asset[a].file \in files,
                      HasRow(a)', asset'[a].file \notin files'
               PROVE  \E r \in Requests : /\ request[r].pc = "dropFile"
                                          /\ request[r].file = asset[a].file
    BY DEF FileStays
  <1>0. asset[a].file # 0
    BY DEF TInv, FilesTyped, Files
  <1>1. FileStep
    BY RowsStep
  <1>2. ASSUME NEW r \in Requests, Begins(r) PROVE FALSE
    <2>1. Named(asset[a].file)
      BY DEF Named
    <2> QED BY <1>2, <2>1 DEF Begins, SameFiles
  <1>3. ASSUME NEW r \in Requests, NEW b \in Assets, Names(r, b) PROVE FALSE
    <2>1. PICK x \in AssetType : x.file = request[r].file /\ asset' = [asset EXCEPT ![b] = x]
      BY <1>3 DEF Names
    <2>2. asset'[a].file = IF a = b THEN request[r].file ELSE asset[a].file
      BY <2>1 DEF TInv, AssetsTyped
    <2>3. request[r].file \in files /\ files' = files
      BY <1>3 DEF Names, FInv, NewKept, Unnamed
    <2> QED BY <2>2, <2>3
  <1>4. ASSUME NEW r \in Requests, SameFiles,
               request[r].pc = "clean", files' = files \ {request[r].prev}
        PROVE  FALSE
    <2>1. request[r].prev # 0 => asset[a].file # request[r].prev
      BY <1>4 DEF FInv, PrevFree, Late
    <2> QED BY <1>0, <1>4, <2>1 DEF SameFiles
  <1>5. ASSUME NEW r \in Requests, Removes(r, a) \/ \E b \in Assets : Removes(r, b) PROVE FALSE
    <2>1. PICK b \in Assets : Removes(r, b)
      BY <1>5
    <2>2. asset' = [asset EXCEPT ![b] = NoRow] /\ files' = files \ {asset[b].file}
      BY <2>1 DEF Removes
    <2>3. CASE a = b
      <3>1. asset'[a].status = "none"
        BY <2>2, <2>3 DEF NoRow, TInv, AssetsTyped
      <3> QED BY <3>1 DEF HasRow
    <2>4. CASE a # b
      <3>1. asset'[a] = asset[a] /\ asset[a].file # asset[b].file
        BY <1>0, <2>2, <2>4 DEF TInv, AssetsTyped, FInv, OwnNames
      <3> QED BY <2>2, <3>1
    <2> QED BY <2>3, <2>4
  <1>6. ASSUME NEW r \in Requests, Plain(r) PROVE request[r].pc = "dropFile"
                                                  /\ request[r].file = asset[a].file
    BY <1>4, <1>6 DEF Plain, SameFiles
  <1>7. ASSUME NEW r \in Requests, Looks(r) \/ Onward(r) PROVE FALSE
    BY <1>4, <1>7 DEF Looks, Onward, SameFiles
  <1>8. ~Idles /\ ~Dies
    BY DEF Idles, Dies, SameFiles
  <1> QED BY <1>1, <1>2, <1>3, <1>5, <1>6, <1>7, <1>8 DEF FileStep, Moves

\* No publication that succeeds, and no purge, takes a file that a row names.
THEOREM FilesInUseStay == Spec => FilesKept
  <1>1. Init => TInv /\ FInv
    BY NoteAssumption, TypeInit, FilesInit
  <1>2. TInv /\ FInv /\ [Next]_vars => (TInv /\ FInv)'
    BY NoteAssumption, TypeStep, FilesStep
  <1>3. TInv /\ FInv /\ [Next]_vars =>
          [\A a \in Assets :
             HasRow(a) /\ asset[a].file \in files /\ HasRow(a)' /\ asset'[a].file \notin files' =>
                \E r \in Requests : /\ request[r].pc = "dropFile"
                                    /\ request[r].file = asset[a].file]_vars
    BY NoteAssumption, FileStaysStep DEF FileStays
  <1> QED BY <1>1, <1>2, <1>3, PTL DEF Spec, FilesKept

-----------------------------------------------------------------------------
(* The history of the note: what a step does to the numbers.                  *)

\* The published version stays, and so do existence and the revisions.
NoteQuiet ==
    /\ note'.published = note.published /\ note'.hash = note.hash
    /\ note'.status = "none" <=> note.status = "none"
    /\ NoteExists' => NoteExists

\* Who is numbering knows the published version, or knew one and goes on with it.
RequestsQuiet ==
    /\ \A s \in Requests : request'[s].pc \in Numbering =>
          \/ /\ request[s].pc \in Numbering
             /\ request'[s].base = request[s].base /\ request'[s].text = request[s].text
             /\ request'[s].pc = "mark" => request[s].pc = "mark"
          \/ request'[s].base = note.published /\ request'[s].pc # "mark"
    /\ \A s \in Requests : request'[s].pc # "idle" =>
          request[s].pc # "idle" \/ note.status # "none"

Quiet == NoteQuiet /\ RequestsQuiet /\ revision' = revision

\* The first of the two statements that count, and the second.
Revised(r) ==
    /\ request[r].pc = "revise" /\ NoteExists /\ revision[request[r].base + 1] = 0
    /\ revision' = [revision EXCEPT ![request[r].base + 1] = request[r].text]
    /\ Goto(r, "mark") /\ note' = note
Marked(r) ==
    /\ request[r].pc = "mark" /\ NoteExists
    /\ note' = [note EXCEPT !.asset = request[r].asset, !.published = request[r].base + 1,
                            !.hash = request[r].text, !.sync = "synced"]
    /\ \E q : Becomes(r, q) /\ q.pc = "tags"
    /\ revision' = revision

HistoryStep ==
    \/ Quiet
    \/ Create
    \/ NoteExists /\ note'.status = "purged"
    \/ \E r \in Requests : Revised(r) \/ Marked(r)

LEMMA QuietGoto ==
  ASSUME TInv, NEW r \in Requests, NEW pc, Goto(r, pc), request[r].pc # "idle",
         pc \in {"idle"} \cup Publishing \cup Catching \cup Others, pc # "revert", pc # "mark",
         pc \in Numbering => request[r].pc \in Numbering
  PROVE  RequestsQuiet
  <1>1. PICK q : /\ Becomes(r, q) /\ q.pc = pc
                 /\ q.text = request[r].text /\ q.base = request[r].base
    BY GotoGoes DEF TInv
  <1>2. \A s \in Requests : request'[s] = IF s = r THEN q ELSE request[s]
    BY <1>1, BecomesAt
  <1> QED BY <1>1, <1>2 DEF RequestsQuiet

LEMMA QuietLeave ==
  ASSUME NoteAssumption, TInv, NEW r \in Requests, Leave(r) PROVE RequestsQuiet
  <1>1. PICK q : Becomes(r, q) /\ q.pc = "idle"
    BY LeaveGoes
  <1>2. \A s \in Requests : request'[s] = IF s = r THEN q ELSE request[s]
    BY <1>1, BecomesAt
  <1> QED BY <1>1, <1>2 DEF RequestsQuiet, Numbering

LEMMA QuietSame == ASSUME request' = request PROVE RequestsQuiet
  BY DEF RequestsQuiet

LEMMA QuietWrite ==
  ASSUME NEW n, SetNote(n),
         NoteExists => /\ n.published = note.published /\ n.hash = note.hash
                       /\ n.status \in {"active", "deleted", "purged"}
  PROVE  NoteQuiet
  <1>1. CASE NoteExists
    BY <1>1 DEF SetNote, NoteQuiet, NoteExists
  <1>2. CASE ~NoteExists
    BY <1>2 DEF SetNote, NoteQuiet, NoteExists
  <1> QED BY <1>1, <1>2

LEMMA QuietKept == ASSUME note' = note PROVE NoteQuiet
  BY DEF NoteQuiet, NoteExists

LEMMA QuietPublish ==
  ASSUME NoteAssumption, TInv, NEW r \in Requests, NEW byTab \in BOOLEAN, Publish(r, byTab)
  PROVE  Quiet
  <1>1. note' = note /\ revision' = revision /\ note.status = "active"
    BY DEF Publish
  <1>2. CASE request' = request
    BY <1>1, <1>2, QuietSame, QuietKept DEF Quiet
  <1>3. CASE request' # request
    <2> DEFINE q == [pc |-> "stage", tab |-> byTab, text |-> note.text,
                     base |-> note.published, asset |-> note.asset, file |-> NewFile,
                     prev |-> 0]
    <2>1. request' = [request EXCEPT ![r] = q]
      BY <1>3 DEF Publish
    <2>2. \A s \in Requests : request'[s] = IF s = r THEN q ELSE request[s]
      BY <2>1 DEF TInv, RequestsSound
    <2>3. q.pc = "stage" /\ q.base = note.published
      OBVIOUS
    <2> HIDE DEF q
    <2>4. RequestsQuiet
      BY <1>1, <2>2, <2>3 DEF RequestsQuiet
    <2> QED BY <1>1, <2>4, QuietKept DEF Quiet
  <1> QED BY <1>2, <1>3

LEMMA QuietCall ==
  ASSUME NoteAssumption, TInv, NEW r \in Requests, Call(r) PROVE Quiet
  <1>1. /\ note' = note /\ revision' = revision /\ NoteExists
        /\ \E t : \E pc \in Others, a \in Assets \cup {NoAsset} :
              request' = [request EXCEPT ![r] = Started(pc, a, t)]
    <2>0. note.asset \in Assets \cup {NoAsset} /\ NoAsset \in Assets \cup {NoAsset}
      BY DEF TInv, NoteTyped, NoteType
    <2>1. CASE Delete(r)
      BY <2>0, <2>1 DEF Delete, NoteExists, Others
    <2>2. CASE Restore(r)
      BY <2>0, <2>2 DEF Restore, NoteExists, Others
    <2>3. CASE Purge(r)
      BY <2>0, <2>3 DEF Purge, NoteExists, Others
    <2>4. CASE Revert(r)
      BY <2>0, <2>4 DEF Revert, NoteExists, Others
    <2> QED BY <2>1, <2>2, <2>3, <2>4 DEF Call
  <1>0. PICK t : \E pc \in Others, a \in Assets \cup {NoAsset} :
           request' = [request EXCEPT ![r] = Started(pc, a, t)]
    BY <1>1
  <1>2. PICK pc \in Others, a \in Assets \cup {NoAsset} :
           request' = [request EXCEPT ![r] = Started(pc, a, t)]
    BY <1>0
  <1> DEFINE q == Started(pc, a, t)
  <1>3. \A s \in Requests : request'[s] = IF s = r THEN q ELSE request[s]
    BY <1>2 DEF TInv, RequestsSound
  <1>4. q.pc \notin Numbering
    BY DEF Started, NoRequest, Others, Numbering
  <1> HIDE DEF q
  <1>5. RequestsQuiet
    BY <1>1, <1>3, <1>4 DEF RequestsQuiet, NoteExists
  <1> QED BY <1>1, <1>5, QuietKept DEF Quiet

LEMMA QuietThrows ==
  ASSUME NoteAssumption, TInv, NEW r \in Requests, Throws(r) PROVE Quiet
  <1> DEFINE q == [request[r] EXCEPT !.pc = "failNote",
                     !.asset = IF request[r].pc \in {"stage", "update", "insert"}
                               THEN NoAsset ELSE request[r].asset]
  <1>1. note' = note /\ revision' = revision /\ request[r].pc # "idle"
    BY DEF Throws, Publishing, Catching, Others
  <1>2. RequestsQuiet
    <2>1. CASE request[r].pc \in Publishing
      <3>1. \A s \in Requests : request'[s] = IF s = r THEN q ELSE request[s]
        BY <2>1 DEF Throws, TInv, RequestsSound
      <3>2. q.pc = "failNote"
        BY SoundTyped DEF TInv, RequestType
      <3> HIDE DEF q
      <3> QED BY <1>1, <3>1, <3>2 DEF RequestsQuiet, Numbering
    <2>2. CASE request[r].pc \in {"reindex", "reready"}
      <3>1. Goto(r, "retrash")
        BY <2>2 DEF Throws, Publishing
      <3> QED BY <1>1, <3>1, QuietGoto DEF Others, Numbering
    <2>3. CASE request[r].pc \notin Publishing \cup {"reindex", "reready"}
      <3>1. Leave(r)
        BY <2>3 DEF Throws
      <3> QED BY <3>1, QuietLeave
    <2> QED BY <2>1, <2>2, <2>3
  <1> QED BY <1>1, <1>2, QuietKept DEF Quiet
LEMMA QuietStage ==
  ASSUME TInv, NEW r \in Requests, Stage(r) PROVE Quiet
  <1> DEFINE a == request[r].asset
             q == IF Live(a) THEN [request[r] EXCEPT !.pc = "update", !.prev = asset[a].file]
                             ELSE [request[r] EXCEPT !.pc = "insert", !.asset = NoAsset]
  <1>1. note' = note /\ revision' = revision /\ request[r].pc = "stage"
    BY DEF Stage
  <1>2. \A s \in Requests : request'[s] = IF s = r THEN q ELSE request[s]
    BY DEF Stage, TInv, RequestsSound
  <1>3. q.pc # "mark" /\ q.base = request[r].base /\ q.text = request[r].text
    BY SoundTyped DEF TInv, RequestType
  <1> HIDE DEF q
  <1>4. RequestsQuiet
    BY <1>1, <1>2, <1>3 DEF RequestsQuiet, Numbering
  <1> QED BY <1>1, <1>4, QuietKept DEF Quiet

LEMMA QuietUpdate ==
  ASSUME TInv, NEW r \in Requests, Update(r) PROVE Quiet
  <1> DEFINE q == [request[r] EXCEPT !.pc = "failNote", !.asset = NoAsset]
  <1>1. note' = note /\ revision' = revision /\ request[r].pc = "update"
    BY DEF Update
  <1>2. \/ Goto(r, "failNoteOnly") \/ Goto(r, "index") \/ request' = [request EXCEPT ![r] = q]
    BY DEF Update
  <1>3. CASE Goto(r, "failNoteOnly")
    BY <1>1, <1>3, QuietGoto, QuietKept DEF Quiet, Catching, Numbering
  <1>4. CASE Goto(r, "index")
    BY <1>1, <1>4, QuietGoto, QuietKept DEF Quiet, Publishing, Numbering
  <1>5. CASE request' = [request EXCEPT ![r] = q]
    <2>1. \A s \in Requests : request'[s] = IF s = r THEN q ELSE request[s]
      BY <1>5 DEF TInv, RequestsSound
    <2>2. q.pc = "failNote"
      BY SoundTyped DEF TInv, RequestType
    <2> HIDE DEF q
    <2>3. RequestsQuiet
      BY <1>1, <2>1, <2>2 DEF RequestsQuiet, Numbering
    <2> QED BY <1>1, <2>3, QuietKept DEF Quiet
  <1> QED BY <1>2, <1>3, <1>4, <1>5

LEMMA QuietInsert ==
  ASSUME TInv, NEW r \in Requests, Insert(r) PROVE Quiet
  <1> DEFINE q == [request[r] EXCEPT !.pc = "index", !.asset = NewAsset]
  <1>1. note' = note /\ revision' = revision /\ request[r].pc = "insert"
    BY DEF Insert
  <1>2. Goto(r, "failNote") \/ request' = [request EXCEPT ![r] = q]
    BY DEF Insert
  <1>3. CASE Goto(r, "failNote")
    BY <1>1, <1>3, QuietGoto, QuietKept DEF Quiet, Catching, Numbering
  <1>4. CASE request' = [request EXCEPT ![r] = q]
    <2>1. \A s \in Requests : request'[s] = IF s = r THEN q ELSE request[s]
      BY <1>4 DEF TInv, RequestsSound
    <2>2. q.pc = "index" /\ q.base = request[r].base /\ q.text = request[r].text
      BY SoundTyped DEF TInv, RequestType
    <2> HIDE DEF q
    <2>3. RequestsQuiet
      BY <1>1, <2>1, <2>2 DEF RequestsQuiet, Numbering
    <2> QED BY <1>1, <2>3, QuietKept DEF Quiet
  <1> QED BY <1>2, <1>3, <1>4

LEMMA QuietIndex ==
  ASSUME TInv, NEW r \in Requests, Index(r) \/ MarkReady(r) PROVE Quiet
  <1>1. /\ note' = note /\ revision' = revision
        /\ request[r].pc \in {"index", "reindex", "ready", "reready"}
    BY DEF Index, MarkReady
  <1>2. \/ /\ request[r].pc \in {"index", "ready"}
           /\ Goto(r, "ready") \/ Goto(r, "revise") \/ Goto(r, "failNote")
        \/ Goto(r, "reready") \/ Goto(r, "retrash") \/ Goto(r, "activate")
    BY DEF Index, MarkReady
  <1>3. CASE request[r].pc \in {"index", "ready"} /\ Goto(r, "ready")
    BY <1>1, <1>3, QuietGoto, QuietKept DEF Quiet, Publishing, Numbering
  <1>4. CASE request[r].pc \in {"index", "ready"} /\ Goto(r, "revise")
    BY <1>1, <1>4, QuietGoto, QuietKept DEF Quiet, Publishing, Numbering
  <1>5. CASE Goto(r, "failNote")
    BY <1>1, <1>5, QuietGoto, QuietKept DEF Quiet, Catching, Numbering
  <1>6. CASE Goto(r, "reready")
    BY <1>1, <1>6, QuietGoto, QuietKept DEF Quiet, Others, Numbering
  <1>7. CASE Goto(r, "retrash")
    BY <1>1, <1>7, QuietGoto, QuietKept DEF Quiet, Others, Numbering
  <1>8. CASE Goto(r, "activate")
    BY <1>1, <1>8, QuietGoto, QuietKept DEF Quiet, Others, Numbering
  <1> QED BY <1>2, <1>3, <1>4, <1>5, <1>6, <1>7, <1>8

LEMMA ReviseCounts ==
  ASSUME TInv, NEW r \in Requests, Revise(r) PROVE HistoryStep
  <1>1. CASE Goto(r, "mark")
    <2>1. ~Goto(r, "failNote")
      <3>1. request'[r].pc = "mark"
        BY <1>1, SoundTyped DEF Goto, TInv, RequestType
      <3>2. SUFFICES ASSUME Goto(r, "failNote") PROVE request'[r].pc = "failNote"
        BY <3>1
      <3> QED BY <3>2, SoundTyped DEF Goto, TInv, RequestType
    <2>2. Revised(r)
      BY <1>1, <2>1 DEF Revise, Revised
    <2> QED BY <2>2 DEF HistoryStep
  <1>2. CASE Goto(r, "failNote") /\ revision' = revision
    BY <1>2, QuietGoto, QuietKept DEF Revise, Quiet, Catching, Numbering, HistoryStep
  <1> QED BY <1>1, <1>2 DEF Revise

LEMMA MarkCounts ==
  ASSUME NoteAssumption, TInv, NEW r \in Requests, Mark(r) PROVE HistoryStep
  <1> DEFINE q == [request[r] EXCEPT !.pc = "tags", !.base = note.version]
  <1>1. request[r].pc = "mark" /\ revision' = revision
    BY DEF Mark
  <1>2. CASE NoteExists /\ ~HasRow(request[r].asset)
    <2>1. Goto(r, "failNote") /\ note' = note
      BY <1>2 DEF Mark
    <2> QED BY <1>1, <2>1, QuietGoto, QuietKept DEF Quiet, Catching, Numbering, HistoryStep
  <1>3. CASE ~(NoteExists /\ ~HasRow(request[r].asset))
    <2>1. /\ request' = [request EXCEPT ![r] = q]
          /\ SetNote([note EXCEPT !.asset = request[r].asset,
                                  !.published = request[r].base + 1,
                                  !.hash = request[r].text, !.sync = "synced"])
      BY <1>3 DEF Mark
    <2>2. request[r] \in RequestType /\ note.version \in Nat
      BY SoundTyped DEF TInv, NoteTyped, NoteType
    <2>3. q \in RequestType /\ q.pc = "tags"
      BY <2>2 DEF RequestType, Publishing
    <2> HIDE DEF q
    <2>4. Becomes(r, q)
      BY <2>1, <2>3 DEF Becomes, Sound, Numbering
    <2>5. CASE NoteExists
      <3>1. Marked(r)
        BY <1>1, <2>1, <2>3, <2>4, <2>5 DEF Marked, SetNote
      <3> QED BY <3>1 DEF HistoryStep
    <2>6. CASE ~NoteExists
      <3>1. note' = note
        BY <2>1, <2>6 DEF SetNote
      <3>2. \A s \in Requests : request'[s] = IF s = r THEN q ELSE request[s]
        BY <2>4, BecomesAt
      <3>3. RequestsQuiet
        BY <1>1, <2>3, <3>2 DEF RequestsQuiet, Numbering
      <3> QED BY <1>1, <3>1, <3>3, QuietKept DEF Quiet, HistoryStep
    <2> QED BY <2>5, <2>6
  <1> QED BY <1>2, <1>3

LEMMA QuietFinish ==
  ASSUME NoteAssumption, TInv, NEW r \in Requests,
         \/ Tags(r) \/ Clean(r) \/ FailNote(r) \/ FailAsset(r) \/ DropFile(r)
         \/ Trash(r) \/ DeleteNote(r) \/ Untrash(r) \/ Retrash(r) \/ Activate(r)
         \/ PurgeAsset(r) \/ RevertNote(r)
  PROVE  Quiet
  <1>1. revision' = revision /\ request[r].pc \notin {"idle"} \cup Numbering
    BY DEF Tags, Clean, FailNote, FailAsset, DropFile, Trash, DeleteNote, Untrash, Retrash,
           Activate, PurgeAsset, RevertNote, Numbering
  <1>2. \/ Leave(r)
        \/ \E pc \in {"clean", "failNote", "dropFile", "failAsset", "deleteNote", "purgeAsset",
                      "reindex", "purgeNote"} : Goto(r, pc)
    BY DEF Tags, Clean, FailNote, FailAsset, DropFile, Trash, DeleteNote, Untrash, Retrash,
           Activate, PurgeAsset, RevertNote
  <1>3. RequestsQuiet
    <2>1. ASSUME NEW pc \in {"clean", "failNote", "dropFile", "failAsset", "deleteNote",
                             "purgeAsset", "reindex", "purgeNote"}, Goto(r, pc)
          PROVE  RequestsQuiet
      <3>1. /\ pc \in {"idle"} \cup Publishing \cup Catching \cup Others
            /\ pc # "revert" /\ pc # "mark" /\ pc \notin Numbering
        BY DEF Publishing, Catching, Others, Numbering
      <3> QED BY <1>1, <2>1, <3>1, QuietGoto
    <2> QED BY <1>2, <2>1, QuietLeave
  <1>4. NoteQuiet
    <2>0. /\ note \in NoteType
          /\ NoteExists => note.status \in {"active", "deleted", "purged"}
      BY DEF TInv, NoteTyped, NoteExists
    <2>1. CASE FailNote(r)
      <3> DEFINE n == [note EXCEPT !.sync = "failed"]
      <3>1. SetNote(n) /\ n.published = note.published /\ n.hash = note.hash
            /\ n.status = note.status
        BY <2>0, <2>1 DEF FailNote, NoteType
      <3> HIDE DEF n
      <3> QED BY <2>0, <3>1, QuietWrite
    <2>2. CASE DeleteNote(r)
      <3> DEFINE n == [note EXCEPT !.status = "deleted", !.sync = "synced"]
      <3>1. SetNote(n) /\ n.published = note.published /\ n.hash = note.hash
            /\ n.status = "deleted"
        BY <2>0, <2>2 DEF DeleteNote, NoteType
      <3> HIDE DEF n
      <3> QED BY <3>1, QuietWrite
    <2>3. CASE Activate(r)
      <3> DEFINE n == [note EXCEPT !.status = "active", !.sync = "synced"]
      <3>1. SetNote(n) /\ n.published = note.published /\ n.hash = note.hash
            /\ n.status = "active"
        BY <2>0, <2>3 DEF Activate, NoteType
      <3> HIDE DEF n
      <3> QED BY <3>1, QuietWrite
    <2>4. CASE RevertNote(r)
      <3> DEFINE n == [note EXCEPT !.text = request[r].text, !.version = note.version + 1,
                                   !.sync = "synced"]
      <3>1. SetNote(n) /\ n.published = note.published /\ n.hash = note.hash
            /\ n.status = note.status
        BY <2>0, <2>4 DEF RevertNote, NoteType
      <3> HIDE DEF n
      <3> QED BY <2>0, <3>1, QuietWrite
    <2>5. CASE PurgeAsset(r)
      <3>1. note' = note \/ note' = [note EXCEPT !.asset = NoAsset]
        BY <2>5 DEF PurgeAsset
      <3> QED BY <2>0, <3>1 DEF NoteQuiet, NoteExists, NoteType
    <2>6. CASE \/ Tags(r) \/ Clean(r) \/ FailAsset(r) \/ DropFile(r)
               \/ Trash(r) \/ Untrash(r) \/ Retrash(r)
      <3>1. note' = note
        BY <2>6 DEF Tags, Clean, FailAsset, DropFile, Trash, Untrash, Retrash
      <3> QED BY <3>1, QuietKept
    <2> QED BY <2>1, <2>2, <2>3, <2>4, <2>5, <2>6
  <1> QED BY <1>1, <1>3, <1>4 DEF Quiet

LEMMA PurgeCounts ==
  ASSUME NoteAssumption, TInv, NEW r \in Requests, PurgeNote(r) PROVE HistoryStep
  <1>1. CASE note.status = "deleted"
    <2>1. note' = [note EXCEPT !.status = "purged", !.asset = NoAsset]
      BY <1>1 DEF PurgeNote
    <2>2. note'.status = "purged"
      BY <2>1 DEF TInv, NoteTyped, NoteType
    <2> QED BY <1>1, <2>2 DEF HistoryStep, NoteExists
  <1>2. CASE note.status # "deleted"
    <2>1. note' = note /\ revision' = revision /\ Leave(r)
      BY <1>2 DEF PurgeNote
    <2> QED BY <2>1, QuietLeave, QuietKept DEF Quiet, HistoryStep
  <1> QED BY <1>1, <1>2

LEMMA HistorySteps ==
  ASSUME NoteAssumption, TInv, [Next]_vars PROVE HistoryStep
  <1>1. ASSUME NEW r \in Requests, Step(r) PROVE HistoryStep
    <2>1. CASE Stage(r) \/ Update(r) \/ Insert(r) \/ Index(r) \/ MarkReady(r)
      BY <2>1, QuietStage, QuietUpdate, QuietInsert, QuietIndex DEF HistoryStep
    <2>2. CASE Revise(r) \/ Mark(r) \/ PurgeNote(r)
      BY <2>2, ReviseCounts, MarkCounts, PurgeCounts
    <2>3. CASE \/ Tags(r) \/ Clean(r) \/ FailNote(r) \/ FailAsset(r) \/ DropFile(r)
               \/ Trash(r) \/ DeleteNote(r) \/ Untrash(r) \/ Retrash(r) \/ Activate(r)
               \/ PurgeAsset(r) \/ RevertNote(r)
      BY <2>3, QuietFinish DEF HistoryStep
    <2> QED BY <1>1, <2>1, <2>2, <2>3 DEF Step
  <1>2. ASSUME NEW r \in Requests, NEW byTab \in BOOLEAN, Publish(r, byTab) PROVE HistoryStep
    BY <1>2, QuietPublish DEF HistoryStep
  <1>3. ASSUME NEW r \in Requests, Call(r) \/ Throws(r) PROVE HistoryStep
    BY <1>3, QuietCall, QuietThrows DEF HistoryStep
  <1>4. ASSUME NEW t \in Texts, Edit(t) PROVE HistoryStep
    <2>1. request' = request /\ revision' = revision /\ NoteQuiet
      BY <1>4 DEF Edit, NoteQuiet, NoteExists, TInv, NoteTyped, NoteType
    <2> QED BY <2>1, QuietSame DEF Quiet, HistoryStep
  <1>5. CASE Crash
    <2>1. \A s \in Requests : request'[s].pc = "idle"
      BY <1>5 DEF Crash, NoRequest
    <2>2. RequestsQuiet
      BY <2>1 DEF RequestsQuiet, Numbering
    <2> QED BY <1>5, <2>2, QuietKept DEF Crash, Quiet, HistoryStep
  <1>6. CASE Reload \/ LibraryTrash \/ UNCHANGED vars
    BY <1>6, QuietSame, QuietKept DEF Reload, LibraryTrash, vars, Quiet, HistoryStep
  <1>7. CASE Create
    BY <1>7 DEF HistoryStep
  <1> QED BY <1>1, <1>2, <1>3, <1>4, <1>5, <1>6, <1>7 DEF Next
-----------------------------------------------------------------------------
(* The numbers of a note's revisions.                                         *)

\* who numbers a revision has read the published version, or an older one
BaseKnown == NoteExists => \A r \in Requests : request[r].pc \in Numbering =>
                              request[r].base <= note.published

\* between the two statements: the revision is the one after the published, and
\* nobody else is there
MarkingNext == NoteExists => \A r \in Requests : request[r].pc = "mark" =>
                  /\ request[r].base = note.published
                  /\ revision[note.published + 1] = request[r].text
                  /\ \A s \in Requests : request[s].pc = "mark" => s = r

\* no revision and no request is there before the note
NothingYet == note.status = "none" => /\ \A v \in Revisions : revision[v] = 0
                                      /\ \A r \in Requests : request[r].pc = "idle"

HInv == HistoryIsWhole /\ BaseKnown /\ MarkingNext /\ NothingYet

LEMMA HistoryInit == ASSUME Init PROVE HInv
  <1>1. note.status = "none" /\ ~NoteExists
    BY DEF Init, NoNote, NoteExists
  <1>2. /\ \A v \in Revisions : revision[v] = 0
        /\ \A r \in Requests : request[r].pc = "idle"
    BY DEF Init, NoRequest
  <1> QED BY <1>1, <1>2 DEF HInv, HistoryIsWhole, BaseKnown, MarkingNext, NothingYet

LEMMA Numbers ==
  ASSUME NoteAssumption, TInv
  PROVE  /\ note.published \in Nat /\ note.published <= MaxRevisions
         /\ \A r \in Requests : /\ request[r].base \in Nat
                                /\ request[r].pc \in Numbering => /\ request[r].base < MaxRevisions
                                                                  /\ request[r].text # 0
         /\ Revisions = {n \in Nat : 1 <= n /\ n <= MaxRevisions}
  <1>1. note.published \in 0 .. MaxRevisions
    BY DEF TInv, NoteTyped, NoteType
  <1>2. \A r \in Requests : request[r] \in Sound /\ request[r] \in RequestType
    BY DEF TInv, RequestsSound, Sound
  <1>3. \A r \in Requests : request[r].base \in Nat
    BY <1>2 DEF RequestType
  <1>4. \A r \in Requests : request[r].pc \in Numbering => /\ request[r].base < MaxRevisions
                                                           /\ request[r].text # 0
    BY <1>2 DEF Sound
  <1> QED BY <1>1, <1>3, <1>4, NoteAssumption DEF Revisions

LEMMA HistoryQuiet == ASSUME NoteAssumption, TInv, HInv, Quiet PROVE HInv'
  <1>1. HistoryIsWhole'
    BY DEF Quiet, NoteQuiet, HInv, HistoryIsWhole
  <1>2. BaseKnown'
    BY Numbers DEF Quiet, NoteQuiet, RequestsQuiet, HInv, BaseKnown
  <1>3. MarkingNext'
    <2> SUFFICES ASSUME NoteExists', NEW r \in Requests, request'[r].pc = "mark"
                 PROVE  /\ request'[r].base = note'.published
                        /\ revision'[note'.published + 1] = request'[r].text
                        /\ \A s \in Requests : request'[s].pc = "mark" => s = r
      BY DEF MarkingNext
    <2>1. NoteExists /\ note'.published = note.published /\ revision' = revision
      BY DEF Quiet, NoteQuiet
    <2>2. \A s \in Requests : request'[s].pc = "mark" =>
             /\ request[s].pc = "mark"
             /\ request'[s].base = request[s].base /\ request'[s].text = request[s].text
      BY DEF Quiet, RequestsQuiet, Numbering
    <2> QED BY <2>1, <2>2 DEF HInv, MarkingNext
  <1>4. NothingYet'
    BY DEF Quiet, NoteQuiet, RequestsQuiet, HInv, NothingYet
  <1> QED BY <1>1, <1>2, <1>3, <1>4 DEF HInv

LEMMA HistoryCreate == ASSUME NoteAssumption, TInv, HInv, Create PROVE HInv'
  <1>1. /\ note'.published = 0 /\ note'.status = "active"
        /\ revision' = revision /\ request' = request
    BY DEF Create, NoNote
  <1>2. /\ \A v \in Revisions : revision[v] = 0
        /\ \A r \in Requests : request[r].pc = "idle"
    BY DEF Create, HInv, NothingYet
  <1>3. \A v \in Revisions : ~(v <= 0)
    BY Numbers
  <1> QED BY <1>1, <1>2, <1>3 DEF HInv, HistoryIsWhole, BaseKnown, MarkingNext, NothingYet,
                                  Numbering

LEMMA HistoryRevised ==
  ASSUME NoteAssumption, TInv, HInv, NEW r \in Requests, Revised(r) PROVE HInv'
  <1> DEFINE p == note.published
  <1>1. /\ request[r].pc = "revise" /\ NoteExists /\ revision[request[r].base + 1] = 0
        /\ revision' = [revision EXCEPT ![request[r].base + 1] = request[r].text]
        /\ note' = note
    BY DEF Revised
  <1>2. /\ p \in Nat /\ request[r].base \in Nat /\ request[r].base < MaxRevisions
        /\ request[r].text # 0
        /\ Revisions = {n \in Nat : 1 <= n /\ n <= MaxRevisions}
        /\ MaxRevisions \in Nat
    BY <1>1, Numbers, NoteAssumption DEF Numbering
  <1>3. request[r].base + 1 \in Revisions
    BY <1>2
  <1>4. request[r].base = p
    <2>1. request[r].base <= p
      BY <1>1 DEF HInv, BaseKnown, Numbering
    <2>2. ~(request[r].base + 1 <= p)
      BY <1>1, <1>3 DEF HInv, HistoryIsWhole
    <2> QED BY <1>2, <2>1, <2>2
  <1>5. \A v \in Revisions : revision'[v] = IF v = p + 1 THEN request[r].text ELSE revision[v]
    BY <1>1, <1>4 DEF TInv, RevisionTyped
  <1>6. PICK q : /\ Becomes(r, q) /\ q.pc = "mark"
                 /\ q.text = request[r].text /\ q.base = request[r].base
    <2>1. Goto(r, "mark")
      BY DEF Revised
    <2>2. "mark" \in {"idle"} \cup Publishing \cup Catching \cup Others
          /\ "mark" # "revert" /\ request[r].pc \in Numbering
      BY <1>1 DEF Publishing, Numbering
    <2> QED BY <2>1, <2>2, GotoGoes DEF TInv
  <1>7. \A s \in Requests : request'[s] = IF s = r THEN q ELSE request[s]
    BY <1>6, BecomesAt
  <1>8. \A s \in Requests : request[s].pc # "mark"
    BY <1>1, <1>2, <1>3, <1>4, Numbers DEF HInv, MarkingNext, Numbering
  <1>9. HistoryIsWhole'
    BY <1>1, <1>2, <1>5 DEF HInv, HistoryIsWhole, NoteExists
  <1>10. BaseKnown'
    BY <1>1, <1>2, <1>4, <1>6, <1>7 DEF HInv, BaseKnown, NoteExists
  <1>11. MarkingNext'
    BY <1>1, <1>3, <1>4, <1>5, <1>6, <1>7, <1>8 DEF MarkingNext
  <1>12. NothingYet'
    BY <1>1 DEF NothingYet, NoteExists
  <1> QED BY <1>9, <1>10, <1>11, <1>12 DEF HInv

LEMMA HistoryMarked ==
  ASSUME NoteAssumption, TInv, HInv, NEW r \in Requests, Marked(r) PROVE HInv'
  <1> DEFINE p == note.published
  <1>1. /\ request[r].pc = "mark" /\ NoteExists /\ revision' = revision
        /\ request[r].base = p /\ revision[p + 1] = request[r].text
        /\ \A s \in Requests : request[s].pc = "mark" => s = r
    BY DEF Marked, HInv, MarkingNext
  <1>2. /\ p \in Nat /\ request[r].text # 0 /\ p < MaxRevisions
        /\ Revisions = {n \in Nat : 1 <= n /\ n <= MaxRevisions}
        /\ MaxRevisions \in Nat
    BY <1>1, Numbers, NoteAssumption DEF Numbering
  <1>3. /\ note'.published = p + 1 /\ note'.hash = request[r].text
        /\ note'.status = note.status
    BY <1>1 DEF Marked, TInv, NoteTyped, NoteType
  <1>4. PICK q : Becomes(r, q) /\ q.pc = "tags"
    BY DEF Marked
  <1>5. \A s \in Requests : request'[s] = IF s = r THEN q ELSE request[s]
    BY <1>4, BecomesAt
  <1>6. NoteExists'
    BY <1>1, <1>3 DEF NoteExists
  <1>7. HistoryIsWhole'
    <2>1. \A v \in Revisions : v <= p + 1 => revision[v] # 0
      BY <1>1, <1>2 DEF HInv, HistoryIsWhole
    <2>2. \A v \in Revisions : v > p + 1 + 1 => revision[v] = 0
      BY <1>1, <1>2 DEF HInv, HistoryIsWhole
    <2> QED BY <1>1, <1>2, <1>3, <2>1, <2>2 DEF HistoryIsWhole
  <1>8. BaseKnown'
    <2> SUFFICES ASSUME NEW s \in Requests, request'[s].pc \in Numbering
                 PROVE  request'[s].base <= p + 1
      BY <1>3 DEF BaseKnown
    <2>1. request'[s] = request[s]
      BY <1>4, <1>5 DEF Numbering
    <2>2. request[s].base <= p /\ request[s].base \in Nat
      BY <1>1, <2>1, Numbers DEF HInv, BaseKnown
    <2> QED BY <1>2, <2>1, <2>2
  <1>9. \A s \in Requests : request'[s].pc # "mark"
    BY <1>1, <1>4, <1>5
  <1>10. MarkingNext' /\ NothingYet'
    BY <1>6, <1>9 DEF MarkingNext, NothingYet, NoteExists
  <1> QED BY <1>7, <1>8, <1>10 DEF HInv

LEMMA HistoryStepKeeps ==
  ASSUME NoteAssumption, TInv, HInv, [Next]_vars PROVE HInv'
  <1>1. CASE Quiet
    BY <1>1, HistoryQuiet
  <1>2. CASE Create
    BY <1>2, HistoryCreate
  <1>3. CASE note'.status = "purged"
    BY <1>3 DEF HInv, HistoryIsWhole, BaseKnown, MarkingNext, NothingYet, NoteExists
  <1>4. ASSUME NEW r \in Requests, Revised(r) \/ Marked(r) PROVE HInv'
    BY <1>4, HistoryRevised, HistoryMarked
  <1> QED BY <1>1, <1>2, <1>3, <1>4, HistorySteps DEF HistoryStep

\* The revisions are numbered without a gap, and the published text is the last of
\* them or the one before, however many requests publish the note at once and
\* wherever they fail: unique(note_id, version) is all that keeps them apart.
THEOREM HistoryStaysWhole == Spec => []HistoryIsWhole
  <1>1. Init => TInv /\ HInv
    BY NoteAssumption, TypeInit, HistoryInit
  <1>2. TInv /\ HInv /\ [Next]_vars => (TInv /\ HInv)'
    BY NoteAssumption, TypeStep, HistoryStepKeeps
  <1>3. HInv => HistoryIsWhole
    BY DEF HInv
  <1> QED BY <1>1, <1>2, <1>3, PTL DEF Spec
-----------------------------------------------------------------------------
(* What 'synced' says.                                                        *)

LEMMA SyncedStep ==
  ASSUME TInv, SyncedIsPublished, [Next]_vars PROVE SyncedIsPublished'
  <1>0. note \in NoteType
    BY DEF TInv, NoteTyped
  <1>1. ASSUME NEW r \in Requests, Step(r) PROVE SyncedIsPublished'
    <2>1. CASE Mark(r)
      <3> DEFINE n == [note EXCEPT !.asset = request[r].asset,
                                   !.published = request[r].base + 1,
                                   !.hash = request[r].text, !.sync = "synced"]
      <3>1. CASE note' = note /\ strayed' = strayed
        BY <3>1 DEF SyncedIsPublished
      <3>2. CASE NoteExists /\ note' = n /\ strayed' = (note.text # request[r].text)
        <4>1. note'.hash = request[r].text /\ note'.text = note.text
          BY <1>0, <3>2 DEF NoteType
        <4> QED BY <3>2, <4>1 DEF SyncedIsPublished
      <3>3. \/ note' = note /\ strayed' = strayed
            \/ NoteExists /\ note' = n /\ strayed' = (note.text # request[r].text)
        BY <2>1 DEF Mark, SetNote
      <3> QED BY <3>1, <3>2, <3>3
    <2>2. CASE FailNote(r)
      <3>1. strayed' = strayed /\ (note' = note \/ note' = [note EXCEPT !.sync = "failed"])
        BY <2>2 DEF FailNote, SetNote
      <3> QED BY <1>0, <3>1 DEF SyncedIsPublished, NoteType
    <2>3. CASE DeleteNote(r)
      <3>1. /\ strayed' = strayed
            /\ note' = note \/ note' = [note EXCEPT !.status = "deleted", !.sync = "synced"]
        BY <2>3 DEF DeleteNote, SetNote
      <3> QED BY <1>0, <3>1 DEF SyncedIsPublished, NoteType
    <2>4. CASE Activate(r)
      <3>1. \/ note' = note /\ strayed' = strayed
            \/ /\ note' = [note EXCEPT !.status = "active", !.sync = "synced"]
               /\ strayed' = (note.hash # note.text)
        BY <2>4 DEF Activate, SetNote
      <3> QED BY <1>0, <3>1 DEF SyncedIsPublished, NoteType
    <2>5. CASE PurgeAsset(r)
      <3>1. strayed' = strayed /\ (note' = note \/ note' = [note EXCEPT !.asset = NoAsset])
        BY <2>5 DEF PurgeAsset
      <3> QED BY <1>0, <3>1 DEF SyncedIsPublished, NoteType
    <2>6. CASE PurgeNote(r)
      <3>1. /\ strayed' = strayed
            /\ note' = note \/ note' = [note EXCEPT !.status = "purged", !.asset = NoAsset]
        BY <2>6 DEF PurgeNote
      <3> QED BY <1>0, <3>1 DEF SyncedIsPublished, NoteType
    <2>7. CASE RevertNote(r)
      <3>1. \/ note' = note /\ strayed' = strayed
            \/ /\ note' = [note EXCEPT !.text = request[r].text, !.version = note.version + 1,
                                       !.sync = "synced"]
               /\ strayed' = (note.hash # request[r].text)
        BY <2>7 DEF RevertNote, SetNote
      <3> QED BY <1>0, <3>1 DEF SyncedIsPublished, NoteType
    <2>8. CASE \/ Stage(r) \/ Update(r) \/ Insert(r) \/ Index(r) \/ MarkReady(r) \/ Revise(r)
               \/ Tags(r) \/ Clean(r) \/ FailAsset(r) \/ DropFile(r)
               \/ Trash(r) \/ Untrash(r) \/ Retrash(r)
      <3>1. note' = note /\ strayed' = strayed
        BY <2>8 DEF Stage, Update, Insert, Index, MarkReady, Revise, Tags, Clean, FailAsset,
                    DropFile, Trash, Untrash, Retrash
      <3> QED BY <3>1 DEF SyncedIsPublished
    <2> QED BY <1>1, <2>1, <2>2, <2>3, <2>4, <2>5, <2>6, <2>7, <2>8 DEF Step
  <1>2. ASSUME NEW r \in Requests, (\E byTab \in BOOLEAN : Publish(r, byTab)) \/ Call(r) \/ Throws(r)
        PROVE  SyncedIsPublished'
    <2>1. note' = note /\ strayed' = strayed
      BY <1>2 DEF Publish, Call, Delete, Restore, Purge, Revert, Throws
    <2> QED BY <2>1 DEF SyncedIsPublished
  <1>3. CASE Create \/ \E t \in Texts : Edit(t)
    <2>1. note'.sync = "pending"
      BY <1>0, <1>3 DEF Create, Edit, NoNote, NoteType
    <2> QED BY <2>1 DEF SyncedIsPublished
  <1>4. CASE Reload \/ Crash \/ LibraryTrash \/ UNCHANGED vars
    <2>1. note' = note /\ strayed' = strayed
      BY <1>4 DEF Reload, Crash, LibraryTrash, vars
    <2> QED BY <2>1 DEF SyncedIsPublished
  <1> QED BY <1>1, <1>2, <1>3, <1>4 DEF Next

\* A note that says 'synced' has its text published, unless the last to say so was a
\* publication of an older text, a revert, or a restore of a draft.
THEOREM SyncedMeansPublished == Spec => []SyncedIsPublished
  <1>1. Init => TInv /\ SyncedIsPublished
    <2>1. Init => note.status = "none"
      BY DEF Init, NoNote
    <2> QED BY <2>1, NoteAssumption, TypeInit DEF SyncedIsPublished
  <1>2. TInv /\ SyncedIsPublished /\ [Next]_vars => (TInv /\ SyncedIsPublished)'
    BY NoteAssumption, TypeStep, SyncedStep
  <1> QED BY <1>1, <1>2, PTL DEF Spec
-----------------------------------------------------------------------------
(* Who holds the number of a revision that is not published.                  *)

\* no kind of these has struck
Spared(kinds) == faults = 0 \/ kinds \cap Faults = {}

\* A number past the published one belongs to a publication about to mark the note.
NumberHeld ==
    NoteExists /\ note.published < MaxRevisions /\ Numbered =>
        \E r \in Requests : request[r].pc = "mark" /\ request[r].base = note.published

\* none of the requests purges
NothingPurges == \A r \in Requests : "purge" \notin Ops[r]

Purging == {"purgeTrash", "purgeAsset", "purgeNote"}

\* who is about to mark the note has the row that it will name
MarkedHasRow == \A r \in Requests : /\ request[r].pc \notin Purging
                                    /\ request[r].pc = "mark" => HasRow(request[r].asset)

NInv == MarkedHasRow /\ (Spared({"crash", "db"}) => NumberHeld)

\* No other request is disturbed; r does not turn to purging, and comes to the mark
\* only from its revision, with the row at hand.
Proceeds(r) ==
    /\ \A s \in Requests : s # r => request'[s] = request[s]
    /\ request'[r].pc \notin Purging
    /\ request'[r].pc = "mark" => request[r].pc = "revise" /\ HasRow(request'[r].asset)

\* No row of assets is deleted.
RowsRemain == \A a \in Assets : HasRow(a) => HasRow(a)'

LEMMA ProceedsGoto ==
  ASSUME TInv, NEW r \in Requests, NEW pc, pc \notin Purging, Goto(r, pc), pc # "mark"
  PROVE  Proceeds(r)
  BY SoundTyped DEF Goto, Proceeds, TInv, RequestsSound, RequestType

LEMMA ProceedsLeave ==
  ASSUME TInv, NEW r \in Requests, Leave(r) PROVE Proceeds(r)
  BY DEF Leave, Proceeds, TInv, RequestsSound, NoRequest, Purging

LEMMA ProceedsTo ==
  ASSUME TInv, NEW r \in Requests, NEW q, request' = [request EXCEPT ![r] = q],
         q.pc \notin Purging, q.pc # "mark"
  PROVE  Proceeds(r)
  BY DEF Proceeds, TInv, RequestsSound

LEMMA RemainWrite ==
  ASSUME TInv, NEW a, NEW x, SetAsset(a, x), x.status # "none" PROVE RowsRemain
  BY DEF SetAsset, RowsRemain, HasRow, TInv, AssetsTyped

LEMMA RemainSame == ASSUME asset' = asset PROVE RowsRemain
  BY DEF RowsRemain, HasRow

LEMMA RemainGrown ==
  ASSUME TInv, NEW a \in Assets, NEW x, asset' = [asset EXCEPT ![a] = x], x.status # "none"
  PROVE  RowsRemain
  BY DEF RowsRemain, HasRow, TInv, AssetsTyped

LEMMA ProceedsPublication ==
  ASSUME NoteAssumption, TInv, MarkedHasRow, NEW r \in Requests,
         \/ Stage(r) \/ Update(r) \/ Insert(r) \/ Index(r) \/ MarkReady(r)
  PROVE  Proceeds(r) /\ RowsRemain
  <1>0. /\ request[r] \in RequestType
        /\ \A a \in Assets : asset[a] \in AssetType
    BY SoundTyped DEF TInv, AssetsTyped
  <1>1. CASE Stage(r)
    <2> DEFINE a == request[r].asset
               q == IF Live(a) THEN [request[r] EXCEPT !.pc = "update", !.prev = asset[a].file]
                               ELSE [request[r] EXCEPT !.pc = "insert", !.asset = NoAsset]
    <2>1. request' = [request EXCEPT ![r] = q] /\ asset' = asset
      BY <1>1 DEF Stage
    <2>2. q.pc \in {"update", "insert"}
      BY <1>0 DEF RequestType
    <2> HIDE DEF q
    <2> QED BY <2>1, <2>2, ProceedsTo, RemainSame DEF Purging
  <1>2. CASE Update(r)
    <2> DEFINE a == request[r].asset
               q == [request[r] EXCEPT !.pc = "failNote", !.asset = NoAsset]
               x == [asset[a] EXCEPT !.status = "indexing", !.text = request[r].text,
                                     !.file = request[r].file]
    <2>1. \/ Goto(r, "failNoteOnly") /\ asset' = asset
          \/ request' = [request EXCEPT ![r] = q] /\ asset' = asset
          \/ HasRow(a) /\ SetAsset(a, x) /\ Goto(r, "index")
      BY <1>2 DEF Update
    <2>2. q.pc = "failNote"
      BY <1>0 DEF RequestType
    <2>3. HasRow(a) => x.status # "none"
      BY <1>0 DEF HasRow, AssetType, RequestType
    <2> HIDE DEF q, x
    <2> QED BY <2>1, <2>2, <2>3, ProceedsTo, ProceedsGoto, RemainSame, RemainWrite DEF Purging
  <1>3. CASE Insert(r)
    <2> DEFINE q == [request[r] EXCEPT !.pc = "index", !.asset = NewAsset]
               x == [status |-> "indexing", trashed |-> FALSE, text |-> request[r].text,
                     shown |-> 0, file |-> request[r].file]
    <2>1. \/ Goto(r, "failNote") /\ asset' = asset
          \/ asset' = [asset EXCEPT ![NewAsset] = x] /\ request' = [request EXCEPT ![r] = q]
      BY <1>3 DEF Insert
    <2>2. q.pc = "index" /\ x.status # "none" /\ NewAsset \in Assets
      BY <1>0, <1>3 DEF RequestType, Insert, Unused, NewAsset
    <2> HIDE DEF q, x
    <2> QED BY <2>1, <2>2, ProceedsTo, ProceedsGoto, RemainSame, RemainGrown DEF Purging
  <1>4. CASE Index(r)
    <2> DEFINE a == request[r].asset
               x == [asset[a] EXCEPT !.shown = request[r].text]
    <2>1. /\ (HasRow(a) /\ SetAsset(a, x)) \/ asset' = asset
          /\ \E pc \in {"ready", "reready", "failNote", "retrash"} : Goto(r, pc)
      BY <1>4 DEF Index
    <2>2. HasRow(a) => x.status # "none"
      BY <1>0 DEF HasRow, AssetType, RequestType
    <2> HIDE DEF x
    <2> QED BY <2>1, <2>2, ProceedsGoto, RemainSame, RemainWrite DEF Purging
  <1>5. CASE MarkReady(r)
    <2> DEFINE a == request[r].asset
               x == [asset[a] EXCEPT !.status = "ready"]
    <2>1. /\ SetAsset(a, x)
          /\ \E pc \in {"revise", "activate", "failNote"} : Goto(r, pc)
      BY <1>5 DEF MarkReady
    <2>2. HasRow(a) => x.status # "none"
      BY <1>0 DEF HasRow, AssetType, RequestType
    <2>3. HasRow(a) \/ asset' = asset
      BY <2>1 DEF SetAsset
    <2> HIDE DEF x
    <2> QED BY <2>1, <2>2, <2>3, ProceedsGoto, RemainSame, RemainWrite DEF Purging
  <1> QED BY <1>1, <1>2, <1>3, <1>4, <1>5

LEMMA ProceedsFinish ==
  ASSUME NoteAssumption, TInv, MarkedHasRow, NEW r \in Requests,
         \/ Revise(r) \/ Tags(r) \/ Clean(r) \/ FailNote(r) \/ FailAsset(r) \/ DropFile(r)
         \/ Trash(r) \/ DeleteNote(r) \/ Untrash(r) \/ Retrash(r) \/ Activate(r)
         \/ PurgeAsset(r) \/ PurgeNote(r) \/ RevertNote(r)
  PROVE  Proceeds(r) /\ RowsRemain
  <1>0. /\ request[r] \in RequestType
        /\ \A a \in Assets : asset[a] \in AssetType
        /\ request[r].pc \notin Purging
    BY SoundTyped DEF TInv, AssetsTyped, MarkedHasRow
  <1> DEFINE a == request[r].asset
  <1>1. CASE Revise(r)
    <2>1. asset' = asset
      BY <1>1 DEF Revise
    <2>2. CASE Goto(r, "mark") /\ HasRow(a)
      <3> DEFINE q == [request[r] EXCEPT !.pc = "mark"]
      <3>1. \A s \in Requests : request'[s] = IF s = r THEN q ELSE request[s]
        BY <2>2 DEF Goto, TInv, RequestsSound
      <3>2. q.pc = "mark" /\ q.asset = a
        BY <1>0 DEF RequestType
      <3> HIDE DEF q
      <3>3. HasRow(request'[r].asset)
        BY <2>2, <3>1, <3>2
      <3> QED BY <1>1, <2>1, <3>1, <3>2, <3>3, RemainSame DEF Proceeds, Purging, Revise
    <2>3. CASE Goto(r, "failNote")
      BY <2>1, <2>3, ProceedsGoto, RemainSame DEF Purging
    <2> QED BY <1>1, <2>2, <2>3 DEF Revise
  <1>2. CASE Tags(r) \/ Clean(r) \/ FailNote(r) \/ DropFile(r) \/ DeleteNote(r)
             \/ Activate(r) \/ PurgeNote(r) \/ RevertNote(r)
    <2>1. asset' = asset
      BY <1>2 DEF Tags, Clean, FailNote, DropFile, DeleteNote, Activate, PurgeNote, RevertNote
    <2>2. Leave(r) \/ \E pc \in {"clean", "failNote", "dropFile", "failAsset"} : Goto(r, pc)
      BY <1>2 DEF Tags, Clean, FailNote, DropFile, DeleteNote, Activate, PurgeNote, RevertNote
    <2> QED BY <2>1, <2>2, ProceedsGoto, ProceedsLeave, RemainSame DEF Purging
  <1>3. CASE FailAsset(r)
    <2> DEFINE x == [asset[a] EXCEPT !.status = "failed"]
    <2>1. SetAsset(a, x) /\ Goto(r, "dropFile")
      BY <1>3 DEF FailAsset
    <2>2. HasRow(a) => x.status # "none"
      BY <1>0 DEF HasRow, AssetType, RequestType
    <2>3. HasRow(a) \/ asset' = asset
      BY <2>1 DEF SetAsset
    <2> HIDE DEF x
    <2> QED BY <2>1, <2>2, <2>3, ProceedsGoto, RemainSame, RemainWrite DEF Purging
  <1>4. CASE Trash(r)
    <2> DEFINE x == [asset[a] EXCEPT !.status = "deleted", !.trashed = TRUE, !.shown = 0]
    <2>1. \/ SetAsset(a, x) /\ Goto(r, "deleteNote")
          \/ asset' = asset /\ Leave(r)
      BY <1>0, <1>4 DEF Trash, Purging
    <2>2. HasRow(a) => x.status # "none"
      BY <1>0 DEF HasRow, AssetType, RequestType
    <2>3. HasRow(a) \/ asset' = asset
      BY <2>1 DEF SetAsset
    <2> HIDE DEF x
    <2> QED BY <2>1, <2>2, <2>3, ProceedsGoto, ProceedsLeave, RemainSame, RemainWrite DEF Purging
  <1>5. CASE Untrash(r)
    <2> DEFINE x == [asset[a] EXCEPT !.status = "indexing", !.trashed = FALSE]
    <2>1. \/ HasRow(a) /\ SetAsset(a, x) /\ Goto(r, "reindex")
          \/ asset' = asset /\ Leave(r)
      BY <1>5 DEF Untrash
    <2>2. HasRow(a) => x.status # "none"
      BY <1>0 DEF HasRow, AssetType, RequestType
    <2> HIDE DEF x
    <2> QED BY <2>1, <2>2, ProceedsGoto, ProceedsLeave, RemainSame, RemainWrite DEF Purging
  <1>6. CASE Retrash(r)
    <2> DEFINE x == [asset[a] EXCEPT !.status = "deleted", !.trashed = TRUE]
    <2>1. SetAsset(a, x) /\ Leave(r)
      BY <1>6 DEF Retrash
    <2>2. HasRow(a) => x.status # "none"
      BY <1>0 DEF HasRow, AssetType, RequestType
    <2>3. HasRow(a) \/ asset' = asset
      BY <2>1 DEF SetAsset
    <2> HIDE DEF x
    <2> QED BY <2>1, <2>2, <2>3, ProceedsLeave, RemainSame, RemainWrite
  <1>7. CASE PurgeAsset(r)
    BY <1>0, <1>7 DEF PurgeAsset, Purging
  <1> QED BY <1>1, <1>2, <1>3, <1>4, <1>5, <1>6, <1>7

\* The mark names a row, so it is made: the request goes on to the tags.
LEMMA ProceedsMark ==
  ASSUME NoteAssumption, TInv, MarkedHasRow, NEW r \in Requests, Mark(r)
  PROVE  Proceeds(r) /\ RowsRemain /\ (NoteExists => note'.published = request[r].base + 1)
  <1> DEFINE q == [request[r] EXCEPT !.pc = "tags", !.base = note.version]
             n == [note EXCEPT !.asset = request[r].asset, !.published = request[r].base + 1,
                               !.hash = request[r].text, !.sync = "synced"]
  <1>1. HasRow(request[r].asset) /\ asset' = asset
    BY DEF Mark, MarkedHasRow
  <1>2. request' = [request EXCEPT ![r] = q] /\ SetNote(n)
    BY <1>1 DEF Mark
  <1>3. q.pc = "tags" /\ n.published = request[r].base + 1
    BY SoundTyped DEF TInv, RequestType, NoteTyped, NoteType
  <1> HIDE DEF q, n
  <1>4. NoteExists => note' = n
    BY <1>2 DEF SetNote
  <1> QED BY <1>1, <1>2, <1>3, <1>4, ProceedsTo, RemainSame DEF Purging

LEMMA ProceedsBegin ==
  ASSUME NoteAssumption, TInv, MarkedHasRow, NothingPurges, NEW r \in Requests,
         Call(r) \/ \E byTab \in BOOLEAN : Publish(r, byTab)
  PROVE  Proceeds(r) /\ RowsRemain /\ request[r].pc # "mark"
  <1>1. asset' = asset /\ request[r].pc = "idle"
    BY DEF Call, Delete, Restore, Purge, Revert, Publish
  <1>2. CASE request' = request
    BY <1>1, <1>2, RemainSame DEF Proceeds, MarkedHasRow
  <1>3. ASSUME NEW byTab \in BOOLEAN, Publish(r, byTab), request' # request
        PROVE  Proceeds(r)
    <2> DEFINE q == [pc |-> "stage", tab |-> byTab, text |-> note.text,
                     base |-> note.published, asset |-> note.asset, file |-> NewFile,
                     prev |-> 0]
    <2>1. request' = [request EXCEPT ![r] = q] /\ q.pc = "stage"
      BY <1>3 DEF Publish
    <2> HIDE DEF q
    <2> QED BY <2>1, ProceedsTo DEF Purging
  <1>4. CASE Call(r)
    <2>1. PICK t : \E pc \in Others \ Purging, a \in Assets \cup {NoAsset} :
                      request' = [request EXCEPT ![r] = Started(pc, a, t)]
      <3>0. note.asset \in Assets \cup {NoAsset} /\ NoAsset \in Assets \cup {NoAsset}
        BY DEF TInv, NoteTyped, NoteType
      <3>1. CASE Delete(r)
        BY <3>0, <3>1 DEF Delete, Others, Purging
      <3>2. CASE Restore(r)
        <4>1. "untrash" \in Others \ Purging /\ "activate" \in Others \ Purging
          BY DEF Others, Purging
        <4>2. \/ request' = [request EXCEPT ![r] = Started("untrash", note.asset, note.text)]
              \/ request' = [request EXCEPT ![r] = Started("activate", note.asset, note.text)]
          BY <3>2 DEF Restore
        <4> QED BY <3>0, <4>1, <4>2
      <3>3. CASE Revert(r)
        BY <3>0, <3>3 DEF Revert, Others, Purging
      <3>4. ~Purge(r)
        BY DEF Purge, NothingPurges
      <3> QED BY <1>4, <3>1, <3>2, <3>3, <3>4 DEF Call
    <2>2. PICK pc \in Others \ Purging, a \in Assets \cup {NoAsset} :
             request' = [request EXCEPT ![r] = Started(pc, a, t)]
      BY <2>1
    <2>3. Started(pc, a, t).pc = pc
      BY DEF Started, NoRequest
    <2>4. pc \notin Purging /\ pc # "mark"
      BY DEF Others
    <2> QED BY <1>1, <2>2, <2>3, <2>4, ProceedsTo, RemainSame
  <1> QED BY <1>1, <1>2, <1>3, <1>4, RemainSame

LEMMA ProceedsThrows ==
  ASSUME NoteAssumption, TInv, NEW r \in Requests, Throws(r)
  PROVE  Proceeds(r) /\ RowsRemain
  <1>0. asset' = asset
    BY DEF Throws
  <1> DEFINE q == [request[r] EXCEPT !.pc = "failNote",
                     !.asset = IF request[r].pc \in {"stage", "update", "insert"}
                               THEN NoAsset ELSE request[r].asset]
  <1>1. request' = [request EXCEPT ![r] = q] \/ Goto(r, "retrash") \/ Leave(r)
    BY DEF Throws
  <1>2. q.pc = "failNote"
    BY SoundTyped DEF TInv, RequestType
  <1> HIDE DEF q
  <1> QED BY <1>0, <1>1, <1>2, ProceedsTo, ProceedsGoto, ProceedsLeave, RemainSame DEF Purging

\* Only three steps take a request away from the mark, and none takes its row.
LEMMA MarksStep ==
  ASSUME NoteAssumption, TInv, MarkedHasRow, NothingPurges, [Next]_vars
  PROVE  /\ MarkedHasRow'
         /\ \A r \in Requests : request[r].pc = "mark" =>
               \/ request'[r] = request[r]
               \/ NoteExists => note'.published = request[r].base + 1
               \/ "crash" \in Faults /\ faults' # 0
               \/ "db" \in Faults /\ faults' # 0
  <1> DEFINE Keeps == \A r \in Requests : request[r].pc = "mark" =>
               \/ request'[r] = request[r]
               \/ NoteExists => note'.published = request[r].base + 1
               \/ "crash" \in Faults /\ faults' # 0
               \/ "db" \in Faults /\ faults' # 0
  <1>0. faults \in Nat
    BY NoteAssumption DEF TInv, RestTyped
  <1>00. TInv'
    BY TypeStep
  <1>1. ASSUME NEW r \in Requests, Proceeds(r), RowsRemain
        PROVE  MarkedHasRow'
    <2> SUFFICES ASSUME NEW s \in Requests, NEW a, request'[s].asset = a
                 PROVE  /\ request'[s].pc \notin Purging
                        /\ request'[s].pc = "mark" => HasRow(a)'
      BY DEF MarkedHasRow, HasRow
    <2>0. a \in Assets \cup {NoAsset}
      BY <1>00, SoundTyped DEF TInv, RequestType, RequestsSound, Sound
    <2>1. HasRow(a) => HasRow(a)'
      BY <1>1, <2>0 DEF RowsRemain, HasRow
    <2>2. CASE s # r
      <3>1. request'[s] = request[s]
        BY <1>1, <2>2 DEF Proceeds
      <3> QED BY <2>1, <3>1 DEF MarkedHasRow
    <2>3. CASE s = r
      BY <1>1, <2>1, <2>3 DEF Proceeds
    <2> QED BY <2>2, <2>3
  <1>2. ASSUME NEW r \in Requests, Step(r)
        PROVE  MarkedHasRow' /\ Keeps
    <2>1. CASE Mark(r)
      BY <1>1, <2>1, ProceedsMark DEF Proceeds
    <2>2. CASE ~Mark(r)
      <3>1. request[r].pc # "mark"
        BY <1>2, <2>2 DEF Step, Stage, Update, Insert, Index, MarkReady, Revise, Tags, Clean,
             FailNote, FailAsset, DropFile, Trash, DeleteNote, Untrash, Retrash, Activate,
             PurgeAsset, PurgeNote, RevertNote
      <3>2. Proceeds(r) /\ RowsRemain
        BY <1>2, <2>2, ProceedsPublication, ProceedsFinish DEF Step
      <3> QED BY <1>1, <3>1, <3>2 DEF Proceeds
    <2> QED BY <2>1, <2>2
  <1>3. ASSUME NEW r \in Requests, NEW byTab \in BOOLEAN, Publish(r, byTab)
        PROVE  MarkedHasRow' /\ Keeps
    BY <1>1, <1>3, ProceedsBegin DEF Proceeds
  <1>4. ASSUME NEW r \in Requests, Call(r) PROVE MarkedHasRow' /\ Keeps
    BY <1>1, <1>4, ProceedsBegin DEF Proceeds
  <1>5. ASSUME NEW r \in Requests, Throws(r) PROVE MarkedHasRow' /\ Keeps
    <2>1. "db" \in Faults /\ faults' # 0
      BY <1>0, <1>5 DEF Throws, Strike
    <2> QED BY <1>1, <1>5, <2>1, ProceedsThrows
  <1>6. CASE Crash
    <2>1. \A r \in Requests : request'[r].pc = "idle"
      BY <1>6 DEF Crash, NoRequest
    <2>2. "crash" \in Faults /\ faults' # 0
      BY <1>0, <1>6 DEF Crash, Strike
    <2> QED BY <2>1, <2>2 DEF MarkedHasRow, Purging
  <1>7. CASE Create \/ Reload \/ (\E t \in Texts : Edit(t)) \/ UNCHANGED vars
    <2>1. request' = request /\ asset' = asset
      BY <1>7 DEF Create, Reload, Edit, vars
    <2> QED BY <2>1 DEF MarkedHasRow, HasRow
  <1>8. CASE LibraryTrash
    <2> DEFINE x == [asset[note.asset] EXCEPT !.status = "deleted", !.trashed = TRUE, !.shown = 0]
    <2>1. /\ request' = request /\ note.asset \in Assets
          /\ asset' = [asset EXCEPT ![note.asset] = x]
      BY <1>8 DEF LibraryTrash, Live, HasRow, TInv, NoteTyped, NoteType
    <2>2. x.status # "none"
      BY <2>1 DEF TInv, AssetsTyped, AssetType
    <2> HIDE DEF x
    <2>3. RowsRemain
      BY <2>1, <2>2, RemainGrown
    <2>4. MarkedHasRow'
      <3> SUFFICES ASSUME NEW r \in Requests
                   PROVE  /\ request[r].pc \notin Purging
                          /\ request[r].pc = "mark" => \A a : request[r].asset = a => HasRow(a)'
        BY <2>1 DEF MarkedHasRow, HasRow
      <3>1. request[r].asset \in Assets \cup {NoAsset}
        BY SoundTyped DEF TInv, RequestType
      <3> QED BY <2>3, <3>1 DEF MarkedHasRow, RowsRemain, HasRow
    <2> QED BY <2>1, <2>4
  <1> QED BY <1>2, <1>3, <1>4, <1>5, <1>6, <1>7, <1>8 DEF Next

LEMMA FaultsGrow == ASSUME NoteAssumption, TInv, [Next]_vars PROVE faults' = 0 => faults = 0
  <1>0. faults \in Nat
    BY NoteAssumption DEF TInv, RestTyped
  <1>1. ASSUME NEW kind, Strike(kind) PROVE faults' # 0
    BY <1>0, <1>1 DEF Strike
  <1>2. ASSUME NEW r \in Requests, Step(r) PROVE faults' = 0 => faults = 0
    BY <1>1, <1>2 DEF Step, Stage, Update, Insert, Index, MarkReady, Revise, Mark, Tags, Clean,
         FailNote, FailAsset, DropFile, Trash, DeleteNote, Untrash, Retrash, Activate,
         PurgeAsset, PurgeNote, RevertNote
  <1>3. ASSUME NEW r \in Requests, Call(r) \/ \E byTab \in BOOLEAN : Publish(r, byTab)
        PROVE  faults' = 0 => faults = 0
    BY <1>3 DEF Call, Delete, Restore, Purge, Revert, Publish
  <1>4. ASSUME NEW r \in Requests, Throws(r) PROVE faults' = 0 => faults = 0
    BY <1>1, <1>4 DEF Throws
  <1>5. CASE Crash \/ LibraryTrash
    BY <1>1, <1>5 DEF Crash, LibraryTrash
  <1>6. CASE Create \/ Reload \/ (\E t \in Texts : Edit(t)) \/ UNCHANGED vars
    BY <1>6 DEF Create, Reload, Edit, vars
  <1> QED BY <1>2, <1>3, <1>4, <1>5, <1>6 DEF Next

LEMMA NumbersStep ==
  ASSUME NoteAssumption, TInv, HInv, NInv, NothingPurges, [Next]_vars
  PROVE  NInv'
  <1>1. MarkedHasRow'
    BY MarksStep DEF NInv
  <1> SUFFICES ASSUME Spared({"crash", "db"})', NoteExists', note'.published < MaxRevisions,
                      Numbered'
               PROVE  \E r \in Requests : /\ request'[r].pc = "mark"
                                          /\ request'[r].base = note'.published
    BY <1>1 DEF NInv, NumberHeld
  <1>2. TInv' /\ HInv'
    BY TypeStep, HistoryStepKeeps
  <1>3. /\ note'.published \in Nat /\ MaxRevisions \in Nat
        /\ Revisions = {n \in Nat : 1 <= n /\ n <= MaxRevisions}
    BY <1>2, NoteAssumption DEF TInv, NoteTyped, NoteType, Revisions
  <1>4. note'.published + 1 \in Revisions
    BY <1>3
  <1>5. Spared({"crash", "db"})
    BY FaultsGrow DEF Spared
  <1>6. CASE Quiet
    <2>1. /\ NoteExists /\ note'.published = note.published /\ revision' = revision
      BY <1>6 DEF Quiet, NoteQuiet
    <2>2. PICK r \in Requests : request[r].pc = "mark" /\ request[r].base = note.published
      BY <1>5, <2>1 DEF NInv, NumberHeld, Numbered
    <2>3. request'[r] = request[r]
      <3>1. ~("crash" \in Faults /\ faults' # 0) /\ ~("db" \in Faults /\ faults' # 0)
        BY DEF Spared
      <3>2. note'.published # request[r].base + 1
        BY <1>3, <2>1, <2>2
      <3> QED BY <2>1, <2>2, <3>1, <3>2, MarksStep DEF NInv
    <2> QED BY <2>1, <2>2, <2>3
  <1>7. CASE Create
    <2>1. note'.published = 0 /\ revision' = revision /\ note.status = "none"
      BY <1>7 DEF Create, NoNote
    <2> QED BY <1>4, <2>1 DEF HInv, NothingYet, Numbered
  <1>8. CASE note'.status = "purged"
    BY <1>8 DEF NoteExists
  <1>9. ASSUME NEW r \in Requests, Revised(r)
        PROVE  request'[r].pc = "mark" /\ request'[r].base = note'.published
    <2>1. request'[r].pc = "mark"
      BY <1>9, SoundTyped DEF Revised, Goto, TInv, RequestType
    <2> QED BY <1>2, <2>1 DEF HInv, MarkingNext
  <1>10. ASSUME NEW r \in Requests, Marked(r) PROVE FALSE
    <2>1. /\ NoteExists /\ revision' = revision /\ request[r].base = note.published
          /\ note.published \in Nat
      BY <1>10, Numbers DEF Marked, HInv, MarkingNext
    <2>2. note'.published = note.published + 1
      BY <1>10, <2>1 DEF Marked, TInv, NoteTyped, NoteType
    <2>3. revision[note'.published + 1] = 0
      BY <1>4, <2>1, <2>2 DEF HInv, HistoryIsWhole
    <2> QED BY <2>1, <2>3 DEF Numbered
  <1> QED BY <1>6, <1>7, <1>8, <1>9, <1>10, HistorySteps DEF HistoryStep

\* Of Republished's exceptions, Numbered, the state in which every further publication
\* fails on unique(note_id, version), is passing where no request purges: as long as
\* neither a crash nor a refused statement has struck, the number belongs to a
\* publication that is about to mark the note, however many of them race, fail at
\* GBrain or lose their asset to the trash.
THEOREM NumbersAreHeld ==
  ASSUME NothingPurges
  PROVE  Spec => [](Spared({"crash", "db"}) => NumberHeld)
  <1>1. Init => TInv /\ HInv /\ NInv
    <2>1. Init => MarkedHasRow
      BY DEF Init, NoRequest, MarkedHasRow, Purging
    <2>2. Init => NumberHeld
      BY DEF Init, NoNote, NumberHeld, NoteExists
    <2> QED BY <2>1, <2>2, NoteAssumption, TypeInit, HistoryInit DEF NInv
  <1>2. TInv /\ HInv /\ NInv /\ [Next]_vars => (TInv /\ HInv /\ NInv)'
    BY NothingPurges, NoteAssumption, TypeStep, HistoryStepKeeps, NumbersStep
  <1>3. NInv => (Spared({"crash", "db"}) => NumberHeld)
    BY DEF NInv
  <1> QED BY <1>1, <1>2, <1>3, PTL DEF Spec
=============================================================================
