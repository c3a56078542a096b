--------------------------- MODULE RetrievalProofs ---------------------------
(* What TLAPS proves of Retrieval, for any number of documents, indexers,     *)
(* processes and requests.                                                    *)
EXTENDS Retrieval, TLAPS

USE DEF library, records, requests, elsewhere

-----------------------------------------------------------------------------
(* Types. Chunks that are stored have an edition; an indexer at work has its   *)
(* document.                                                                   *)

AssetsTyped   == asset \in [Assets -> AssetType]
MovingTyped   == moving \in SUBSET Assets
ChunksTyped   == /\ chunk \in [Assets -> ChunkType]
                 /\ \A a \in Assets : chunk[a].stored => chunk[a].edition # 0
IndexersTyped == /\ indexer \in [Indexers -> IndexerType]
                 /\ \A i \in Indexers : indexer[i].pc # "off" => indexer[i].asset \in Assets
CacheTyped    == cache \in CacheType
FlightsTyped  == flight \in [Processes -> FlightType]
AskersTyped   == asker \in [Askers -> AskerType]
RestTyped     == /\ stray \in SUBSET Askers /\ open \in SUBSET Askers /\ dropped \in SUBSET Askers
                 /\ faults \in 0 .. MaxFaults

LibraryTyped == AssetsTyped /\ MovingTyped /\ ChunksTyped /\ IndexersTyped
TInv == LibraryTyped /\ CacheTyped /\ FlightsTyped /\ AskersTyped /\ RestTyped

LEMMA Types == TInv => TypeOK
  BY DEF TInv, LibraryTyped, TypeOK, AssetsTyped, MovingTyped, ChunksTyped, IndexersTyped,
         CacheTyped, FlightsTyped, AskersTyped, RestTyped

LEMMA Constants ==
  ASSUME RetrievalAssumption
  PROVE  /\ Worded \in SUBSET Assets /\ Similar \in SUBSET Assets /\ NoAsset \notin Assets
         /\ MaxEditions \in Nat /\ MaxFaults \in Nat
         /\ 0 \in 0 .. MaxEditions /\ 1 \in 0 .. MaxEditions /\ 0 \in 0 .. MaxFaults
         /\ \A q \in Askers : Home[q] \in Processes
         /\ \A q \in Askers : Kinds[q] \subseteq AllKinds
  BY DEF RetrievalAssumption

-----------------------------------------------------------------------------
(* The library                                                                *)

LEMMA StatusSet ==
  ASSUME AssetsTyped, NEW a \in Assets,
         NEW s \in {"queued", "indexing", "ready", "failed", "deleted"}, SetStatus(a, s)
  PROVE  AssetsTyped'
  <1> DEFINE x == [asset[a] EXCEPT !.status = s]
  <1>1. asset' = [asset EXCEPT ![a] = x] \/ asset' = asset
    BY DEF SetStatus
  <1>2. x \in AssetType
    BY DEF AssetsTyped, AssetType
  <1> HIDE DEF x
  <1> QED BY <1>1, <1>2 DEF AssetsTyped

LEMMA IndexersStep ==
  ASSUME RetrievalAssumption, TInv, [Next]_vars PROVE IndexersTyped'
  <1>0. IndexersTyped /\ AssetsTyped
    BY DEF TInv, LibraryTyped
  <1>1. ASSUME NEW i \in Indexers, NEW a \in Assets, Claim(i, a) PROVE IndexersTyped'
    <2> DEFINE x == [pc |-> "write", asset |-> a, here |-> asset[a].here]
    <2>1. indexer' = [indexer EXCEPT ![i] = x]
      BY <1>1 DEF Claim
    <2>2. asset[a].here \in BOOLEAN
      BY <1>0 DEF AssetsTyped, AssetType
    <2>3. x \in IndexerType /\ x.asset \in Assets
      BY <2>2 DEF IndexerType
    <2> HIDE DEF x
    <2> QED BY <1>0, <2>1, <2>3 DEF IndexersTyped
  <1>2. ASSUME NEW i \in Indexers, WriteChunks(i) PROVE IndexersTyped'
    <2> DEFINE x == [indexer[i] EXCEPT !.pc = "mark"]
    <2>1. indexer' = [indexer EXCEPT ![i] = x] /\ indexer[i].pc = "write"
      BY <1>2 DEF WriteChunks
    <2>2. x \in IndexerType /\ x.asset = indexer[i].asset
      BY <1>0 DEF IndexersTyped, IndexerType
    <2>3. indexer[i].asset \in Assets
      BY <1>0, <2>1 DEF IndexersTyped
    <2> HIDE DEF x
    <2> QED BY <1>0, <2>1, <2>2, <2>3 DEF IndexersTyped
  <1>3. ASSUME NEW i \in Indexers, WriteRefused(i) \/ MarkReady(i) \/ IndexFails(i)
        PROVE  IndexersTyped'
    <2>1. indexer' = [indexer EXCEPT ![i] = NoIndexing]
      BY <1>3 DEF WriteRefused, MarkReady, IndexFails
    <2>2. NoIndexing \in IndexerType /\ NoIndexing.pc = "off"
      BY DEF NoIndexing, IndexerType
    <2> QED BY <1>0, <2>1, <2>2 DEF IndexersTyped
  <1>4. CASE indexer' = indexer
    BY <1>0, <1>4 DEF IndexersTyped
  <1>5. ASSUME NEW a \in Assets, Library(a) PROVE indexer' = indexer
    BY <1>5 DEF Library, Upload, Reprocess, Move, QueueMoved, Trash, Restore, Purge
  <1>6. ASSUME NEW p \in Processes, Fly(p) \/ NoVector(p) \/ FlightFails(p) \/ Crash(p)
        PROVE  indexer' = indexer
    BY <1>6 DEF Fly, Lexical, Vector, Reads, Save, NoVector, FlightFails, Crash
  <1>7. ASSUME NEW q \in Askers, Ask(q) \/ Request(q) \/ Drift(q) \/ RequestFails(q)
        PROVE  indexer' = indexer
    BY <1>7 DEF Ask, Request, Lookup, Join, Exact, Fallback, ModelFails, Persist, Report, Fail,
                RequestFails, AskFails, LookupFails, FixturesFail, FactsFail, Throws,
                Drift, Falls, Close
  <1>8. CASE Expire \/ UNCHANGED vars
    BY <1>4, <1>8 DEF Expire, vars
  <1> QED BY <1>1, <1>2, <1>3, <1>4, <1>5, <1>6, <1>7, <1>8 DEF Next, Index

LEMMA OthersKeepLibrary ==
  ASSUME [Next]_vars
  PROVE  \/ UNCHANGED library
         \/ \E i \in Indexers : Index(i) \/ IndexFails(i)
         \/ \E a \in Assets : Library(a)
  <1>1. ASSUME NEW p \in Processes, Fly(p) \/ NoVector(p) \/ FlightFails(p) \/ Crash(p)
        PROVE  UNCHANGED library
    BY <1>1 DEF Fly, Lexical, Vector, Reads, Save, NoVector, FlightFails, Crash
  <1>2. ASSUME NEW q \in Askers, Ask(q) \/ Request(q) \/ Drift(q) \/ RequestFails(q)
        PROVE  UNCHANGED library
    BY <1>2 DEF Ask, Request, Lookup, Join, Exact, Fallback, ModelFails, Persist, Report, Fail,
                RequestFails, AskFails, LookupFails, FixturesFail, FactsFail, Throws,
                Drift, Falls, Close
  <1>3. CASE Expire \/ UNCHANGED vars
    BY <1>3 DEF Expire, vars
  <1> QED BY <1>1, <1>2, <1>3 DEF Next

LEMMA AssetsStep ==
  ASSUME RetrievalAssumption, TInv, [Next]_vars PROVE AssetsTyped' /\ MovingTyped'
  <1>0. AssetsTyped /\ MovingTyped /\ IndexersTyped
    BY DEF TInv, LibraryTyped
  <1>1. ASSUME NEW i \in Indexers, Index(i) \/ IndexFails(i) PROVE AssetsTyped' /\ MovingTyped'
    <2>1. moving' = moving
      BY <1>1 DEF Index, Claim, WriteChunks, WriteRefused, MarkReady, IndexFails
    <2>2. ASSUME NEW a \in Assets, Claim(i, a) PROVE AssetsTyped'
      BY <1>0, <2>2, StatusSet DEF Claim
    <2>3. CASE MarkReady(i) \/ IndexFails(i)
      <3>1. indexer[i].asset \in Assets
        BY <1>0, <2>3 DEF MarkReady, IndexFails, IndexersTyped
      <3>2. \E s \in {"queued", "ready", "failed"} : SetStatus(indexer[i].asset, s)
        BY <2>3 DEF MarkReady, IndexFails
      <3> QED BY <1>0, <2>1, <3>1, <3>2, StatusSet DEF MovingTyped
    <2>4. CASE WriteChunks(i) \/ WriteRefused(i)
      BY <1>0, <2>1, <2>4 DEF WriteChunks, WriteRefused, AssetsTyped, MovingTyped
    <2> QED BY <1>0, <1>1, <2>1, <2>2, <2>3, <2>4 DEF Index, MovingTyped
  <1>2. ASSUME NEW a \in Assets, Library(a) PROVE AssetsTyped' /\ MovingTyped'
    <2>0. asset[a] \in AssetType
      BY <1>0 DEF AssetsTyped
    <2>1. MovingTyped'
      BY <1>0, <1>2 DEF Library, Upload, Reprocess, Move, QueueMoved, Trash, Restore, Purge,
                        MovingTyped
    <2>2. CASE Reprocess(a) \/ QueueMoved(a)
      BY <1>0, <2>1, <2>2, StatusSet DEF Reprocess, QueueMoved
    <2>3. ASSUME NEW x \in AssetType, asset' = [asset EXCEPT ![a] = x] PROVE AssetsTyped'
      BY <1>0, <2>3 DEF AssetsTyped
    <2>4. CASE Upload(a)
      <3> DEFINE x == [status |-> "queued", trashed |-> FALSE, here |-> TRUE]
      <3>1. x \in AssetType /\ asset' = [asset EXCEPT ![a] = x]
        BY <2>4 DEF Upload, AssetType
      <3> HIDE DEF x
      <3> QED BY <2>1, <2>3, <3>1
    <2>5. CASE Move(a)
      <3> DEFINE x == [asset[a] EXCEPT !.here = FALSE]
      <3>1. x \in AssetType /\ asset' = [asset EXCEPT ![a] = x]
        BY <2>0, <2>5 DEF Move, AssetType
      <3> HIDE DEF x
      <3> QED BY <2>1, <2>3, <3>1
    <2>6. CASE Trash(a)
      <3> DEFINE x == [asset[a] EXCEPT !.status = "deleted", !.trashed = TRUE]
      <3>1. x \in AssetType /\ asset' = [asset EXCEPT ![a] = x]
        BY <2>0, <2>6 DEF Trash, AssetType
      <3> HIDE DEF x
      <3> QED BY <2>1, <2>3, <3>1
    <2>7. CASE Restore(a)
      <3> DEFINE x == [asset[a] EXCEPT !.status = "queued", !.trashed = FALSE]
      <3>1. x \in AssetType /\ asset' = [asset EXCEPT ![a] = x]
        BY <2>0, <2>7 DEF Restore, AssetType
      <3> HIDE DEF x
      <3> QED BY <2>1, <2>3, <3>1
    <2>8. CASE Purge(a)
      <3> DEFINE x == [NoRow EXCEPT !.status = "purged"]
      <3>1. x \in AssetType /\ asset' = [asset EXCEPT ![a] = x]
        BY <2>8 DEF Purge, AssetType, NoRow
      <3> HIDE DEF x
      <3> QED BY <2>1, <2>3, <3>1
    <2> QED BY <1>2, <2>1, <2>2, <2>4, <2>5, <2>6, <2>7, <2>8 DEF Library
  <1>3. CASE UNCHANGED library
    BY <1>0, <1>3 DEF AssetsTyped, MovingTyped
  <1> QED BY <1>1, <1>2, <1>3, OthersKeepLibrary

-----------------------------------------------------------------------------
(* What a step does to the chunks, and to what a query may find.               *)

\* a document that is found, or will be as soon as its indexing ends
Candidate(a) == chunk[a].stored /\ (Ready(a) \/ HalfIndexed(a))

\* No chunks are written here, and nothing becomes a candidate.
LibraryQuiet ==
    /\ \A a \in Assets : /\ chunk'[a].edition = chunk[a].edition
                         /\ chunk'[a].stored => chunk[a].stored
    /\ \A a \in Assets : Candidate(a)' => Candidate(a)

\* The chunks of a document are written, and the cache cleared.
Rebuilds(a) ==
    /\ chunk[a].edition < MaxEditions
    /\ chunk' = [chunk EXCEPT ![a] = [edition |-> chunk[a].edition + 1, stored |-> TRUE]]
    /\ ClearScope
    /\ \A b \in Assets : b # a => (Candidate(b)' => Candidate(b))

\* What is marked by indexers does not grow, unless one of them writes.
LEMMA HalfKept ==
  ASSUME indexer' = indexer, NEW a \in Assets PROVE HalfIndexed(a)' => HalfIndexed(a)
  BY DEF HalfIndexed

LEMMA QuietRow ==
  ASSUME AssetsTyped, NEW a \in Assets, NEW x, asset' = [asset EXCEPT ![a] = x],
         x.status # "ready" \/ x.trashed, chunk' = chunk \/ chunk' = [chunk EXCEPT ![a].stored = FALSE],
         ChunksTyped, indexer' = indexer
  PROVE  LibraryQuiet
  <1>1. \A b \in Assets : asset'[b] = IF b = a THEN x ELSE asset[b]
    BY DEF AssetsTyped
  <1>2. \A b \in Assets : /\ chunk'[b].edition = chunk[b].edition
                          /\ chunk'[b].stored => chunk[b].stored
    BY DEF ChunksTyped, ChunkType
  <1>3. \A b \in Assets : HalfIndexed(b)' => HalfIndexed(b)
    BY HalfKept
  <1>4. \A b \in Assets : Ready(b)' => Ready(b)
    BY <1>1 DEF Ready, Live, HasRow
  <1> QED BY <1>2, <1>3, <1>4 DEF LibraryQuiet, Candidate

LEMMA QuietStatus ==
  ASSUME TInv, NEW a \in Assets, NEW s \in {"queued", "indexing", "failed"}, SetStatus(a, s),
         chunk' = chunk, \A b \in Assets : HalfIndexed(b)' => HalfIndexed(b)
  PROVE  LibraryQuiet
  <1>1. \A b \in Assets : Ready(b)' => Ready(b)
    <2>1. CASE asset' = asset
      BY <2>1 DEF Ready, Live, HasRow
    <2>2. CASE asset' = [asset EXCEPT ![a].status = s]
      <3>1. \A b \in Assets : b # a => asset'[b] = asset[b]
        BY <2>2 DEF TInv, LibraryTyped, AssetsTyped
      <3>2. asset'[a].status = s
        BY <2>2 DEF TInv, LibraryTyped, AssetsTyped, AssetType
      <3> QED BY <3>1, <3>2 DEF Ready, Live, HasRow
    <2> QED BY <2>1, <2>2 DEF SetStatus
  <1> QED BY <1>1 DEF LibraryQuiet, Candidate

LEMMA LibrarySteps ==
  ASSUME RetrievalAssumption, TInv, [Next]_vars
  PROVE  LibraryQuiet \/ \E a \in Assets : Rebuilds(a)
  <1>0. AssetsTyped /\ ChunksTyped /\ IndexersTyped
    BY DEF TInv, LibraryTyped
  <1>1. ASSUME NEW i \in Indexers, NEW a \in Assets, Claim(i, a) PROVE LibraryQuiet
    <2>1. indexer'[i].pc = "write" /\ \A j \in Indexers : j # i => indexer'[j] = indexer[j]
      BY <1>0, <1>1 DEF Claim, IndexersTyped
    <2>2. \A b \in Assets : HalfIndexed(b)' => HalfIndexed(b)
      BY <2>1 DEF HalfIndexed
    <2> QED BY <1>1, <2>2, QuietStatus DEF Claim
  <1>2. ASSUME NEW i \in Indexers, WriteRefused(i) \/ MarkReady(i) \/ IndexFails(i)
        PROVE  LibraryQuiet
    <2> DEFINE a == indexer[i].asset
    <2>1. a \in Assets /\ chunk' = chunk
      BY <1>0, <1>2 DEF WriteRefused, MarkReady, IndexFails, IndexersTyped
    <2>2. indexer'[i].pc = "off" /\ \A j \in Indexers : j # i => indexer'[j] = indexer[j]
      BY <1>0, <1>2 DEF WriteRefused, MarkReady, IndexFails, IndexersTyped, NoIndexing
    <2>3. \A b \in Assets : HalfIndexed(b)' => HalfIndexed(b)
      BY <2>2 DEF HalfIndexed
    <2>4. CASE WriteRefused(i)
      BY <2>1, <2>3, <2>4 DEF WriteRefused, LibraryQuiet, Candidate, Ready, Live, HasRow
    <2>5. CASE IndexFails(i)
      BY <2>1, <2>3, <2>5, QuietStatus DEF IndexFails
    <2>6. CASE MarkReady(i)
      <3>1. HalfIndexed(a)
        BY <2>6 DEF MarkReady, HalfIndexed
      <3>2. \A b \in Assets : b # a => asset'[b] = asset[b]
        BY <1>0, <2>1, <2>6 DEF MarkReady, SetStatus, AssetsTyped
      <3>3. \A b \in Assets : b # a => (Ready(b)' => Ready(b))
        BY <3>2 DEF Ready, Live, HasRow
      <3> HIDE DEF a
      <3> QED BY <2>1, <2>3, <3>1, <3>3 DEF LibraryQuiet, Candidate
    <2> QED BY <1>2, <2>4, <2>5, <2>6
  <1>3. ASSUME NEW i \in Indexers, WriteChunks(i)
        PROVE  LibraryQuiet \/ \E a \in Assets : Rebuilds(a)
    <2> DEFINE a == indexer[i].asset
    <2>1. a \in Assets /\ asset' = asset
      BY <1>0, <1>3 DEF WriteChunks, IndexersTyped
    <2>2. /\ indexer'[i].asset = a
          /\ \A j \in Indexers : j # i => indexer'[j] = indexer[j]
      BY <1>0, <1>3 DEF WriteChunks, IndexersTyped, IndexerType
    <2>3. \A b \in Assets : b # a => (HalfIndexed(b)' => HalfIndexed(b))
      BY <2>2 DEF HalfIndexed
    <2>4. \A b \in Assets : Ready(b)' => Ready(b)
      BY <2>1 DEF Ready, Live, HasRow
    <2>5. CASE indexer[i].here
      <3>1. /\ chunk[a].edition < MaxEditions
            /\ chunk' = [chunk EXCEPT ![a] = [edition |-> chunk[a].edition + 1, stored |-> TRUE]]
            /\ ClearScope
        BY <1>3, <2>5 DEF WriteChunks
      <3>2. \A b \in Assets : b # a => chunk'[b] = chunk[b]
        BY <1>0, <2>1, <3>1 DEF ChunksTyped
      <3>3. Rebuilds(a)
        BY <2>3, <2>4, <3>1, <3>2 DEF Rebuilds, Candidate
      <3> QED BY <2>1, <3>3
    <2>6. CASE ~indexer[i].here
      <3>1. chunk' = [chunk EXCEPT ![a].stored = FALSE]
        BY <1>3, <2>6 DEF WriteChunks
      <3>2. /\ \A b \in Assets : b # a => chunk'[b] = chunk[b]
            /\ chunk'[a].stored = FALSE /\ chunk'[a].edition = chunk[a].edition
        BY <1>0, <2>1, <3>1 DEF ChunksTyped, ChunkType
      <3> HIDE DEF a
      <3> QED BY <2>3, <2>4, <3>2 DEF LibraryQuiet, Candidate
    <2> QED BY <2>5, <2>6
  <1>4. ASSUME NEW a \in Assets, Library(a) PROVE LibraryQuiet
    <2>0. asset[a] \in AssetType
      BY <1>0 DEF AssetsTyped
    <2>1. CASE Upload(a)
      <3> DEFINE x == [status |-> "queued", trashed |-> FALSE, here |-> TRUE]
      <3>1. asset' = [asset EXCEPT ![a] = x] /\ x.status # "ready"
            /\ chunk' = chunk /\ indexer' = indexer
        BY <2>1 DEF Upload
      <3> HIDE DEF x
      <3> QED BY <1>0, <3>1, QuietRow
    <2>2. CASE Reprocess(a) \/ QueueMoved(a)
      <3>1. SetStatus(a, "queued") /\ chunk' = chunk /\ indexer' = indexer
        BY <2>2 DEF Reprocess, QueueMoved
      <3> QED BY <3>1, QuietStatus, HalfKept
    <2>3. CASE Move(a)
      <3>1. /\ \A b \in Assets : b # a => asset'[b] = asset[b]
            /\ asset'[a].status = asset[a].status /\ asset'[a].trashed = asset[a].trashed
        BY <1>0, <2>0, <2>3 DEF Move, AssetsTyped, AssetType
      <3>2. \A b \in Assets : Ready(b)' => Ready(b)
        BY <3>1 DEF Ready, Live, HasRow
      <3>3. chunk' = chunk /\ indexer' = indexer
        BY <2>3 DEF Move
      <3> QED BY <3>2, <3>3, HalfKept DEF LibraryQuiet, Candidate
    <2>4. CASE Trash(a)
      <3> DEFINE x == [asset[a] EXCEPT !.status = "deleted", !.trashed = TRUE]
      <3>1. asset' = [asset EXCEPT ![a] = x] /\ x.status # "ready"
            /\ chunk' = [chunk EXCEPT ![a].stored = FALSE] /\ indexer' = indexer
        BY <2>0, <2>4 DEF Trash, AssetType
      <3> HIDE DEF x
      <3> QED BY <1>0, <3>1, QuietRow
    <2>5. CASE Restore(a)
      <3> DEFINE x == [asset[a] EXCEPT !.status = "queued", !.trashed = FALSE]
      <3>1. asset' = [asset EXCEPT ![a] = x] /\ x.status # "ready"
            /\ chunk' = chunk /\ indexer' = indexer
        BY <2>0, <2>5 DEF Restore, AssetType
      <3> HIDE DEF x
      <3> QED BY <1>0, <3>1, QuietRow
    <2>6. CASE Purge(a)
      <3> DEFINE x == [NoRow EXCEPT !.status = "purged"]
      <3>1. asset' = [asset EXCEPT ![a] = x] /\ x.status # "ready"
            /\ chunk' = [chunk EXCEPT ![a].stored = FALSE] /\ indexer' = indexer
        BY <2>6 DEF Purge, NoRow
      <3> HIDE DEF x
      <3> QED BY <1>0, <3>1, QuietRow
    <2> QED BY <1>4, <2>1, <2>2, <2>3, <2>4, <2>5, <2>6 DEF Library
  <1>5. CASE UNCHANGED library
    BY <1>5 DEF LibraryQuiet, Candidate, Ready, Live, HasRow, HalfIndexed
  <1> QED BY <1>1, <1>2, <1>3, <1>4, <1>5, OthersKeepLibrary DEF Index

LEMMA ChunksStep ==
  ASSUME RetrievalAssumption, TInv, [Next]_vars PROVE ChunksTyped'
  <1>0. ChunksTyped /\ IndexersTyped
    BY DEF TInv, LibraryTyped
  <1>1. ASSUME NEW a \in Assets, chunk' = [chunk EXCEPT ![a].stored = FALSE] PROVE ChunksTyped'
    <2> DEFINE x == [chunk[a] EXCEPT !.stored = FALSE]
    <2>1. x \in ChunkType /\ ~x.stored
      BY <1>0 DEF ChunksTyped, ChunkType
    <2>2. chunk' = [chunk EXCEPT ![a] = x]
      BY <1>1
    <2> HIDE DEF x
    <2> QED BY <1>0, <2>1, <2>2 DEF ChunksTyped
  <1>3. ASSUME NEW i \in Indexers, Index(i) \/ IndexFails(i), chunk' # chunk PROVE ChunksTyped'
    <2>1. WriteChunks(i)
      BY <1>3 DEF Index, Claim, WriteRefused, MarkReady, IndexFails
    <2>2. indexer[i].asset \in Assets
      BY <1>0, <2>1 DEF WriteChunks, IndexersTyped
    <2>3. CASE indexer[i].here
      <3> DEFINE a == indexer[i].asset
                 x == [edition |-> chunk[a].edition + 1, stored |-> TRUE]
      <3>1. chunk[a].edition \in 0 .. MaxEditions /\ MaxEditions \in Nat
        BY <1>0, <2>2, Constants DEF ChunksTyped, ChunkType
      <3>2. chunk[a].edition < MaxEditions /\ chunk' = [chunk EXCEPT ![a] = x]
        BY <2>1, <2>3 DEF WriteChunks
      <3>3. chunk[a].edition + 1 \in 0 .. MaxEditions /\ chunk[a].edition + 1 # 0
        BY <3>1, <3>2
      <3>4. x \in ChunkType /\ x.edition # 0
        BY <3>3 DEF ChunkType
      <3> HIDE DEF x
      <3> QED BY <1>0, <3>2, <3>4 DEF ChunksTyped
    <2>4. CASE ~indexer[i].here
      BY <1>1, <2>1, <2>2, <2>4 DEF WriteChunks
    <2> QED BY <2>3, <2>4
  <1>4. ASSUME NEW a \in Assets, Library(a), chunk' # chunk PROVE ChunksTyped'
    BY <1>1, <1>4 DEF Library, Upload, Reprocess, Move, QueueMoved, Trash, Restore, Purge
  <1>5. CASE chunk' = chunk
    BY <1>0, <1>5 DEF ChunksTyped
  <1> QED BY <1>3, <1>4, <1>5, OthersKeepLibrary

-----------------------------------------------------------------------------
(* What a step does to the cache row and the flights.                          *)

Fresh == [on |-> TRUE, todo |-> {"lexical", "vector"}, fill |-> NoFill]

\* Nothing is read and nothing is saved.
FillsQuiet ==
    /\ cache' \in {cache, NoCache}
    /\ flight' \in [Processes -> FlightType]
    /\ \A p \in Processes : flight'[p] \in {flight[p], NoFlight, Fresh}

FillStep ==
    \/ FillsQuiet
    \/ ClearScope
    \/ UNCHANGED library /\ \E p \in Processes : \/ Lexical(p) \/ Vector(p) \/ NoVector(p)
                                                 \/ Save(p)

LEMMA NoFillTyped == NoFill \in Fill /\ NoFlight \in FlightType /\ Fresh \in FlightType
                     /\ NoCache \in CacheType
  <1>1. NoFill \in Fill
    BY DEF NoFill, Fill
  <1>2. [on |-> FALSE, todo |-> {}, fill |-> NoFill] \in FlightType
        /\ [on |-> TRUE, todo |-> {"lexical", "vector"}, fill |-> NoFill] \in FlightType
        /\ [live |-> FALSE, fill |-> NoFill] \in CacheType
    BY <1>1 DEF FlightType, CacheType
  <1> QED BY <1>1, <1>2 DEF NoFlight, Fresh, NoCache

LEMMA QuietFlight ==
  ASSUME FlightsTyped, NEW p \in Processes, NEW f \in {NoFlight, Fresh},
         flight' = [flight EXCEPT ![p] = f], cache' = cache
  PROVE  FillsQuiet
  <1>1. f \in FlightType
    BY NoFillTyped
  <1> QED BY <1>1 DEF FlightsTyped, FillsQuiet

LEMMA QuietFills ==
  ASSUME FlightsTyped, flight' = flight, cache' \in {cache, NoCache} PROVE FillsQuiet
  BY DEF FlightsTyped, FillsQuiet

LEMMA FillSteps ==
  ASSUME RetrievalAssumption, TInv, [Next]_vars PROVE FillStep
  <1>0. FlightsTyped
    BY DEF TInv
  <1>1. ASSUME NEW i \in Indexers, Index(i) \/ IndexFails(i) PROVE FillStep
    <2>1. ClearScope \/ (flight' = flight /\ cache' = cache)
      BY <1>1 DEF Index, Claim, WriteChunks, WriteRefused, MarkReady, IndexFails
    <2> QED BY <1>0, <2>1, QuietFills DEF FillStep
  <1>2. ASSUME NEW a \in Assets, Library(a) PROVE FillStep
    <2>1. flight' = flight /\ cache' = cache
      BY <1>2 DEF Library, Upload, Reprocess, Move, QueueMoved, Trash, Restore, Purge
    <2> QED BY <1>0, <2>1, QuietFills DEF FillStep
  <1>3. ASSUME NEW p \in Processes, Fly(p) \/ NoVector(p) PROVE FillStep
    <2>1. UNCHANGED library
      BY <1>3 DEF Fly, Lexical, Vector, Reads, NoVector, Save
    <2> QED BY <1>3, <2>1 DEF Fly, FillStep
  <1>4. ASSUME NEW p \in Processes, FlightFails(p) \/ Crash(p) PROVE FillStep
    <2>1. flight' = [flight EXCEPT ![p] = NoFlight] /\ cache' = cache
      BY <1>4 DEF FlightFails, Crash, Lands
    <2> QED BY <1>0, <2>1, QuietFlight DEF FillStep
  <1>5. ASSUME NEW q \in Askers, Ask(q) \/ Request(q) \/ Drift(q) \/ RequestFails(q)
        PROVE  FillStep
    <2>1. CASE Join(q) \/ Drift(q)
      <3>1. /\ cache' = cache /\ Home[q] \in Processes
            /\ flight' = flight \/ flight' = [flight EXCEPT ![Home[q]] = Fresh]
        BY <2>1, Constants DEF Join, Drift, Board, Fresh
      <3> QED BY <1>0, <3>1, QuietFlight, QuietFills DEF FillStep
    <2>2. CASE ~Join(q) /\ ~Drift(q)
      <3>1. flight' = flight /\ cache' = cache
        BY <1>5, <2>2 DEF Ask, Request, Lookup, Exact, Fallback, ModelFails, Persist, Report, Fail,
                          RequestFails, AskFails, LookupFails, FixturesFail, FactsFail, Throws,
                          Drift, Falls, Close
      <3> QED BY <1>0, <3>1, QuietFills DEF FillStep
    <2> QED BY <2>1, <2>2
  <1>6. CASE Expire \/ UNCHANGED vars
    <2>1. flight' = flight /\ cache' \in {cache, NoCache}
      BY <1>6 DEF Expire, vars
    <2> QED BY <1>0, <2>1, QuietFills DEF FillStep
  <1> QED BY <1>1, <1>2, <1>3, <1>4, <1>5, <1>6 DEF Next

\* A query returns documents, in the edition that is stored.
LEMMA FoundIs ==
  ASSUME RetrievalAssumption, ChunksTyped, NEW S \in SUBSET Assets
  PROVE  /\ Found(S) \subseteq Hits
         /\ \A h \in Found(S) : /\ h[1] \in S
                                /\ h[2] = chunk[h[1]].edition
         /\ \A a \in S : Findable(a) => <<a, chunk[a].edition>> \in Found(S)
  <1>1. \A a \in Assets : Findable(a) => chunk[a].edition \in Editions
    <2> SUFFICES ASSUME NEW a \in Assets, Findable(a) PROVE chunk[a].edition \in Editions
      OBVIOUS
    <2>1. chunk[a].edition \in 0 .. MaxEditions /\ chunk[a].edition # 0
      BY DEF ChunksTyped, ChunkType, Findable
    <2> QED BY <2>1, Constants DEF Editions
  <1> QED BY <1>1 DEF Found, Hits

\* What a query has read, field by field.
LEMMA ReadsFill ==
  ASSUME FlightsTyped, ChunksTyped, RetrievalAssumption,
         NEW p \in Processes, NEW part, NEW S \in SUBSET Assets, Reads(p, part, S)
  PROVE  /\ part \in flight[p].todo
         /\ \A r \in Processes : r # p => flight'[r] = flight[r]
         /\ flight'[p] \in FlightType
         /\ flight'[p].on = flight[p].on
         /\ flight'[p].todo = flight[p].todo \ {part}
         /\ flight'[p].fill.hits = flight[p].fill.hits \cup Found(S)
         /\ flight'[p].fill.blind = flight[p].fill.blind \cup {a \in Assets : HalfIndexed(a)}
         /\ flight'[p].fill.overtaken = flight[p].fill.overtaken
         /\ flight'[p].fill.partial = flight[p].fill.partial
         /\ cache' = cache /\ asker' = asker /\ UNCHANGED records /\ stray' = stray
  <1> DEFINE f == flight[p].fill
             g == [f EXCEPT !.hits = f.hits \cup Found(S),
                            !.blind = f.blind \cup {a \in Assets : HalfIndexed(a)}]
             x == [flight[p] EXCEPT !.todo = flight[p].todo \ {part}, !.fill = g]
  <1>1. flight[p] \in FlightType /\ f \in Fill
    BY DEF FlightsTyped, FlightType
  <1>2. Found(S) \subseteq Hits
    BY FoundIs
  <1>3. /\ g \in Fill /\ g.hits = f.hits \cup Found(S)
        /\ g.blind = f.blind \cup {a \in Assets : HalfIndexed(a)}
        /\ g.overtaken = f.overtaken /\ g.partial = f.partial
    BY <1>1, <1>2 DEF Fill
  <1>4. /\ flight' = [flight EXCEPT ![p] = x] /\ part \in flight[p].todo
        /\ cache' = cache /\ asker' = asker /\ UNCHANGED records /\ stray' = stray
    BY DEF Reads
  <1> HIDE DEF g
  <1>5. /\ x \in FlightType /\ x.on = flight[p].on /\ x.fill = g
        /\ x.todo = flight[p].todo \ {part}
    BY <1>1, <1>3 DEF FlightType
  <1> HIDE DEF x, f
  <1>6. flight'[p] = x /\ \A r \in Processes : r # p => flight'[r] = flight[r]
    BY <1>4 DEF FlightsTyped
  <1> QED BY <1>3, <1>4, <1>5, <1>6 DEF f

LEMMA NoVectorFill ==
  ASSUME FlightsTyped, NEW p \in Processes, NoVector(p)
  PROVE  /\ \A r \in Processes : r # p => flight'[r] = flight[r]
         /\ flight'[p] \in FlightType
         /\ flight'[p].on = flight[p].on
         /\ "vector" \in flight[p].todo
         /\ flight'[p].todo = flight[p].todo \ {"vector"}
         /\ flight'[p].fill.hits = flight[p].fill.hits
         /\ flight'[p].fill.blind = flight[p].fill.blind
         /\ flight'[p].fill.overtaken = flight[p].fill.overtaken
         /\ flight'[p].fill.partial = TRUE
         /\ cache' = cache
  <1> DEFINE f == flight[p].fill
             g == [f EXCEPT !.partial = TRUE]
             x == [flight[p] EXCEPT !.todo = flight[p].todo \ {"vector"}, !.fill = g]
  <1>1. flight[p] \in FlightType /\ f \in Fill
    BY DEF FlightsTyped, FlightType
  <1>3. /\ g \in Fill /\ g.hits = f.hits /\ g.blind = f.blind
        /\ g.overtaken = f.overtaken /\ g.partial = TRUE
    BY <1>1 DEF Fill
  <1>4. flight' = [flight EXCEPT ![p] = x] /\ "vector" \in flight[p].todo /\ cache' = cache
    BY DEF NoVector
  <1> HIDE DEF g
  <1>5. /\ x \in FlightType /\ x.on = flight[p].on /\ x.fill = g
        /\ x.todo = flight[p].todo \ {"vector"}
    BY <1>1, <1>3 DEF FlightType
  <1> HIDE DEF x, f
  <1>6. flight'[p] = x /\ \A r \in Processes : r # p => flight'[r] = flight[r]
    BY <1>4 DEF FlightsTyped
  <1> QED BY <1>3, <1>4, <1>5, <1>6 DEF f

\* A flight that has read is overtaken by the clearing of the row.
LEMMA ClearScopeFill ==
  ASSUME FlightsTyped, ClearScope
  PROVE  /\ cache' = NoCache
         /\ \A p \in Processes :
              /\ flight'[p] \in FlightType
              /\ \/ flight'[p] = flight[p] /\ ~(flight[p].on /\ flight[p].todo # {"lexical", "vector"})
                 \/ /\ flight'[p].fill.overtaken
                    /\ flight'[p].on = flight[p].on /\ flight'[p].todo = flight[p].todo
                    /\ flight'[p].on /\ flight'[p].todo # {"lexical", "vector"}
         /\ flight' = [p \in Processes |-> flight'[p]]
  <1> SUFFICES ASSUME NEW p \in Processes
               PROVE  /\ flight'[p] \in FlightType
                      /\ \/ /\ flight'[p] = flight[p]
                            /\ ~(flight[p].on /\ flight[p].todo # {"lexical", "vector"})
                         \/ /\ flight'[p].fill.overtaken
                            /\ flight'[p].on = flight[p].on /\ flight'[p].todo = flight[p].todo
                            /\ flight'[p].on /\ flight'[p].todo # {"lexical", "vector"}
    BY DEF ClearScope
  <1> DEFINE g == [flight[p].fill EXCEPT !.overtaken = TRUE]
             x == [flight[p] EXCEPT !.fill = g]
  <1>1. flight[p] \in FlightType /\ flight[p].fill \in Fill
    BY DEF FlightsTyped, FlightType
  <1>2. g \in Fill /\ g.overtaken
    BY <1>1 DEF Fill
  <1>3. flight'[p] = IF flight[p].on /\ flight[p].todo # {"lexical", "vector"} THEN x
                     ELSE flight[p]
    BY DEF ClearScope
  <1> HIDE DEF g
  <1>4. x \in FlightType /\ x.fill = g /\ x.on = flight[p].on /\ x.todo = flight[p].todo
    BY <1>1, <1>2 DEF FlightType
  <1> HIDE DEF x
  <1> QED BY <1>1, <1>2, <1>3, <1>4

\* To be overtaken changes nothing that was found.
LEMMA ClearedHits ==
  ASSUME FlightsTyped, ClearScope, NEW p \in Processes
  PROVE  flight'[p].fill.hits = flight[p].fill.hits /\ flight'[p].on = flight[p].on
  <1> DEFINE g == [flight[p].fill EXCEPT !.overtaken = TRUE]
  <1>1. flight[p] \in FlightType /\ flight[p].fill \in Fill
    BY DEF FlightsTyped, FlightType
  <1>2. g.hits = flight[p].fill.hits
    BY <1>1 DEF Fill
  <1>3. flight'[p] = IF flight[p].on /\ flight[p].todo # {"lexical", "vector"}
                     THEN [flight[p] EXCEPT !.fill = g] ELSE flight[p]
    BY DEF ClearScope
  <1> HIDE DEF g
  <1> QED BY <1>1, <1>2, <1>3 DEF FlightType

LEMMA KeptIs ==
  ASSUME NEW hits, NEW kept \in Kept(hits)
  PROVE  kept \subseteq hits /\ (hits # {} => kept # {})
  BY DEF Kept

\* What is known of a row, field by field.
LEMMA FilledIs ==
  ASSUME NEW f \in Fill, NEW kept \in SUBSET f.hits
  PROVE  LET g == Filled(f, kept) IN
         /\ g \in Fill /\ g.hits = kept /\ g.overtaken = f.overtaken
         /\ ~f.overtaken => /\ g.cut = AssetsOf(f.hits) \ AssetsOf(kept)
                            /\ g.blind = f.blind /\ g.partial = f.partial
  <1> DEFINE c == AssetsOf(f.hits) \ AssetsOf(kept)
             g == [f EXCEPT !.hits = kept, !.cut = c]
             n == [NoFill EXCEPT !.hits = kept, !.overtaken = TRUE]
  <1>1. c \in SUBSET Assets
    BY DEF AssetsOf, Fill, Hits
  <1>2. n \in Fill /\ n.hits = kept /\ n.overtaken
    BY DEF Fill, NoFill
  <1> HIDE DEF c
  <1>3. /\ g \in Fill /\ g.hits = kept /\ g.cut = c /\ g.overtaken = f.overtaken
        /\ g.blind = f.blind /\ g.partial = f.partial
    BY <1>1 DEF Fill
  <1>4. Filled(f, kept) = IF f.overtaken THEN n ELSE g
    BY DEF Filled, c
  <1>5. f.overtaken \in BOOLEAN
    BY DEF Fill
  <1> HIDE DEF g, n
  <1>6. CASE f.overtaken
    BY <1>2, <1>4, <1>6
  <1>7. CASE ~f.overtaken
    BY <1>3, <1>4, <1>7 DEF c
  <1> QED BY <1>5, <1>6, <1>7

\* What is saved is what the limits have kept of a flight, field by field.
LEMMA SaveFill ==
  ASSUME FlightsTyped, NEW p \in Processes, Save(p)
  PROVE  /\ flight[p].on /\ flight[p].todo = {}
         /\ cache' \in CacheType /\ cache'.live
         /\ cache'.fill.hits \in Kept(flight[p].fill.hits)
         /\ cache'.fill.overtaken = flight[p].fill.overtaken
         /\ ~flight[p].fill.overtaken =>
              /\ cache'.fill.cut = AssetsOf(flight[p].fill.hits) \ AssetsOf(cache'.fill.hits)
              /\ cache'.fill.blind = flight[p].fill.blind
              /\ cache'.fill.partial = flight[p].fill.partial
         /\ flight' = [flight EXCEPT ![p] = NoFlight]
         /\ \E unlucky \in SUBSET Joined(p) :
               asker' = [q \in Askers |->
                          IF q \in Joined(p)
                          THEN Served(asker[q], AssetsOf(cache'.fill.hits), q \in unlucky)
                          ELSE asker[q]]
  <1> DEFINE f == flight[p].fill
  <1>1. f \in Fill
    BY DEF FlightsTyped, FlightType
  <1>2. PICK kept \in Kept(f.hits), unlucky \in SUBSET Joined(p) :
           /\ cache' = [live |-> TRUE, fill |-> Filled(f, kept)]
           /\ asker' = [q \in Askers |->
                         IF q \in Joined(p)
                         THEN Served(asker[q], AssetsOf(kept), q \in unlucky)
                         ELSE asker[q]]
    BY DEF Save
  <1>3. kept \subseteq f.hits
    BY KeptIs
  <1> DEFINE g == Filled(f, kept)
  <1>5. /\ g \in Fill /\ g.hits = kept /\ g.overtaken = f.overtaken
        /\ ~f.overtaken => /\ g.cut = AssetsOf(f.hits) \ AssetsOf(kept)
                           /\ g.blind = f.blind /\ g.partial = f.partial
    BY <1>1, <1>3, FilledIs
  <1>6. cache' = [live |-> TRUE, fill |-> g]
    BY <1>2
  <1> HIDE DEF g
  <1>7. cache' \in CacheType /\ cache'.live /\ cache'.fill = g
    BY <1>5, <1>6 DEF CacheType
  <1>8. asker' = [q \in Askers |->
                   IF q \in Joined(p)
                   THEN Served(asker[q], AssetsOf(cache'.fill.hits), q \in unlucky)
                   ELSE asker[q]]
    BY <1>2, <1>5, <1>7
  <1>9. flight' = [flight EXCEPT ![p] = NoFlight] /\ flight[p].on /\ flight[p].todo = {}
    BY DEF Save, Lands
  <1> QED BY <1>2, <1>5, <1>7, <1>8, <1>9

LEMMA FillsTyped ==
  ASSUME RetrievalAssumption, TInv, [Next]_vars PROVE CacheTyped' /\ FlightsTyped'
  <1>0. CacheTyped /\ FlightsTyped /\ ChunksTyped
    BY DEF TInv, LibraryTyped
  <1>1. CASE FillsQuiet
    BY <1>0, <1>1, NoFillTyped DEF FillsQuiet, CacheTyped, FlightsTyped
  <1>2. CASE ClearScope
    BY <1>0, <1>2, ClearScopeFill, NoFillTyped DEF CacheTyped, FlightsTyped
  <1>3. ASSUME NEW p \in Processes, Lexical(p) \/ Vector(p) \/ NoVector(p)
        PROVE  CacheTyped' /\ FlightsTyped'
    <2>1. /\ flight'[p] \in FlightType /\ cache' = cache
          /\ \A r \in Processes : r # p => flight'[r] = flight[r]
      BY <1>0, <1>3, ReadsFill, NoVectorFill, Constants DEF Lexical, Vector
    <2>2. flight' = [r \in Processes |-> flight'[r]]
      BY <1>0, <1>3 DEF Lexical, Vector, Reads, NoVector, FlightsTyped
    <2> QED BY <1>0, <2>1, <2>2 DEF CacheTyped, FlightsTyped
  <1>4. ASSUME NEW p \in Processes, Save(p) PROVE CacheTyped' /\ FlightsTyped'
    <2>1. cache' \in CacheType /\ flight' = [flight EXCEPT ![p] = NoFlight]
      BY <1>0, <1>4, SaveFill
    <2> QED BY <1>0, <2>1, NoFillTyped DEF CacheTyped, FlightsTyped
  <1> QED BY <1>1, <1>2, <1>3, <1>4, FillSteps DEF FillStep

-----------------------------------------------------------------------------
(* The requests and the rest.                                                  *)

LEMMA ServedTyped ==
  ASSUME NEW r \in AskerType, NEW found \in SUBSET Assets, NEW b \in BOOLEAN
  PROVE  Served(r, found, b) \in AskerType /\ Unserved(r) \in AskerType
  <1>1. ASSUME NEW pc \in {"report", "fallback", "model"}, NEW c \in SUBSET Assets
        PROVE  [r EXCEPT !.cited = c, !.pc = pc] \in AskerType
               /\ [r EXCEPT !.pc = pc] \in AskerType
    BY DEF AskerType
  <1>2. \E pc \in {"report", "fallback", "model"}, c \in SUBSET Assets :
           Served(r, found, b) = [r EXCEPT !.cited = c, !.pc = pc]
    <2> DEFINE c == IF r.kind = "evaluate" THEN {} ELSE found
               pc == CASE r.kind = "evaluate" -> "report"
                       [] r.kind = "ask" /\ found = {} /\ b -> "fallback"
                       [] OTHER -> "model"
    <2>1. Served(r, found, b) = [r EXCEPT !.cited = c, !.pc = pc]
      BY DEF Served
    <2>2. c \in SUBSET Assets
      OBVIOUS
    <2>3. pc \in {"report", "fallback", "model"}
      <3>1. CASE r.kind = "evaluate"
        BY <3>1
      <3>2. CASE r.kind # "evaluate" /\ r.kind = "ask" /\ found = {} /\ b
        BY <3>2
      <3>3. CASE r.kind # "evaluate" /\ ~(r.kind = "ask" /\ found = {} /\ b)
        BY <3>3
      <3> QED BY <3>1, <3>2, <3>3
    <2> HIDE DEF c, pc
    <2> QED BY <2>1, <2>2, <2>3
  <1>3. \E pc \in {"report", "fallback", "model"} : Unserved(r) = [r EXCEPT !.pc = pc]
    BY DEF Unserved
  <1>4. Served(r, found, b) \in AskerType
    <2>1. PICK pc \in {"report", "fallback", "model"}, c \in SUBSET Assets :
             Served(r, found, b) = [r EXCEPT !.cited = c, !.pc = pc]
      BY <1>2
    <2>2. [r EXCEPT !.cited = c, !.pc = pc] \in AskerType
      BY <1>1
    <2> QED BY <2>1, <2>2
  <1>5. Unserved(r) \in AskerType
    <2>1. PICK pc \in {"report", "fallback", "model"} : Unserved(r) = [r EXCEPT !.pc = pc]
      BY <1>3
    <2>2. [r EXCEPT !.pc = pc] \in AskerType
      BY <1>1
    <2> QED BY <2>1, <2>2
  <1> QED BY <1>4, <1>5

LEMMA HitsTyped ==
  ASSUME NEW fill \in Fill PROVE AssetsOf(fill.hits) \in SUBSET Assets
  <1>1. fill.hits \subseteq Hits
    BY DEF Fill
  <1> QED BY <1>1 DEF AssetsOf, Hits

LEMMA AskerSet ==
  ASSUME AskersTyped, NEW q \in Askers, NEW x \in AskerType, asker' = [asker EXCEPT ![q] = x]
  PROVE  AskersTyped'
  BY DEF AskersTyped

LEMMA AskersStep ==
  ASSUME RetrievalAssumption, TInv, [Next]_vars PROVE AskersTyped'
  <1>0. /\ AskersTyped /\ FlightsTyped
        /\ \A q \in Askers : asker[q] \in AskerType
        /\ AssetsOf(cache.fill.hits) \in SUBSET Assets
        /\ \A p \in Processes : AssetsOf(flight[p].fill.hits) \in SUBSET Assets
        /\ NoRequest \in AskerType
    <2>1. cache.fill \in Fill
      BY DEF TInv, CacheTyped, CacheType
    <2>2. \A p \in Processes : flight[p].fill \in Fill
      BY DEF TInv, FlightsTyped, FlightType
    <2>3. NoRequest \in AskerType
      BY DEF NoRequest, AskerType
    <2> QED BY <2>1, <2>2, <2>3, HitsTyped DEF TInv, AskersTyped
  <1>1. ASSUME NEW q \in Askers, Falls(q) \/ asker' = [asker EXCEPT ![q] = NoRequest]
        PROVE  AskersTyped'
    <2>1. [NoRequest EXCEPT !.pc = "fail"] \in AskerType
      BY <1>0 DEF AskerType
    <2> QED BY <1>0, <1>1, <2>1, AskerSet DEF Falls
  <1>11. ASSUME NEW q \in Askers, NEW pc \in {"join", "wait"},
                asker' = [asker EXCEPT ![q] = [asker[q] EXCEPT !.pc = pc]]
         PROVE  AskersTyped'
    <2>1. [asker[q] EXCEPT !.pc = pc] \in AskerType
      BY <1>0 DEF AskerType
    <2> QED BY <1>0, <1>11, <2>1, AskerSet
  <1>2. ASSUME NEW q \in Askers, Ask(q) PROVE AskersTyped'
    <2>1. PICK kind \in Kinds[q] : asker' = [asker EXCEPT ![q] =
             CASE kind = "exact" -> [NoRequest EXCEPT !.pc = "exact", !.kind = "ask"]
               [] OTHER -> [NoRequest EXCEPT !.pc = "lookup", !.kind = kind]]
      BY <1>2 DEF Ask
    <2>2. kind \in AllKinds
      BY Constants
    <2>3. CASE kind = "exact"
      <3>1. [NoRequest EXCEPT !.pc = "exact", !.kind = "ask"] \in AskerType
        BY <1>0 DEF AskerType
      <3> QED BY <1>0, <2>1, <2>3, <3>1, AskerSet
    <2>4. CASE kind # "exact"
      <3>1. [NoRequest EXCEPT !.pc = "lookup", !.kind = kind] \in AskerType
        BY <1>0, <2>2, <2>4 DEF AskerType, AllKinds
      <3> QED BY <1>0, <2>1, <2>4, <3>1, AskerSet
    <2> QED BY <2>3, <2>4
  <1>3. ASSUME NEW q \in Askers, Lookup(q) \/ LookupFails(q) PROVE AskersTyped'
    <2>1. \/ \E b \in BOOLEAN :
                asker' = [asker EXCEPT ![q] = Served(asker[q], AssetsOf(cache.fill.hits), b)]
          \/ asker' = [asker EXCEPT ![q] = [asker[q] EXCEPT !.pc = "join"]]
          \/ asker' = [asker EXCEPT ![q] = Unserved(asker[q])]
      BY <1>3 DEF Lookup, LookupFails
    <2>2. CASE \E b \in BOOLEAN :
                  asker' = [asker EXCEPT ![q] = Served(asker[q], AssetsOf(cache.fill.hits), b)]
      BY <1>0, <2>2, ServedTyped, AskerSet
    <2>3. CASE asker' = [asker EXCEPT ![q] = Unserved(asker[q])]
      <3>1. Unserved(asker[q]) \in AskerType
        BY <1>0, ServedTyped
      <3> QED BY <1>0, <2>3, <3>1, AskerSet
    <2> QED BY <1>11, <2>1, <2>2, <2>3
  <1>4. ASSUME NEW q \in Askers, Exact(q) \/ Fallback(q) PROVE AskersTyped'
    <2>1. ASSUME NEW c \in SUBSET Assets,
                 asker' = [asker EXCEPT ![q] = [asker[q] EXCEPT !.pc = "model", !.cited = c]]
          PROVE  AskersTyped'
      <3>1. [asker[q] EXCEPT !.pc = "model", !.cited = c] \in AskerType
        BY <1>0 DEF AskerType
      <3> QED BY <1>0, <2>1, <3>1, AskerSet
    <2>2. \/ Falls(q)
          \/ \E c \in SUBSET Assets :
                asker' = [asker EXCEPT ![q] = [asker[q] EXCEPT !.pc = "model", !.cited = c]]
      <3>1. CASE Exact(q)
        <4>1. PICK a \in Assets :
                 \/ asker' = [asker EXCEPT ![q] = [asker[q] EXCEPT !.pc = "model", !.cited = {a}]]
                 \/ Falls(q)
          BY <3>1 DEF Exact
        <4>2. {a} \in SUBSET Assets
          OBVIOUS
        <4> QED BY <4>1, <4>2
      <3>2. CASE Fallback(q)
        <4>1. {a \in Assets : Ready(a) /\ asset[a].here} \in SUBSET Assets
          OBVIOUS
        <4> QED BY <3>2, <4>1 DEF Fallback
      <3> QED BY <1>4, <3>1, <3>2
    <2> QED BY <1>1, <2>1, <2>2
  <1>5. ASSUME NEW q \in Askers, Join(q) PROVE AskersTyped'
    BY <1>5, <1>11 DEF Join
  <1>12. ASSUME NEW q \in Askers,
                \/ ModelFails(q) \/ Persist(q) \/ Report(q) \/ Fail(q)
                \/ FixturesFail(q) \/ FactsFail(q) \/ Throws(q)
         PROVE  AskersTyped'
    BY <1>1, <1>12 DEF ModelFails, Persist, Report, Fail, FixturesFail, FactsFail, Throws, Close
  <1>6. ASSUME NEW p \in Processes, Fly(p) \/ NoVector(p) \/ FlightFails(p) \/ Crash(p)
        PROVE  AskersTyped'
    <2>1. ASSUME \/ asker' = asker
                 \/ /\ asker' = [q \in Askers |-> asker'[q]]
                    /\ \A q \in Askers :
                         \/ asker'[q] = asker[q] \/ asker'[q] = NoRequest
                         \/ asker'[q] = Unserved(asker[q])
                         \/ \E b \in BOOLEAN, found \in SUBSET Assets :
                               asker'[q] = Served(asker[q], found, b)
          PROVE  AskersTyped'
      <3>1. ASSUME NEW q \in Askers PROVE Unserved(asker[q]) \in AskerType
        BY <1>0, ServedTyped
      <3>2. ASSUME NEW q \in Askers, NEW b \in BOOLEAN, NEW found \in SUBSET Assets
            PROVE  Served(asker[q], found, b) \in AskerType
        BY <1>0, ServedTyped
      <3>3. CASE asker' = asker
        BY <1>0, <3>3 DEF AskersTyped
      <3>4. CASE asker' = [q \in Askers |-> asker'[q]] /\ asker' # asker
        <4>1. \A q \in Askers : asker'[q] \in AskerType
          BY <1>0, <2>1, <3>1, <3>2, <3>4
        <4> QED BY <3>4, <4>1 DEF AskersTyped
      <3> QED BY <2>1, <3>3, <3>4
    <2>2. CASE Save(p)
      <3>1. PICK found \in SUBSET Assets, unlucky \in SUBSET Joined(p) :
               asker' = [q \in Askers |->
                          IF q \in Joined(p) THEN Served(asker[q], found, q \in unlucky)
                          ELSE asker[q]]
        <4>1. cache' \in CacheType
          BY <1>0, <2>2, SaveFill
        <4>2. AssetsOf(cache'.fill.hits) \in SUBSET Assets
          BY <4>1, HitsTyped DEF CacheType
        <4> QED BY <1>0, <2>2, <4>2, SaveFill
      <3>2. \A q \in Askers : (q \in unlucky) \in BOOLEAN
        OBVIOUS
      <3> QED BY <2>1, <3>1, <3>2
    <2>3. CASE FlightFails(p) \/ Crash(p)
      BY <2>1, <2>3 DEF FlightFails, Crash
    <2>4. CASE Lexical(p) \/ Vector(p) \/ NoVector(p)
      BY <2>1, <2>4 DEF Lexical, Vector, Reads, NoVector
    <2> QED BY <1>6, <2>2, <2>3, <2>4 DEF Fly
  <1>7. ASSUME asker' = asker PROVE AskersTyped'
    BY <1>0, <1>7 DEF AskersTyped
  <1>8. ASSUME NEW i \in Indexers, Index(i) \/ IndexFails(i) PROVE asker' = asker
    BY <1>8 DEF Index, Claim, WriteChunks, WriteRefused, MarkReady, IndexFails
  <1>9. ASSUME NEW a \in Assets, Library(a) PROVE asker' = asker
    BY <1>9 DEF Library, Upload, Reprocess, Move, QueueMoved, Trash, Restore, Purge
  <1>10. CASE Expire \/ UNCHANGED vars
    BY <1>7, <1>10 DEF Expire, vars
  <1>13. ASSUME NEW q \in Askers, AskFails(q) \/ Drift(q) PROVE asker' = asker
    BY <1>13 DEF AskFails, Drift
  <1> QED BY <1>2, <1>3, <1>4, <1>5, <1>6, <1>7, <1>8, <1>9, <1>10, <1>12, <1>13
          DEF Next, Request, RequestFails

LEMMA RestStep ==
  ASSUME RetrievalAssumption, TInv, [Next]_vars PROVE RestTyped'
  <1>0. /\ stray \in SUBSET Askers /\ open \in SUBSET Askers /\ dropped \in SUBSET Askers
        /\ faults \in 0 .. MaxFaults /\ MaxFaults \in Nat
    BY Constants DEF TInv, RestTyped
  <1>1. ASSUME \/ faults' = faults
               \/ faults < MaxFaults /\ faults' = faults + 1
        PROVE  faults' \in 0 .. MaxFaults
    BY <1>0, <1>1
  <1>2. ASSUME NEW i \in Indexers, Index(i) \/ IndexFails(i) PROVE RestTyped'
    BY <1>0, <1>1, <1>2 DEF Index, Claim, WriteChunks, WriteRefused, MarkReady, IndexFails,
                            RestTyped, Strike
  <1>3. ASSUME NEW a \in Assets, Library(a) PROVE RestTyped'
    BY <1>0, <1>3 DEF Library, Upload, Reprocess, Move, QueueMoved, Trash, Restore, Purge, RestTyped
  <1>4. ASSUME NEW p \in Processes, Fly(p) \/ NoVector(p) \/ FlightFails(p) PROVE RestTyped'
    BY <1>0, <1>1, <1>4 DEF Fly, Lexical, Vector, Reads, Save, NoVector, FlightFails, RestTyped, Strike
  <1>5. ASSUME NEW p \in Processes, Crash(p) PROVE RestTyped'
    BY <1>0, <1>1, <1>5 DEF Crash, RestTyped, Strike
  <1>6. ASSUME NEW q \in Askers, Ask(q) \/ Request(q) \/ Drift(q) \/ RequestFails(q)
        PROVE  RestTyped'
    <2>1. open' \in SUBSET Askers
      <3>1. open' = open \/ open' = open \cup {q} \/ open' = open \ {q}
        BY <1>6 DEF Ask, Request, Lookup, Join, Exact, Fallback, ModelFails, Persist, Report, Fail,
                    RequestFails, AskFails, LookupFails, FixturesFail, FactsFail, Throws,
                    Drift, Falls, Close
      <3> QED BY <1>0, <3>1
    <2>2. dropped' \in SUBSET Askers /\ stray' \in SUBSET Askers
      BY <1>0, <1>6 DEF Ask, Request, Lookup, Join, Exact, Fallback, ModelFails, Persist, Report, Fail,
                        RequestFails, AskFails, LookupFails, FixturesFail, FactsFail, Throws,
                        Drift, Falls, Close
    <2>3. \/ faults' = faults
          \/ faults < MaxFaults /\ faults' = faults + 1
      BY <1>6 DEF Ask, Request, Lookup, Join, Exact, Fallback, ModelFails, Persist, Report, Fail,
                  RequestFails, AskFails, LookupFails, FixturesFail, FactsFail, Throws,
                  Drift, Falls, Close, Strike
    <2> QED BY <1>1, <2>1, <2>2, <2>3 DEF RestTyped
  <1>7. CASE Expire \/ UNCHANGED vars
    BY <1>0, <1>7 DEF Expire, vars, RestTyped
  <1> QED BY <1>2, <1>3, <1>4, <1>5, <1>6, <1>7 DEF Next

LEMMA TypeInit == ASSUME RetrievalAssumption, Init PROVE TInv
  <1>1. /\ NoRow \in AssetType /\ NoIndexing \in IndexerType /\ NoIndexing.pc = "off"
        /\ NoRequest \in AskerType
        /\ [status |-> "ready", trashed |-> FALSE, here |-> TRUE] \in AssetType
    BY DEF NoRow, AssetType, NoIndexing, IndexerType, NoRequest, AskerType
  <1>2. /\ [edition |-> 0, stored |-> FALSE] \in ChunkType
        /\ [edition |-> 1, stored |-> TRUE] \in ChunkType
    BY Constants DEF ChunkType
  <1>3. AssetsTyped /\ MovingTyped /\ ChunksTyped
    BY <1>1, <1>2 DEF Init, AssetsTyped, MovingTyped, ChunksTyped
  <1> QED BY <1>1, <1>3, Constants, NoFillTyped
          DEF Init, TInv, LibraryTyped, IndexersTyped, CacheTyped, FlightsTyped, AskersTyped,
              RestTyped

LEMMA TypeStep == ASSUME RetrievalAssumption, TInv, [Next]_vars PROVE TInv'
  BY AssetsStep, ChunksStep, IndexersStep, FillsTyped, AskersStep, RestStep
     DEF TInv, LibraryTyped

\* Every variable has its type, whoever asks, indexes, moves and fails at once.
THEOREM TypeCorrect == Spec => []TypeOK
  <1>1. Init => TInv
    BY RetrievalAssumption, TypeInit
  <1>2. TInv /\ [Next]_vars => TInv'
    BY RetrievalAssumption, TypeStep
  <1> QED BY <1>1, <1>2, Types, PTL DEF Spec

-----------------------------------------------------------------------------
(* What fills hold.                                                            *)

Current(fill) == ~fill.overtaken =>
    \A h \in fill.hits : chunk[h[1]].stored => h[2] = chunk[h[1]].edition

Holds(fill, a) == a \in AssetsOf(fill.hits) \cup fill.blind

\* a row holds what is, or will soon be, found, or has cut it for the sake of others
CacheFinds == cache.live /\ ~cache.fill.overtaken =>
    \A a \in Worded \cup Similar : Candidate(a) =>
        \/ Holds(cache.fill, a)
        \/ a \in cache.fill.cut /\ cache.fill.hits # {}
        \/ cache.fill.partial /\ a \notin Worded

FlightsCurrent == \A p \in Processes : Current(flight[p].fill)

\* a flight that no query has answered has found nothing, and one that is over
\* asks nothing
NotRead == \A p \in Processes :
    /\ ~flight[p].on \/ flight[p].todo = {"lexical", "vector"} => flight[p].fill.hits = {}
    /\ ~flight[p].on => flight[p].todo = {}

\* and each query that has answered has found what it is to find
FlightsFind == \A p \in Processes : flight[p].on /\ ~flight[p].fill.overtaken =>
    \A a \in Assets : Candidate(a) =>
        /\ "lexical" \notin flight[p].todo /\ a \in Worded => Holds(flight[p].fill, a)
        /\ "vector" \notin flight[p].todo /\ a \in Similar =>
              Holds(flight[p].fill, a) \/ flight[p].fill.partial

HInv == HitsAreCurrent /\ CacheFinds /\ FlightsCurrent /\ NotRead /\ FlightsFind

LEMMA HitsPairs ==
  ASSUME NEW fill \in Fill PROVE \A h \in fill.hits : h[1] \in Assets
  BY DEF Fill, Hits

LEMMA FillsOf ==
  ASSUME TInv
  PROVE  cache.fill \in Fill /\ \A p \in Processes : /\ flight[p].fill \in Fill
                                                     /\ flight[p].todo \subseteq {"lexical", "vector"}
  BY DEF TInv, CacheTyped, CacheType, FlightsTyped, FlightType

\* Fills stay current while no chunks are written.
LEMMA CurrentKept ==
  ASSUME LibraryQuiet, NEW fill \in Fill, Current(fill)
  PROVE  ~fill.overtaken =>
            \A h \in fill.hits : chunk'[h[1]].stored => h[2] = chunk'[h[1]].edition
  BY HitsPairs DEF LibraryQuiet, Current

LEMMA FillInit == ASSUME Init PROVE HInv
  <1>1. /\ ~cache.live
        /\ \A p \in Processes : ~flight[p].on /\ flight[p].fill.hits = {}
    BY DEF Init, NoCache, NoFlight, NoFill
  <1>2. \A p \in Processes : flight[p].todo = {}
    BY DEF Init, NoFlight
  <1> QED BY <1>1, <1>2 DEF HInv, HitsAreCurrent, CacheFinds, FlightsCurrent, Current, NotRead, FlightsFind

\* The row is cleared, and the flights that have read are overtaken.
LEMMA FillCleared == ASSUME TInv, HInv, ClearScope PROVE HInv'
  <1>1. ~cache'.live
    BY ClearScopeFill DEF TInv, NoCache
  <1>2. \A p \in Processes :
          \/ /\ flight'[p] = flight[p]
             /\ ~flight[p].on \/ flight[p].todo = {"lexical", "vector"}
          \/ /\ flight'[p].fill.overtaken
             /\ flight'[p].on /\ flight'[p].todo # {"lexical", "vector"}
    BY ClearScopeFill DEF TInv
  <1>3. HitsAreCurrent' /\ CacheFinds'
    BY <1>1 DEF HitsAreCurrent, CacheFinds
  <1>4. NotRead'
    BY <1>2 DEF HInv, NotRead
  <1>5. FlightsCurrent'
    BY <1>2 DEF HInv, NotRead, FlightsCurrent, Current
  <1>6. FlightsFind'
    <2>1. ASSUME NEW p \in Processes, flight'[p].on, ~flight'[p].fill.overtaken
          PROVE  "lexical" \in flight'[p].todo /\ "vector" \in flight'[p].todo
      BY <1>2, <2>1
    <2> QED BY <2>1 DEF FlightsFind
  <1> QED BY <1>3, <1>4, <1>5, <1>6 DEF HInv

LEMMA FillQuiet ==
  ASSUME RetrievalAssumption, TInv, HInv, LibraryQuiet, FillsQuiet PROVE HInv'
  <1>1. cache' = cache \/ ~cache'.live
    BY DEF FillsQuiet, NoCache
  <1>2. \A p \in Processes :
          \/ flight'[p] = flight[p]
          \/ /\ flight'[p].fill.hits = {}
             /\ ~flight'[p].on \/ flight'[p].todo = {"lexical", "vector"}
             /\ ~flight'[p].on => flight'[p].todo = {}
    BY DEF FillsQuiet, NoFlight, Fresh, NoFill
  <1>3. HitsAreCurrent'
    <2>1. CASE cache' = cache
      <3>1. cache.live => Current(cache.fill)
        BY DEF HInv, HitsAreCurrent, Current
      <3> QED BY <2>1, <3>1, FillsOf, CurrentKept DEF HitsAreCurrent
    <2>2. CASE ~cache'.live
      BY <2>2 DEF HitsAreCurrent
    <2> QED BY <1>1, <2>1, <2>2
  <1>4. CacheFinds'
    BY <1>1, Constants DEF HInv, CacheFinds, LibraryQuiet, Holds
  <1>5. NotRead'
    BY <1>2 DEF HInv, NotRead
  <1>6. FlightsCurrent'
    <2> SUFFICES ASSUME NEW p \in Processes PROVE Current(flight[p].fill)'
      BY DEF FlightsCurrent
    <2>1. CASE flight'[p] = flight[p]
      <3>1. Current(flight[p].fill) /\ flight[p].fill \in Fill
        BY FillsOf DEF HInv, FlightsCurrent
      <3> QED BY <2>1, <3>1, CurrentKept DEF Current
    <2>2. CASE flight'[p].fill.hits = {}
      BY <2>2 DEF Current
    <2> QED BY <1>2, <2>1, <2>2
  <1>7. FlightsFind'
    BY <1>2 DEF HInv, FlightsFind, LibraryQuiet, Holds
  <1> QED BY <1>3, <1>4, <1>5, <1>6, <1>7 DEF HInv

\* One of the queries answers.
LEMMA FillReads ==
  ASSUME RetrievalAssumption, TInv, HInv, UNCHANGED library, NEW p \in Processes,
         Lexical(p) \/ Vector(p)
  PROVE  HInv'
  <1>0. ASSUME NEW part \in {"lexical", "vector"}, NEW S \in SUBSET Assets, Reads(p, part, S),
               part = "lexical" => S = Worded, part = "vector" => S = Similar
        PROVE  HInv'
    <2>0. FlightsTyped /\ ChunksTyped
      BY DEF TInv, LibraryTyped
    <2>1. /\ part \in flight[p].todo /\ cache' = cache
          /\ \A r \in Processes : r # p => flight'[r] = flight[r]
          /\ flight'[p].on = flight[p].on
          /\ flight'[p].todo = flight[p].todo \ {part}
          /\ flight'[p].fill.hits = flight[p].fill.hits \cup Found(S)
          /\ flight'[p].fill.blind = flight[p].fill.blind \cup {a \in Assets : HalfIndexed(a)}
          /\ flight'[p].fill.overtaken = flight[p].fill.overtaken
          /\ flight'[p].fill.partial = flight[p].fill.partial
      BY <1>0, <2>0, ReadsFill
    <2>2. /\ \A h \in Found(S) : h[2] = chunk[h[1]].edition
          /\ \A a \in S : Findable(a) => <<a, chunk[a].edition>> \in Found(S)
      BY <1>0, <2>0, FoundIs
    <2>3. /\ chunk' = chunk /\ \A a \in Assets : Candidate(a)' <=> Candidate(a)
      BY DEF Candidate, Ready, Live, HasRow, HalfIndexed
    <2>4. flight[p].on /\ flight'[p].todo # {"lexical", "vector"}
      <3>1. flight[p].on
        BY <2>1 DEF HInv, NotRead
      <3> QED BY <2>1, <3>1, <1>0
    <2>5. HitsAreCurrent' /\ CacheFinds'
      BY <2>1, <2>3, Constants DEF HInv, HitsAreCurrent, CacheFinds, Holds
    <2>6. NotRead'
      BY <2>1, <2>4 DEF HInv, NotRead
    <2>7. FlightsCurrent'
      BY <2>1, <2>2, <2>3 DEF HInv, FlightsCurrent, Current
    <2>8. FlightsFind'
      <3> SUFFICES ASSUME NEW r \in Processes, flight'[r].on, ~flight'[r].fill.overtaken,
                          NEW a \in Assets, Candidate(a)
                   PROVE  /\ "lexical" \notin flight'[r].todo /\ a \in Worded =>
                                Holds(flight'[r].fill, a)
                          /\ "vector" \notin flight'[r].todo /\ a \in Similar =>
                                Holds(flight'[r].fill, a) \/ flight'[r].fill.partial
        BY <2>3 DEF FlightsFind, Holds
      <3>1. CASE r # p
        BY <2>1, <3>1 DEF HInv, FlightsFind
      <3>2. CASE r = p
        <4>1. a \in S => Holds(flight'[p].fill, a)
          <5>1. CASE HalfIndexed(a)
            BY <2>1, <5>1 DEF Holds
          <5>2. ASSUME a \in S, Findable(a) PROVE Holds(flight'[p].fill, a)
            <6>1. <<a, chunk[a].edition>> \in flight'[p].fill.hits
              BY <2>1, <2>2, <5>2
            <6> QED BY <6>1 DEF Holds, AssetsOf
          <5> QED BY <5>1, <5>2 DEF Candidate, Findable
        <4>2. Holds(flight[p].fill, a) => Holds(flight'[p].fill, a)
          BY <2>1 DEF Holds, AssetsOf
        <4>3. /\ "lexical" \notin flight[p].todo /\ a \in Worded => Holds(flight[p].fill, a)
              /\ "vector" \notin flight[p].todo /\ a \in Similar =>
                    Holds(flight[p].fill, a) \/ flight[p].fill.partial
          BY <2>1, <3>2 DEF HInv, FlightsFind
        <4> QED BY <1>0, <2>1, <3>2, <4>1, <4>2, <4>3
      <3> QED BY <3>1, <3>2
    <2> QED BY <2>5, <2>6, <2>7, <2>8 DEF HInv
  <1>1. Worded \in SUBSET Assets /\ Similar \in SUBSET Assets
    BY Constants
  <1> QED BY <1>0, <1>1 DEF Lexical, Vector

LEMMA FillNoVector ==
  ASSUME RetrievalAssumption, TInv, HInv, UNCHANGED library, NEW p \in Processes, NoVector(p)
  PROVE  HInv'
  <1>1. /\ \A r \in Processes : r # p => flight'[r] = flight[r]
        /\ flight'[p].on = flight[p].on
        /\ "vector" \in flight[p].todo
        /\ flight'[p].todo = flight[p].todo \ {"vector"}
        /\ flight'[p].fill.hits = flight[p].fill.hits
        /\ flight'[p].fill.blind = flight[p].fill.blind
        /\ flight'[p].fill.overtaken = flight[p].fill.overtaken
        /\ flight'[p].fill.partial = TRUE
        /\ cache' = cache
    BY NoVectorFill DEF TInv
  <1>2. /\ chunk' = chunk /\ \A a \in Assets : Candidate(a)' <=> Candidate(a)
    BY DEF Candidate, Ready, Live, HasRow, HalfIndexed
  <1>3. HitsAreCurrent' /\ CacheFinds'
    BY <1>1, <1>2, Constants DEF HInv, HitsAreCurrent, CacheFinds, Holds
  <1>4. flight[p].on /\ flight'[p].todo # {"lexical", "vector"}
    <2>1. flight[p].on
      BY <1>1 DEF HInv, NotRead
    <2> QED BY <1>1, <2>1
  <1>5. NotRead'
    BY <1>1, <1>4 DEF HInv, NotRead
  <1>6. FlightsCurrent'
    BY <1>1, <1>2 DEF HInv, FlightsCurrent, Current
  <1>7. FlightsFind'
    BY <1>1, <1>2 DEF HInv, FlightsFind, Holds, AssetsOf
  <1> QED BY <1>3, <1>5, <1>6, <1>7 DEF HInv

\* What the limits keep of the flight's fill becomes the row.
LEMMA FillSaved ==
  ASSUME RetrievalAssumption, TInv, HInv, UNCHANGED library, NEW p \in Processes, Save(p)
  PROVE  HInv'
  <1> DEFINE f == flight[p].fill
  <1>1. /\ flight[p].on /\ flight[p].todo = {}
        /\ cache'.fill.hits \in Kept(f.hits)
        /\ cache'.fill.overtaken = f.overtaken
        /\ ~f.overtaken => /\ cache'.fill.cut = AssetsOf(f.hits) \ AssetsOf(cache'.fill.hits)
                           /\ cache'.fill.blind = f.blind
                           /\ cache'.fill.partial = f.partial
        /\ flight' = [flight EXCEPT ![p] = NoFlight]
    BY SaveFill DEF TInv
  <1>10. cache'.fill.hits \subseteq f.hits /\ (f.hits # {} => cache'.fill.hits # {})
    BY <1>1, KeptIs
  <1>2. \A r \in Processes : flight'[r] = IF r = p THEN NoFlight ELSE flight[r]
    BY <1>1 DEF TInv, FlightsTyped
  <1>3. ~NoFlight.on /\ NoFlight.fill.hits = {} /\ NoFlight.todo = {}
    BY DEF NoFlight, NoFill
  <1>4. /\ chunk' = chunk /\ \A a \in Assets : Candidate(a)' <=> Candidate(a)
    BY DEF Candidate, Ready, Live, HasRow, HalfIndexed
  <1>5. HitsAreCurrent'
    BY <1>1, <1>4, <1>10 DEF HInv, FlightsCurrent, Current, HitsAreCurrent
  <1>6. CacheFinds'
    <2> SUFFICES ASSUME ~cache'.fill.overtaken, NEW a \in Worded \cup Similar, Candidate(a)
                 PROVE  \/ Holds(cache'.fill, a)
                        \/ a \in cache'.fill.cut /\ cache'.fill.hits # {}
                        \/ cache'.fill.partial /\ a \notin Worded
      BY <1>4, Constants DEF CacheFinds, Holds
    <2>1. \/ Holds(f, a)
          \/ f.partial /\ a \notin Worded
      BY <1>1, Constants DEF HInv, FlightsFind
    <2>2. CASE a \in AssetsOf(f.hits)
      <3>1. f.hits # {}
        BY <2>2 DEF AssetsOf
      <3> QED BY <1>1, <1>10, <2>2, <3>1 DEF Holds
    <2>3. CASE a \in f.blind
      BY <1>1, <2>3 DEF Holds
    <2> QED BY <1>1, <2>1, <2>2, <2>3 DEF Holds
  <1>7. NotRead'
    BY <1>2, <1>3 DEF HInv, NotRead
  <1>8. FlightsCurrent'
    BY <1>2, <1>3, <1>4 DEF HInv, FlightsCurrent, Current
  <1>9. FlightsFind'
    BY <1>2, <1>3, <1>4 DEF HInv, FlightsFind, Holds
  <1> QED BY <1>5, <1>6, <1>7, <1>8, <1>9 DEF HInv

LEMMA HoldsStep == ASSUME RetrievalAssumption, TInv, HInv, [Next]_vars PROVE HInv'
  <1>1. CASE ClearScope
    BY <1>1, FillCleared
  <1>2. CASE LibraryQuiet /\ FillsQuiet
    BY <1>2, FillQuiet
  <1>3. CASE UNCHANGED library /\ \E p \in Processes : \/ Lexical(p) \/ Vector(p) \/ NoVector(p)
                                                       \/ Save(p)
    BY <1>3, FillReads, FillNoVector, FillSaved
  <1>4. LibraryQuiet \/ ClearScope
    BY LibrarySteps DEF Rebuilds
  <1> QED BY <1>1, <1>2, <1>3, <1>4, FillSteps DEF FillStep

LEMMA Inductive == Spec => [](TInv /\ HInv)
  <1>1. Init => TInv /\ HInv
    BY RetrievalAssumption, TypeInit, FillInit
  <1>2. TInv /\ HInv /\ [Next]_vars => (TInv /\ HInv)'
    BY RetrievalAssumption, TypeStep, HoldsStep
  <1> QED BY <1>1, <1>2, PTL DEF Spec

\* A live row never shows a document in an edition that has been rebuilt, unless the
\* rebuild came between the reads and the save of the flight that wrote the row.
THEOREM CachedHitsAreCurrent == Spec => []HitsAreCurrent
  <1>1. HInv => HitsAreCurrent
    BY DEF HInv
  <1> QED BY <1>1, Inductive, PTL

\* A ready document that either query finds is in every live row, or had to make room
\* there for others that are, but for three races and failures: the flight was overtaken
\* by its rebuild, read between its chunks and its mark, or went without the vector query.
THEOREM ReadyDocumentsAreFound == Spec => []ReadyIsFound
  <1>1. TInv /\ HInv => ReadyIsFound
    BY Constants, RetrievalAssumption
       DEF HInv, CacheFinds, ReadyIsFound, Findable, Candidate, Holds
  <1> QED BY <1>1, Inductive, PTL

-----------------------------------------------------------------------------
(* Nobody is left behind: the safety half of RequestsEnd.                      *)

\* Whoever waits for a flight of Singleflight waits for one that is in the air: no
\* request waits for a promise that has settled. (The converse fails: a question whose
\* facts cannot be read goes, and its flight lands with nobody to wait for it.)
FlightsAwaited == \A p \in Processes : Joined(p) # {} => flight[p].on

\* The record of a request is open exactly while the request is worked on or when it
\* was dropped: its process or its catch block has died, or its first event was refused
\* before there was a catch. None is left 'running' in any other way, and none is
\* closed under a request that goes on.
RecordsMatch == \A q \in Askers :
    /\ q \in open <=> asker[q].pc # "idle" \/ q \in dropped
    /\ q \in dropped => asker[q].pc = "idle"

Awaiting == \A p \in Processes :
    (\E q \in Askers : Home[q] = p /\ asker[q].pc = "wait") => flight[p].on

LEMMA AwaitingIs == Awaiting <=> FlightsAwaited
  BY DEF Awaiting, FlightsAwaited, Joined

\* where a request goes that has been served, or was not
LEMMA ServedGoes ==
  ASSUME NEW r \in AskerType, NEW found, NEW b
  PROVE  /\ Served(r, found, b).pc \in {"report", "fallback", "model"}
         /\ Unserved(r).pc \in {"report", "fallback"}
  <1> DEFINE pc == CASE r.kind = "evaluate" -> "report"
                     [] r.kind = "ask" /\ found = {} /\ b -> "fallback"
                     [] OTHER -> "model"
  <1>1. Served(r, found, b) = [r EXCEPT !.cited = IF r.kind = "evaluate" THEN {} ELSE found,
                                        !.pc = pc]
    BY DEF Served
  <1>2. pc \in {"report", "fallback", "model"}
    <2>1. CASE r.kind = "evaluate"
      BY <2>1
    <2>2. CASE r.kind # "evaluate" /\ r.kind = "ask" /\ found = {} /\ b
      BY <2>2
    <2>3. CASE r.kind # "evaluate" /\ ~(r.kind = "ask" /\ found = {} /\ b)
      BY <2>3
    <2> QED BY <2>1, <2>2, <2>3
  <1> HIDE DEF pc
  <1>3. Served(r, found, b).pc = pc
    BY <1>1 DEF AskerType
  <1>4. Unserved(r).pc \in {"report", "fallback"}
    BY DEF Unserved, AskerType
  <1> QED BY <1>2, <1>3, <1>4

\* A step that changes one request changes no other.
LEMMA OneMoves ==
  ASSUME AskersTyped, NEW q \in Askers, NEW x, asker' = [asker EXCEPT ![q] = x]
  PROVE  asker'[q] = x /\ \A r \in Askers : r # q => asker'[r] = asker[r]
  BY DEF AskersTyped

LEMMA FallsMoves ==
  ASSUME AskersTyped, NEW q \in Askers, Falls(q)
  PROVE  asker'[q].pc = "fail" /\ \A r \in Askers : r # q => asker'[r] = asker[r]
  BY DEF AskersTyped, Falls, NoRequest

\* What a step may do to requests and flights: nothing, or put a flight into the air;
\* take one request to another place, away from the flight or not; or ..
Steady  == open' = open /\ dropped' = dropped
AirKept == \A p \in Processes : flight[p].on => flight'[p].on
Elsewhere == {"lookup", "join", "fallback", "exact", "model", "report", "fail"}

Rests == AirKept /\ Steady /\ \A q \in Askers : asker'[q] = asker[q]

Goes(q) == /\ AirKept /\ Steady
           /\ asker[q].pc # "idle" /\ asker'[q].pc \in Elsewhere
           /\ \A r \in Askers : r # q => asker'[r] = asker[r]

\* .. begin one, or try to; end one or drop one ..
Begins(q) == /\ AirKept
             /\ asker[q].pc = "idle" /\ asker'[q].pc \in Elsewhere
             /\ open' = open \cup {q} /\ dropped' = dropped \ {q}
             /\ \A r \in Askers : r # q => asker'[r] = asker[r]

Misfires(q) == /\ AirKept
               /\ asker[q].pc = "idle"
               /\ open' = open \cup {q} /\ dropped' = dropped \cup {q}
               /\ \A r \in Askers : asker'[r] = asker[r]

Closes(q) == /\ AirKept
             /\ asker[q].pc \in Elsewhere /\ asker'[q].pc = "idle"
             /\ \/ open' = open \ {q} /\ dropped' = dropped
                \/ open' = open /\ dropped' = dropped \cup {q}
             /\ \A r \in Askers : r # q => asker'[r] = asker[r]

\* .. have one join the flight of its process, or end a flight.
Joins(q) == /\ AirKept /\ Steady
            /\ asker[q].pc = "join" /\ asker'[q].pc = "wait"
            /\ flight'[Home[q]].on
            /\ \A r \in Askers : r # q => asker'[r] = asker[r]

LandsFor(p) == /\ \A o \in Processes : o # p => flight'[o].on = flight[o].on
               /\ \A q \in Askers : Home[q] # p => asker'[q] = asker[q]

Serves(p) == /\ LandsFor(p) /\ Steady
             /\ \A q \in Askers : Home[q] = p =>
                  IF asker[q].pc = "wait" THEN asker'[q].pc \in Elsewhere ELSE asker'[q] = asker[q]

Dies(p) == /\ LandsFor(p)
           /\ open' = open
           /\ dropped' = dropped \cup {q \in Askers : Home[q] = p /\ asker[q].pc # "idle"}
           /\ \A q \in Askers : Home[q] = p => asker'[q].pc = "idle"

RequestStep ==
    \/ Rests
    \/ \E q \in Askers : Goes(q) \/ Begins(q) \/ Misfires(q) \/ Closes(q) \/ Joins(q)
    \/ \E p \in Processes : Serves(p) \/ Dies(p)

LEMMA RequestSteps ==
  ASSUME RetrievalAssumption, TInv, [Next]_vars PROVE RequestStep
  <1>0. /\ AskersTyped /\ FlightsTyped /\ ChunksTyped
        /\ \A q \in Askers : asker[q] \in AskerType
    BY DEF TInv, LibraryTyped, AskersTyped
  <1>1. ASSUME flight' = flight PROVE AirKept
    BY <1>1 DEF AirKept
  <1>2. ASSUME NEW i \in Indexers, Index(i) \/ IndexFails(i) PROVE RequestStep
    <2>1. ClearScope \/ flight' = flight
      BY <1>2 DEF Index, Claim, WriteChunks, WriteRefused, MarkReady, IndexFails
    <2>2. ASSUME ClearScope, NEW p \in Processes PROVE flight'[p].on = flight[p].on
      BY <1>0, <2>2, ClearedHits
    <2>3. AirKept
      BY <1>1, <2>1, <2>2 DEF AirKept
    <2>4. Steady /\ asker' = asker
      BY <1>2 DEF Index, Claim, WriteChunks, WriteRefused, MarkReady, IndexFails, Steady
    <2> QED BY <2>3, <2>4 DEF RequestStep, Rests
  <1>3. ASSUME NEW a \in Assets, Library(a) PROVE RequestStep
    <2>1. flight' = flight /\ asker' = asker /\ Steady
      BY <1>3 DEF Library, Upload, Reprocess, Move, QueueMoved, Trash, Restore, Purge, Steady
    <2> QED BY <1>1, <2>1 DEF RequestStep, Rests
  <1>4. CASE Expire \/ UNCHANGED vars
    <2>1. flight' = flight /\ asker' = asker /\ Steady
      BY <1>4 DEF Expire, vars, Steady
    <2> QED BY <1>1, <2>1 DEF RequestStep, Rests
  <1>5. ASSUME NEW p \in Processes, Lexical(p) \/ Vector(p) \/ NoVector(p) PROVE RequestStep
    <2>1. asker' = asker /\ Steady
      BY <1>5 DEF Lexical, Vector, Reads, NoVector, Steady
    <2>2. flight'[p].on = flight[p].on
      BY <1>0, <1>5, ReadsFill, NoVectorFill, Constants DEF Lexical, Vector
    <2>3. \A o \in Processes : o # p => flight'[o] = flight[o]
      BY <1>0, <1>5 DEF Lexical, Vector, Reads, NoVector, FlightsTyped
    <2> QED BY <2>1, <2>2, <2>3 DEF RequestStep, Rests, AirKept
  <1>6. ASSUME NEW p \in Processes, Lands(p)
        PROVE  \A o \in Processes : o # p => flight'[o].on = flight[o].on
    BY <1>0, <1>6 DEF Lands, FlightsTyped
  <1>7. ASSUME NEW p \in Processes, Save(p) PROVE RequestStep
    <2>1. PICK unlucky \in SUBSET Joined(p) :
             asker' = [q \in Askers |->
                        IF q \in Joined(p)
                        THEN Served(asker[q], AssetsOf(cache'.fill.hits), q \in unlucky)
                        ELSE asker[q]]
      BY <1>0, <1>7, SaveFill
    <2>2. ASSUME NEW q \in Askers, Home[q] = p, asker[q].pc = "wait"
          PROVE  asker'[q].pc \in Elsewhere
      <3> DEFINE found == AssetsOf(cache'.fill.hits)
                 b == q \in unlucky
      <3>1. asker'[q] = Served(asker[q], found, b)
        BY <2>1, <2>2 DEF Joined
      <3> HIDE DEF found, b
      <3>2. Served(asker[q], found, b).pc \in {"report", "fallback", "model"}
        BY <1>0, ServedGoes
      <3> QED BY <3>1, <3>2 DEF Elsewhere
    <2>3. ASSUME NEW q \in Askers, Home[q] # p \/ asker[q].pc # "wait" PROVE asker'[q] = asker[q]
      BY <2>1, <2>3 DEF Joined
    <2>4. Steady /\ Lands(p)
      BY <1>7 DEF Save, Steady
    <2> QED BY <1>6, <2>2, <2>3, <2>4 DEF RequestStep, Serves, LandsFor
  <1>8. ASSUME NEW p \in Processes, FlightFails(p) PROVE RequestStep
    <2>1. asker' = [q \in Askers |-> IF q \in Joined(p) THEN Unserved(asker[q]) ELSE asker[q]]
          /\ Steady /\ Lands(p)
      BY <1>8 DEF FlightFails, Steady
    <2>2. ASSUME NEW q \in Askers, Home[q] = p, asker[q].pc = "wait"
          PROVE  asker'[q].pc \in Elsewhere
      <3>1. asker'[q] = Unserved(asker[q])
        BY <2>1, <2>2 DEF Joined
      <3>2. Unserved(asker[q]).pc \in {"report", "fallback"}
        BY <1>0, ServedGoes
      <3> QED BY <3>1, <3>2 DEF Elsewhere
    <2>3. ASSUME NEW q \in Askers, Home[q] # p \/ asker[q].pc # "wait" PROVE asker'[q] = asker[q]
      BY <2>1, <2>3 DEF Joined
    <2> QED BY <1>6, <2>1, <2>2, <2>3 DEF RequestStep, Serves, LandsFor
  <1>9. ASSUME NEW p \in Processes, Crash(p) PROVE RequestStep
    <2>1. asker' = [q \in Askers |-> IF Home[q] = p THEN NoRequest ELSE asker[q]] /\ Lands(p)
          /\ open' = open
          /\ dropped' = dropped \cup {q \in Askers : Home[q] = p /\ asker[q].pc # "idle"}
      BY <1>9 DEF Crash, Lands
    <2>2. NoRequest.pc = "idle"
      BY DEF NoRequest
    <2> QED BY <1>6, <2>1, <2>2 DEF RequestStep, Dies, LandsFor
  <1>10. ASSUME NEW q \in Askers, Ask(q) PROVE RequestStep
    <2>1. PICK kind \in Kinds[q] : asker' = [asker EXCEPT ![q] =
             CASE kind = "exact" -> [NoRequest EXCEPT !.pc = "exact", !.kind = "ask"]
               [] OTHER -> [NoRequest EXCEPT !.pc = "lookup", !.kind = kind]]
      BY <1>10 DEF Ask
    <2>2. [NoRequest EXCEPT !.pc = "exact", !.kind = "ask"].pc = "exact"
          /\ [NoRequest EXCEPT !.pc = "lookup", !.kind = kind].pc = "lookup"
      BY DEF NoRequest
    <2>3. asker'[q].pc \in Elsewhere /\ \A r \in Askers : r # q => asker'[r] = asker[r]
      <3>1. CASE kind = "exact"
        <4>1. asker' = [asker EXCEPT ![q] = [NoRequest EXCEPT !.pc = "exact", !.kind = "ask"]]
          BY <2>1, <3>1
        <4> QED BY <1>0, <2>2, <4>1, OneMoves DEF Elsewhere
      <3>2. CASE kind # "exact"
        <4>1. asker' = [asker EXCEPT ![q] = [NoRequest EXCEPT !.pc = "lookup", !.kind = kind]]
          BY <2>1, <3>2
        <4> QED BY <1>0, <2>2, <4>1, OneMoves DEF Elsewhere
      <3> QED BY <3>1, <3>2
    <2>4. /\ asker[q].pc = "idle" /\ flight' = flight
          /\ open' = open \cup {q} /\ dropped' = dropped \ {q}
      BY <1>10 DEF Ask
    <2> QED BY <1>1, <2>3, <2>4 DEF RequestStep, Begins
  <1>11. ASSUME NEW q \in Askers, asker[q].pc # "idle", flight' = flight, Steady,
                NEW x, x.pc \in Elsewhere, asker' = [asker EXCEPT ![q] = x]
         PROVE  RequestStep
    BY <1>0, <1>1, <1>11, OneMoves DEF RequestStep, Goes
  <1>12. ASSUME NEW q \in Askers, asker[q].pc # "idle", flight' = flight, Steady, Falls(q)
         PROVE  RequestStep
    BY <1>0, <1>1, <1>12, FallsMoves DEF RequestStep, Goes, Elsewhere
  <1>13. ASSUME NEW q \in Askers, Lookup(q) \/ LookupFails(q) PROVE RequestStep
    <2>1. /\ asker[q].pc # "idle" /\ flight' = flight /\ Steady
          /\ \/ \E b \in BOOLEAN :
                   asker' = [asker EXCEPT ![q] = Served(asker[q], AssetsOf(cache.fill.hits), b)]
             \/ asker' = [asker EXCEPT ![q] = [asker[q] EXCEPT !.pc = "join"]]
             \/ asker' = [asker EXCEPT ![q] = Unserved(asker[q])]
      BY <1>13 DEF Lookup, LookupFails, Steady
    <2>2. CASE asker' = [asker EXCEPT ![q] = [asker[q] EXCEPT !.pc = "join"]]
      <3>1. [asker[q] EXCEPT !.pc = "join"].pc \in Elsewhere
        BY <1>0 DEF Elsewhere, AskerType
      <3> QED BY <1>11, <2>1, <2>2, <3>1
    <2>3. ASSUME NEW b \in BOOLEAN,
                 asker' = [asker EXCEPT ![q] = Served(asker[q], AssetsOf(cache.fill.hits), b)]
          PROVE  RequestStep
      <3>1. Served(asker[q], AssetsOf(cache.fill.hits), b).pc \in Elsewhere
        BY <1>0, ServedGoes DEF Elsewhere
      <3> QED BY <1>11, <2>1, <2>3, <3>1
    <2>4. CASE asker' = [asker EXCEPT ![q] = Unserved(asker[q])]
      <3>1. Unserved(asker[q]).pc \in Elsewhere
        BY <1>0, ServedGoes DEF Elsewhere
      <3> QED BY <1>11, <2>1, <2>4, <3>1
    <2> QED BY <2>1, <2>2, <2>3, <2>4
  <1>14. ASSUME NEW q \in Askers, Exact(q) \/ Fallback(q) PROVE RequestStep
    <2>1. /\ asker[q].pc # "idle" /\ flight' = flight /\ Steady
          /\ \/ Falls(q)
             \/ \E c : asker' = [asker EXCEPT ![q] = [asker[q] EXCEPT !.pc = "model", !.cited = c]]
      BY <1>14 DEF Exact, Fallback, Steady
    <2>2. CASE Falls(q)
      BY <1>12, <2>1, <2>2
    <2>3. ASSUME NEW c,
                 asker' = [asker EXCEPT ![q] = [asker[q] EXCEPT !.pc = "model", !.cited = c]]
          PROVE  RequestStep
      <3>1. [asker[q] EXCEPT !.pc = "model", !.cited = c].pc \in Elsewhere
        BY <1>0 DEF Elsewhere, AskerType
      <3> QED BY <1>11, <2>1, <2>3, <3>1
    <2> QED BY <2>1, <2>2, <2>3
  <1>18. ASSUME NEW q \in Askers, Board(Home[q]) PROVE AirKept /\ flight'[Home[q]].on
    <2>1. Home[q] \in Processes
      BY Constants
    <2> QED BY <1>0, <1>18, <2>1 DEF Board, AirKept, FlightsTyped
  <1>15. ASSUME NEW q \in Askers, Join(q) PROVE RequestStep
    <2>1. /\ asker'[q].pc = "wait" /\ \A r \in Askers : r # q => asker'[r] = asker[r]
          /\ Steady /\ asker[q].pc = "join" /\ Board(Home[q])
      BY <1>0, <1>15 DEF Join, Steady, AskersTyped, AskerType
    <2> QED BY <1>18, <2>1 DEF RequestStep, Joins
  <1>16. ASSUME NEW q \in Askers, asker[q].pc \in Elsewhere, flight' = flight,
                asker' = [asker EXCEPT ![q] = NoRequest],
                \/ open' = open \ {q} /\ dropped' = dropped
                \/ open' = open /\ dropped' = dropped \cup {q}
         PROVE  RequestStep
    <2>1. NoRequest.pc = "idle"
      BY DEF NoRequest
    <2> QED BY <1>0, <1>1, <1>16, <2>1, OneMoves DEF RequestStep, Closes
  <1>17. ASSUME NEW q \in Askers,
                \/ ModelFails(q) \/ Persist(q) \/ Report(q) \/ Fail(q)
                \/ FixturesFail(q) \/ FactsFail(q) \/ Throws(q)
         PROVE  RequestStep
    <2>1. /\ asker[q].pc # "idle" /\ flight' = flight
          /\ \/ Steady /\ Falls(q)
             \/ /\ asker[q].pc \in Elsewhere
                /\ asker' = [asker EXCEPT ![q] = NoRequest]
                /\ \/ open' = open \ {q} /\ dropped' = dropped
                   \/ open' = open /\ dropped' = dropped \cup {q}
      BY <1>17 DEF ModelFails, Persist, Report, Fail, FixturesFail, FactsFail, Throws, Close,
                   Elsewhere, Steady
    <2> QED BY <1>12, <1>16, <2>1
  <1>19. ASSUME NEW q \in Askers, AskFails(q) PROVE RequestStep
    BY <1>1, <1>19 DEF AskFails, RequestStep, Misfires
  <1>20. ASSUME NEW q \in Askers, Drift(q) PROVE RequestStep
    BY <1>18, <1>20 DEF Drift, RequestStep, Rests, Steady
  <1> QED BY <1>2, <1>3, <1>4, <1>5, <1>7, <1>8, <1>9, <1>10, <1>13, <1>14, <1>15, <1>17,
             <1>19, <1>20
          DEF Next, Request, RequestFails, Fly

\* A request that moves elsewhere, begins, closes or stays waits for no flight.
LEMMA AwaitingStep ==
  ASSUME RetrievalAssumption, TInv, Awaiting, RequestStep PROVE Awaiting'
  <1>1. ASSUME AirKept, \A q \in Askers : asker'[q].pc = "wait" => asker[q].pc = "wait"
        PROVE  Awaiting'
    BY <1>1 DEF Awaiting, AirKept
  <1>2. CASE Rests
    BY <1>1, <1>2 DEF Rests
  <1>3. ASSUME NEW q \in Askers, Goes(q) \/ Begins(q) \/ Misfires(q) \/ Closes(q)
        PROVE  Awaiting'
    <2>1. AirKept /\ \A r \in Askers : r # q => asker'[r] = asker[r]
      BY <1>3 DEF Goes, Begins, Misfires, Closes
    <2>2. asker'[q].pc # "wait"
      BY <1>3 DEF Goes, Begins, Misfires, Closes, Elsewhere
    <2> QED BY <1>1, <2>1, <2>2
  <1>4. ASSUME NEW q \in Askers, Joins(q) PROVE Awaiting'
    <2>1. \A r \in Askers : r # q => asker'[r] = asker[r]
      BY <1>4 DEF Joins
    <2> QED BY <1>4, <2>1 DEF Joins, AirKept, Awaiting
  <1>5. ASSUME NEW p \in Processes, Serves(p) \/ Dies(p) PROVE Awaiting'
    <2>1. LandsFor(p)
      BY <1>5 DEF Serves, Dies
    <2>2. \A q \in Askers : Home[q] = p => asker'[q].pc # "wait"
      BY <1>5 DEF Serves, Dies, Elsewhere
    <2> QED BY <2>1, <2>2 DEF LandsFor, Awaiting
  <1> QED BY <1>2, <1>3, <1>4, <1>5 DEF RequestStep

LEMMA RecordsStep ==
  ASSUME TInv, RecordsMatch, RequestStep PROVE RecordsMatch'
  <1>1. CASE Rests
    BY <1>1 DEF Rests, Steady, RecordsMatch
  <1>2. ASSUME NEW q \in Askers, Goes(q) \/ Joins(q) PROVE RecordsMatch'
    <2>1. asker[q].pc # "idle" /\ asker'[q].pc # "idle" /\ Steady
      BY <1>2 DEF Goes, Joins, Elsewhere
    <2>2. \A r \in Askers : r # q => asker'[r] = asker[r]
      BY <1>2 DEF Goes, Joins
    <2> QED BY <2>1, <2>2 DEF Steady, RecordsMatch
  <1>3. ASSUME NEW q \in Askers, Begins(q) \/ Misfires(q) PROVE RecordsMatch'
    BY <1>3 DEF Begins, Misfires, Elsewhere, RecordsMatch
  <1>4. ASSUME NEW q \in Askers, Closes(q) PROVE RecordsMatch'
    <2>1. asker[q].pc # "idle"
      BY <1>4 DEF Closes, Elsewhere
    <2> QED BY <1>4, <2>1 DEF Closes, RecordsMatch
  <1>5. ASSUME NEW p \in Processes, Serves(p) PROVE RecordsMatch'
    <2>1. ASSUME NEW q \in Askers PROVE asker'[q].pc = "idle" <=> asker[q].pc = "idle"
      BY <1>5 DEF Serves, LandsFor, Elsewhere
    <2> QED BY <1>5, <2>1 DEF Serves, Steady, RecordsMatch
  <1>6. ASSUME NEW p \in Processes, Dies(p) PROVE RecordsMatch'
    <2>1. ASSUME NEW q \in Askers PROVE /\ q \in dropped' <=> q \in dropped \/ (Home[q] = p /\ asker[q].pc # "idle")
                                        /\ Home[q] = p => asker'[q].pc = "idle"
                                        /\ Home[q] # p => asker'[q] = asker[q]
                                        /\ open' = open
      BY <1>6 DEF Dies, LandsFor
    <2> QED BY <2>1 DEF RecordsMatch
  <1> QED BY <1>1, <1>2, <1>3, <1>4, <1>5, <1>6 DEF RequestStep

\* Nobody who asks is left behind: a request that waits has a flight that is in the
\* air, and a record is open only for a request that is worked on or was dropped: by
\* the death of its process or of its catch block, or by an event that was refused
\* before there was one.
THEOREM NobodyIsLeftBehind == Spec => [](FlightsAwaited /\ RecordsMatch)
  <1>1. Init => TInv /\ Awaiting /\ RecordsMatch
    <2>1. NoFlight.on = FALSE /\ NoRequest.pc = "idle"
      BY DEF NoFlight, NoRequest
    <2> QED BY <2>1, RetrievalAssumption, TypeInit DEF Init, Awaiting, RecordsMatch
  <1>2. TInv /\ Awaiting /\ RecordsMatch /\ [Next]_vars => (TInv /\ Awaiting /\ RecordsMatch)'
    BY RetrievalAssumption, TypeStep, RequestSteps, AwaitingStep, RecordsStep
  <1>3. Awaiting => FlightsAwaited
    BY AwaitingIs
  <1> QED BY <1>1, <1>2, <1>3, PTL DEF Spec

-----------------------------------------------------------------------------
(* What has left comes back through no query: the safety half of LeftFades.    *)

\* A document is on its way into an answer when the cache row or a flight holds it.
Carried(a) == InAnswers(a) \/ \E p \in Processes : a \in AssetsOf(flight[p].fill.hits)

\* A document that has left the scope, and is neither cached nor under way by then,
\* gets into no flight and into no cache row: what the delete and the move leave in
\* the cache that is read is all that the answers can still show.
LeftStaysOut == [][\A a \in Assets : Left(a) /\ ~Carried(a) => ~Carried(a)']_vars

LEMMA NothingFoundOfLeft ==
  ASSUME RetrievalAssumption, ChunksTyped, NEW a \in Assets, Left(a), NEW S \in SUBSET Assets
  PROVE  \A h \in Found(S) : h[1] # a
  <1>1. ~Findable(a)
    BY DEF Left, Findable, Ready
  <1> QED BY <1>1 DEF Found

LEMMA LeftStep ==
  ASSUME RetrievalAssumption, TInv, [Next]_vars, NEW a \in Assets, Left(a), ~Carried(a)
  PROVE  ~Carried(a)'
  <1>0. FlightsTyped /\ ChunksTyped /\ \A p \in Processes : flight[p] \in FlightType
    BY DEF TInv, LibraryTyped, FlightsTyped
  <1>a. /\ ~(cache.live /\ \E h \in cache.fill.hits : h[1] = a)
        /\ \A p \in Processes : \A h \in flight[p].fill.hits : h[1] # a
    BY DEF Carried, InAnswers, AssetsOf
  <1>b. ASSUME cache'.live => \A h \in cache'.fill.hits : h[1] # a,
               \A p \in Processes : \A h \in flight'[p].fill.hits : h[1] # a
        PROVE  ~Carried(a)'
    BY <1>b DEF Carried, InAnswers, AssetsOf
  <1>c. NoCache.live = FALSE /\ NoFlight.fill.hits = {} /\ Fresh.fill.hits = {}
    BY DEF NoCache, NoFlight, Fresh, NoFill
  <1>1. CASE FillsQuiet
    BY <1>1, <1>a, <1>b, <1>c DEF FillsQuiet
  <1>2. CASE ClearScope
    BY <1>0, <1>2, <1>a, <1>b, <1>c, ClearScopeFill, ClearedHits
  <1>3. ASSUME NEW p \in Processes, Lexical(p) \/ Vector(p) PROVE ~Carried(a)'
    BY <1>0, <1>3, <1>a, <1>b, NothingFoundOfLeft, ReadsFill, Constants DEF Lexical, Vector
  <1>4. ASSUME NEW p \in Processes, NoVector(p) PROVE ~Carried(a)'
    BY <1>0, <1>4, <1>a, <1>b, NoVectorFill
  <1>5. ASSUME NEW p \in Processes, Save(p) PROVE ~Carried(a)'
    <2>1. \A r \in Processes : flight'[r] = IF r = p THEN NoFlight ELSE flight[r]
      BY <1>0, <1>5, SaveFill DEF FlightsTyped
    <2>2. cache'.fill.hits \subseteq flight[p].fill.hits
      BY <1>0, <1>5, SaveFill, KeptIs
    <2> QED BY <1>a, <1>b, <1>c, <2>1, <2>2
  <1> QED BY <1>1, <1>2, <1>3, <1>4, <1>5, FillSteps DEF FillStep

\* What has left stays out of every flight and cache row it is not in yet.
THEOREM WhatLeftStaysOut == Spec => LeftStaysOut
  <1>1. Init => TInv
    BY RetrievalAssumption, TypeInit
  <1>2. TInv /\ [Next]_vars => TInv'
    BY RetrievalAssumption, TypeStep
  <1>3. TInv /\ [Next]_vars => [\A a \in Assets : Left(a) /\ ~Carried(a) => ~Carried(a)']_vars
    BY RetrievalAssumption, LeftStep
  <1> QED BY <1>1, <1>2, <1>3, PTL DEF Spec, LeftStaysOut
=============================================================================
