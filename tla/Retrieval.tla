----------------------------- MODULE Retrieval -----------------------------
(***************************************************************************)
(* What a question is answered from: the document chunks that indexing     *)
(* writes, the cache row of one question over one scope of knowledge bases *)
(* (retrieval_scope_cache), the flights that fill it, one per process      *)
(* (Singleflight), and the requests that read it: questions, questions     *)
(* about given files, and evaluation runs.                                 *)
(*                                                                         *)
(* An edition is a rebuild of a document's chunks. The library is driven   *)
(* as in AssetPipeline, with its queue and its retries left out. Documents *)
(* of Worded share words with the question, those of Similar its meaning.  *)
(***************************************************************************)
EXTENDS Naturals, FiniteSets

CONSTANTS
    Assets,       \* documents of the tenant
    Worded,       \* those the lexical query finds
    Similar,      \* those above minSimilarityThreshold, which the vector query finds
    Settled,      \* those indexed long ago, which nobody touches any more
    Indexers,     \* concurrent runs of indexKnowledgeAsset
    Processes,    \* processes that answer questions: API and worker
    Askers,       \* concurrent requests
    Home,         \* Home[q] is the process that handles request q
    Kinds,        \* Kinds[q] are the kinds of request q may be
    NoAsset,
    MaxEditions,  \* bound: rebuilds of one document's chunks
    MaxFaults,    \* bound: number of injected faults
    Faults        \* the kinds of fault that may strike

AllKinds  == {"ask", "exact", "evaluate"}
AllFaults == {"crash", "db", "embed", "index"}

ASSUME RetrievalAssumption ==
    /\ Worded \subseteq Assets /\ Similar \subseteq Assets /\ Settled \subseteq Assets
    /\ NoAsset \notin Assets
    /\ Home \in [Askers -> Processes]
    /\ Kinds \in [Askers -> SUBSET AllKinds]
    /\ MaxEditions \in Nat \ {0}
    /\ MaxFaults \in Nat
    /\ Faults \subseteq AllFaults

VARIABLES
    asset,    \* rows of assets
    moving,   \* assets a PATCH has moved and not queued yet
    chunk,    \* document_chunks: the last edition, and whether the scope holds it
    indexer,  \* indexKnowledgeAsset under way
    cache,    \* the cache row, with what is known of its filling (history)
    flight,   \* retrievalFlights of each process
    asker,    \* the requests
    stray,    \* requests that failed and left a retrieval behind on its way to a flight
    open,     \* requests whose row of qa_traces or rag_evaluation_runs is
              \* 'running', and not completed, failed or cancelled
    dropped,  \* requests that ended without a catch block that closed their
              \* record: there was none, it failed, or the process died (history)
    faults    \* faults injected so far

vars == <<asset, moving, chunk, indexer, cache, flight, asker, stray, open, dropped, faults>>

library  == <<asset, moving, chunk, indexer>>
records  == <<open, dropped>>
requests == <<asker, stray, records>>

Editions == 1 .. MaxEditions
Hits     == Assets \X Editions
Fill     == [hits : SUBSET Hits, overtaken : BOOLEAN, blind : SUBSET Assets,
             partial : BOOLEAN, cut : SUBSET Assets]
NoFill   == [hits |-> {}, overtaken |-> FALSE, blind |-> {}, partial |-> FALSE, cut |-> {}]

NoRow      == [status |-> "none", trashed |-> FALSE, here |-> FALSE]
NoIndexing == [pc |-> "off", asset |-> NoAsset, here |-> FALSE]
NoCache    == [live |-> FALSE, fill |-> NoFill]
NoFlight   == [on |-> FALSE, todo |-> {}, fill |-> NoFill]
NoRequest  == [pc |-> "idle", kind |-> "none", cited |-> {}]

AssetType   == [status : {"none", "queued", "indexing", "ready", "failed", "deleted", "purged"},
                trashed : BOOLEAN, here : BOOLEAN]
ChunkType   == [edition : 0 .. MaxEditions, stored : BOOLEAN]
IndexerType == [pc : {"off", "write", "mark"}, asset : Assets \cup {NoAsset},
                here : BOOLEAN]
CacheType   == [live : BOOLEAN, fill : Fill]
FlightType  == [on : BOOLEAN, todo : SUBSET {"lexical", "vector"}, fill : Fill]
AskerType   == [pc : {"idle", "lookup", "join", "wait", "fallback", "exact", "model",
                      "report", "fail"},
                kind : {"none", "ask", "evaluate"}, cited : SUBSET Assets]

\* Every variable has its type.
TypeOK ==
    /\ asset \in [Assets -> AssetType]
    /\ moving \in SUBSET Assets
    /\ chunk \in [Assets -> ChunkType]
    /\ indexer \in [Indexers -> IndexerType]
    /\ cache \in CacheType
    /\ flight \in [Processes -> FlightType]
    /\ asker \in [Askers -> AskerType]
    /\ stray \in SUBSET Askers
    /\ open \in SUBSET Askers
    /\ dropped \in SUBSET Askers
    /\ faults \in 0 .. MaxFaults

Init ==
    /\ asset = [a \in Assets |->
          IF a \in Settled THEN [status |-> "ready", trashed |-> FALSE, here |-> TRUE] ELSE NoRow]
    /\ moving = {}
    /\ chunk = [a \in Assets |->
          IF a \in Settled THEN [edition |-> 1, stored |-> TRUE]
                          ELSE [edition |-> 0, stored |-> FALSE]]
    /\ indexer = [i \in Indexers |-> NoIndexing]
    /\ cache = NoCache
    /\ flight = [p \in Processes |-> NoFlight]
    /\ asker = [q \in Askers |-> NoRequest]
    /\ stray = {}
    /\ open = {}
    /\ dropped = {}
    /\ faults = 0

-----------------------------------------------------------------------------
(* Shared vocabulary *)

Strike(kind) == /\ kind \in Faults
                /\ faults < MaxFaults
                /\ faults' = faults + 1

HasRow(a) == asset[a].status \notin {"none", "purged"}
Live(a)   == HasRow(a) /\ ~asset[a].trashed

\* "where id = $1": changes the row when there still is one
SetStatus(a, s) == asset' = IF HasRow(a) THEN [asset EXCEPT ![a].status = s] ELSE asset

\* Mutant of Ready: the condition on deleted_at is forgotten.
ReadyOrTrashed(a) == HasRow(a) /\ asset[a].status = "ready"

\* the condition on assets of every query that looks for knowledge
Ready(a) == Live(a) /\ asset[a].status = "ready"

\* the rows a query of retrieveDocumentKnowledge selects
Findable(a) == chunk[a].stored /\ Ready(a)

Found(S) == {<<a, chunk[a].edition>> : a \in {b \in S : Findable(b)}}

\* an indexing that has written its chunks and not marked the asset yet
HalfIndexed(a) == \E i \in Indexers : indexer[i].pc = "mark" /\ indexer[i].asset = a

-----------------------------------------------------------------------------
(* The library *)

Upload(a) ==
    /\ asset[a].status = "none"
    /\ asset' = [asset EXCEPT ![a] = [status |-> "queued", trashed |-> FALSE, here |-> TRUE]]
    /\ UNCHANGED <<moving, chunk, indexer, cache, flight, requests, faults>>

\* a retry, a reprocessing or a note that is published again
Reprocess(a) ==
    /\ Live(a)
    /\ asset[a].here
    /\ asset[a].status \notin {"queued", "indexing"}
    /\ SetStatus(a, "queued")
    /\ UNCHANGED <<moving, chunk, indexer, cache, flight, requests, faults>>

\* processAsset claims the asset and parses it.
Claim(i, a) ==
    /\ indexer[i].pc = "off"
    /\ Live(a)
    /\ asset[a].status = "queued"
    /\ SetStatus(a, "indexing")
    /\ indexer' = [indexer EXCEPT ![i] = [pc |-> "write", asset |-> a, here |-> asset[a].here]]
    /\ UNCHANGED <<moving, chunk, cache, flight, requests, faults>>

\* Mutant of ClearScope: only the old cache table is emptied.
ClearScopeLegacy == UNCHANGED <<cache, flight>>

\* the effect of "delete from retrieval_scope_cache where $2 = any(workspace_ids)"
\* on the row, and what it does not reach: a flight that has read already
ClearScope ==
    /\ cache' = NoCache
    /\ flight' = [p \in Processes |->
         IF flight[p].on /\ flight[p].todo # {"lexical", "vector"}
         THEN [flight[p] EXCEPT !.fill = [flight[p].fill EXCEPT !.overtaken = TRUE]]
         ELSE flight[p]]

\* The transaction of indexDocumentChunks. A purged asset has no row to refer to.
WriteChunks(i) ==
    LET a == indexer[i].asset IN
    /\ indexer[i].pc = "write"
    /\ HasRow(a)
    /\ IF indexer[i].here
       THEN /\ chunk[a].edition < MaxEditions
            /\ chunk' = [chunk EXCEPT ![a] = [edition |-> chunk[a].edition + 1, stored |-> TRUE]]
            /\ ClearScope
       ELSE /\ chunk' = [chunk EXCEPT ![a].stored = FALSE]
            /\ UNCHANGED <<cache, flight>>
    /\ indexer' = [indexer EXCEPT ![i].pc = "mark"]
    /\ UNCHANGED <<asset, moving, requests, faults>>

MarkReady(i) ==
    /\ indexer[i].pc = "mark"
    /\ SetStatus(indexer[i].asset, "ready")
    /\ indexer' = [indexer EXCEPT ![i] = NoIndexing]
    /\ UNCHANGED <<moving, chunk, cache, flight, requests, faults>>

\* Indexing fails, before its chunks are written or after; it is retried or not.
IndexFails(i) ==
    /\ indexer[i].pc \in {"write", "mark"}
    /\ Strike("index")
    /\ \E s \in {"queued", "failed"} : SetStatus(indexer[i].asset, s)
    /\ indexer' = [indexer EXCEPT ![i] = NoIndexing]
    /\ UNCHANGED <<moving, chunk, cache, flight, requests>>

\* The write of a purged asset's chunks breaks the foreign key.
WriteRefused(i) ==
    /\ indexer[i].pc = "write"
    /\ ~HasRow(indexer[i].asset)
    /\ indexer' = [indexer EXCEPT ![i] = NoIndexing]
    /\ UNCHANGED <<asset, moving, chunk, cache, flight, requests, faults>>

\* PATCH /api/assets/:id moves the row out of the scope (a document that moves in
\* is queued like one that is uploaded) ..
Move(a) ==
    /\ Live(a)
    /\ asset[a].here
    /\ asset' = [asset EXCEPT ![a].here = FALSE]
    /\ moving' = moving \cup {a}
    /\ UNCHANGED <<chunk, indexer, cache, flight, requests, faults>>

\* .. and, the GBrain page deleted, has it indexed there.
QueueMoved(a) ==
    /\ a \in moving
    /\ SetStatus(a, "queued")
    /\ moving' = moving \ {a}
    /\ UNCHANGED <<chunk, indexer, cache, flight, requests, faults>>

\* the transaction of deleteKnowledgeAsset: the cache it empties is the old
\* retrieval_result_cache
Trash(a) ==
    /\ Live(a)
    /\ asset[a].here
    /\ asset' = [asset EXCEPT ![a] = [@ EXCEPT !.status = "deleted", !.trashed = TRUE]]
    /\ chunk' = [chunk EXCEPT ![a].stored = FALSE]
    /\ UNCHANGED <<moving, indexer, cache, flight, requests, faults>>

Restore(a) ==
    /\ HasRow(a)
    /\ asset[a].here
    /\ asset[a].trashed
    /\ asset' = [asset EXCEPT ![a] = [@ EXCEPT !.status = "queued", !.trashed = FALSE]]
    /\ UNCHANGED <<moving, chunk, indexer, cache, flight, requests, faults>>

Purge(a) ==
    /\ HasRow(a)
    /\ asset[a].here
    /\ asset[a].trashed
    /\ asset' = [asset EXCEPT ![a] = [NoRow EXCEPT !.status = "purged"]]
    /\ chunk' = [chunk EXCEPT ![a].stored = FALSE]
    /\ UNCHANGED <<moving, indexer, cache, flight, requests, faults>>

-----------------------------------------------------------------------------
(* The cache and the flights that fill it *)

\* the requests of p that wait for its flight
Joined(p) == {q \in Askers : Home[q] = p /\ asker[q].pc = "wait"}

\* Mutant of Served: a page of GBrain is cited as if it were an asset.
ServedPages(r, found, gbrainFails) ==
    [r EXCEPT !.cited = IF found = {} THEN {NoAsset} ELSE found,
              !.pc = IF r.kind = "evaluate" THEN "report" ELSE "model"]

\* what a request does with the documents that were found: a question without
\* any turns to GBrain, whose pages are no assets, and if that fails to the list
Served(r, found, gbrainFails) ==
    [r EXCEPT !.cited = IF r.kind = "evaluate" THEN {} ELSE found,
              !.pc = CASE r.kind = "evaluate" -> "report"
                       [] r.kind = "ask" /\ found = {} /\ gbrainFails -> "fallback"
                       [] OTHER -> "model"]

\* a retrieval that throws: an evaluation counts a miss
Unserved(r) == [r EXCEPT !.pc = IF r.kind = "evaluate" THEN "report" ELSE "fallback"]

AssetsOf(hits) == {h[1] : h \in hits}

\* The select on retrieval_scope_cache: expires_at > now().
Lookup(q) ==
    /\ asker[q].pc = "lookup"
    /\ IF cache.live
       THEN \E unlucky \in BOOLEAN :
               asker' = [asker EXCEPT ![q] = Served(asker[q], AssetsOf(cache.fill.hits), unlucky)]
       ELSE asker' = [asker EXCEPT ![q].pc = "join"]
    /\ UNCHANGED <<library, cache, flight, stray, records, faults>>

LookupFails(q) ==
    /\ asker[q].pc = "lookup"
    /\ Strike("db")
    /\ asker' = [asker EXCEPT ![q] = Unserved(asker[q])]
    /\ UNCHANGED <<library, cache, flight, stray, records>>

\* Singleflight.run: start a flight or join the one in the air.
Board(p) == flight' = IF flight[p].on THEN flight
                      ELSE [flight EXCEPT ![p] =
                              [on |-> TRUE, todo |-> {"lexical", "vector"}, fill |-> NoFill]]

Join(q) ==
    /\ asker[q].pc = "join"
    /\ asker' = [asker EXCEPT ![q].pc = "wait"]
    /\ Board(Home[q])
    /\ UNCHANGED <<library, cache, stray, records, faults>>

\* One of the two queries returns.
Reads(p, part, S) ==
    /\ part \in flight[p].todo
    /\ LET f == flight[p].fill IN
       flight' = [flight EXCEPT ![p] = [@ EXCEPT
         !.todo = flight[p].todo \ {part},
         !.fill = [f EXCEPT !.hits = f.hits \cup Found(S),
                            !.blind = f.blind \cup {a \in Assets : HalfIndexed(a)}]]]
    /\ UNCHANGED <<library, cache, requests, faults>>

Lexical(p) == Reads(p, "lexical", Worded)
Vector(p)  == Reads(p, "vector", Similar)

\* The embedding of the question, or the vector query, fails: "catch(() => [])".
NoVector(p) ==
    /\ "vector" \in flight[p].todo
    /\ Strike("embed")
    /\ flight' = [flight EXCEPT ![p] = [@ EXCEPT
         !.todo = flight[p].todo \ {"vector"},
         !.fill = [flight[p].fill EXCEPT !.partial = TRUE]]]
    /\ UNCHANGED <<library, cache, requests>>

\* The promise settles and is forgotten: "finally(() => this.pending.delete(key))".
Lands(p) == flight' = [flight EXCEPT ![p] = NoFlight]

\* what the limits of the queries, of the candidates, of the reranker and of each
\* asset and workspace may leave of the hits: some, where there are any (a reranker
\* that answers returns the best of its input)
Kept(hits) == IF hits = {} THEN {{}} ELSE (SUBSET hits) \ {{}}

\* the row: its hits, and how they came about; of a flight that was overtaken no
\* more than that it was
Filled(fill, kept) ==
    IF fill.overtaken
    THEN [NoFill EXCEPT !.hits = kept, !.overtaken = TRUE]
    ELSE [fill EXCEPT !.hits = kept, !.cut = AssetsOf(fill.hits) \ AssetsOf(kept)]

\* saveRetrievalCache, whatever the row holds by now; all that joined are served.
Save(p) ==
    /\ flight[p].on
    /\ flight[p].todo = {}
    /\ Lands(p)
    /\ \E kept \in Kept(flight[p].fill.hits), unlucky \in SUBSET Joined(p) :
          /\ cache' = [live |-> TRUE, fill |-> Filled(flight[p].fill, kept)]
          /\ asker' = [q \in Askers |->
                        IF q \in Joined(p)
                        THEN Served(asker[q], AssetsOf(kept), q \in unlucky)
                        ELSE asker[q]]
    /\ UNCHANGED <<library, stray, records, faults>>

\* Mutant of FlightFails: only one of the requests learns of it.
FlightFailsQuietly(p) ==
    /\ flight[p].on
    /\ "lexical" \in flight[p].todo \/ flight[p].todo = {}
    /\ Strike("db")
    /\ Lands(p)
    /\ \E q \in Joined(p) : asker' = [asker EXCEPT ![q] = Unserved(asker[q])]
    /\ UNCHANGED <<library, cache, stray, records>>

\* The lexical query or the save throws: so does the flight, for all that joined.
FlightFails(p) ==
    /\ flight[p].on
    /\ "lexical" \in flight[p].todo \/ flight[p].todo = {}
    /\ Strike("db")
    /\ Lands(p)
    /\ asker' = [q \in Askers |-> IF q \in Joined(p) THEN Unserved(asker[q]) ELSE asker[q]]
    /\ UNCHANGED <<library, cache, stray, records>>

\* RETRIEVAL_CACHE_TTL_SECONDS have passed since the row was written: no query
\* reads it again, and cleanupRetrievalCaches deletes it within the hour.
Expire ==
    /\ cache.live
    /\ cache' = NoCache
    /\ UNCHANGED <<library, flight, requests, faults>>

-----------------------------------------------------------------------------
(* Requests *)

\* What is left of a request that has failed is its catch block.
Falls(q) == asker' = [asker EXCEPT ![q] = [NoRequest EXCEPT !.pc = "fail"]]

\* A request ends and its record is closed.
Close(q) ==
    /\ open' = open \ {q}
    /\ asker' = [asker EXCEPT ![q] = NoRequest]

elsewhere == <<library, cache, flight>>

\* startTrace and its first event, or the insert of runRagEvaluation. A slot is
\* free again when the retrieval that a failed request left behind has ended.
Ask(q) ==
    /\ asker[q].pc = "idle"
    /\ q \notin stray
    /\ \E kind \in Kinds[q] :
          asker' = [asker EXCEPT ![q] =
             CASE kind = "exact" -> [NoRequest EXCEPT !.pc = "exact", !.kind = "ask"]
               [] OTHER -> [NoRequest EXCEPT !.pc = "lookup", !.kind = kind]]
    /\ open' = open \cup {q}
    /\ dropped' = dropped \ {q}
    /\ UNCHANGED <<elsewhere, stray, faults>>

\* The event is refused, before prepareQa has attached its catch: the error goes to
\* the client, and the trace stays as it is.
AskFails(q) ==
    /\ asker[q].pc = "idle"
    /\ Kinds[q] \ {"evaluate"} # {}
    /\ Strike("db")
    /\ open' = open \cup {q}
    /\ dropped' = dropped \cup {q}
    /\ UNCHANGED <<elsewhere, asker, stray>>

\* The questions of an evaluation cannot be read.
FixturesFail(q) ==
    /\ asker[q].pc = "lookup"
    /\ asker[q].kind = "evaluate"
    /\ Strike("db")
    /\ Falls(q)
    /\ UNCHANGED <<elsewhere, stray, records>>

\* The verified facts cannot be read: Promise.all rejects and the question has
\* failed, while its retrieval goes on with nobody to wait for it. One that has not
\* looked into the cache yet does so now: it misses, or it ends.
FactsFail(q) ==
    /\ asker[q].pc \in {"lookup", "join", "wait"}
    /\ asker[q].kind = "ask"
    /\ Strike("db")
    /\ Falls(q)
    /\ \/ asker[q].pc # "join" /\ UNCHANGED stray
       \/ /\ asker[q].pc = "join" \/ (asker[q].pc = "lookup" /\ ~cache.live)
          /\ stray' = stray \cup {q}
    /\ UNCHANGED <<elsewhere, records>>

\* A retrieval left behind starts a flight, or joins one.
Drift(q) ==
    /\ q \in stray
    /\ stray' = stray \ {q}
    /\ Board(Home[q])
    /\ UNCHANGED <<library, cache, asker, records, faults>>

\* The question names its files: all of them ready, or it is refused.
Exact(q) ==
    /\ asker[q].pc = "exact"
    /\ \E a \in Assets :
          IF Ready(a) /\ asset[a].here
          THEN asker' = [asker EXCEPT ![q] = [@ EXCEPT !.pc = "model", !.cited = {a}]]
          ELSE Falls(q)
    /\ UNCHANGED <<elsewhere, stray, records, faults>>

\* Retrieval has failed: the newest assets of the scope.
Fallback(q) ==
    /\ asker[q].pc = "fallback"
    /\ asker' = [asker EXCEPT ![q] =
                    [@ EXCEPT !.pc = "model",
                              !.cited = {a \in Assets : Ready(a) /\ asset[a].here}]]
    /\ UNCHANGED <<elsewhere, stray, records, faults>>

\* The conversation or the question cannot be stored, or the model does not answer
\* within MODEL_GENERATION_TIMEOUT_MS, or the client of a stream hangs up.
ModelFails(q) ==
    /\ asker[q].pc = "model"
    /\ Falls(q)
    /\ UNCHANGED <<elsewhere, stray, records, faults>>

\* The model has answered. persistQaAnswer: answer, citations and trace in one
\* transaction, which a citation of a purged asset breaks (message_citations.asset_id).
Persist(q) ==
    /\ asker[q].pc = "model"
    /\ IF \A a \in asker[q].cited : HasRow(a)
       THEN Close(q)
       ELSE Falls(q) /\ UNCHANGED open
    /\ UNCHANGED <<elsewhere, stray, dropped, faults>>

\* An evaluation has asked its questions, those that failed included.
Report(q) ==
    /\ asker[q].pc = "report"
    /\ Close(q)
    /\ UNCHANGED <<elsewhere, stray, dropped, faults>>

\* failTrace, or the catch block of runRagEvaluation
Fail(q) ==
    /\ asker[q].pc = "fail"
    /\ Close(q)
    /\ UNCHANGED <<elsewhere, stray, dropped, faults>>

\* A statement of a request fails: the catch block is next; if that fails too, the
\* record stays as it is.
Throws(q) ==
    /\ asker[q].pc \in {"fallback", "exact", "model", "report", "fail"}
    /\ Strike("db")
    /\ IF asker[q].pc = "fail"
       THEN asker' = [asker EXCEPT ![q] = NoRequest] /\ dropped' = dropped \cup {q}
       ELSE Falls(q) /\ UNCHANGED dropped
    /\ UNCHANGED <<elsewhere, stray, open>>

\* A process dies, with its flight and its requests; another takes its place.
Crash(p) ==
    /\ Strike("crash")
    /\ flight' = [flight EXCEPT ![p] = NoFlight]
    /\ asker' = [q \in Askers |-> IF Home[q] = p THEN NoRequest ELSE asker[q]]
    /\ stray' = {q \in stray : Home[q] # p}
    /\ dropped' = dropped \cup {q \in Askers : Home[q] = p /\ asker[q].pc # "idle"}
    /\ UNCHANGED <<library, cache, open>>

-----------------------------------------------------------------------------
Index(i) == (\E a \in Assets : Claim(i, a)) \/ WriteChunks(i) \/ WriteRefused(i) \/ MarkReady(i)

Library(a) == \/ Upload(a) \/ Reprocess(a) \/ Move(a) \/ QueueMoved(a)
              \/ Trash(a) \/ Restore(a) \/ Purge(a)

Fly(p) == Lexical(p) \/ Vector(p) \/ Save(p)

Request(q) == \/ Lookup(q) \/ Join(q) \/ Exact(q) \/ Fallback(q)
              \/ ModelFails(q) \/ Persist(q) \/ Report(q) \/ Fail(q)

RequestFails(q) == \/ AskFails(q) \/ LookupFails(q) \/ FixturesFail(q)
                   \/ FactsFail(q) \/ Throws(q)

Next ==
    \/ \E i \in Indexers : Index(i) \/ IndexFails(i)
    \/ \E a \in Assets \ Settled : Library(a)
    \/ \E p \in Processes : Fly(p) \/ NoVector(p) \/ FlightFails(p) \/ Crash(p)
    \/ \E q \in Askers : Ask(q) \/ Request(q) \/ Drift(q) \/ RequestFails(q)
    \/ Expire

Spec == Init /\ [][Next]_vars

\* Queries and model calls have timeouts, and the time of a cache row runs out.
Fairness ==
    /\ \A p \in Processes : WF_vars(Fly(p))
    /\ \A q \in Askers : WF_vars(Request(q))
    /\ WF_vars(Expire)

LiveSpec == Spec /\ Fairness

-----------------------------------------------------------------------------
(* Properties *)

\* Documents are cached as they are: a live row never shows an edition of a
\* document that has been rebuilt in its scope (indexDocumentChunks clears the row
\* in the transaction that writes the chunks), unless the rebuild came between the
\* reads and the save of the flight that wrote the row.
HitsAreCurrent ==
    cache.live /\ ~cache.fill.overtaken =>
        \A h \in cache.fill.hits :
            chunk[h[1]].stored => h[2] = chunk[h[1]].edition

\* A ready document that either query finds is in the row, or had to make room
\* there for others: no live row lacks it, and none is empty beside it, but by one of
\* three: the flight was overtaken by its rebuild, had to do with the words of the
\* question, or read when the chunks were written and the asset was not marked ready
\* yet. (The row is not cleared again when it is.)
ReadyIsFound ==
    cache.live /\ ~cache.fill.overtaken =>
        \A a \in Worded \cup Similar : Findable(a) =>
            \/ a \in AssetsOf(cache.fill.hits) \cup cache.fill.blind
            \/ a \in cache.fill.cut /\ cache.fill.hits # {}
            \/ cache.fill.partial /\ a \notin Worded

\* What has left the scope for good, to the trash or, chunks and all, to another
\* knowledge base, leaves the answers: the row that deleteKnowledgeAsset and a move
\* do not clear runs out, and no flight brings the document back.
InAnswers(a) == cache.live /\ a \in AssetsOf(cache.fill.hits)
Left(a)      == ~Live(a) \/ (~asset[a].here /\ ~chunk[a].stored)
LeftFades    == \A a \in Assets \ Settled : <>[]Left(a) => <>[]~InAnswers(a)

\* Whoever asks is answered, and the record of the request is closed, however
\* flights are shared and fail, unless the process or the catch block dies or the
\* first event of a trace is refused, which no catch block sees.
RequestsEnd ==
    \A q \in Askers : []<>(asker[q].pc = "idle" /\ (q \notin open \/ q \in dropped))
=============================================================================
