------------------------------ MODULE RagIngest ------------------------------
(***************************************************************************)
(* `python -m services.rag ingest`: fetched documents are cut into chunks, *)
(* embedded in batches and written to three places that no transaction     *)
(* joins -- chunk points and a document marker in the vector store         *)
(* (Qdrant, external), and the BM25 index, one pickle written at the end   *)
(* of the run.  Runs may be killed anywhere and may overlap; the store may *)
(* lose the writes of its last flush window (ADR-002, "Qdrant WAL          *)
(* finding").                                                              *)
(*                                                                         *)
(* A document's content is the sequence of its chunks' texts, and its      *)
(* content hash is the content itself.  A chunk id is derived from the     *)
(* document and the position alone: position n of d.  Embeddings, sections *)
(* and fetching over the network are left out.                             *)
(***************************************************************************)
EXTENDS Integers, Sequences, FiniteSets

CONSTANTS
  Docs,       \* document ids
  Projects,   \* projects of sources.yaml
  ProjectOf,  \* the project of a document
  Revisions,  \* per document: the contents its source shows, one after the other
  Runners,    \* processes that may ingest at the same time
  Batch,      \* batch_size
  None,       \* no point, no index entry
  Modes,      \* retrieval modes asked for, of "dense", "bm25" and "hybrid"
  Torn,       \* TRUE: a run may die between opening the index file and writing it
  MaxBumps,   \* bound: changes of the corpus version
  MaxKills,   \* bound: runs killed
  MaxCuts     \* bound: power cuts

Contents == UNION {{Revisions[d][n] : n \in 1 .. Len(Revisions[d])} : d \in Docs}

Positions(content) == 1 .. Len(content)
AllPositions == UNION {Positions(content) : content \in Contents}
Texts == UNION {{content[n] : n \in Positions(content)} : content \in Contents}

ASSUME RagAssumption ==
  /\ ProjectOf \in [Docs -> Projects]
  /\ \A d \in Docs : /\ Len(Revisions[d]) \in Nat \ {0}
                     /\ \A n \in 1 .. Len(Revisions[d]) : Len(Revisions[d][n]) \in Nat
  /\ None \notin Contents \cup Docs /\ None \notin [text : Texts, version : Nat]
  /\ Batch \in Nat \ {0}
  /\ Modes \subseteq {"dense", "bm25", "hybrid"}
  /\ Torn \in BOOLEAN
  /\ MaxBumps \in Nat /\ MaxKills \in Nat /\ MaxCuts \in Nat

VARIABLES
  revision, \* per document: which of its revisions the source shows
  corpus,   \* the corpus version: the version line of sources.yaml
  store,    \* the vector store: chunks and document markers
  flushed,  \* what of the store would survive a power cut
  index,    \* the BM25 file: per document the chunk texts it has, or unreadable
  runs,     \* per runner: the state of its current run
  query,    \* the state of one call of retrieve()
  kills,    \* runs killed so far
  cuts      \* power cuts so far

ragVars == <<revision, corpus, store, flushed, index, runs, query, kills, cuts>>

-----------------------------------------------------------------------------
\* Variants named Mutant... are faulty versions of the definition after them, each
\* one slip away from the code; a property that no such slip breaks says nothing.

\* The points of kind "chunk", by document and position, and those of kind "document".
Point == [text : Texts, version : Nat]
Store == [chunks : [Docs -> [AllPositions -> Point \cup {None}]],
          marker : [Docs -> Contents \cup {None}]]
Index == [readable : BOOLEAN, entries : [Docs -> Contents \cup {None}]]

Phases == {"idle", "fetch", "doc", "look", "embed", "mark", "save", "write"}
Run == [phase : Phases,
        version  : Nat,                                  \* corpus_version of its store client
        entries  : [Docs -> Contents \cup {None}],       \* the index in memory
        projects : SUBSET Projects,                      \* of these, the ones left
        fetched  : [Docs -> Contents \cup {None}],       \* content hashes of the fetched files
        docs     : SUBSET Docs,                          \* fetched files left
        doc      : Docs \cup {None},
        existing : SUBSET AllPositions,
        missing  : SUBSET AllPositions]
Empty == [d \in Docs |-> None]
NoRun == [phase |-> "idle", version |-> 0, entries |-> Empty, projects |-> {},
          fetched |-> Empty, docs |-> {}, doc |-> None, existing |-> {}, missing |-> {}]

\* The chunk ids retrieve() has found, as <<document, position>>.
Hits == UNION {{d} \X AllPositions : d \in Docs}
Query == [phase : {"idle", "search", "fetch"}, mode : Modes \cup {None}, version : Nat,
          entries : [Docs -> Contents \cup {None}], hits : SUBSET Hits]
NoQuery == [phase |-> "idle", mode |-> None, version |-> 0, entries |-> Empty, hits |-> {}]

Ids(d)     == {n \in AllPositions : store.chunks[d][n] # None}
Source(d)  == Revisions[d][revision[d]]
Content(r) == runs[r].fetched[runs[r].doc]

Init ==
  /\ revision = [d \in Docs |-> 1]
  /\ corpus = 1
  /\ store = [chunks |-> [d \in Docs |-> [n \in AllPositions |-> None]], marker |-> Empty]
  /\ flushed = store
  /\ index = [readable |-> TRUE, entries |-> Empty]
  /\ runs = [r \in Runners |-> NoRun] /\ query = NoQuery
  /\ kills = 0 /\ cuts = 0

Running(r) == runs[r].phase # "idle"
RunTo(r, run) == runs' = [runs EXCEPT ![r] = run]

-----------------------------------------------------------------------------
(***************************************************************************)
(* One run of ingest.                                                      *)
(***************************************************************************)
\* BM25Index.load: a run adds to what the index holds.
MutantStartsEmpty == Empty
Loaded == index.entries
\* main(): the store client takes the corpus version, the index is loaded (an
\* unreadable one raises), and the --project filter picks the projects.
Begin(r, projects) ==
  /\ ~Running(r)
  /\ index.readable
  /\ RunTo(r, [NoRun EXCEPT !.phase = "fetch", !.version = corpus, !.entries = Loaded,
                            !.projects = projects])
  /\ UNCHANGED <<revision, corpus, store, flushed, index, query, kills, cuts>>

\* The files of the next project are fetched; with none left, the index is saved.
Fetch(r) ==
  LET run == runs[r]
  IN  /\ run.phase = "fetch"
      /\ IF run.projects = {} THEN RunTo(r, [run EXCEPT !.phase = "save"])
         ELSE \E p \in run.projects :
                RunTo(r, [run EXCEPT !.phase = "doc", !.projects = @ \ {p},
                                     !.docs = {d \in Docs : ProjectOf[d] = p},
                                     !.fetched = [d \in Docs |-> IF ProjectOf[d] = p THEN Source(d) ELSE None]])
      /\ UNCHANGED <<revision, corpus, store, flushed, index, query, kills, cuts>>

\* An unchanged document is skipped by its marker, an empty one has no chunks.
MutantAnyChunk(d, content) == Ids(d) # {} \/ content = <<>>
Skips(d, content) == store.marker[d] = content \/ content = <<>>
NextDoc(r) ==
  LET run == runs[r]
  IN  /\ run.phase = "doc"
      /\ IF run.docs = {} THEN RunTo(r, [run EXCEPT !.phase = "fetch"])
         ELSE \E d \in run.docs :
                IF Skips(d, run.fetched[d]) THEN RunTo(r, [run EXCEPT !.docs = @ \ {d}])
                ELSE RunTo(r, [run EXCEPT !.phase = "look", !.docs = @ \ {d}, !.doc = d])
      /\ UNCHANGED <<revision, corpus, store, flushed, index, query, kills, cuts>>

\* Which chunk ids of the document are in the store: only the others are embedded.
MutantAllMissing(d, content)  == Positions(content)
MutantTrustsOne(d, content)   == IF Ids(d) = {} THEN Positions(content) ELSE {}
Missing(d, content) == Positions(content) \ Ids(d)
Look(r) ==
  LET run == runs[r]
  IN  /\ run.phase = "look"
      /\ RunTo(r, [run EXCEPT !.phase = "embed", !.existing = Ids(run.doc),
                              !.missing = Missing(run.doc, Content(r))])
      /\ UNCHANGED <<revision, corpus, store, flushed, index, query, kills, cuts>>

\* The next Batch missing chunks, in the order of their positions.
NextBatch(r) == {n \in runs[r].missing : Cardinality({m \in runs[r].missing : m <= n}) <= Batch}

\* embed_chunks and upsert_chunks of one batch.
UpsertChunks(r) ==
  LET run   == runs[r]
      batch == NextBatch(r)
      old   == store.chunks[run.doc]
  IN  /\ run.phase = "embed" /\ run.missing # {}
      /\ store' = [store EXCEPT !.chunks[run.doc] =
           [n \in AllPositions |->
              IF n \in batch THEN [text |-> Content(r)[n], version |-> run.version] ELSE old[n]]]
      /\ RunTo(r, [run EXCEPT !.missing = @ \ batch])
      /\ UNCHANGED <<revision, corpus, flushed, index, query, kills, cuts>>

\* Chunks the document used to have and no longer has.
MutantPrunesAll(r)  == runs[r].existing
Stale(r) == runs[r].existing \ Positions(Content(r))
DeleteStale(r) ==
  LET run == runs[r]
      old == store.chunks[run.doc]
  IN  /\ run.phase = "embed" /\ run.missing = {}
      /\ store' = [store EXCEPT !.chunks[run.doc] = [n \in AllPositions |->
                                                     IF n \in Stale(r) THEN None ELSE old[n]]]
      /\ RunTo(r, [run EXCEPT !.phase = "mark", !.entries[run.doc] = Content(r)])
      /\ UNCHANGED <<revision, corpus, flushed, index, query, kills, cuts>>

\* upsert_document: the marker, with the content hash, comes last.
UpsertDocument(r) ==
  LET run == runs[r]
  IN  /\ run.phase = "mark"
      /\ store' = [store EXCEPT !.marker[run.doc] = Content(r)]
      /\ RunTo(r, [run EXCEPT !.phase = "doc", !.doc = None, !.existing = {}])
      /\ UNCHANGED <<revision, corpus, flushed, index, query, kills, cuts>>

\* BM25Index.save: the file is truncated, then written.
OpenIndex(r) ==
  /\ runs[r].phase = "save"
  /\ index' = [index EXCEPT !.readable = FALSE]
  /\ RunTo(r, [runs[r] EXCEPT !.phase = "write"])
  /\ UNCHANGED <<revision, corpus, store, flushed, query, kills, cuts>>
WriteIndex(r) ==
  LET run == runs[r]
  IN  /\ run.phase = "write"
      /\ index' = [readable |-> TRUE, entries |-> run.entries]
      /\ RunTo(r, NoRun)
      /\ UNCHANGED <<revision, corpus, store, flushed, query, kills, cuts>>

Ingest(r) ==
  \/ Fetch(r) \/ NextDoc(r) \/ Look(r) \/ UpsertChunks(r) \/ DeleteStale(r)
  \/ UpsertDocument(r) \/ OpenIndex(r) \/ WriteIndex(r)

-----------------------------------------------------------------------------
(***************************************************************************)
(* retrieve(), as search_docs and the command line call it.                *)
(***************************************************************************)
\* A store client takes the corpus version and the index is loaded, for each query.
Retrieve(mode) ==
  /\ query.phase = "idle" /\ index.readable
  /\ query' = [NoQuery EXCEPT !.phase = "search", !.mode = mode, !.version = corpus,
                              !.entries = index.entries]
  /\ UNCHANGED <<revision, corpus, store, flushed, index, runs, kills, cuts>>

\* The vectors of another corpus version match no search; BM25 has no versions.  The
\* candidate pool and k are larger than the corpus: fusion leaves what either ranks.
DenseSearch == {h \in Hits : /\ store.chunks[h[1]][h[2]] # None
                             /\ store.chunks[h[1]][h[2]].version = query.version}
Bm25Search == {h \in Hits : /\ query.entries[h[1]] # None
                            /\ h[2] \in Positions(query.entries[h[1]])}
Rankings == (IF query.mode = "bm25" THEN {} ELSE {DenseSearch})
              \cup (IF query.mode = "dense" THEN {} ELSE {Bm25Search})
Search ==
  /\ query.phase = "search"
  /\ query' = [query EXCEPT !.phase = "fetch", !.hits = UNION Rankings]
  /\ UNCHANGED <<revision, corpus, store, flushed, index, runs, kills, cuts>>

\* get_chunk of every hit; one that is not in the store raises KeyError.
GetChunks ==
  /\ query.phase = "fetch"
  /\ query' = NoQuery
  /\ UNCHANGED <<revision, corpus, store, flushed, index, runs, kills, cuts>>

-----------------------------------------------------------------------------
(***************************************************************************)
(* Around the runs.                                                        *)
(***************************************************************************)
\* The run is killed, or a fetch, the embedder or the store raises.
Kill(r) ==
  /\ Running(r) /\ kills < MaxKills
  /\ Torn \/ runs[r].phase # "write"
  /\ RunTo(r, NoRun)
  /\ kills' = kills + 1
  /\ UNCHANGED <<revision, corpus, store, flushed, index, query, cuts>>

\* A source shows its next revision.
Publish(d) ==
  /\ revision[d] < Len(Revisions[d])
  /\ revision' = [revision EXCEPT ![d] = @ + 1]
  /\ UNCHANGED <<corpus, store, flushed, index, runs, query, kills, cuts>>

\* The version line of sources.yaml is changed.
Bump ==
  /\ corpus <= MaxBumps
  /\ corpus' = corpus + 1
  /\ UNCHANGED <<revision, store, flushed, index, runs, query, kills, cuts>>

\* Qdrant flushes its write-ahead log every few seconds.
Flush ==
  /\ cuts < MaxCuts /\ flushed # store
  /\ flushed' = store
  /\ UNCHANGED <<revision, corpus, store, index, runs, query, kills, cuts>>

\* The machine goes down: the runs with it, and the writes since the last flush.
PowerCut ==
  /\ cuts < MaxCuts
  /\ Torn \/ \A r \in Runners : runs[r].phase # "write"
  /\ store' = flushed
  /\ runs' = [r \in Runners |-> NoRun] /\ query' = NoQuery
  /\ cuts' = cuts + 1
  /\ UNCHANGED <<revision, corpus, flushed, index, kills>>

Next ==
  \/ \E r \in Runners : \/ \E projects \in {{p} : p \in Projects} \cup {Projects} : Begin(r, projects)
                        \/ Ingest(r) \/ Kill(r)
  \/ \E d \in Docs : Publish(d)
  \/ Bump \/ Flush \/ PowerCut
  \/ \E mode \in Modes : Retrieve(mode)
  \/ Search \/ GetChunks

Spec == Init /\ [][Next]_ragVars

\* A run that is not killed goes on to its end, and the operator comes back to
\* ingesting the whole corpus.
FairSpec ==
  /\ Spec
  /\ \A r \in Runners : WF_ragVars(Ingest(r)) /\ SF_ragVars(Begin(r, Projects))
-----------------------------------------------------------------------------
TypeOK ==
  /\ revision \in [Docs -> Nat]
  /\ \A d \in Docs : revision[d] \in 1 .. Len(Revisions[d])
  /\ corpus \in Nat
  /\ store \in Store
  /\ flushed \in Store
  /\ index \in Index
  /\ runs \in [Runners -> Run]
  /\ query \in Query
  /\ kills \in Nat /\ cuts \in Nat

\* Resumption is safe: whoever died where, whatever the store lost and however runs
\* overlapped, a document that ingest would skip has every one of its chunks in the
\* store and no other.  It is why upsert_document comes last.
Redetected ==
  \A d \in Docs : store.marker[d] = Source(d) => Ids(d) = Positions(Source(d))

\* A run embeds only what the store does not have ("picks up existing_chunk_ids(), and
\* only embeds what's still missing"), across batches, kills and resumptions.
OnlyMissing ==
  \A r \in Runners : runs[r].phase = "embed" => runs[r].missing \cap Ids(runs[r].doc) = {}

\* Retrieval resolves every hit in the store, where an id that is missing raises
\* KeyError: the saved index never runs ahead of the store, and nothing a query has found
\* goes away before it is fetched, whatever two runs do in the meantime.
Resolvable ==
  cuts = 0 /\ query.phase = "fetch" => \A h \in query.hits : h[2] \in Ids(h[1])

\* Ingestion completes: kills and power cuts come to an end, and then every document
\* is in the store and marked.
Ingested == <>[](\A d \in Docs : store.marker[d] = Source(d) \/ Source(d) = <<>>)

Quiet == \A r \in Runners : ~Running(r)

\* The two rankings hybrid retrieval fuses agree: between runs the index holds exactly
\* the documents that are marked, as they were marked, skipped and changed ones alike.
\* One killed run is enough to lose that for good: the index is saved last, and
\* documents that are marked already are skipped.
Indexed == Quiet /\ kills = 0 /\ cuts = 0 => index.entries = store.marker

\* ADR-002 6: "Changed docs get replace_chunks() (delete-then-insert by doc_id) on
\* both the vector store and the BM25 index".
ChangedDocsReplaced ==
  \A d \in Docs : Quiet /\ store.marker[d] # None =>
    \A n \in Positions(store.marker[d]) : store.chunks[d][n].text = store.marker[d][n]

=============================================================================
