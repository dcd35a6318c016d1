------------------------------ MODULE RagProofs ------------------------------
(***************************************************************************)
(* Theorems about ingestion and retrieval, for any documents, runners,     *)
(* batch size and bounds.  Three of them need less than the model allows:  *)
(* documents that do not change, or runs that do not overlap.              *)
(***************************************************************************)
EXTENDS RagIngest, TLAPS

-----------------------------------------------------------------------------
(***************************************************************************)
(* Types, and what a run has at hand in each of its phases.                *)
(***************************************************************************)
Ready(run) ==
  /\ run.phase \in {"doc", "look", "embed", "mark"} => \A d \in run.docs : run.fetched[d] \in Contents
  /\ run.phase \in {"look", "embed", "mark"} => run.doc \in Docs /\ run.fetched[run.doc] \in Contents
  /\ run.phase = "embed" => run.missing \subseteq Positions(run.fetched[run.doc])

Typed == TypeOK /\ \A r \in Runners : Ready(runs[r])

\* Empty runs, indexes and queries, and what the sources show.
LEMMA Basics ==
  /\ Empty \in [Docs -> Contents \cup {None}]
  /\ NoRun \in Run /\ Ready(NoRun) /\ NoQuery \in Query
  /\ TypeOK => \A d \in Docs : Source(d) \in Contents
  /\ \A content \in Contents : Positions(content) \subseteq AllPositions
  <1>1. Empty \in [Docs -> Contents \cup {None}]
    BY DEF Empty
  <1>2. NoRun \in Run /\ Ready(NoRun)
    BY <1>1 DEF NoRun, Run, Phases, Ready
  <1>3. NoQuery \in Query
    BY <1>1 DEF NoQuery, Query
  <1>4. ASSUME TypeOK, NEW d \in Docs
        PROVE  Source(d) \in Contents
    BY <1>4 DEF TypeOK, Source, Contents
  <1>5. \A content \in Contents : Positions(content) \subseteq AllPositions
    BY DEF AllPositions
  <1>6. QED
    BY <1>1, <1>2, <1>3, <1>4, <1>5

LEMMA RunTypes ==
  ASSUME Typed, NEW r \in Runners
  PROVE  /\ runs[r] \in Run /\ Ready(runs[r])
         /\ runs[r].phase \in Phases /\ runs[r].version \in Nat
         /\ runs[r].entries \in [Docs -> Contents \cup {None}]
         /\ runs[r].projects \in SUBSET Projects /\ runs[r].docs \in SUBSET Docs
         /\ runs[r].fetched \in [Docs -> Contents \cup {None}]
         /\ runs[r].doc \in Docs \cup {None}
         /\ runs[r].existing \in SUBSET AllPositions /\ runs[r].missing \in SUBSET AllPositions
  <1>1. runs[r] \in Run /\ Ready(runs[r])
    BY DEF Typed, TypeOK
  <1>2. QED
    BY <1>1 DEF Run

\* One runner goes on to a sound run; the others stay where they are.
LEMMA RunOn ==
  ASSUME Typed, NEW r \in Runners, NEW next \in Run, Ready(next), RunTo(r, next)
  PROVE  /\ runs' \in [Runners -> Run] /\ runs'[r] = next
         /\ \A q \in Runners : q # r => runs'[q] = runs[q]
         /\ \A q \in Runners : Ready(runs'[q])
  <1>1. runs \in [Runners -> Run] /\ runs' = [runs EXCEPT ![r] = next]
    BY DEF Typed, TypeOK, RunTo
  <1>2. runs'[r] = next /\ \A q \in Runners : q # r => runs'[q] = runs[q]
    BY <1>1
  <1>3. QED
    BY <1>1, <1>2 DEF Typed

-----------------------------------------------------------------------------
(***************************************************************************)
(* What each step does to the run that takes it, and to the store.         *)
(***************************************************************************)
\* A run starts with the index as it is on disk.
LEMMA BeginStep ==
  ASSUME Typed, NEW r \in Runners, NEW projects \in SUBSET Projects, Begin(r, projects)
  PROVE  \E next \in Run :
           /\ RunTo(r, next) /\ Ready(next)
           /\ next.phase = "fetch" /\ next.entries = index.entries /\ next.fetched = Empty
  <1>1. PICK next : next = [NoRun EXCEPT !.phase = "fetch", !.version = corpus, !.entries = Loaded,
                                         !.projects = projects]
    OBVIOUS
  <1>2. index.entries \in [Docs -> Contents \cup {None}] /\ corpus \in Nat
    BY DEF Typed, TypeOK, Index
  <1>3. NoRun \in Run /\ NoRun.fetched = Empty
    BY Basics DEF NoRun
  <1>4. /\ next \in Run /\ next.phase = "fetch" /\ next.entries = index.entries
        /\ next.fetched = Empty
    BY <1>1, <1>2, <1>3 DEF Run, Phases, Loaded
  <1>5. Ready(next)
    BY <1>4 DEF Ready
  <1>6. RunTo(r, next)
    BY <1>1 DEF Begin
  <1>7. QED
    BY <1>4, <1>5, <1>6

\* The files of a project are fetched as their sources show them, or the index is next.
LEMMA FetchStep ==
  ASSUME Typed, NEW r \in Runners, Fetch(r)
  PROVE  \E next \in Run :
           /\ RunTo(r, next) /\ Ready(next) /\ runs[r].phase = "fetch"
           /\ next.phase \in {"doc", "save"} /\ next.entries = runs[r].entries
           /\ next.fetched = runs[r].fetched \/ \A d \in Docs : next.fetched[d] \in {None, Source(d)}
  <1>0. runs[r] \in Run /\ runs[r].phase = "fetch"
    BY RunTypes DEF Fetch
  <1>1. CASE RunTo(r, [runs[r] EXCEPT !.phase = "save"])
    <2>1. PICK next : next = [runs[r] EXCEPT !.phase = "save"]
      OBVIOUS
    <2>2. /\ next \in Run /\ next.phase = "save" /\ next.entries = runs[r].entries
          /\ next.fetched = runs[r].fetched
      BY <1>0, <2>1 DEF Run, Phases
    <2>3. Ready(next)
      BY <2>2 DEF Ready
    <2>4. QED
      BY <1>0, <1>1, <2>1, <2>2, <2>3
  <1>2. ASSUME NEW p \in runs[r].projects,
               RunTo(r, [runs[r] EXCEPT !.phase = "doc", !.projects = @ \ {p},
                           !.docs = {d \in Docs : ProjectOf[d] = p},
                           !.fetched = [d \in Docs |-> IF ProjectOf[d] = p THEN Source(d) ELSE None]])
        PROVE  \E next \in Run :
                 /\ RunTo(r, next) /\ Ready(next) /\ runs[r].phase = "fetch"
                 /\ next.phase \in {"doc", "save"} /\ next.entries = runs[r].entries
                 /\ next.fetched = runs[r].fetched \/ \A d \in Docs : next.fetched[d] \in {None, Source(d)}
    <2>1. PICK docs : docs = {d \in Docs : ProjectOf[d] = p}
      OBVIOUS
    <2>2. PICK fetched : fetched = [d \in Docs |-> IF ProjectOf[d] = p THEN Source(d) ELSE None]
      OBVIOUS
    <2>3. PICK projects : projects = runs[r].projects \ {p}
      OBVIOUS
    <2>4. \A d \in Docs : Source(d) \in Contents
      BY Basics DEF Typed
    <2>5. /\ docs \in SUBSET Docs /\ fetched \in [Docs -> Contents \cup {None}]
          /\ \A d \in docs : fetched[d] \in Contents
          /\ \A d \in Docs : fetched[d] \in {None, Source(d)}
      BY <2>1, <2>2, <2>4
    <2>6. projects \in SUBSET Projects
      BY <2>3, RunTypes
    <2>7. PICK next : next = [runs[r] EXCEPT !.phase = "doc", !.projects = projects,
                                             !.docs = docs, !.fetched = fetched]
      OBVIOUS
    <2>8. RunTo(r, next)
      BY <1>2, <2>1, <2>2, <2>3, <2>7
    <2>9. /\ next \in Run /\ next.phase = "doc" /\ next.entries = runs[r].entries
          /\ next.docs = docs /\ next.fetched = fetched
      BY <1>0, <2>5, <2>6, <2>7 DEF Run, Phases
    <2>10. Ready(next)
      BY <2>5, <2>9 DEF Ready
    <2>11. QED
      BY <1>0, <2>5, <2>8, <2>9, <2>10
  <1>3. QED
    BY <1>1, <1>2 DEF Fetch

\* The next document is skipped or looked up; its content is one of a source.
LEMMA NextDocStep ==
  ASSUME Typed, NEW r \in Runners, NextDoc(r)
  PROVE  \E next \in Run :
           /\ RunTo(r, next) /\ Ready(next) /\ runs[r].phase = "doc"
           /\ next.phase \in {"fetch", "doc", "look"} /\ next.entries = runs[r].entries
           /\ next.fetched = runs[r].fetched
  <1>0. /\ runs[r] \in Run /\ runs[r].phase = "doc" /\ runs[r].docs \in SUBSET Docs
        /\ \A d \in runs[r].docs : runs[r].fetched[d] \in Contents
    BY RunTypes DEF NextDoc, Ready
  <1>1. CASE RunTo(r, [runs[r] EXCEPT !.phase = "fetch"])
    <2>1. PICK next : next = [runs[r] EXCEPT !.phase = "fetch"]
      OBVIOUS
    <2>2. /\ next \in Run /\ next.phase = "fetch" /\ next.entries = runs[r].entries
          /\ next.fetched = runs[r].fetched
      BY <1>0, <2>1 DEF Run, Phases
    <2>3. Ready(next)
      BY <2>2 DEF Ready
    <2>4. QED
      BY <1>0, <1>1, <2>1, <2>2, <2>3
  <1>2. ASSUME NEW d \in runs[r].docs,
               \/ RunTo(r, [runs[r] EXCEPT !.docs = @ \ {d}])
               \/ RunTo(r, [runs[r] EXCEPT !.phase = "look", !.docs = @ \ {d}, !.doc = d])
        PROVE  \E next \in Run :
                 /\ RunTo(r, next) /\ Ready(next) /\ runs[r].phase = "doc"
                 /\ next.phase \in {"fetch", "doc", "look"} /\ next.entries = runs[r].entries
                 /\ next.fetched = runs[r].fetched
    <2>1. PICK docs \in SUBSET Docs : docs = runs[r].docs \ {d}
      BY <1>0
    <2>2. CASE RunTo(r, [runs[r] EXCEPT !.docs = @ \ {d}])
      <3>1. PICK next : next = [runs[r] EXCEPT !.docs = docs]
        OBVIOUS
      <3>2. /\ next \in Run /\ next.phase = "doc" /\ next.entries = runs[r].entries
            /\ next.fetched = runs[r].fetched /\ next.docs = docs
        BY <1>0, <2>1, <3>1 DEF Run, Phases
      <3>3. Ready(next)
        BY <1>0, <2>1, <3>2 DEF Ready
      <3>4. QED
        BY <1>0, <2>1, <2>2, <3>1, <3>2, <3>3
    <2>3. CASE RunTo(r, [runs[r] EXCEPT !.phase = "look", !.docs = @ \ {d}, !.doc = d])
      <3>1. PICK next : next = [runs[r] EXCEPT !.phase = "look", !.docs = docs, !.doc = d]
        OBVIOUS
      <3>2. /\ next \in Run /\ next.phase = "look" /\ next.entries = runs[r].entries
            /\ next.fetched = runs[r].fetched /\ next.docs = docs /\ next.doc = d /\ d \in Docs
        BY <1>0, <2>1, <3>1 DEF Run, Phases
      <3>3. Ready(next)
        BY <1>0, <2>1, <3>2 DEF Ready
      <3>4. QED
        BY <1>0, <2>1, <2>3, <3>1, <3>2, <3>3
    <2>4. QED
      BY <1>2, <2>2, <2>3
  <1>3. QED
    BY <1>1, <1>2 DEF NextDoc

\* What of the document is in the store, and what is missing.
LEMMA LookStep ==
  ASSUME Typed, NEW r \in Runners, Look(r)
  PROVE  \E next \in Run :
           /\ RunTo(r, next) /\ Ready(next) /\ runs[r].phase = "look"
           /\ next.phase = "embed" /\ next.entries = runs[r].entries
           /\ next.fetched = runs[r].fetched /\ next.doc = runs[r].doc
           /\ next.existing = Ids(next.doc) /\ next.missing = Positions(Content(r)) \ Ids(next.doc)
  <1>0. /\ runs[r] \in Run /\ runs[r].phase = "look" /\ runs[r].docs \in SUBSET Docs
        /\ \A d \in runs[r].docs : runs[r].fetched[d] \in Contents
        /\ runs[r].doc \in Docs /\ Content(r) \in Contents
    BY RunTypes DEF Look, Ready, Content
  <1>1. PICK existing \in SUBSET AllPositions : existing = Ids(runs[r].doc)
    BY DEF Ids
  <1>2. PICK missing \in SUBSET AllPositions : missing = Positions(Content(r)) \ Ids(runs[r].doc)
    BY <1>0, Basics
  <1>3. PICK next : next = [runs[r] EXCEPT !.phase = "embed", !.existing = existing, !.missing = missing]
    OBVIOUS
  <1>4. RunTo(r, next)
    BY <1>1, <1>2, <1>3 DEF Look, Missing
  <1>5. /\ next \in Run /\ next.phase = "embed" /\ next.entries = runs[r].entries
        /\ next.fetched = runs[r].fetched /\ next.doc = runs[r].doc /\ next.docs = runs[r].docs
        /\ next.existing = existing /\ next.missing = missing
    BY <1>0, <1>1, <1>2, <1>3 DEF Run, Phases
  <1>6. Ready(next)
    BY <1>0, <1>2, <1>5 DEF Ready, Content
  <1>7. QED
    BY <1>0, <1>1, <1>2, <1>4, <1>5, <1>6

\* The store's chunks and its markers change one document at a time.
LEMMA ChunksChanged ==
  ASSUME Typed, NEW d \in Docs, NEW points \in [AllPositions -> Point \cup {None}],
         store' = [store EXCEPT !.chunks[d] = points]
  PROVE  /\ store' \in Store /\ store'.marker = store.marker
         /\ store'.chunks[d] = points
         /\ \A e \in Docs : e # d => Ids(e)' = Ids(e)
         /\ \A e \in Docs \ {d} : store'.chunks[e] = store.chunks[e]
  <1>1. store \in Store /\ store.chunks \in [Docs -> [AllPositions -> Point \cup {None}]]
    BY DEF Typed, TypeOK, Store
  <1>2. PICK chunks : chunks = [store.chunks EXCEPT ![d] = points]
    OBVIOUS
  <1>3. /\ chunks \in [Docs -> [AllPositions -> Point \cup {None}]] /\ chunks[d] = points
        /\ \A e \in Docs : e # d => chunks[e] = store.chunks[e]
    BY <1>1, <1>2
  <1>4. store' = [store EXCEPT !.chunks = chunks]
    BY <1>1, <1>2 DEF Store
  <1>5. store' \in Store /\ store'.marker = store.marker /\ store'.chunks = chunks
    BY <1>1, <1>3, <1>4 DEF Store
  <1>6. QED
    BY <1>3, <1>5 DEF Ids

\* A batch of missing chunks is embedded and stored.
LEMMA UpsertChunksStep ==
  ASSUME Typed, NEW r \in Runners, UpsertChunks(r)
  PROVE  \E next \in Run :
           /\ RunTo(r, next) /\ Ready(next) /\ runs[r].phase = "embed"
           /\ next.phase = "embed" /\ next.entries = runs[r].entries
           /\ next.fetched = runs[r].fetched /\ next.doc = runs[r].doc /\ next.doc \in Docs
           /\ next.existing = runs[r].existing
           /\ next.missing = runs[r].missing \ NextBatch(r)
           /\ store' \in Store /\ store'.marker = store.marker
           /\ NextBatch(r) \subseteq Positions(Content(r))
           /\ Ids(next.doc)' = Ids(next.doc) \cup NextBatch(r)
           /\ \A d \in Docs : d # next.doc => Ids(d)' = Ids(d)
  <1>0. /\ runs[r] \in Run /\ runs[r].phase = "embed" /\ runs[r].doc \in Docs
        /\ \A d \in runs[r].docs : runs[r].fetched[d] \in Contents
        /\ Content(r) \in Contents /\ runs[r].version \in Nat
        /\ runs[r].missing \subseteq Positions(Content(r))
        /\ runs[r].missing \in SUBSET AllPositions
    BY RunTypes DEF UpsertChunks, Ready, Content
  <1>1. PICK batch : batch = NextBatch(r)
    OBVIOUS
  <1>2. batch \subseteq runs[r].missing
    BY <1>1 DEF NextBatch
  <1>3. PICK d \in Docs : d = runs[r].doc
    BY <1>0
  <1>4. PICK points : points = [n \in AllPositions |->
              IF n \in batch THEN [text |-> Content(r)[n], version |-> runs[r].version]
              ELSE store.chunks[d][n]]
    OBVIOUS
  <1>5. \A n \in batch : [text |-> Content(r)[n], version |-> runs[r].version] \in Point
    <2>1. \A n \in batch : Content(r)[n] \in Texts
      BY <1>0, <1>2 DEF Texts
    <2>2. QED
      BY <1>0, <2>1 DEF Point
  <1>6. None \notin Point
    BY RagAssumption DEF Point
  <1>7. store.chunks[d] \in [AllPositions -> Point \cup {None}]
    BY DEF Typed, TypeOK, Store
  <1>8. /\ points \in [AllPositions -> Point \cup {None}]
        /\ \A n \in AllPositions : points[n] # None <=> n \in batch \/ store.chunks[d][n] # None
    BY <1>4, <1>5, <1>6, <1>7
  <1>9. store' = [store EXCEPT !.chunks[d] = points]
    BY <1>1, <1>3, <1>4 DEF UpsertChunks
  <1>10. /\ store' \in Store /\ store'.marker = store.marker /\ store'.chunks[d] = points
         /\ \A e \in Docs : e # d => Ids(e)' = Ids(e)
    BY <1>8, <1>9, ChunksChanged
  <1>11. Ids(d)' = Ids(d) \cup batch
    BY <1>0, <1>2, <1>8, <1>10 DEF Ids
  <1>12. PICK missing \in SUBSET AllPositions : missing = runs[r].missing \ batch
    BY <1>0
  <1>13. PICK next : next = [runs[r] EXCEPT !.missing = missing]
    OBVIOUS
  <1>14. RunTo(r, next)
    BY <1>1, <1>12, <1>13 DEF UpsertChunks
  <1>15. /\ next \in Run /\ next.phase = "embed" /\ next.entries = runs[r].entries
         /\ next.fetched = runs[r].fetched /\ next.doc = runs[r].doc /\ next.docs = runs[r].docs
         /\ next.existing = runs[r].existing /\ next.missing = missing
    BY <1>0, <1>12, <1>13 DEF Run
  <1>16. Ready(next)
    BY <1>0, <1>12, <1>15 DEF Ready, Content
  <1>17. QED
    BY <1>0, <1>1, <1>2, <1>3, <1>10, <1>11, <1>12, <1>14, <1>15, <1>16

\* What the document no longer has goes, and the index in memory takes its content.
LEMMA DeleteStaleStep ==
  ASSUME Typed, NEW r \in Runners, DeleteStale(r)
  PROVE  \E next \in Run :
           /\ RunTo(r, next) /\ Ready(next) /\ runs[r].phase = "embed" /\ runs[r].missing = {}
           /\ next.phase = "mark" /\ next.fetched = runs[r].fetched
           /\ next.doc = runs[r].doc /\ next.doc \in Docs
           /\ next.entries = [runs[r].entries EXCEPT ![next.doc] = Content(r)]
           /\ store' \in Store /\ store'.marker = store.marker
           /\ Ids(next.doc)' = Ids(next.doc) \ Stale(r)
           /\ \A d \in Docs : d # next.doc => Ids(d)' = Ids(d)
  <1>0. /\ runs[r] \in Run /\ runs[r].phase = "embed" /\ runs[r].missing = {} /\ runs[r].doc \in Docs
        /\ \A d \in runs[r].docs : runs[r].fetched[d] \in Contents
        /\ Content(r) \in Contents
        /\ runs[r].entries \in [Docs -> Contents \cup {None}]
    BY RunTypes DEF DeleteStale, Ready, Content
  <1>1. PICK stale : stale = Stale(r)
    OBVIOUS
  <1>2. PICK d \in Docs : d = runs[r].doc
    BY <1>0
  <1>3. PICK points : points = [n \in AllPositions |-> IF n \in stale THEN None ELSE store.chunks[d][n]]
    OBVIOUS
  <1>4. store.chunks[d] \in [AllPositions -> Point \cup {None}]
    BY DEF Typed, TypeOK, Store
  <1>5. /\ points \in [AllPositions -> Point \cup {None}]
        /\ \A n \in AllPositions : points[n] # None <=> n \notin stale /\ store.chunks[d][n] # None
    BY <1>3, <1>4
  <1>6. store' = [store EXCEPT !.chunks[d] = points]
    BY <1>1, <1>2, <1>3 DEF DeleteStale
  <1>7. /\ store' \in Store /\ store'.marker = store.marker /\ store'.chunks[d] = points
        /\ \A e \in Docs : e # d => Ids(e)' = Ids(e)
    BY <1>5, <1>6, ChunksChanged
  <1>8. Ids(d)' = Ids(d) \ stale
    BY <1>5, <1>7 DEF Ids
  <1>9. PICK entries : entries = [runs[r].entries EXCEPT ![d] = Content(r)]
    OBVIOUS
  <1>10. entries \in [Docs -> Contents \cup {None}]
    BY <1>0, <1>9
  <1>11. PICK next : next = [runs[r] EXCEPT !.phase = "mark", !.entries = entries]
    OBVIOUS
  <1>12. RunTo(r, next)
    BY <1>0, <1>2, <1>9, <1>11 DEF DeleteStale, Run
  <1>13. /\ next \in Run /\ next.phase = "mark" /\ next.entries = entries
         /\ next.fetched = runs[r].fetched /\ next.doc = runs[r].doc /\ next.docs = runs[r].docs
    BY <1>0, <1>10, <1>11 DEF Run, Phases
  <1>14. Ready(next)
    BY <1>0, <1>13 DEF Ready, Content
  <1>15. QED
    BY <1>0, <1>1, <1>2, <1>7, <1>8, <1>9, <1>12, <1>13, <1>14

\* The marker is written last.
LEMMA UpsertDocumentStep ==
  ASSUME Typed, NEW r \in Runners, UpsertDocument(r)
  PROVE  \E next \in Run :
           /\ RunTo(r, next) /\ Ready(next) /\ runs[r].phase = "mark"
           /\ next.phase = "doc" /\ next.fetched = runs[r].fetched
           /\ next.entries = runs[r].entries
           /\ runs[r].doc \in Docs /\ Content(r) \in Contents
           /\ store' \in Store /\ store'.marker = [store.marker EXCEPT ![runs[r].doc] = Content(r)]
           /\ store'.chunks = store.chunks /\ \A d \in Docs : Ids(d)' = Ids(d)
  <1>0. /\ runs[r] \in Run /\ runs[r].phase = "mark" /\ runs[r].doc \in Docs
        /\ \A d \in runs[r].docs : runs[r].fetched[d] \in Contents
        /\ Content(r) \in Contents
    BY RunTypes DEF UpsertDocument, Ready, Content
  <1>1. store \in Store /\ store.marker \in [Docs -> Contents \cup {None}]
    BY DEF Typed, TypeOK, Store
  <1>2. PICK marker : marker = [store.marker EXCEPT ![runs[r].doc] = Content(r)]
    OBVIOUS
  <1>3. marker \in [Docs -> Contents \cup {None}]
    BY <1>0, <1>1, <1>2
  <1>4. store' = [store EXCEPT !.marker = marker]
    BY <1>1, <1>2 DEF UpsertDocument, Store
  <1>5. store' \in Store /\ store'.marker = marker /\ store'.chunks = store.chunks
    BY <1>1, <1>3, <1>4 DEF Store
  <1>6. PICK next : next = [runs[r] EXCEPT !.phase = "doc", !.doc = None, !.existing = {}]
    OBVIOUS
  <1>7. /\ next \in Run /\ next.phase = "doc" /\ next.entries = runs[r].entries
        /\ next.fetched = runs[r].fetched /\ next.docs = runs[r].docs
    BY <1>0, <1>6 DEF Run, Phases
  <1>8. Ready(next)
    BY <1>0, <1>7 DEF Ready
  <1>9. RunTo(r, next)
    BY <1>6 DEF UpsertDocument
  <1>10. \A d \in Docs : Ids(d)' = Ids(d)
    BY <1>5 DEF Ids
  <1>11. QED
    BY <1>0, <1>2, <1>5, <1>7, <1>8, <1>9, <1>10

\* The index is opened, which empties the file, and written in a second step.
LEMMA OpenIndexStep ==
  ASSUME Typed, NEW r \in Runners, OpenIndex(r)
  PROVE  \E next \in Run :
           /\ RunTo(r, next) /\ Ready(next) /\ runs[r].phase = "save"
           /\ next.phase = "write" /\ next.fetched = runs[r].fetched
           /\ next.entries = runs[r].entries
           /\ index' \in Index /\ index'.entries = index.entries
  <1>0. runs[r] \in Run /\ runs[r].phase = "save" /\ index \in Index
    BY RunTypes DEF OpenIndex, Typed, TypeOK
  <1>1. PICK next : next = [runs[r] EXCEPT !.phase = "write"]
    OBVIOUS
  <1>2. /\ next \in Run /\ next.phase = "write" /\ next.entries = runs[r].entries
        /\ next.fetched = runs[r].fetched
    BY <1>0, <1>1 DEF Run, Phases
  <1>3. Ready(next) /\ RunTo(r, next)
    BY <1>1, <1>2 DEF Ready, OpenIndex
  <1>4. index' \in Index /\ index'.entries = index.entries
    BY <1>0 DEF OpenIndex, Index
  <1>5. QED
    BY <1>0, <1>2, <1>3, <1>4

\* The index takes the entries of the run, and the run is over.
LEMMA WriteIndexStep ==
  ASSUME Typed, NEW r \in Runners, WriteIndex(r)
  PROVE  /\ RunTo(r, NoRun) /\ runs[r].phase = "write"
         /\ index' \in Index /\ index'.entries = runs[r].entries
  <1>1. runs[r].entries \in [Docs -> Contents \cup {None}]
    BY RunTypes
  <1>2. QED
    BY <1>1 DEF WriteIndex, Index

\* Retrieval: a version and the index, then what the two searches find.
LEMMA RetrieveStep ==
  ASSUME Typed, NEW mode \in Modes, Retrieve(mode)
  PROVE  query' \in Query /\ query'.phase = "search" /\ query'.entries = index.entries
  <1>1. index.entries \in [Docs -> Contents \cup {None}] /\ corpus \in Nat
    BY DEF Typed, TypeOK, Index
  <1>2. QED
    BY <1>1, Basics DEF Retrieve, Query

LEMMA SearchStep ==
  ASSUME Typed, Search
  PROVE  /\ query' \in Query /\ query.phase = "search" /\ query'.phase = "fetch"
         /\ query'.hits \subseteq DenseSearch \cup Bm25Search
  <1>1. query \in Query
    BY DEF Typed, TypeOK
  <1>2. PICK hits : hits = UNION Rankings
    OBVIOUS
  <1>3. hits \subseteq DenseSearch \cup Bm25Search
    BY <1>2 DEF Rankings
  <1>4. hits \in SUBSET Hits
    BY <1>3 DEF DenseSearch, Bm25Search
  <1>5. QED
    BY <1>1, <1>2, <1>3, <1>4 DEF Search, Query

-----------------------------------------------------------------------------
LEMMA InitTyped == Init => Typed
  <1> SUFFICES ASSUME Init PROVE Typed
    OBVIOUS
  <1>1. \A d \in Docs : 1 \in 1 .. Len(Revisions[d])
    BY RagAssumption
  <1>2. store \in Store
    BY Basics DEF Init, Store
  <1>3. index \in Index
    BY Basics DEF Init, Index
  <1>4. runs \in [Runners -> Run] /\ \A r \in Runners : Ready(runs[r])
    BY Basics DEF Init
  <1>5. revision \in [Docs -> Nat] /\ \A d \in Docs : revision[d] \in 1 .. Len(Revisions[d])
    BY <1>1 DEF Init
  <1>6. corpus \in Nat /\ kills \in Nat /\ cuts \in Nat /\ query \in Query /\ flushed \in Store
    BY <1>2, Basics DEF Init
  <1>7. QED
    BY <1>2, <1>3, <1>4, <1>5, <1>6 DEF Typed, TypeOK

\* A step of one runner.
LEMMA RunnerTyped ==
  ASSUME Typed, NEW r \in Runners, NEW next \in Run, Ready(next), RunTo(r, next),
         store' \in Store, index' \in Index, kills' \in Nat,
         UNCHANGED <<revision, corpus, flushed, query, cuts>>
  PROVE  Typed'
  <1>1. runs' \in [Runners -> Run] /\ \A q \in Runners : Ready(runs'[q])
    BY RunOn
  <1>2. QED
    BY <1>1 DEF Typed, TypeOK

LEMMA NextTyped == Typed /\ [Next]_ragVars => Typed'
  <1> SUFFICES ASSUME Typed, [Next]_ragVars PROVE Typed'
    OBVIOUS
  <1>0. store \in Store /\ flushed \in Store /\ index \in Index /\ kills \in Nat /\ cuts \in Nat
    BY DEF Typed, TypeOK
  <1>1. ASSUME NEW r \in Runners, NEW projects \in {{p} : p \in Projects} \cup {Projects},
               Begin(r, projects)
        PROVE  Typed'
    <2>1. projects \in SUBSET Projects
      OBVIOUS
    <2>2. PICK next \in Run : RunTo(r, next) /\ Ready(next)
      BY <1>1, <2>1, BeginStep
    <2>3. QED
      BY <1>0, <1>1, <2>2, RunnerTyped DEF Begin
  <1>2. ASSUME NEW r \in Runners, Ingest(r)
        PROVE  Typed'
    <2>1. CASE Fetch(r)
      BY <1>0, <2>1, FetchStep, RunnerTyped DEF Fetch
    <2>2. CASE NextDoc(r)
      BY <1>0, <2>2, NextDocStep, RunnerTyped DEF NextDoc
    <2>3. CASE Look(r)
      BY <1>0, <2>3, LookStep, RunnerTyped DEF Look
    <2>4. CASE UpsertChunks(r)
      BY <1>0, <2>4, UpsertChunksStep, RunnerTyped DEF UpsertChunks
    <2>5. CASE DeleteStale(r)
      BY <1>0, <2>5, DeleteStaleStep, RunnerTyped DEF DeleteStale
    <2>6. CASE UpsertDocument(r)
      BY <1>0, <2>6, UpsertDocumentStep, RunnerTyped DEF UpsertDocument
    <2>7. CASE OpenIndex(r)
      BY <1>0, <2>7, OpenIndexStep, RunnerTyped DEF OpenIndex
    <2>8. CASE WriteIndex(r)
      BY <1>0, <2>8, WriteIndexStep, Basics, RunnerTyped DEF WriteIndex
    <2>9. QED
      BY <1>2, <2>1, <2>2, <2>3, <2>4, <2>5, <2>6, <2>7, <2>8 DEF Ingest
  <1>3. ASSUME NEW r \in Runners, Kill(r)
        PROVE  Typed'
    BY <1>0, <1>3, Basics, RunnerTyped DEF Kill
  <1>4. ASSUME NEW d \in Docs, Publish(d)
        PROVE  Typed'
    <2>1. /\ revision \in [Docs -> Nat] /\ \A e \in Docs : revision[e] \in 1 .. Len(Revisions[e])
          /\ Len(Revisions[d]) \in Nat /\ revision[d] < Len(Revisions[d])
          /\ revision' = [revision EXCEPT ![d] = @ + 1]
      BY <1>4, RagAssumption DEF Typed, TypeOK, Publish
    <2>2. \A m \in Nat, n \in Nat \ {0} : n < m => n + 1 \in 1 .. m
      OBVIOUS
    <2>3. revision[d] \in Nat \ {0}
      BY <2>1
    <2>4. revision[d] + 1 \in 1 .. Len(Revisions[d]) /\ revision[d] + 1 \in Nat
      BY <2>1, <2>2, <2>3
    <2>5. revision' \in [Docs -> Nat] /\ \A e \in Docs : revision'[e] \in 1 .. Len(Revisions[e])
      BY <2>1, <2>4
    <2>6. QED
      BY <1>4, <2>5 DEF Publish, Typed, TypeOK
  <1>5. CASE Bump
    BY <1>5 DEF Bump, Typed, TypeOK
  <1>6. CASE Flush
    BY <1>6 DEF Flush, Typed, TypeOK
  <1>7. CASE PowerCut
    <2>1. runs' \in [Runners -> Run] /\ \A r \in Runners : Ready(runs'[r])
      BY <1>7, Basics DEF PowerCut
    <2>2. cuts' \in Nat /\ store' \in Store /\ query' \in Query
      BY <1>0, <1>7, Basics DEF PowerCut
    <2>3. QED
      BY <1>7, <2>1, <2>2 DEF PowerCut, Typed, TypeOK
  <1>8. ASSUME NEW mode \in Modes, Retrieve(mode)
        PROVE  Typed'
    <2>1. query' \in Query
      BY <1>8, RetrieveStep
    <2>2. QED
      BY <1>8, <2>1 DEF Retrieve, Typed, TypeOK
  <1>9. CASE Search
    <2>1. query' \in Query
      BY <1>9, SearchStep
    <2>2. QED
      BY <1>9, <2>1 DEF Search, Typed, TypeOK
  <1>10. CASE GetChunks
    BY <1>10, Basics DEF GetChunks, Typed, TypeOK
  <1>11. CASE UNCHANGED ragVars
    BY <1>11 DEF ragVars, Typed, TypeOK
  <1>12. QED
    BY <1>1, <1>2, <1>3, <1>4, <1>5, <1>6, <1>7, <1>8, <1>9, <1>10, <1>11 DEF Next

\* Whatever runs do at the same time, every variable keeps its type; a run that has a
\* document in hand has its fetched content, and misses only chunks of that content.
THEOREM TypeCorrect == Spec => []TypeOK
  <1>1. Spec => []Typed
    BY InitTyped, NextTyped, PTL DEF Spec
  <1>2. Typed => TypeOK
    BY DEF Typed
  <1>3. QED
    BY <1>1, <1>2, PTL

-----------------------------------------------------------------------------
(***************************************************************************)
(* Documents that do not change (the corpus pins them by commit), whatever *)
(* runners, kills and power cuts there are.  Then no chunk is ever stale,  *)
(* stores only grow until a power cut, and what is marked or indexed is    *)
(* complete in the store.                                                  *)
(***************************************************************************)
Unchanging == \A d \in Docs : Len(Revisions[d]) = 1
First(d) == Revisions[d][1]

IdsIn(s, d) == {n \in AllPositions : s.chunks[d][n] # None}
Complete(s, d) == IdsIn(s, d) = Positions(First(d))

\* A store has chunks of the documents' content only, and marks only complete documents.
Sound(s) ==
  \A d \in Docs : /\ IdsIn(s, d) \subseteq Positions(First(d))
                  /\ s.marker[d] \in {None, First(d)}
                  /\ s.marker[d] # None => Complete(s, d)

\* Index entries are documents that are complete in the store.
Backed(entries) == \A d \in Docs : entries[d] # None => entries[d] = First(d) /\ Complete(store, d)

\* What a run knows of its document holds in the store, whoever else has written since.
Going(run) ==
  /\ \A d \in Docs : run.fetched[d] \in {None, First(d)}
  /\ run.phase = "embed" => /\ run.existing \subseteq Positions(First(run.doc))
                            /\ Positions(First(run.doc)) \ run.missing \subseteq IdsIn(store, run.doc)
  /\ run.phase = "mark" => Complete(store, run.doc)

Found ==
  /\ query.phase = "search" => Backed(query.entries)
  /\ query.phase = "fetch" => \A h \in query.hits : h[2] \in Ids(h[1])

StoresSound == Sound(store) /\ Sound(flushed)
RunsGoing == \A r \in Runners : Going(runs[r])
NothingLost == cuts = 0 => /\ Backed(index.entries) /\ Found
                           /\ \A r \in Runners : Backed(runs[r].entries)
PinnedInv == Typed /\ StoresSound /\ RunsGoing /\ NothingLost

LEMMA InitPinned == Init => PinnedInv
  <1> SUFFICES ASSUME Init PROVE PinnedInv
    OBVIOUS
  <1>1. Typed
    BY InitTyped
  <1>2. \A d \in Docs : IdsIn(store, d) = {} /\ store.marker[d] = None
    BY DEF Init, IdsIn, Empty
  <1>3. StoresSound
    BY <1>2 DEF StoresSound, Sound, Init
  <1>4. RunsGoing
    BY DEF Init, RunsGoing, Going, NoRun, Empty
  <1>5. NothingLost
    BY DEF Init, NothingLost, Backed, Found, NoRun, NoQuery, Empty
  <1>6. QED
    BY <1>1, <1>3, <1>4, <1>5 DEF PinnedInv

\* The sources show the one content they have.
LEMMA SourceIsFirst ==
  ASSUME Unchanging, Typed, NEW d \in Docs
  PROVE  Source(d) = First(d) /\ First(d) \in Contents
  <1>1. revision[d] \in 1 .. 1
    BY DEF Typed, TypeOK, Unchanging
  <1>2. revision[d] = 1
    BY <1>1
  <1>3. QED
    BY <1>2, Basics DEF Source, First, Typed

\* A document that a run has in hand has that content.
LEMMA ContentIsFirst ==
  ASSUME PinnedInv, NEW r \in Runners, runs[r].phase \in {"look", "embed", "mark"}
  PROVE  runs[r].doc \in Docs /\ Content(r) = First(runs[r].doc) /\ Content(r) \in Contents
  <1>1. runs[r].doc \in Docs /\ Content(r) \in Contents
    BY RunTypes DEF PinnedInv, Ready, Content
  <1>2. Content(r) # None
    BY <1>1, RagAssumption
  <1>3. Content(r) \in {None, First(runs[r].doc)}
    BY <1>1 DEF PinnedInv, RunsGoing, Going, Content
  <1>4. QED
    BY <1>1, <1>2, <1>3

Grows == \A d \in Docs : IdsIn(store, d) \subseteq IdsIn(store, d)' /\ IdsIn(store, d)' \subseteq Positions(First(d))

\* Only complete documents are marked.
Marks == \A d \in Docs : \/ store'.marker[d] = store.marker[d]
                         \/ store'.marker[d] = First(d) /\ Complete(store, d)'

\* What is complete stays complete while the store grows.
LEMMA StaysComplete ==
  ASSUME Grows, NEW d \in Docs, Complete(store, d)
  PROVE  Complete(store, d)'
  BY DEF Grows, Complete

LEMMA StaysBacked ==
  ASSUME Grows, NEW entries, Backed(entries)
  PROVE  Backed(entries)'
  BY StaysComplete DEF Backed

LEMMA StaysGoing ==
  ASSUME Grows, NEW run, Ready(run), Going(run)
  PROVE  Going(run)'
  <1>1. CASE run.phase = "embed"
    BY <1>1 DEF Going, Ready, Grows
  <1>2. CASE run.phase = "mark"
    BY <1>2, StaysComplete DEF Going, Ready
  <1>3. QED
    BY <1>1, <1>2 DEF Going

\* A step of one runner by which the store grows, the marker of a complete document
\* included, and the index at most takes the entries of the run.
LEMMA RunnerPinned ==
  ASSUME PinnedInv, NEW r \in Runners, NEW next \in Run, RunTo(r, next), Ready(next), Typed',
         Grows, Marks, flushed' = flushed, query' = query, cuts' = cuts,
         index'.entries = index.entries \/ index'.entries = runs[r].entries,
         Going(next)', cuts = 0 => Backed(next.entries)'
  PROVE  PinnedInv'
  <1>0. Typed
    BY DEF PinnedInv
  <1>1. /\ runs'[r] = next /\ \A q \in Runners : q # r => runs'[q] = runs[q]
        /\ \A q \in Runners : Ready(runs[q])
    BY <1>0, RunOn, RunTypes
  <1>2. StoresSound'
    <2>1. Sound(flushed)'
      BY DEF PinnedInv, StoresSound, Sound, IdsIn, Complete
    <2>2. ASSUME NEW d \in Docs
          PROVE  /\ IdsIn(store, d)' \subseteq Positions(First(d))
                 /\ store'.marker[d] \in {None, First(d)}
                 /\ store'.marker[d] # None => Complete(store, d)'
      <3>1. /\ store.marker[d] \in {None, First(d)}
            /\ store.marker[d] # None => Complete(store, d)
        BY DEF PinnedInv, StoresSound, Sound
      <3>2. CASE store'.marker[d] = store.marker[d]
        BY <3>1, <3>2, StaysComplete DEF Grows
      <3>3. CASE store'.marker[d] = First(d) /\ Complete(store, d)'
        BY <3>3 DEF Grows
      <3>4. QED
        BY <3>2, <3>3 DEF Marks
    <2>3. Sound(store)'
      BY <2>2 DEF Sound
    <2>4. QED
      BY <2>1, <2>3 DEF StoresSound
  <1>3. ASSUME NEW q \in Runners
        PROVE  Going(runs[q])'
    <2>1. CASE q = r
      BY <1>1, <2>1 DEF Going
    <2>2. CASE q # r
      <3>1. Going(runs[q]) /\ Ready(runs[q]) /\ runs'[q] = runs[q]
        BY <1>1, <2>2 DEF PinnedInv, RunsGoing
      <3>2. QED
        BY <3>1, StaysGoing DEF Going
    <2>3. QED
      BY <2>1, <2>2
  <1>4. ASSUME cuts' = 0
        PROVE  /\ Backed(index.entries)' /\ Found'
               /\ \A q \in Runners : Backed(runs[q].entries)'
    <2>0. /\ cuts = 0 /\ Backed(index.entries) /\ Found
          /\ \A q \in Runners : Backed(runs[q].entries)
      BY <1>4 DEF PinnedInv, NothingLost
    <2>1. Backed(index.entries)'
      BY <2>0, StaysBacked DEF Backed
    <2>2. ASSUME NEW q \in Runners
          PROVE  Backed(runs[q].entries)'
      <3>1. CASE q = r
        BY <1>1, <2>0, <3>1 DEF Backed
      <3>2. CASE q # r
        BY <1>1, <2>0, <3>2, StaysBacked DEF Backed
      <3>3. QED
        BY <3>1, <3>2
    <2>3. query' = query
      OBVIOUS
    <2>4. query.phase = "search" => Backed(query.entries)'
      BY <2>0, <2>3, StaysBacked DEF Backed, Found
    <2>5. ASSUME query.phase = "fetch", NEW h \in query.hits
          PROVE  h[2] \in Ids(h[1])'
      <3>1. h[2] \in Ids(h[1]) /\ h \in Hits
        BY <2>0, <2>5, <1>0 DEF Found, Typed, TypeOK, Query
      <3>2. h[1] \in Docs
        BY <3>1 DEF Hits
      <3>3. IdsIn(store, h[1]) \subseteq IdsIn(store, h[1])'
        BY <3>2 DEF Grows
      <3>4. QED
        BY <3>1, <3>3 DEF Ids, IdsIn
    <2>6. Found'
      BY <2>3, <2>4, <2>5 DEF Found
    <2>7. QED
      BY <2>1, <2>2, <2>6
  <1>5. QED
    BY <1>2, <1>3, <1>4 DEF PinnedInv, RunsGoing, NothingLost

\* A step that leaves the store alone lets it grow.
LEMMA SameStore ==
  ASSUME PinnedInv, store' = store
  PROVE  Grows /\ Marks
  BY DEF PinnedInv, StoresSound, Sound, Grows, Marks, IdsIn

\* So does one that changes markers, or adds what belongs to a document.
LEMMA SameChunks ==
  ASSUME PinnedInv, \A d \in Docs : Ids(d)' = Ids(d)
  PROVE  Grows
  BY DEF PinnedInv, StoresSound, Sound, Grows, IdsIn, Ids

\* A run that has no document in hand relies on nothing in the store.
LEMMA NothingInHand ==
  ASSUME NEW run, run.phase \notin {"embed", "mark"},
         \A d \in Docs : run.fetched[d] \in {None, First(d)}
  PROVE  Going(run)'
  BY DEF Going

LEMMA FetchPinned ==
  ASSUME Unchanging, PinnedInv, Typed', NEW r \in Runners, Fetch(r)
  PROVE  PinnedInv'
  <1>0. Typed /\ Going(runs[r]) /\ (cuts = 0 => Backed(runs[r].entries))
    BY DEF PinnedInv, RunsGoing, NothingLost
  <1>1. PICK next \in Run :
          /\ RunTo(r, next) /\ Ready(next) /\ next.phase \in {"doc", "save"}
          /\ next.entries = runs[r].entries
          /\ next.fetched = runs[r].fetched \/ \A d \in Docs : next.fetched[d] \in {None, Source(d)}
    BY <1>0, FetchStep
  <1>2. store' = store /\ flushed' = flushed /\ query' = query /\ cuts' = cuts /\ index' = index
    BY DEF Fetch
  <1>3. Grows /\ Marks
    BY <1>2, SameStore
  <1>4. \A d \in Docs : next.fetched[d] \in {None, First(d)}
    BY <1>0, <1>1, SourceIsFirst DEF Going
  <1>5. Going(next)' /\ (cuts = 0 => Backed(next.entries)')
    BY <1>0, <1>1, <1>3, <1>4, NothingInHand, StaysBacked
  <1>6. QED
    BY <1>1, <1>2, <1>3, <1>5, RunnerPinned

LEMMA NextDocPinned ==
  ASSUME PinnedInv, Typed', NEW r \in Runners, NextDoc(r)
  PROVE  PinnedInv'
  <1>0. Typed /\ Going(runs[r]) /\ (cuts = 0 => Backed(runs[r].entries))
    BY DEF PinnedInv, RunsGoing, NothingLost
  <1>1. PICK next \in Run :
          /\ RunTo(r, next) /\ Ready(next) /\ next.phase \in {"fetch", "doc", "look"}
          /\ next.entries = runs[r].entries /\ next.fetched = runs[r].fetched
    BY <1>0, NextDocStep
  <1>2. store' = store /\ flushed' = flushed /\ query' = query /\ cuts' = cuts /\ index' = index
    BY DEF NextDoc
  <1>3. Grows /\ Marks
    BY <1>2, SameStore
  <1>4. \A d \in Docs : next.fetched[d] \in {None, First(d)}
    BY <1>0, <1>1 DEF Going
  <1>5. Going(next)' /\ (cuts = 0 => Backed(next.entries)')
    BY <1>0, <1>1, <1>3, <1>4, NothingInHand, StaysBacked
  <1>6. QED
    BY <1>1, <1>2, <1>3, <1>5, RunnerPinned

LEMMA LookPinned ==
  ASSUME PinnedInv, Typed', NEW r \in Runners, Look(r)
  PROVE  PinnedInv'
  <1>0. Typed /\ Going(runs[r]) /\ (cuts = 0 => Backed(runs[r].entries))
    BY DEF PinnedInv, RunsGoing, NothingLost
  <1>1. PICK next \in Run :
          /\ RunTo(r, next) /\ Ready(next) /\ runs[r].phase = "look" /\ next.phase = "embed"
          /\ next.entries = runs[r].entries /\ next.fetched = runs[r].fetched
          /\ next.doc = runs[r].doc /\ next.existing = Ids(next.doc)
          /\ next.missing = Positions(Content(r)) \ Ids(next.doc)
    BY <1>0, LookStep
  <1>2. store' = store /\ flushed' = flushed /\ query' = query /\ cuts' = cuts /\ index' = index
    BY DEF Look
  <1>3. Grows /\ Marks
    BY <1>2, SameStore
  <1>4. next.doc \in Docs /\ Content(r) = First(next.doc)
    BY <1>1, ContentIsFirst
  <1>5. Ids(next.doc) = IdsIn(store, next.doc) /\ IdsIn(store, next.doc)' = IdsIn(store, next.doc)
    BY <1>2 DEF Ids, IdsIn
  <1>6. /\ next.existing \subseteq Positions(First(next.doc))
        /\ Positions(First(next.doc)) \ next.missing \subseteq IdsIn(store, next.doc)'
    BY <1>1, <1>3, <1>4, <1>5 DEF Grows
  <1>7. Going(next)'
    BY <1>0, <1>1, <1>6 DEF Going
  <1>8. cuts = 0 => Backed(next.entries)'
    BY <1>0, <1>1, <1>3, StaysBacked
  <1>9. QED
    BY <1>1, <1>2, <1>3, <1>7, <1>8, RunnerPinned

LEMMA UpsertChunksPinned ==
  ASSUME PinnedInv, Typed', NEW r \in Runners, UpsertChunks(r)
  PROVE  PinnedInv'
  <1>0. Typed /\ StoresSound /\ Going(runs[r]) /\ (cuts = 0 => Backed(runs[r].entries))
    BY DEF PinnedInv, RunsGoing, NothingLost
  <1>1. PICK next \in Run :
          /\ RunTo(r, next) /\ Ready(next) /\ runs[r].phase = "embed" /\ next.phase = "embed"
          /\ next.entries = runs[r].entries /\ next.fetched = runs[r].fetched
          /\ next.doc = runs[r].doc /\ next.doc \in Docs /\ next.existing = runs[r].existing
          /\ next.missing = runs[r].missing \ NextBatch(r)
          /\ store'.marker = store.marker /\ NextBatch(r) \subseteq Positions(Content(r))
          /\ Ids(next.doc)' = Ids(next.doc) \cup NextBatch(r)
          /\ \A d \in Docs : d # next.doc => Ids(d)' = Ids(d)
    BY <1>0, UpsertChunksStep
  <1>2. flushed' = flushed /\ query' = query /\ cuts' = cuts /\ index' = index
    BY DEF UpsertChunks
  <1>3. PICK batch : batch = NextBatch(r)
    OBVIOUS
  <1>4. Content(r) = First(next.doc)
    BY <1>1, ContentIsFirst
  <1>5. \A d \in Docs : Ids(d) = IdsIn(store, d) /\ Ids(d)' = IdsIn(store, d)'
    BY DEF Ids, IdsIn
  <1>6. /\ IdsIn(store, next.doc)' = IdsIn(store, next.doc) \cup batch
        /\ batch \subseteq Positions(First(next.doc))
        /\ \A d \in Docs : d # next.doc => IdsIn(store, d)' = IdsIn(store, d)
    BY <1>1, <1>3, <1>4, <1>5
  <1>7. Grows /\ Marks
    BY <1>0, <1>1, <1>6 DEF Grows, Marks, StoresSound, Sound
  <1>8. /\ next.existing \subseteq Positions(First(next.doc))
        /\ Positions(First(next.doc)) \ next.missing \subseteq IdsIn(store, next.doc)'
    BY <1>0, <1>1, <1>3, <1>6 DEF Going
  <1>9. Going(next)'
    BY <1>0, <1>1, <1>8 DEF Going
  <1>10. cuts = 0 => Backed(next.entries)'
    BY <1>0, <1>1, <1>7, StaysBacked
  <1>11. QED
    BY <1>1, <1>2, <1>7, <1>9, <1>10, RunnerPinned

LEMMA DeleteStalePinned ==
  ASSUME PinnedInv, Typed', NEW r \in Runners, DeleteStale(r)
  PROVE  PinnedInv'
  <1>0. Typed /\ StoresSound /\ Going(runs[r]) /\ (cuts = 0 => Backed(runs[r].entries))
    BY DEF PinnedInv, RunsGoing, NothingLost
  <1>1. PICK next \in Run :
          /\ RunTo(r, next) /\ Ready(next) /\ runs[r].phase = "embed" /\ runs[r].missing = {}
          /\ next.phase = "mark" /\ next.fetched = runs[r].fetched
          /\ next.doc = runs[r].doc /\ next.doc \in Docs
          /\ next.entries = [runs[r].entries EXCEPT ![next.doc] = Content(r)]
          /\ store'.marker = store.marker
          /\ Ids(next.doc)' = Ids(next.doc) \ Stale(r)
          /\ \A d \in Docs : d # next.doc => Ids(d)' = Ids(d)
    BY <1>0, DeleteStaleStep
  <1>2. flushed' = flushed /\ query' = query /\ cuts' = cuts /\ index' = index
    BY DEF DeleteStale
  <1>3. Content(r) = First(next.doc)
    BY <1>1, ContentIsFirst
  <1>4. Stale(r) = {}
    BY <1>0, <1>1, <1>3 DEF Going, Stale
  <1>5. \A d \in Docs : Ids(d)' = Ids(d)
    BY <1>1, <1>4
  <1>6. Grows /\ Marks
    BY <1>1, <1>5, SameChunks DEF Marks
  <1>7. Complete(store, next.doc)
    BY <1>0, <1>1 DEF Complete, Going, StoresSound, Sound
  <1>8. Complete(store, next.doc)'
    BY <1>1, <1>6, <1>7, StaysComplete
  <1>9. Going(next)'
    BY <1>0, <1>1, <1>8 DEF Going
  <1>10. runs[r].entries \in [Docs -> Contents \cup {None}]
    BY <1>0, RunTypes
  <1>11. ASSUME cuts = 0, NEW d \in Docs, next.entries[d] # None
         PROVE  next.entries[d] = First(d) /\ Complete(store, d)'
    <2>1. CASE d = next.doc
      BY <1>1, <1>3, <1>8, <1>10, <2>1
    <2>2. CASE d # next.doc
      <3>1. next.entries[d] = runs[r].entries[d]
        BY <1>1, <1>10, <2>2
      <3>2. next.entries[d] = First(d) /\ Complete(store, d)
        BY <1>0, <1>11, <3>1 DEF Backed
      <3>3. QED
        BY <1>6, <3>2, StaysComplete
    <2>3. QED
      BY <2>1, <2>2
  <1>12. cuts = 0 => Backed(next.entries)'
    BY <1>11 DEF Backed
  <1>13. QED
    BY <1>1, <1>2, <1>6, <1>9, <1>12, RunnerPinned

LEMMA UpsertDocumentPinned ==
  ASSUME PinnedInv, Typed', NEW r \in Runners, UpsertDocument(r)
  PROVE  PinnedInv'
  <1>0. Typed /\ StoresSound /\ Going(runs[r]) /\ (cuts = 0 => Backed(runs[r].entries))
    BY DEF PinnedInv, RunsGoing, NothingLost
  <1>1. PICK next \in Run :
          /\ RunTo(r, next) /\ Ready(next) /\ runs[r].phase = "mark" /\ next.phase = "doc"
          /\ next.fetched = runs[r].fetched /\ next.entries = runs[r].entries
          /\ runs[r].doc \in Docs
          /\ store'.marker = [store.marker EXCEPT ![runs[r].doc] = Content(r)]
          /\ \A d \in Docs : Ids(d)' = Ids(d)
    BY <1>0, UpsertDocumentStep
  <1>2. flushed' = flushed /\ query' = query /\ cuts' = cuts /\ index' = index
    BY DEF UpsertDocument
  <1>3. Content(r) = First(runs[r].doc)
    BY <1>1, ContentIsFirst
  <1>4. Grows
    BY <1>1, SameChunks
  <1>5. PICK d \in Docs : d = runs[r].doc
    BY <1>1
  <1>6. Complete(store, d)'
    BY <1>0, <1>1, <1>4, <1>5, StaysComplete DEF Going
  <1>7. store.marker \in [Docs -> Contents \cup {None}]
    BY <1>0 DEF Typed, TypeOK, Store
  <1>8. store'.marker[d] = First(d) /\ \A e \in Docs : e # d => store'.marker[e] = store.marker[e]
    BY <1>1, <1>3, <1>5, <1>7
  <1>9. Marks
    BY <1>6, <1>8 DEF Marks
  <1>10. \A e \in Docs : next.fetched[e] \in {None, First(e)}
    BY <1>0, <1>1 DEF Going
  <1>11. Going(next)' /\ (cuts = 0 => Backed(next.entries)')
    BY <1>0, <1>1, <1>4, <1>10, NothingInHand, StaysBacked
  <1>12. QED
    BY <1>1, <1>2, <1>4, <1>9, <1>11, RunnerPinned

LEMMA IndexPinned ==
  ASSUME PinnedInv, Typed', NEW r \in Runners, OpenIndex(r) \/ WriteIndex(r) \/ Kill(r)
  PROVE  PinnedInv'
  <1>0. Typed /\ Going(runs[r]) /\ (cuts = 0 => Backed(runs[r].entries))
    BY DEF PinnedInv, RunsGoing, NothingLost
  <1>1. store' = store /\ flushed' = flushed /\ query' = query /\ cuts' = cuts
    BY DEF OpenIndex, WriteIndex, Kill
  <1>2. Grows /\ Marks
    BY <1>1, SameStore
  <1>3. CASE OpenIndex(r)
    <2>1. PICK next \in Run :
            /\ RunTo(r, next) /\ Ready(next) /\ next.phase = "write"
            /\ next.fetched = runs[r].fetched /\ next.entries = runs[r].entries
            /\ index'.entries = index.entries
      BY <1>0, <1>3, OpenIndexStep
    <2>2. \A d \in Docs : next.fetched[d] \in {None, First(d)}
      BY <1>0, <2>1 DEF Going
    <2>3. Going(next)' /\ (cuts = 0 => Backed(next.entries)')
      BY <1>0, <1>2, <2>1, <2>2, NothingInHand, StaysBacked
    <2>4. QED
      BY <1>1, <1>2, <2>1, <2>3, RunnerPinned
  <1>4. CASE WriteIndex(r) \/ Kill(r)
    <2>1. RunTo(r, NoRun) /\ (index'.entries = index.entries \/ index'.entries = runs[r].entries)
      BY <1>0, <1>4, WriteIndexStep DEF Kill
    <2>2. Going(NoRun)' /\ Backed(NoRun.entries)'
      BY DEF NoRun, Empty, Going, Backed
    <2>3. QED
      BY <1>1, <1>2, <2>1, <2>2, Basics, RunnerPinned
  <1>5. QED
    BY <1>3, <1>4

LEMMA BeginPinned ==
  ASSUME PinnedInv, Typed', NEW r \in Runners, NEW projects \in SUBSET Projects, Begin(r, projects)
  PROVE  PinnedInv'
  <1>0. Typed /\ (cuts = 0 => Backed(index.entries))
    BY DEF PinnedInv, NothingLost
  <1>1. PICK next \in Run :
          /\ RunTo(r, next) /\ Ready(next) /\ next.phase = "fetch"
          /\ next.entries = index.entries /\ next.fetched = Empty
    BY <1>0, BeginStep
  <1>2. store' = store /\ flushed' = flushed /\ query' = query /\ cuts' = cuts /\ index' = index
    BY DEF Begin
  <1>3. Grows /\ Marks
    BY <1>2, SameStore
  <1>4. \A d \in Docs : next.fetched[d] \in {None, First(d)}
    BY <1>1 DEF Empty
  <1>5. Going(next)' /\ (cuts = 0 => Backed(next.entries)')
    BY <1>0, <1>1, <1>3, <1>4, NothingInHand, StaysBacked
  <1>6. QED
    BY <1>1, <1>2, <1>3, <1>5, RunnerPinned

LEMMA QueryPinned ==
  ASSUME PinnedInv, Typed', (\E mode \in Modes : Retrieve(mode)) \/ Search \/ GetChunks
  PROVE  PinnedInv'
  <1>0. Typed /\ (cuts = 0 => Backed(index.entries) /\ Found)
    BY DEF PinnedInv, NothingLost
  <1>1. store' = store /\ flushed' = flushed /\ index' = index /\ runs' = runs /\ cuts' = cuts
    BY DEF Retrieve, Search, GetChunks
  <1>2. StoresSound' /\ RunsGoing'
    BY <1>1 DEF PinnedInv, StoresSound, Sound, IdsIn, Complete, RunsGoing, Going
  <1>3. cuts = 0 => Backed(index.entries)' /\ \A r \in Runners : Backed(runs[r].entries)'
    BY <1>1 DEF PinnedInv, NothingLost, Backed, IdsIn, Complete
  <1>4. ASSUME cuts = 0
        PROVE  Found'
    <2>1. ASSUME NEW mode \in Modes, Retrieve(mode)
          PROVE  Found'
      <3>1. query'.phase = "search" /\ query'.entries = index.entries
        BY <1>0, <2>1, RetrieveStep
      <3>2. Backed(query.entries)'
        BY <1>0, <1>1, <1>4, <3>1 DEF Backed, IdsIn, Complete
      <3>3. QED
        BY <3>1, <3>2 DEF Found
    <2>2. CASE Search
      <3>1. /\ query.phase = "search" /\ query'.phase = "fetch"
            /\ query'.hits \subseteq DenseSearch \cup Bm25Search
        BY <1>0, <2>2, SearchStep
      <3>2. ASSUME NEW h \in DenseSearch
            PROVE  h[2] \in Ids(h[1])
        BY <3>2 DEF DenseSearch, Hits, Ids
      <3>3. ASSUME NEW h \in Bm25Search
            PROVE  h[2] \in Ids(h[1])
        <4>1. h \in Hits /\ query.entries[h[1]] # None /\ h[2] \in Positions(query.entries[h[1]])
          BY <3>3 DEF Bm25Search
        <4>2. h[1] \in Docs
          BY <4>1 DEF Hits
        <4>3. query.entries[h[1]] = First(h[1]) /\ Complete(store, h[1])
          BY <1>0, <1>4, <3>1, <4>1, <4>2 DEF Found, Backed
        <4>4. QED
          BY <4>1, <4>3 DEF Complete, Ids, IdsIn
      <3>4. \A h \in query'.hits : h[2] \in Ids(h[1])
        BY <3>1, <3>2, <3>3
      <3>5. QED
        BY <1>1, <3>1, <3>4 DEF Found, Ids
    <2>3. CASE GetChunks
      BY <2>3 DEF GetChunks, NoQuery, Found
    <2>4. QED
      BY <2>1, <2>2, <2>3
  <1>5. QED
    BY <1>1, <1>2, <1>3, <1>4 DEF PinnedInv, NothingLost

LEMMA PowerPinned ==
  ASSUME PinnedInv, Typed', Flush \/ PowerCut
  PROVE  PinnedInv'
  <1>0. Typed /\ StoresSound /\ RunsGoing /\ NothingLost
    BY DEF PinnedInv
  <1>1. CASE Flush
    <2>1. /\ flushed' = store /\ store' = store /\ index' = index /\ runs' = runs
          /\ query' = query /\ cuts' = cuts
      BY <1>1 DEF Flush
    <2>2. StoresSound'
      BY <1>0, <2>1 DEF StoresSound, Sound, IdsIn, Complete
    <2>3. RunsGoing' /\ NothingLost'
      BY <1>0, <2>1 DEF RunsGoing, Going, NothingLost, Backed, Found, Ids, IdsIn, Complete
    <2>4. QED
      BY <2>2, <2>3 DEF PinnedInv
  <1>2. CASE PowerCut
    <2>1. StoresSound'
      BY <1>0, <1>2 DEF PowerCut, StoresSound, Sound, IdsIn, Complete
    <2>2. RunsGoing'
      BY <1>2 DEF PowerCut, RunsGoing, Going, NoRun, Empty
    <2>3. cuts \in Nat /\ cuts' = cuts + 1
      BY <1>0, <1>2 DEF PowerCut, Typed, TypeOK
    <2>4. cuts' # 0
      BY <2>3
    <2>5. QED
      BY <2>1, <2>2, <2>4 DEF PinnedInv, NothingLost
  <1>3. QED
    BY <1>1, <1>2

LEMMA NextPinned ==
  ASSUME Unchanging, PinnedInv, [Next]_ragVars
  PROVE  PinnedInv'
  <1>0. Typed'
    BY NextTyped DEF PinnedInv
  <1>1. ASSUME NEW r \in Runners, NEW projects \in {{p} : p \in Projects} \cup {Projects},
               Begin(r, projects)
        PROVE  PinnedInv'
    <2>1. projects \in SUBSET Projects
      OBVIOUS
    <2>2. QED
      BY <1>0, <1>1, <2>1, BeginPinned
  <1>2. ASSUME NEW r \in Runners, Ingest(r) \/ Kill(r)
        PROVE  PinnedInv'
    BY <1>0, <1>2, FetchPinned, NextDocPinned, LookPinned, UpsertChunksPinned, DeleteStalePinned,
       UpsertDocumentPinned, IndexPinned DEF Ingest
  <1>3. CASE store' = store /\ flushed' = flushed /\ index' = index /\ runs' = runs
             /\ query' = query /\ cuts' = cuts
    BY <1>0, <1>3 DEF PinnedInv, StoresSound, Sound, IdsIn, Complete, RunsGoing, Going, NothingLost,
                      Backed, Found, Ids
  <1>4. QED
    BY <1>0, <1>1, <1>2, <1>3, PowerPinned, QueryPinned DEF Next, Publish, Bump, ragVars

LEMMA PinnedAlways ==
  ASSUME Unchanging
  PROVE  Spec => []PinnedInv
  <1>1. PinnedInv /\ [Next]_ragVars => PinnedInv'
    BY NextPinned
  <1>2. QED
    BY <1>1, InitPinned, PTL DEF Spec

\* Resumption is safe over a pinned corpus: however many runs overlap, wherever they are
\* killed and whatever the store loses in power cuts, a document that ingest would skip by
\* its marker has every one of its chunks in the store and no other.
THEOREM SkippedIsComplete ==
  ASSUME Unchanging
  PROVE  Spec => []Redetected
  <1>1. ASSUME PinnedInv
        PROVE  Redetected
    <2>1. ASSUME NEW d \in Docs, store.marker[d] = Source(d)
          PROVE  Ids(d) = Positions(Source(d))
      <3>1. Source(d) = First(d) /\ Source(d) # None
        BY <1>1, SourceIsFirst, RagAssumption DEF PinnedInv
      <3>2. Complete(store, d)
        BY <1>1, <2>1, <3>1 DEF PinnedInv, StoresSound, Sound
      <3>3. QED
        BY <3>1, <3>2 DEF Complete, Ids, IdsIn
    <2>2. QED
      BY <2>1 DEF Redetected
  <1>2. QED
    BY <1>1, PinnedAlways, PTL

\* Retrieval beside any number of runs over a pinned corpus finds every hit in the store:
\* neither the index of an overlapping run nor a chunk that another run writes gets ahead
\* of what get_chunk sees, as long as the machine does not lose writes.
THEOREM HitsResolve ==
  ASSUME Unchanging
  PROVE  Spec => []Resolvable
  <1>1. PinnedInv => Resolvable
    BY DEF PinnedInv, NothingLost, Found, Resolvable
  <1>2. QED
    BY <1>1, PinnedAlways, PTL

-----------------------------------------------------------------------------
(***************************************************************************)
(* Runs that do not overlap, over documents that may change at any time.   *)
(***************************************************************************)
OneAtATime == \A r, s \in Runners : r = s

\* The index a run carries is the markers of the store, but for the document it is
\* about to mark; the one on disk is the markers when no run is under way.
Carried(run, file) ==
  /\ run.phase = "idle" => file.entries = store.marker
  /\ run.phase \notin {"idle", "mark"} => run.entries = store.marker
  /\ run.phase = "mark" => run.entries = [store.marker EXCEPT ![run.doc] = run.fetched[run.doc]]

InStep ==
  kills = 0 /\ cuts = 0 =>
    /\ Quiet => index.entries = store.marker
    /\ \A r \in Runners : Carried(runs[r], index)
SoloInv == Typed /\ OnlyMissing /\ InStep

LEMMA InitSolo == Init => SoloInv
  <1> SUFFICES ASSUME Init PROVE SoloInv
    OBVIOUS
  <1>1. Typed
    BY InitTyped
  <1>2. OnlyMissing
    BY DEF Init, OnlyMissing, NoRun
  <1>3. InStep
    BY DEF Init, InStep, Carried, NoRun
  <1>4. QED
    BY <1>1, <1>2, <1>3 DEF SoloInv

\* The only runner goes on to a run that embeds what is missing and carries the markers.
LEMMA RunnerSolo ==
  ASSUME OneAtATime, SoloInv, NEW r \in Runners, NEW next \in Run, RunTo(r, next), Ready(next), Typed',
         next.phase = "embed" => next.missing \cap Ids(next.doc)' = {},
         kills' = 0 /\ cuts' = 0 => Carried(next, index)'
  PROVE  SoloInv'
  <1>1. runs'[r] = next /\ \A q \in Runners : q = r
    BY RunOn DEF SoloInv, OneAtATime
  <1>2. OnlyMissing'
    BY <1>1 DEF OnlyMissing, Ids
  <1>3. ASSUME kills' = 0 /\ cuts' = 0
        PROVE  /\ Quiet' => index'.entries = store'.marker
               /\ \A q \in Runners : Carried(runs[q], index)'
    BY <1>1, <1>3 DEF Quiet, Running, Carried
  <1>4. QED
    BY <1>2, <1>3 DEF SoloInv, InStep

\* A step that leaves runs, store and index alone.
LEMMA OthersSolo ==
  ASSUME SoloInv, Typed', store' = store, runs' = runs, index' = index, kills' = kills, cuts' = cuts
  PROVE  SoloInv'
  BY DEF SoloInv, OnlyMissing, Ids, InStep, Quiet, Running, Carried

LEMMA IngestSolo ==
  ASSUME OneAtATime, SoloInv, Typed', NEW r \in Runners, Ingest(r)
  PROVE  SoloInv'
  <1>0. /\ Typed /\ kills' = kills /\ cuts' = cuts
        /\ runs[r].phase = "embed" => runs[r].missing \cap Ids(runs[r].doc) = {}
        /\ kills = 0 /\ cuts = 0 => Carried(runs[r], index)
    BY DEF SoloInv, InStep, OnlyMissing, Ingest, Fetch, NextDoc, Look, UpsertChunks, DeleteStale,
           UpsertDocument, OpenIndex, WriteIndex
  <1>1. CASE Fetch(r)
    <2>1. PICK next \in Run :
            /\ RunTo(r, next) /\ Ready(next) /\ runs[r].phase = "fetch"
            /\ next.phase \in {"doc", "save"} /\ next.entries = runs[r].entries
      BY <1>0, <1>1, FetchStep
    <2>2. kills' = 0 /\ cuts' = 0 => Carried(next, index)'
      BY <1>0, <1>1, <2>1 DEF Fetch, Carried
    <2>3. QED
      BY <2>1, <2>2, RunnerSolo
  <1>2. CASE NextDoc(r)
    <2>1. PICK next \in Run :
            /\ RunTo(r, next) /\ Ready(next) /\ runs[r].phase = "doc"
            /\ next.phase \in {"fetch", "doc", "look"} /\ next.entries = runs[r].entries
      BY <1>0, <1>2, NextDocStep
    <2>2. kills' = 0 /\ cuts' = 0 => Carried(next, index)'
      BY <1>0, <1>2, <2>1 DEF NextDoc, Carried
    <2>3. QED
      BY <2>1, <2>2, RunnerSolo
  <1>3. CASE Look(r)
    <2>1. PICK next \in Run :
            /\ RunTo(r, next) /\ Ready(next) /\ runs[r].phase = "look" /\ next.phase = "embed"
            /\ next.entries = runs[r].entries
            /\ next.missing = Positions(Content(r)) \ Ids(next.doc)
      BY <1>0, <1>3, LookStep
    <2>2. kills' = 0 /\ cuts' = 0 => Carried(next, index)'
      BY <1>0, <1>3, <2>1 DEF Look, Carried
    <2>3. Ids(next.doc)' = Ids(next.doc)
      BY <1>3 DEF Look, Ids
    <2>4. next.missing \cap Ids(next.doc)' = {}
      BY <2>1, <2>3
    <2>5. QED
      BY <2>1, <2>2, <2>4, RunnerSolo
  <1>4. CASE UpsertChunks(r)
    <2>1. PICK next \in Run :
            /\ RunTo(r, next) /\ Ready(next) /\ runs[r].phase = "embed" /\ next.phase = "embed"
            /\ next.entries = runs[r].entries /\ next.doc = runs[r].doc
            /\ next.missing = runs[r].missing \ NextBatch(r)
            /\ store'.marker = store.marker
            /\ Ids(next.doc)' = Ids(next.doc) \cup NextBatch(r)
      BY <1>0, <1>4, UpsertChunksStep
    <2>2. kills' = 0 /\ cuts' = 0 => Carried(next, index)'
      BY <1>0, <2>1 DEF Carried
    <2>3. next.missing \cap Ids(next.doc)' = {}
      BY <1>0, <2>1
    <2>4. QED
      BY <2>1, <2>2, <2>3, RunnerSolo
  <1>5. CASE DeleteStale(r)
    <2>1. PICK next \in Run :
            /\ RunTo(r, next) /\ Ready(next) /\ runs[r].phase = "embed" /\ next.phase = "mark"
            /\ next.fetched = runs[r].fetched /\ next.doc = runs[r].doc
            /\ next.entries = [runs[r].entries EXCEPT ![next.doc] = Content(r)]
            /\ store'.marker = store.marker
      BY <1>0, <1>5, DeleteStaleStep
    <2>2. Content(r) = next.fetched[next.doc]
      BY <2>1 DEF Content
    <2>3. kills' = 0 /\ cuts' = 0 => Carried(next, index)'
      BY <1>0, <2>1, <2>2 DEF Carried
    <2>4. QED
      BY <2>1, <2>3, RunnerSolo
  <1>6. CASE UpsertDocument(r)
    <2>1. PICK next \in Run :
            /\ RunTo(r, next) /\ Ready(next) /\ runs[r].phase = "mark" /\ next.phase = "doc"
            /\ next.entries = runs[r].entries
            /\ store'.marker = [store.marker EXCEPT ![runs[r].doc] = Content(r)]
      BY <1>0, <1>6, UpsertDocumentStep
    <2>2. kills' = 0 /\ cuts' = 0 => Carried(next, index)'
      BY <1>0, <2>1 DEF Carried, Content
    <2>3. QED
      BY <2>1, <2>2, RunnerSolo
  <1>7. CASE OpenIndex(r)
    <2>1. PICK next \in Run :
            /\ RunTo(r, next) /\ Ready(next) /\ runs[r].phase = "save" /\ next.phase = "write"
            /\ next.entries = runs[r].entries
      BY <1>0, <1>7, OpenIndexStep
    <2>2. kills' = 0 /\ cuts' = 0 => Carried(next, index)'
      BY <1>0, <1>7, <2>1 DEF OpenIndex, Carried
    <2>3. QED
      BY <2>1, <2>2, RunnerSolo
  <1>8. CASE WriteIndex(r)
    <2>1. RunTo(r, NoRun) /\ runs[r].phase = "write" /\ index'.entries = runs[r].entries
      BY <1>0, <1>8, WriteIndexStep
    <2>2. NoRun \in Run /\ Ready(NoRun) /\ NoRun.phase = "idle"
      BY Basics DEF NoRun
    <2>3. kills' = 0 /\ cuts' = 0 => Carried(NoRun, index)'
      BY <1>0, <1>8, <2>1, <2>2 DEF WriteIndex, Carried
    <2>4. QED
      BY <2>1, <2>2, <2>3, RunnerSolo
  <1>9. QED
    BY <1>1, <1>2, <1>3, <1>4, <1>5, <1>6, <1>7, <1>8 DEF Ingest

LEMMA NextSolo ==
  ASSUME OneAtATime, SoloInv, [Next]_ragVars
  PROVE  SoloInv'
  <1>0. Typed /\ Typed'
    BY NextTyped DEF SoloInv
  <1>1. ASSUME NEW r \in Runners, NEW projects \in {{p} : p \in Projects} \cup {Projects},
               Begin(r, projects)
        PROVE  SoloInv'
    <2>1. projects \in SUBSET Projects
      OBVIOUS
    <2>2. PICK next \in Run :
            RunTo(r, next) /\ Ready(next) /\ next.phase = "fetch" /\ next.entries = index.entries
      BY <1>0, <1>1, <2>1, BeginStep
    <2>3. runs[r].phase = "idle" /\ kills' = kills /\ cuts' = cuts /\ store' = store
      BY <1>1 DEF Begin, Running
    <2>4. kills' = 0 /\ cuts' = 0 => Carried(next, index)'
      BY <2>2, <2>3 DEF SoloInv, InStep, Carried
    <2>5. QED
      BY <1>0, <2>2, <2>4, RunnerSolo
  <1>2. ASSUME NEW r \in Runners, Ingest(r)
        PROVE  SoloInv'
    BY <1>0, <1>2, IngestSolo
  <1>3. ASSUME NEW r \in Runners, Kill(r)
        PROVE  SoloInv'
    <2>1. RunTo(r, NoRun) /\ kills \in Nat /\ kills' = kills + 1
      BY <1>0, <1>3 DEF Kill, Typed, TypeOK
    <2>2. kills' # 0
      BY <2>1
    <2>3. NoRun \in Run /\ Ready(NoRun) /\ NoRun.phase = "idle"
      BY Basics DEF NoRun
    <2>4. QED
      BY <1>0, <2>1, <2>2, <2>3, RunnerSolo
  <1>4. CASE PowerCut
    <2>1. \A r \in Runners : runs'[r].phase = "idle"
      BY <1>4 DEF PowerCut, NoRun
    <2>2. cuts \in Nat /\ cuts' = cuts + 1
      BY <1>0, <1>4 DEF PowerCut, Typed, TypeOK
    <2>3. cuts' # 0
      BY <2>2
    <2>4. QED
      BY <1>0, <2>1, <2>3 DEF SoloInv, OnlyMissing, InStep
  <1>5. QED
    BY <1>0, <1>1, <1>2, <1>3, <1>4, OthersSolo
       DEF Next, Publish, Bump, Flush, Retrieve, Search, GetChunks, ragVars

LEMMA SoloAlways ==
  ASSUME OneAtATime
  PROVE  Spec => []SoloInv
  <1>1. SoloInv /\ [Next]_ragVars => SoloInv'
    BY NextSolo
  <1>2. QED
    BY <1>1, InitSolo, PTL DEF Spec

\* Resumption pays for no chunk twice: while runs do not overlap, a run embeds only chunks
\* that the store does not have, whatever was killed before it, whatever changed meanwhile
\* and however the missing chunks are cut into batches.
THEOREM MissingIsMissing ==
  ASSUME OneAtATime
  PROVE  Spec => []OnlyMissing
  <1>1. SoloInv => OnlyMissing
    BY DEF SoloInv
  <1>2. QED
    BY <1>1, SoloAlways, PTL

\* The two rankings that hybrid retrieval fuses rank the same documents: while runs do not
\* overlap and none is killed, the BM25 index holds between runs what is marked, as it was
\* marked, although documents change, are skipped, or are ingested project by project.
THEOREM IndexMatchesMarkers ==
  ASSUME OneAtATime
  PROVE  Spec => []Indexed
  <1>1. SoloInv => Indexed
    BY DEF SoloInv, InStep, Indexed
  <1>2. QED
    BY <1>1, SoloAlways, PTL

=============================================================================
