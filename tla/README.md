# agentlake: TLA+ models, checks and proofs

agentlake runs an LLM agent over a documentation corpus and measures it. Every
model call, tool call and retrieval emits one trace event; the events go through
Kafka into a hot store (ClickHouse) and a cold store (Iceberg, written by two
Flink jobs); a changelog of the prompts (Postgres, Debezium, Kafka, Iceberg)
becomes the dimension the costs are joined with; an evaluation harness spends
money under a cap and compares its results with a baseline.

What these parts have in common is that correctness lives in the *steps*: a reset
token that has to be redeemed in its own context, an insert before a commit, a
marker written last, a path read before a cancel. That is what the modules here
model. File paths below are relative to the repository's root.

## 1. Inventory

| Part | State it keeps | Operations | Hard behaviour | What makes it correct |
|---|---|---|---|---|
| **Trace context and spans** `services/sdk/telemetry.py` (used by gateway, agent, MCP server, RAG) | three context variables; reset tokens on the stack of with-blocks; the current context of each task | `session()`, `span()`, their exits, `_emit_event`; contexts copied by tasks, sent as headers to another process | tasks interleave; a context is carried to another process and used late or twice; exceptions unwind; a stream is cancelled between two frames and finalised elsewhere | a parent is always an earlier span of the same trace; one root per trace; every block gives back the context it found; one event per span, children first |
| **Kafka emitter** `telemetry.py:427-607` | the configuration, the producer, a lock, the producer's queue | `configure_kafka`, lazy construction, `warmup`, `produce`, delivery, flush at exit | threads race for the first producer; the configuration is read outside the lock; full queue; exit with events in flight | at most one producer per configuration; no event is lost in silence |
| **Hot path** `stream/clickhouse/*`, read by `hot_path_verify.py` and the MCP server's `get_trace` | Kafka engine offsets, deduplicating table, dead letters | `bootstrap.py [--recreate]`, blocks through two materialised views, merges, TTL, the readers | at-least-once blocks; a script that stops between two statements; a poison message; parents that come after their children | every message is in exactly one of two tables; the reader's MATCH means complete; a tree shows every span read |
| **Prompt changelog** `scripts/register_connector.py`, `scripts/cdc_land.py`, `dbt/models/staging/stg_prompt_versions.sql` | WAL, connector position, topic, consumer group, Iceberg table | commits; register, delete, restart the connector; `land` (count, guard, assign, poll, insert, commit), `create-table --recreate`, offset reset | a crash between insert and commit; two landers; a recreated table beside old offsets; snapshots that repeat rows; a topic that starts again at offset 0 | the landed changelog has no hole; the latest row per key is the latest version; the dimension only moves forward |
| **Cold path** `stream/flink/submit.sh`, `stop.sh`, `jobs/*.sql`, `create_tables.py` | jobs and their checkpoints; Iceberg tables; recorded resume points | submit, `--resume`, stop, `--forget`, recreate, beside jobs that read, checkpoint, commit, fail and restart | a failure between checkpoint and commit; a script that stops half way; a point read before the job is cancelled | every event is in a table exactly once; a stopped pipeline can be resumed; events do land |
| **Warehouse** `dbt/*`, `quality/checkpoint.py`, `scripts/analytics_verify.py`, `scripts/seed_iceberg.py` | staging tables and marts, the verdicts on them | `dbt build` (drop, create as select, test), the quality gate, the comparisons, seed, inject, revert | rows land while a build runs; two builds; a build killed with a table dropped; a seed that stops half way | a good build leaves marts of one staging table; an impossible row fails both gates; nothing else does |
| **RAG corpus** `services/rag/*` | chunk points and document markers in Qdrant; the BM25 file; the corpus version | `ingest` (fetch, skip, look, embed and upsert, delete stale, mark, save), `retrieve` (hybrid) | a run killed anywhere; two runs; Qdrant loses its last seconds; sources change; a query beside a run | a document that is skipped is complete; a query's hits are in the store; ingestion ends |
| **Gateway** `services/gateway/*` | request accounting since the process started | `chat_once`, `stream_chat`, `/v1/stats` | a client that gave up; a cancelled stream; provider errors; restarts | totals are the sums of their parts and charge nothing twice |
| **Agent and MCP server** `services/agent/*`, `services/mcp_server/server.py` | the message history of a turn; the stdio session; the server's queue | `run_turn` (bounded steps, tools with a timeout), `dispatch_tool` | a tool call that times out and still runs; one that answers in the next turn; a server that dies | every tool use has its own result in the history; costs and traces are those of the turn; a turn ends |
| **Evaluation: paid runs** `eval/budget.py`, `harness.py`, `runner.py` | spend ledger (a file), run and result rows (Postgres) | `execute`, `run_eval`, `score_example` | retries and late answers, a poll that fails, a gateway that restarts, a killed run | what is spent is bounded by the cap and recorded; a finished example has its row |
| **Evaluation: gate** `eval/__main__.py`, `gate.py`, `baseline.py` | runs, results, `baseline.json`, the configuration files | `eval baseline`, `--from-runs`, `eval gate`, `eval run --gate` | files edited meanwhile; runs killed or stopped at the cap; metrics nobody could measure | a pass compares like with like, rests on measurements, and both gates agree |
| **Metadata and Trino clients, CI scripts** | none of their own | request/response, one-shot commands | none that depends on the order of steps | - |

**Interactions.** The agent calls the gateway over HTTP and the MCP server over
stdio (`AgentTurn` composes the three), and sends its trace context with each call:
`Telemetry` models that as a carried context any task may pick up, at any time.
Gateway, agent, MCP server and retrieval write to the topic `traces.events.v1`
(`KafkaEmitter`), which ClickHouse empties (`HotPath`, one composition with the
emitter) and which `FlinkJobs` reads as one log. The tables Flink fills are the
sources of `Warehouse`. Ingestion and retrieval share the vector store and the BM25
file (`RagIngest`). The harness knows what it spends only from the gateway's running
total (`EvalRun`); the gate knows only the rows it left (`EvalGate`). The changelog
shares nothing with the rest but the warehouse.

## 2. Modules

| Module | Models | Extends / used by |
|---|---|---|
| `Telemetry` | contexts, blocks, spans, events of any number of tasks | `MCTelemetry`; `TelemetryProofs` |
| `KafkaEmitter` | one process's emitter: threads, configuration, producers, exit | `HotPath` |
| `HotPath` | the emitter composed with ClickHouse, its bootstrap and its readers | extends `KafkaEmitter`; `MCHotPath`; `HotProofs` |
| `Dimension` | abstract: what a slowly changing dimension promises per key | instantiated by `CdcLand` |
| `CdcLand` | database, connector, topic, consumer group, landers, table, latest-row view | `MCCdcLand`; `CdcProofs` |
| `FlinkJobs` | two jobs, their checkpoints and commits, and the scripts | `MCFlinkJobs`; `FlinkProofs` |
| `Warehouse` | `dbt build` processes, the quality gate, comparisons, the seed script | `MCWarehouse`; `GateProofs` |
| `RagIngest` | runs of `ingest` over the vector store and the BM25 file, and a query | `MCRagIngest`; `RagProofs` |
| `AgentTurn` | turns of the agent, the MCP server, the gateway and its counters | `MCAgentTurn`; `AgentProofs` |
| `EvalRun` | paid runs of the harness, the gateway's total, the spend ledger | `MCEvalRun`; `EvalProofs` |
| `EvalGate` | runs, baselines, the two gates | `MCEvalGate`; `GateProofs` |

Operators named `Mutant...` are not part of a model: each is the definition that
follows it with one plausible slip, kept to show that the properties notice. Every
module has a type invariant, `TypeOK` (`EmitterTypeOK` of `KafkaEmitter`); where
there are proofs it is part of the inductive invariant, elsewhere it documents the
state.

### Telemetry

`ctx[t]` is the value of the three `ContextVar`s in the current context of task
`t`, `stack[t]` its open with-blocks with the tokens of each (a `Frame`), `spans`
the spans opened so far. `OpenSession` and `OpenSpan` are `session()` and
`span()` on entry, including the rules by which an explicit trace or parent wins
over the inherited one and a span without a session mints one. `CloseBlock` is
the `finally`: tokens are reset, then the event is emitted; a block may close
because its body ends or because an exception (or a cancellation) unwinds.
`Fork` copies a context to a new task, `Carry` is `HttpGatewayClient.chat`
putting the context in headers, and such a context can be adopted later, more
than once, by any task: a timed-out tool call that still runs is that case.
`FinalizeElsewhere` is an asynchronous generator suspended in a block and closed
by the event loop in a different context. Attributes, status texts and clock
values are left out.

### CdcLand and Dimension

The module covers the pipeline from `prompt_versions` to `stg_prompt_versions`.
`wal` and `db` are Postgres; `connector`, `topic` follow the Debezium
configuration of `register_connector.py` (initial snapshot, tombstones, resume
from stored offsets); `group`, `table` and `land[l]` are the lander. One run of
`cmd_land` is the sequence `Count`, `Guard`, `Assign`, then `Poll`, `Insert`,
`CommitOffsets` per batch, and `Drained`; `Crash` may hit between any two.
`Recreate` is `create-table --recreate`, `ResetGroup` what the refusal tells the
operator to do. `Newer` is the `order by` of the staging model and `View` its
result. `--force` of `land` is parsed and never read, so the model has no such
parameter; the refusal that recommends it (cdc_land.py:439) does not help.

`Dimension` knows histories per key and a view of them: the view shows a version
of the history, only moves forward, or is emptied. `CdcLand` implements it with
the mapping `history`, `shown`, `view` (`MovesForward == Dim!DimSpec`).

### FlinkJobs

`jobs` lists every job submitted, with its position, its latest completed
checkpoint (`chks`, `done`) and how far Iceberg holds its commits (`upto`); `rows`
counts for each event how often it is in each table; `points` is
`stream/flink/.resume`; `script` is the script in progress, one step per job it
handles. Checkpoint and commit are two steps; a failure, a cancellation or a loss
may come between. Flink and Iceberg are external, modelled from the settings in
the job files: interval, retention on cancellation, one retained checkpoint,
fixed-delay restart. `Slips` names four things that may happen beyond the
documented routine; the safety run has none of them, the others name theirs.

### RagIngest

One runner is one `python -m services.rag ingest`. The actions follow `_ingest`:
`Fetch` a project, `NextDoc` (skip by content hash, or when there is nothing to
chunk), `Look` (`existing_chunk_ids`, once per document), `UpsertChunks` batch by
batch, `DeleteStale` and the replacement in the in-memory index, `UpsertDocument`
(the marker, last), `OpenIndex` and `WriteIndex` (`open(path, "wb")`, then
`pickle.dump`). Around them a run is killed, a source shows its next revision,
the version line of `sources.yaml` changes, Qdrant flushes, and the machine goes
down with the writes since the last flush (docs/adr/ADR-002, "Qdrant WAL
finding"). A document's content is the sequence of its chunks; hashes are the
content itself; a chunk id is the document and the position. `Retrieve`, `Search` and
`GetChunks` are one call of `retrieve()` beside the runs: it loads the BM25 file,
searches both rankings, then fetches every hit, and a hit that is gone raises.

### EvalRun

`runs[h]` is one `execute`: `Start` (`Ledger.load`, `preflight`), `Refuse` or
`Create` (confirmation and checks, `create_run`, the baseline), then per example
`TurnCall`s and `Turn` (`run_turn` under `_with_retries`), `JudgeCall`s and `Judge`,
`Write` (the row, committed at once) and `Check` (poll, `observe`, `check`); `Raise`
leads from anywhere into the `finally`, `Commit` is that `finally`. `stats` is the
gateway's `total_cost_usd`, `late` its calls that no client waits for any more,
`ledger` the file. A call costs between one unit and `MaxCost`; a unit is the sixth
decimal the ledger keeps. `billed`, `spent` and `kept` are histories the code does not
have: what was really paid, and for which rows. `blind` marks a run during which the
gateway restarted or did not answer a poll, after which its total says nothing about
the run. `Timeout` and `Raise` differ by phase as the code does: in a turn a timeout
becomes an error row, in a judgement it leaves `score_example` and ends the run.

### KafkaEmitter and HotPath

`thread[t]` is where a thread is in `_emit_event`: `BeginEmit`, `ConfigureLazily`
(nothing installed), `ReadConfig` (before the lock, `telemetry.py:522`), `GetKafka`
(under it: reuse, build, or fail to), `Produce`. `producers` lists every producer
ever built with the configuration it was built for and its queue; `Deliver`,
`Destroy` and `Exit` are librdkafka and `_flush_at_exit`. A lost event is either
`logged`, which is all the code does about it, or `purged` with a producer that
`configure_kafka` replaced.

`HotPath` adds the consumer. `script` holds the statements a run of `bootstrap.py`
still has to send, `objects` what exists; `Create`, `Drop` and `Killed` are one
statement each. `Poll`, `InsertInto` (one view at a time), `Commit` and `FailBlock`
are ClickHouse's consumption through whichever views are attached. A table is a
function from the messages in it to the number of their copies, which `Merge`
collapses and `Expire` drops. `Match` is `hot_path_verify.py counts`, `Reads`,
`Roots` and `Under` are the query and `_build_tree` of `get_trace`. `gone` and
`missed` are histories: rows dropped by `--recreate` or the TTL, and messages
consumed while the view for them was not there.

### Warehouse

A span is its turn, its kind and how the turn ended; the impossible row of
`seed_iceberg.py inject` is one more. A mart is represented by the spans its groups
are made of, so that every column the gates look at (`Calls`, `TurnCount`,
`TotalCost`, the groups themselves) is a function of it. `builds[b]` walks the nodes
of the dbt project in one order that respects their parents (`threads: 1`): a model's
table is dropped (`NextNode`), computed (`Create`), committed if it is still not
there (`Commit`), tested (`Test`); a failure skips what depends on the node.
`Land` and `CloseWindow` are the two Flink jobs, whose commits are independent.
`Seed`, `Insert`, `Inject`, `Revert` are `seed_iceberg.py`. `Quality`, `CountsMatch`
and `SessionAgrees` are the gate and the comparisons. The booleans of a build and of
`last` are histories the properties speak of: tainted by the bad row, alone, with two
others at once (crowded), torn. `KillBuild` is a signal to the container.

### AgentTurn

`cur` holds the locals of the `run_turn` under way: `Ask`, `Receive`, `CallTool`,
`Return` and `ToolFails` are its loop, `GiveUp` and `Unreachable` the exceptions that
leave it; the answer after `max_steps` is asked for without tools (`Forced`). The MCP
server works on one call at a time (`queue`, `Serve`): a call that timed out is still
in it. The gateway's `flight` holds requests whether or not their client is still
there. `stats` is `GatewayStats`, reset by `RestartGateway`; `billed` is a history of
what each turn was charged. A result in the history remembers which call its content
came from, so that a late answer given to the wrong use would show.

### EvalGate

`runs` are rows of `eval_runs` with their results by grade; `making` is an `eval
baseline` process between its two runs; `baseline` the file. The two gates change no
state: `Check(r)` is the exit status of `eval gate --run r` and `Compare(r)` that of
the gate inside `eval run`, for any run at any moment. Means are kept exact in
twelfths and the threshold max(2 sigma, floor) is compared in squares, without its
root. A grade stands for everything the metrics can tell apart of an example's
result.

## 3. Runs

| Run | Question | Bounds |
|---|---|---|
| `telemetry` | do parents, traces, resets and events stay right under any interleaving of nesting, forking, cancelling and late carried contexts? | two tasks that may stream, three spans, two sessions, depth three, one carried context: enough for a span opened by each task on each side of a fork and of a carried context |
| `telemetry_stream` | does the event always fire? **No** | one task, two spans |
| `hotpath` | is every event accounted for, in one table, counted once, shown in its tree, and does the consumer get to the end? | two threads, two events (a child before its parent), a queue of one, one explicit configuration, one poison message, blocks of two, two runs of bootstrap, one failed block, one expiry, a trace limit of one |
| `cdc_land` | no hole with two landers, crashes, recreations, resets; does the dimension agree, move forward, and hide replays? | one key with two changes and five records (a snapshot, a re-snapshot and a new topic fit), two landers, two runs, two upsets |
| `flink` | exactly once, and always resumable, through the documented routine; does every event land while a job lives? | two pipelines, three jobs, one event, one failure; a job may be given up by the cluster ("lost"): stop, resume and a partial submit fit in three jobs |
| `warehouse` | do good builds leave coherent marts, do both gates see the bad row and nothing else? | two builds that may overlap, two turns of two kinds, two commits to the raw tables |
| `rag_pinned` | a skipped document is complete; a query finds what it was promised? | two documents (three chunks, one chunk; batches of two), two runners at once, one hybrid query, one kill, one power cut, torn index files |
| `rag_changing` | nothing embedded twice, do the two rankings agree while no run is killed; does ingestion end? | one document with three contents, one runner, two kills, one power cut, one version bump |
| `rag_replace` | "changed docs get replace_chunks()" **No** | one document, no failure |
| `agent` | are histories well formed, costs and traces those of the turn, and does a turn end? | two turns of two steps, two searches at once or an unknown tool, one upset (a server crash, a gateway restart or another client's stream), an unknown alias |
| `eval` | is what a run spends bounded, recorded, and at most one example ahead of its rows? | one harness, three runs of two examples (two attempts of two calls, one judge call), a cap a run can reach, one exception, one timeout, one fault, one call of another client |
| `gate` | does a pass compare like with like, rest on measurements, and do the gates agree? | three runs one after the other of two examples, one upset, one edit, three grades; thresholds scaled so that two examples can fall between floor and declared value |

Deadlock is not checked: every one of these systems may come to rest (all spans
closed, everything landed, nothing to ingest, or a bound reached). Symmetry is
used for tasks, landers, runners and builds in runs without liveness, which are
interchangeable there.

**Why small bounds are enough.** All properties relate at most two actors and two
or three of their writes: a lander and another one or a crash; a script and one
checkpoint; a run, another run and one lost flush; a tool call and the next turn; a
build and another one that drops its table. Each bound leaves room for the longest
such pattern and one step more. Where this argument is weakest (how many tasks,
threads, keys, partitions, landers, runs or grades there are) the theorems of section
5 hold for any number. `gate` has one run under way at a time and the grades good, weak and error: all
six, and overlapping runs, are covered by the theorems.

**Fairness.** `FlinkJobs!FairSpec`: a job that can read, complete a checkpoint,
commit or restart does so in the end (the source polls for ever, checkpoints are
periodic, the restart delay is fixed), weakly and per job; a script that was
started runs to its end. Nothing is assumed of the operator: `Lands` speaks of
jobs that stay alive. `RagIngest!FairSpec`: a run takes its next step (weak), and
whenever beginning a run over the whole corpus stays possible again and again the
operator does so (strong: runs in progress disable it in between). Kills and
power cuts are bounded, which stands for "they come to an end". An index file
torn by a kill stops every later run at `BM25Index.load`; nothing in the code
recovers from it, so the liveness run has `Torn = FALSE`. `AgentTurn!FairSpec`: the
agent takes its next step, its two timers included (`httpx` and `asyncio.wait_for`);
nothing is assumed of the gateway or of the MCP server. `HotPath!FairSpec`: the
consumer polls, inserts and commits as long as a view is attached (weak); nothing is
assumed of bootstrap, and `Drains` speaks of views that stay.

**What each property is for**

- `ParentInTrace`, `OneRootPerTrace`, `ContextsCoherent`: a trace assembled from the
  events is one tree in one session, whatever tasks and processes contributed and when.
- `RestoresContext`, `EventsInOrder`: exits undo entries exactly, and unwinding emits
  once per span from the inside out.
- `OneProducer`: the lock does what its comment says, also for threads that meet at
  the lazy default. `AccountedFor`: a failure to emit is in the log, or it is an event
  that went down with a replaced producer.
- `NothingBetween`, `SpansKept`: "every message lands in exactly one of the two
  tables" through repeated blocks and through a bootstrap that stops anywhere; the
  order of the statements keeps spans safe. `MatchMeansComplete`: a duplicate never
  stands in for a lost message. `TraceWhole`: no span that was read is missing from
  the tree. `Drains`: a poison message does not stop the consumer.
- `Complete`: the guard and commit-after-insert leave no hole below the committed
  offsets. `TiesIdentical`: what the total order cannot separate cannot be seen.
  `Converges`: caught up, the dimension is the database, except for deletes no
  connector saw. `MovesForward`: refinement of `Dimension`.
- `ExactlyOnce`, `Resumable`, `Lands`: rows are neither lost nor doubled through
  failures and scripts; the refusal of `submit.sh` has a usable point behind it;
  events do arrive.
- `Coherent`: every mart is made of the one staging table there is, even if another
  build dropped and made it meanwhile. `BadCaught`, `NoFalseAlarm`: the gates see what
  they are for and nothing else. They state their exceptions: a build beside a killed
  one or beside two others at once, a row removed under a build, the streaming job
  ahead of the raw one.
- `Redetected`: the marker comes last and is true. `OnlyMissing`: nothing is paid
  for twice. `Resolvable`: `retrieve` finds what it was promised, while ingestion
  runs. `Indexed`: while no run dies, BM25 and store hold the same documents.
  `Ingested`: ingestion ends.
- `Paired`: the provider never sees a `tool_use` without its own `tool_result`, and no
  late answer takes another's place. `IndexedBySearch`: `call_index` counts searches,
  failed ones included. `CostKnown`, `StatsAddUp`: what a turn and `/v1/stats` say was
  spent. `ToolsTraced`: the tool spans are those of the calls that have left the server's
  queue, once each and in the order made, waited for or not. `TurnEnds`.
- `RunBounded`: the hard stop; a run passes the cap by at most the example in flight,
  whoever else uses the gateway, unless it is blind. `Covered`: what is recorded is
  what was spent, but for the example an exception ended. `CapHeld`: over all runs,
  the sum the headroom between cap and authorised amount has to pay for.
  `OneExampleLost`: "a crash costs the example in flight and nothing else".
- `PassIsComparable`, `PassIsMeasured`, `GatesAgree`: what a pass of the gate is worth.

## 4. Where code and documentation part

Two have a violation run, quoted in `PROJECT.json`:

1. `telemetry_stream` - `span()` says its event fires even when the body raises; a
   streamed request whose client goes away emits neither of its two spans,
   because the generator is finalised in another context and the token reset
   raises first.
2. `rag_replace` - a changed document keeps the old text at every position it
   still has, and is then marked as current.

Met while modelling, without a run of their own:

*Telemetry and hot path.* A thread that has read the old configuration may build
after `configure_kafka` has set a new one (`telemetry.py:522`): the process then
emits to the old brokers until it is configured again; the model has this behaviour
and `OneProducer` holds in it. `06_trace_events_dlq_mv.sql:5-7`
says that with complementary conditions "nothing [falls] between them"; a message that
cannot be parsed and is consumed between the creation of the two views, or between
their drops under `--recreate`, is in neither table (`missed`).

*Cold path.* `stop.sh` deletes the resume point of a job without a checkpoint, which a
job resumed moments ago is, and calls it a job that "has committed nothing"
(`stop.sh:72-74`): the next submit replays (slip `"early"`). A checkpoint that
completes between reading its path and cancelling leaves a path to deleted files
(`"late"`). A job that the cluster loses has no resume point at all (`"lost"`),
against ADR-004's "covers the graceful stop and the crash".

*Changelog.* `land --force` is parsed and changes nothing.

*RAG.* After a version bump and a complete re-ingest, unchanged documents still carry
the old version and a dense search filters them out. A document whose re-ingest is
killed and whose source is then reverted is skipped over mixed chunks. A run killed
before its last step leaves documents marked ("fully ingested", `cli.py:55`) that BM25
never sees, since later runs skip them.

*Paid runs.* `score_example` "never raises" (`harness.py:198`) but its judge call does.
A poll without an answer is "a momentarily stale ledger" (`budget.py:171`), yet if it
is the last of a run the ledger keeps 0.00 for it, which is why `CapHeld` allows a
whole run per fault.

*Gate.* `--from-runs` accepts a run that stopped at the cap, which `__main__.py:384`
says cannot be a baseline, and the same run twice, with sigma 0. `eval baseline` reads
the corpus version and the judge when its runs are over (`__main__.py:393`), so an
edit in between is recorded as the configuration of runs that never had it;
`PassIsComparable` excludes it. The gate inside `eval run` takes the judge from the
baseline it compares with and cannot see a re-pointed alias.

*Warehouse.* `checkpoint.py:23-31` says a blocking expectation "can only be false" if
the pipeline is broken; traffic without a single tool call fails the row count of
`fct_tool_reliability`. `assert_streamed_agg_does_not_overcount.sql` reasons that
nothing can make the streamed count the larger one, but the two jobs commit
independently. `seed_iceberg.py:270` names a staging range test; only the marts have
one. A seed that stops after its first batch is refused ever after. Two builds that
overlap drop and make the same tables and still end with marts of one staging table,
because the one that finds a table made by the other fails; three do not: one has
computed a mart from the staging table before last, another has passed the
reconciliation, the third rebuilds staging and drops the mart; the first commits its old
rows there, the third finds them and fails, and the second ends well over them.
`Coherent` and `BadCaught` exclude a build that
had two others beside it at once; `MCWarehouse` has two builds, and the exclusion was
found on a three-build instance with one mart.

## 5. Theorems

Eight modules of proofs are checked by TLAPS, for every value of the constants:
`TelemetryProofs`, `CdcProofs`, `FlinkProofs`, `RagProofs`, `EvalProofs`, `HotProofs`,
`AgentProofs` and `GateProofs`. What a theorem assumes beyond the assumptions the model
declares for its constants stands in its ASSUME and is named below.

**TelemetryProofs.** `TypeCorrect`, `Coherence`, `Parents`, `SingleRoot`,
`SessionKept`, `ResetsRestore`, `ParentsLast`, from `TelemetryAssumption` only: any number of
tasks, names, spans, and any nesting. A parent in its trace is not inductive: the
next span takes its trace and parent from the context, so one has to know that
every context *in reach* - current, saved by a token, or carried - is coherent,
and that the frames of a stack fit together, so that a reset brings back a
context that was coherent when it was saved and still is. The invariant is

    TraceInv == TypeOK /\ ContextsCoherent /\ AllPlaced /\ Nested

where `AllPlaced` says each span fits its parent and `Nested` that each frame's
tokens are what the block below it established. `SingleRoot` follows because a
root is only created together with a fresh trace identifier.

`ParentsLast` (`EventsInOrder`) says of all the spans of a task what a test shows of two
blocks: one event each, none before those nested in it. It has an invariant of its own
on top of `TraceInv`,

    EventInv == Framed /\ Standing /\ Tracked /\ ExactlyOneEvent /\ ChildrenFirst

where `Tracked` says an open span has a block on its task's stack, `Framed` that the
blocks of a stack are ever newer open spans, each one's parent what its token takes the
task back to, and `Standing` that wherever a task is, or a token takes it back to, a
parent span of its own is open in a block below. Hence the block being closed has no
open child in its task. A finalised generator loses its spans and never runs again, and
a fork or an adopted trace has a parent in another task, which is why the property is
per task.

**CdcProofs.** `TypeCorrect`, `TiesUnobservable`, `NoHole`, `DimensionConverges` and
`DimensionImplemented`, for any finite set of keys (`IsFiniteSet(Ids)`: a snapshot enumerates them), any partitions, landers
and batch size. `TiesUnobservable` rests on `Provenance`: every record and row is
*genuine*, that is, its image and LSN are those of a change in the WAL, or of the
latest change at the LSN of its snapshot. `NoHole` needs in addition what each
run of a lander knows: `LandInv` says that for each partition the offset range a
run may still commit is covered by what is in the table together with the batch in
memory (`CoveredAt`), and that a run past the guard started from offset 0 if the
table was empty. It assumes `~CarelessRecreate`: the table is not recreated under
a running lander, which nothing in the code prevents.

`DimensionConverges` (`Converges`) adds

    ChangeInv == DeletesFinal /\ Heard /\ Idle /\ RowsBounded

A deleted row is not written again (`DeletesFinal`). `Heard` is what the connector owes
for each change it has captured: a change of a live row is in the topic, itself or in
the read of a later snapshot; a delete is in the topic, or in the table from an earlier
topic, or nothing of its row was ever captured and landed, unless the key is in `missed`.
With nothing left to land and no hole, the newest row of a key reaches its last change.
That a newest row *exists* is itself an argument: `Newer` compares offsets and times
that are only bounded (`RowsBounded`), and `Greatest` takes the greatest element of a
bounded set of naturals from the well-foundedness of strict inclusion on finite sets.

`DimensionImplemented` is the refinement `MovesForward`. `RowsSound` (types,
`Provenance`, bounds) is all it needs, so it holds with careless recreation too. Every
action is mapped: `Write` is a `Commit` of `Dimension`; `Recreate` is `Empty`; `Insert`
is an `Advance`, since the newest row of the larger set is newer and `Reach` counts the
changes of its key, which is the version it shows; everything else stutters. The counts
are of a filtered sequence, `OwnNumbered` and `NthExists` relate them to positions.

**FlinkProofs.** `TypeCorrect`, `TablesExact` (`ExactlyOnce`) and `PointsSuffice`
(`Resumable`), for any pipelines, jobs, events, failures and slips: the properties speak
of the time before something slips, and so does

    ColdInv == Typed /\ (~slipped => Writing /\ Resting /\ Submitting /\ Stopping)

One job at a time writes a table, its commits are behind its checkpoints and those
behind what it has read, and the table is the prefix it has committed (`Writing`); when
no job of a pipeline is left its table is empty, or the recorded point names a
checkpoint that is still there and covers the table (`Resting`); a script half way
through has jobs before it that are dead, and after it that are still as it found them
(`Submitting`, `Stopping`). The last two carry the proof through a script that is
interleaved with checkpoints, commits and failures of the jobs it has not come to.

**RagProofs.** `TypeCorrect`, from the model's assumptions. `SkippedIsComplete`
(`Redetected`) and `HitsResolve` (`Resolvable`) assume `Unchanging`: documents have one
revision, as the pinned projects of `sources.yaml` do; any number of runs, kills, power
cuts and torn files may overlap. `PinnedInv` says that the store, and what Qdrant has
flushed of it, mark only complete documents, that what each run believes of its document
(`Going`) still holds although others write, and that until a power cut whatever an
index names is in the store. Without `Unchanging` both are false: a re-ingest deletes stale
chunks before it marks the document, so a kill in between and a source that is then
reverted leave a skipped document with chunks missing, and a query that is under way may
hold a hit that is deleted.
`MissingIsMissing` (`OnlyMissing`) and `IndexMatchesMarkers` (`Indexed`) assume
`OneAtATime`, runs that do not overlap, and let documents change at any time: `SoloInv`
says the index a run carries is the markers of the store, but for the document it is
about to mark. Two runs at once do embed the same chunks twice and overwrite each
other's index file; nothing in the code locks them out.

**EvalProofs.** `TypeCorrect`, `HardStop`, `RecordCovers`, `LostExample` and
`CapHolds`, from `EvalAssumption` only: any number of harnesses, examples, attempts,
calls, any costs, cap and bounds. None of the four properties is inductive: the hard
stop looks at costs after an example, so one has to bound what the calls of the
example in flight can have cost. `RunInv` says, per run, that its counters are within
the loops (`Counted`), that what it spent beyond its rows is at most the calls made so
far (`RowsPaid`, with `Flight` as their allowance), and that while it can trust the
gateway the total has grown by its cost since the baseline and the last check left it
under the cap (`Watched`). It holds for overlapping runs: the total only ever looks
too large to a run. `CapHolds` adds `Books`, the balance of all runs as long as they do
not overlap: what was billed, and the calls nobody waits for, stay below the ledger,
the run at hand and the allowance the incidents have earned. The products in these
bounds are kept opaque behind three lemmas about multiplication.

**HotProofs.** `SingleProducer` and `NoSilentLoss`, for `HotPath!Spec`, that is, for the
emitter as its topic is consumed, with any threads, events, queue and bounds, and from
no assumption. That there is at most one producer per configuration is not inductive:
`Built` adds that while none is installed there is one configuration *more* than
producers, and that a thread on its way to the lock has seen a configuration.
`Kept` says where each event is - topic, log, purged, in a thread's hands, in some
queue - and `Held` and `Stopped` what threads and queues hold when idle and after the
exit. A producer other than the installed one belongs to an earlier configuration
(`Replaced`), which is why only a second configuration can lose events.

The consumer has three theorems, also from no assumption: `EverythingLands`
(`NothingBetween`), `SpansNeverSkipped` (`SpansKept`) and `CountsSuffice`
(`MatchMeansComplete`), by

    ConsumerInv == ByKind /\ Consumed /\ Poisoned(missed) /\ Underway /\ Scripted

`Underway` says of each message of a block half inserted that its view is still to come,
or that it was skipped, or is written; `Scripted` that what a bootstrap has left is an
end of the longest script, by which the dead-letter view is there only together with the
other. So a message skipped for want of a view can only be a poisoned one
(`Poisoned(missed)`), through any repeated block and any bootstrap killed between two
statements. `CountsSuffice` needs only `ByKind`: the table's messages are among those of
the topic, and a subset with as many elements as the whole is the whole.

The reader has one: `TreesWhole` (`TraceWhole`), whichever rows of the table a query
returned, with parents missing, cut off or still to come. It needs that following
parents ends: `HotAssumption` says that the ids can be ranked with a parent's below its
child's, as a span's id is minted while its parent's is current (`span` of `telemetry.py`).
`Numbered` adds that queues and topic hold only the events that were emitted, so that
the ranking speaks of every row.

**AgentProofs.** `TypeCorrect`, `HistoriesWellFormed` (`Paired`), `SearchesIndexed`
(`IndexedBySearch`), `CostsKnown` (`CostKnown`) and `CallsTraced` (`ToolsTraced`), for
any turns, steps, tools, aliases, costs and upsets, by

    AgentInv == TypeOK /\ Addressed /\ Counted /\ InFlight /\ Charged /\ Working /\ History /\ Indexed /\ InOrder

The history is sound because the results of the last answer pair up with the uses
before them (`Working`, `History`), and every call still knows which use of which turn
made it. The cost is known because the only request of the turn the gateway works on is
the one the turn waits for (`InFlight`), so nothing else is charged to it until it gives
up (`Charged`); requests of turns that gave up are still charged, to those turns. The
spans are in the order of the calls because the server's queue is, and is ahead of them
(`InOrder`).

`StatsSound` (`StatsAddUp`) is for any finite set of aliases, which `models.yaml` lists:
per model and in total, what `/v1/stats` says adds up after any order of successes,
errors, abandoned streams and restarts, and is never more than what was charged. The
step is that a term raised raises the sum (`TotalAdds`).

**GateProofs.** `ComparableOnly`, `MeasuredOnly` and `GatesConsistent`, for any prompts,
grades, numbers of examples and runs, and any thresholds that satisfy
`GateAssumption`. `GateInv` says that a baseline *rests on* runs that are over, hence
frozen, and that have its configuration unless files were edited while it was made
(`RestsOn`, `MakingInv`), and that a finished run has all its rows (`WholeRuns`).
`GatesConsistent` needs that a gate with more metrics and the same thresholds passes
less; it fails with the declared thresholds in place of the baseline's own.

Of the warehouse: `WarehouseTyped`, `MartsCoherent`, `BadRowCaught` and
`NoFalseAlarms`, from `WarehouseAssumption` only: any traffic, any number of builds.
The invariant is

    WarehouseInv == MartTypes /\ Walking /\ Company /\ Paired /\ Tainted /\ TaintedLast /\ Alone /\ Afterwards /\ Coherent

`Coherent` speaks of the moment the last build ends, and says nothing of how two builds
that drop each other's tables got there. `Walking` keeps each build in the order of the
graph, so that one that makes a mart still has the reconciliation before it. `Paired`
then says of a build that is *calm* - not failed, not torn by a kill or a revert, at most
one other beside it - that each mart it is past is `Fresh` (made of the staging table
there is), or is `Short` (a proper part of what it should be, because the other build
dropped staging and made it again of more rows; the reconciliation is still to come and
counts the difference), or is one the other build `Tends` to make again. Rows only land,
so the other's staging table can only be larger (`Grown`), and what a calm build holds in
its hands is `Below` it; a row removed meanwhile would break that, hence *torn*. With
two others the one that tends a mart need not be the one that remakes staging: hence
*crowded* (section 4). `Tainted` follows the bad row of a build that started with it: wherever
the build looks, there or in the other's hands, it is (`Seen`), until the test of
`fct_sessions`, where its session has a cost of minus one whatever the other rows are.
`Alone` and `Afterwards` say what a build with nobody beside it failed for, and that
what it left is still there when the gates look.

**Recursion and sums.** Two theorems are about what a recursion over data computes: the
levels of a tree and the fold `Total`. The induction theorems of the library take an
operator as parameter and cannot be instantiated; the proofs use what those theorems
rest on. For sums, the counterexamples of a claim about the subsets of a finite set
would have one that contains no smaller one (`Minimal`, from `WFMin`), and that one has
an element to take out. For trees, numbers have a least counterexample (`Least`, the
same way), and of the spans that are not in a level yet the one minted first is in the
next (`LevelsFill`): so level `n` holds `n` spans, or all.

**Model-checked only.** `Lands`, `Ingested`, `Drains` and `TurnEnds` are liveness, with
`ENABLED` in their fairness, and beyond the prover. The two violated properties of
section 4 are false.

## 6. What is not modelled

- Clients and one-shot scripts: `analytics/trino_client.py`, `metadata/client.py`,
  `mcp_server/clickhouse.py`, `check_schema_compat.py`, `consume_tree.py`,
  `emit_flink_lineage.py`, `load_prompts.py`, `cdc_verify.py`. They are requests,
  output and exit codes; no state of theirs interleaves with anything.
- Read-only reports: the A/B report, label sheets and agreement of `eval/`, `rag
  diagnose`, latency percentiles and the freshness probe of `hot_path_verify.py`.
- Within the modelled parts: windows and watermarks of the aggregate job, text
  splitting, embeddings and ranks, `cdc_land.py seed`, truncate events, attribute
  coercion, the wording of prompts and answers, rounding of costs, a `.spend.json`
  torn by a kill (the next run stops at `Ledger.load`), `--allow-config-drift`, days
  and percentiles of the marts, the mapping of provider errors to statuses.
- Three states no property covers, because the code does lose what the property would
  keep: the slips of `FlinkJobs` named in section 4.

## 7. Plan

1. Theorems next: type correctness of the models that have none yet, and what an
   abstract specification of the emitter and of the lander would promise their readers.
2. Models: windows and watermarks of the aggregate job; two harnesses on one ledger
   as a run of their own.
