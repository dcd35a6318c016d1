------------------------------ MODULE Warehouse ------------------------------
(***************************************************************************)
(* What is built on the two Iceberg tables the Flink jobs fill: `dbt       *)
(* build` (staging tables, marts and their tests), the Great Expectations  *)
(* gate over the marts, the two scripts an operator compares them with,    *)
(* and the script that writes, spoils and repairs rows through Trino.      *)
(*                                                                         *)
(* Every table is dropped and made anew, so a mart is represented by the   *)
(* rows its groups are made of.  A turn's rows commit together.  The       *)
(* prompt dimension, which gates nothing, percentiles, days and models are *)
(* left out: one day, one model, one tool.                                 *)
(***************************************************************************)
EXTENDS Integers, Sequences, FiniteSets

CONSTANTS
  Builds,     \* `dbt build` processes
  Outcomes,   \* how turns end, of "answered", "failed" and "chat"
  Missing,    \* no such table: not a set of spans
  MaxTurns,   \* bound: turns of the traffic
  MaxStarts,  \* bound: builds started
  MaxWrites   \* bound: commits to the two tables

VARIABLES
  turns,   \* traces.events.v1: how each turn of the traffic ended
  raw,     \* lake.raw.trace_events
  agg,     \* lake.curated.agg_model_5m, as the spans it counts (each turn in its own window)
  tables,  \* lake.analytics
  builds,  \* per process: its progress
  last,    \* how the latest build to end did
  batches, \* seed: the batches it has still to insert
  starts,  \* builds started so far
  writes   \* commits so far

warehouseVars == <<turns, raw, agg, tables, builds, last, batches, starts, writes>>

-----------------------------------------------------------------------------
\* Variants named Mutant... are faulty versions of the definition after them.
\* Spans, one per turn and event type.  The bad one claims to have cost minus one
\* dollar, here as much as one call: ordinary calls can make up for it.
AllKinds == {"AGENT_STEP", "RETRIEVAL", "LLM_CALL", "TOOL_CALL", "GATEWAY"}
AllOutcomes == {"answered", "failed", "chat"}
Spans == [turn : Nat, kind : AllKinds, outcome : AllOutcomes]

ASSUME WarehouseAssumption ==
  Outcomes \subseteq AllOutcomes /\ Missing \notin SUBSET Spans /\ MaxTurns \in Nat

Kinds(outcome) ==
  CASE outcome = "answered" -> {"AGENT_STEP", "RETRIEVAL", "LLM_CALL"}
    [] outcome = "failed"   -> {"AGENT_STEP", "TOOL_CALL"}
    [] outcome = "chat"     -> {"GATEWAY", "LLM_CALL"}
Span(turn, kind, outcome) == [turn |-> turn, kind |-> kind, outcome |-> outcome]
TurnSpans(turn, outcome) == {Span(turn, kind, outcome) : kind \in Kinds(outcome)}
Bad == Span(0, "LLM_CALL", "chat")
Batches == [n \in {1, 2} |-> TurnSpans(MaxTurns + n, IF n = 1 THEN "answered" ELSE "failed")]
Cost(span) == IF span = Bad THEN -1 ELSE IF span.kind = "LLM_CALL" THEN 1 ELSE 0

\* The models of the dbt project and its tests over several models, with what each needs.
Staging == {"stg_trace_events", "stg_agg_model_5m"}
Marts   == {"fct_sessions", "fct_model_costs", "fct_tool_reliability", "fct_cost_by_prompt"}
Models  == Staging \cup Marts
Asserts == {"marts_reconcile_with_staging", "streamed_agg_does_not_overcount"}
Nodes   == Models \cup Asserts
Parents(node) ==
  CASE node \in Staging -> {}
    [] node \in Marts -> {"stg_trace_events"}
    [] node = "marts_reconcile_with_staging" -> Marts \cup {"stg_trace_events"}
    [] OTHER -> Staging
Descendants(node) == IF node = "stg_trace_events" THEN Marts \cup Asserts ELSE {n \in Asserts : node \in Parents(n)}

\* What a model takes of the staged spans, and the groups of a mart.
Takes(model) ==
  CASE model \in {"fct_model_costs", "fct_cost_by_prompt"} -> {"LLM_CALL"}
    [] model = "fct_tool_reliability" -> {"TOOL_CALL"}
    [] OTHER -> AllKinds
Of(model, spans) == {s \in spans : s.kind \in Takes(model)}
MutantBusiest(span) == "session"
SessionOf(span) == IF span = Bad THEN "bad" ELSE "session"
GroupOf(model, span) ==
  CASE model = "fct_sessions" -> SessionOf(span)
    [] model = "fct_cost_by_prompt" -> IF span.outcome = "chat" THEN "unversioned" ELSE "v1"
    [] OTHER -> model
Groups(model, spans) == {{s \in spans : GroupOf(model, s) = GroupOf(model, t)} : t \in spans}

Calls(group) == Cardinality(group)
TurnCount(group) == Cardinality({s.turn : s \in group})
TotalCost(group) ==
  Cardinality({s \in group : Cost(s) = 1}) - Cardinality({s \in group : Cost(s) = -1})

\* gen_traffic.py: what it left on the topic.
Traffic == [1 .. MaxTurns -> Outcomes]

\* A build's progress; whether it started with the bad row there, whether no other build
\* ran beside it, or two at once, and whether one was killed, or the bad row removed,
\* while it ran.
Idle == [todo |-> {}, node |-> "none", rows |-> {}, step |-> "idle", failed |-> FALSE,
         tainted |-> FALSE, alone |-> TRUE, crowded |-> FALSE, torn |-> FALSE]

WarehouseInit ==
  /\ turns \in Traffic /\ raw = {} /\ agg = {}
  /\ tables = [m \in Models |-> Missing]
  /\ builds = [b \in Builds |-> Idle]
  /\ last = [outcome |-> "none", tainted |-> FALSE, alone |-> TRUE, crowded |-> FALSE, torn |-> FALSE]
  /\ batches = <<>> /\ starts = 0 /\ writes = 0

Running(b) == builds[b].step # "idle"
Quiet == \A b \in Builds : ~Running(b)
Several == \E b, c \in Builds : b # c /\ Running(b) /\ Running(c)

-----------------------------------------------------------------------------
(***************************************************************************)
(* The tables below: the two streaming jobs and seed_iceberg.py.           *)
(***************************************************************************)
\* Each job commits on its own checkpoints: the raw job turns, the other one windows.
NextTurn(table) == Cardinality({t \in 1 .. Len(turns) : \E s \in table : s.turn = t}) + 1
Write == writes < MaxWrites /\ writes' = writes + 1
Land ==
  /\ Write /\ NextTurn(raw) <= Len(turns)
  /\ raw' = raw \cup TurnSpans(NextTurn(raw), turns[NextTurn(raw)])
  /\ UNCHANGED <<turns, agg, tables, builds, last, batches, starts>>
CloseWindow ==
  /\ Write /\ NextTurn(agg) < Len(turns)
  /\ agg' = agg \cup TurnSpans(NextTurn(agg), turns[NextTurn(agg)])
  /\ UNCHANGED <<turns, raw, tables, builds, last, batches, starts>>

\* seed refuses a table with rows, and then inserts in batches.
Seed ==
  /\ batches = <<>> /\ raw = {}
  /\ batches' = <<1, 2>>
  /\ UNCHANGED <<turns, raw, agg, tables, builds, last, starts, writes>>
Insert ==
  /\ Write /\ batches # <<>>
  /\ raw' = raw \cup Batches[Head(batches)]
  /\ batches' = Tail(batches)
  /\ UNCHANGED <<turns, agg, tables, builds, last, starts>>

Inject ==
  /\ Write /\ Bad \notin raw
  /\ raw' = raw \cup {Bad}
  /\ UNCHANGED <<turns, agg, tables, builds, last, batches, starts>>
\* A build under way may or may not have seen the row.
Revert ==
  /\ Write /\ Bad \in raw
  /\ raw' = raw \ {Bad}
  /\ builds' = [b \in Builds |-> [builds[b] EXCEPT !.tainted = FALSE, !.torn = Running(b)]]
  /\ UNCHANGED <<turns, agg, tables, last, batches, starts>>

-----------------------------------------------------------------------------
(***************************************************************************)
(* `dbt build`, with threads: 1.                                           *)
(***************************************************************************)
Start(b) ==
  /\ ~Running(b) /\ starts < MaxStarts
  /\ starts' = starts + 1
  /\ builds' = [c \in Builds |->
       IF c = b
       THEN [Idle EXCEPT !.todo = Nodes, !.step = "next", !.tainted = Bad \in raw,
                         !.alone = Quiet, !.crowded = Several]
       ELSE IF Running(c) THEN [builds[c] EXCEPT !.alone = FALSE, !.crowded = @ \/ Several] ELSE Idle]
  /\ UNCHANGED <<turns, raw, agg, tables, last, batches, writes>>

\* The next node, parents first: a model's table is dropped.
Order == <<"stg_agg_model_5m", "stg_trace_events", "fct_cost_by_prompt", "fct_model_costs",
           "fct_sessions", "fct_tool_reliability", "marts_reconcile_with_staging",
           "streamed_agg_does_not_overcount">>
IsNext(node, todo) ==
  \E i \in DOMAIN Order : /\ Order[i] = node /\ node \in todo
                          /\ \A j \in 1 .. i - 1 : Order[j] \notin todo
MutantKeepsTable(node) == tables
DropTable(node) == [tables EXCEPT ![node] = Missing]
NextNode(b) ==
  LET build == builds[b]
  IN  /\ build.step = "next"
      /\ \E node \in build.todo :
           /\ IsNext(node, build.todo)
           /\ builds' = [builds EXCEPT ![b].todo = @ \ {node}, ![b].node = node,
                                       ![b].step = IF node \in Models THEN "create" ELSE "test"]
           /\ tables' = IF node \in Models THEN DropTable(node) ELSE tables
      /\ UNCHANGED <<turns, raw, agg, last, batches, starts, writes>>

\* create table as select: it reads the source as it is, and commits when the table is
\* still not there; otherwise, and when the staging table is not there, it is an error,
\* and what depends on the model is skipped.
Source(node) ==
  CASE node = "stg_trace_events" -> raw
    [] node = "stg_agg_model_5m" -> agg
    [] OTHER -> tables["stg_trace_events"]
Failed(build) == [build EXCEPT !.step = "next", !.failed = TRUE, !.rows = {},
                               !.todo = @ \ Descendants(build.node)]
Create(b) ==
  LET node == builds[b].node
  IN  /\ builds[b].step = "create"
      /\ builds' = [builds EXCEPT ![b] =
           IF tables[node] = Missing /\ Source(node) # Missing
           THEN [@ EXCEPT !.step = "commit", !.rows = Of(node, Source(node))]
           ELSE Failed(@)]
      /\ UNCHANGED <<turns, raw, agg, tables, last, batches, starts, writes>>
Commit(b) ==
  LET node == builds[b].node
  IN  /\ builds[b].step = "commit"
      /\ IF tables[node] = Missing
         THEN /\ tables' = [tables EXCEPT ![node] = builds[b].rows]
              /\ builds' = [builds EXCEPT ![b].step = "test", ![b].rows = {}]
         ELSE /\ builds' = [builds EXCEPT ![b] = Failed(@)]
              /\ UNCHANGED tables
      /\ UNCHANGED <<turns, raw, agg, last, batches, starts, writes>>

\* The tests that fail a build: accepted ranges of a mart's columns, sessions that are in
\* staging, the reconciliation and the comparison with the streamed counts.
NonNegative(mart) == \A g \in Groups(mart, tables[mart]) : TotalCost(g) >= 0
MutantTotalOnly == Calls(tables["fct_sessions"]) = Calls(tables["stg_trace_events"])
Reconciled == \A m \in Marts : Calls(tables[m]) = Calls(Of(m, tables["stg_trace_events"]))
Overcounts == \E s \in tables["stg_agg_model_5m"] : s \notin tables["stg_trace_events"]
Holds(node) ==
  CASE node \in Staging -> TRUE
    [] node = "marts_reconcile_with_staging" -> Reconciled
    [] node = "streamed_agg_does_not_overcount" -> ~Overcounts
    [] node = "fct_sessions" ->
         /\ NonNegative(node)
         /\ \A s \in tables[node] : \E t \in tables["stg_trace_events"] : SessionOf(s) = SessionOf(t)
    [] OTHER -> NonNegative(node)
Reads(node) == Parents(node) \cup (IF node \in Models THEN {node} ELSE {})
Passes(node) == (\A m \in Reads(node) : tables[m] # Missing) /\ Holds(node)
Test(b) ==
  /\ builds[b].step = "test"
  /\ builds' = [builds EXCEPT ![b].step = "next", ![b].failed = @ \/ ~Passes(builds[b].node)]
  /\ UNCHANGED <<turns, raw, agg, tables, last, batches, starts, writes>>

Ended(b, outcome) ==
  /\ last' = [outcome |-> outcome, tainted |-> builds[b].tainted, alone |-> builds[b].alone,
             crowded |-> builds[b].crowded, torn |-> builds[b].torn]
  /\ builds' = [c \in Builds |-> IF c = b \/ ~Running(c) THEN Idle
                                 ELSE [builds[c] EXCEPT !.torn = @ \/ outcome = "killed"]]
  /\ UNCHANGED <<turns, raw, agg, tables, batches, starts, writes>>
End(b) ==
  /\ builds[b].step = "next" /\ builds[b].todo = {}
  /\ Ended(b, IF builds[b].failed THEN "failed" ELSE "ok")

\* The container is stopped, or its connection to Trino ends.
KillBuild(b) ==
  /\ Running(b)
  /\ Ended(b, "killed")

WarehouseNext ==
  \/ Land \/ CloseWindow
  \/ Seed \/ Insert \/ Inject \/ Revert
  \/ \E b \in Builds : Start(b) \/ NextNode(b) \/ Create(b) \/ Commit(b) \/ Test(b) \/ End(b) \/ KillBuild(b)

WarehouseSpec == WarehouseInit /\ [][WarehouseNext]_warehouseVars
-----------------------------------------------------------------------------
(***************************************************************************)
(* What is read off the marts.                                             *)
(***************************************************************************)
\* quality/checkpoint.py: the blocking expectations of every mart.
Expected(mart, g) ==
  CASE mart = "fct_sessions" -> TotalCost(g) >= 0 /\ TurnCount(g) >= 1 /\ Calls(g) >= TurnCount(g)
    [] mart = "fct_tool_reliability" -> Calls(g) >= 1
    [] mart = "fct_model_costs" -> Calls(g) >= 1 /\ TotalCost(g) >= 0
    [] OTHER -> Calls(g) >= TurnCount(g) /\ TurnCount(g) >= 1 /\ TotalCost(g) >= 0
Quality ==
  \A m \in Marts : /\ tables[m] \notin {Missing, {}}
                   /\ \A g \in Groups(m, tables[m]) : Expected(m, g)

\* analytics_verify.py counts and session: a mart against the raw table.  The sum over an
\* empty mart is null, which equals no count.
CountsMatch == tables["fct_sessions"] # {} /\ Calls(tables["fct_sessions"]) = Calls(raw)
Row(spans) == <<TurnCount(spans), Calls(spans), TotalCost(spans),
                Calls(Of("fct_tool_reliability", spans)), Calls(Of("fct_model_costs", spans))>>
SessionAgrees(session) ==
  Row({s \in tables["fct_sessions"] : SessionOf(s) = session}) = Row({s \in raw : SessionOf(s) = session})
-----------------------------------------------------------------------------
WarehouseTypeOK ==
  /\ turns \in Traffic
  /\ agg \subseteq UNION {TurnSpans(t, turns[t]) : t \in 1 .. Len(turns)}
  /\ \A m \in Models : tables[m] # Missing => \A s \in tables[m] : s.kind \in Takes(m)
  /\ \A b \in Builds : builds[b].todo \subseteq Nodes
  /\ last.outcome \in {"none", "ok", "failed", "killed"}

\* "Every mart must account for exactly the staging rows it claims to summarise": when the
\* latest build ended well and none is under way, all four marts are made of the one
\* staging table there is, whatever was landed meanwhile and even if another build dropped
\* and made the same tables beside it.  Not promised after a build beside it was killed,
\* which may have just dropped a table, or after a row was removed: the test that compares
\* the marts with staging compares counts.  Nor with two others beside it at once, which
\* can leave a mart of rows that the one read before the other replaced them.
Coherent ==
  Quiet /\ last.outcome = "ok" /\ ~last.torn /\ ~last.crowded =>
    /\ tables["stg_trace_events"] # Missing
    /\ \A m \in Marts : tables[m] = Of(m, tables["stg_trace_events"])

\* "One impossible row is caught independently by both gates": a build that started with
\* the bad row in the raw table, and was not reverted under, does not end well, and if it
\* was alone the quality gate fails after it too.  With two others beside it at once, it
\* may be given a staging table from before the row.
BadCaught ==
  Quiet /\ last.tainted /\ ~last.crowded =>
    last.outcome # "ok" /\ (last.outcome = "failed" /\ last.alone => ~Quality)

\* The gates do not cry wolf: a build that was alone fails only for the bad row or because
\* the streaming job was ahead of the raw one; one that ends well is followed by a pass
\* of the quality gate as soon as there are tool calls and LLM calls, and the operator's
\* comparisons agree with it as long as the raw table has rows and has not changed.
NoFalseAlarm ==
  Quiet /\ last.alone =>
    /\ last.outcome = "failed" => Bad \in tables["stg_trace_events"] \/ Overcounts
    /\ last.outcome = "ok" =>
         /\ (\A k \in {"LLM_CALL", "TOOL_CALL"} : \E s \in tables["stg_trace_events"] : s.kind = k) => Quality
         /\ raw # {} /\ tables["stg_trace_events"] = raw =>
              CountsMatch /\ \A session \in {"session", "bad"} : SessionAgrees(session)
=============================================================================
