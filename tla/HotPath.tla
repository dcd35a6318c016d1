------------------------------- MODULE HotPath -------------------------------
(***************************************************************************)
(* The hot path: the SDK's emitter (KafkaEmitter) fills the topic, a       *)
(* ClickHouse Kafka table with two materialized views empties it into a    *)
(* table of spans and a table of dead letters, bootstrap.py creates, and   *)
(* with --recreate first drops, all of it statement by statement, and      *)
(* three readers come in between: hot_path_verify.py counts, and the       *)
(* tree that get_trace builds of the rows of one trace.                    *)
(*                                                                         *)
(* A message is the number of the event in it; 0 stands for one no reader  *)
(* can parse.  ClickHouse is external: it is modelled from the settings    *)
(* and clauses of stream/clickhouse/sql, as a consumer that inserts a      *)
(* block through every attached view and then commits, and that may fail   *)
(* at any point before.                                                    *)
(***************************************************************************)
EXTENDS KafkaEmitter, SequencesExt

CONSTANTS
  Parent,       \* per event: the event of its parent span, 0 for a root
  MaxSpans,     \* _MAX_SPANS of get_trace
  BlockSize,    \* kafka_max_block_size
  MaxPoison,    \* bound: messages no reader can parse
  MaxRuns,      \* bound: runs of bootstrap.py
  MaxFailures,  \* bound: blocks that fail before their commit
  MaxExpired    \* bound: parts the TTL drops

\* A span's id is minted while its parent's is the current one.
ASSUME HotAssumption ==
  /\ MaxSpans \in Nat /\ Parent \in [1 .. MaxEvents -> 0 .. MaxEvents]
  /\ \E minted \in [1 .. MaxEvents -> 1 .. MaxEvents] :
       \A e \in 1 .. MaxEvents : Parent[e] # 0 => minted[Parent[e]] < minted[e]

VARIABLES
  objects,   \* what exists in ClickHouse
  script,    \* statements the running bootstrap.py still has to send
  offset,    \* committed offset of group clickhouse-hotpath
  block,     \* None, or the block being inserted: its end and the views left
  rt,        \* trace_events_rt: the messages in it, with the number of their copies
  dead,      \* trace_events_dlq, likewise
  gone,      \* messages whose rows --recreate or the TTL dropped
  missed,    \* messages consumed while their view was not attached
  budget     \* runs, failures and expiries so far

hotVars == <<objects, script, offset, block, rt, dead, gone, missed, budget>>
vars == <<emitterVars, topic, hotVars>>

-----------------------------------------------------------------------------
\* Variants named Mutant... are faulty versions of the definition after them.
Offsets == 1 .. Len(topic)
None == [to |-> 0, views |-> {}, skipped |-> {}]

\* The numbered files, and what each creates.
MutantViewsSwapped == <<"database", "rt", "dlq", "kafka", "dlq_mv", "mv">>
Order == <<"database", "rt", "dlq", "kafka", "mv", "dlq_mv">>
Views == {"mv", "dlq_mv"}
View(o) == IF topic[o] = 0 THEN "dlq_mv" ELSE "mv"  \* the complementary WHERE clauses

HotInit ==
  /\ objects = {} /\ script = <<>> /\ offset = 0 /\ block = None
  /\ rt = <<>> /\ dead = <<>>
  /\ gone = {} /\ missed = {}
  /\ budget = [runs |-> 0, failures |-> 0, expired |-> 0, poison |-> 0]

-----------------------------------------------------------------------------
\* A producer that bypasses the SDK, or a schema ClickHouse cannot resolve.
Poison ==
  /\ budget.poison < MaxPoison
  /\ budget' = [budget EXCEPT !.poison = @ + 1]
  /\ topic' = Append(topic, 0)
  /\ UNCHANGED <<objects, script, offset, block, rt, dead, gone, missed>>

\* bootstrap.py main: the drops of --recreate, in reverse, then the creates.
Statements(recreate) ==
  (IF recreate THEN [i \in 1 .. Len(Order) |-> <<"drop", Reverse(Order)[i]>>] ELSE <<>>)
    \o [i \in 1 .. Len(Order) |-> <<"create", Order[i]>>]

Bootstrap ==
  /\ script = <<>> /\ budget.runs < MaxRuns
  /\ budget' = [budget EXCEPT !.runs = @ + 1]
  /\ \E recreate \in BOOLEAN : script' = Statements(recreate)
  /\ UNCHANGED <<objects, offset, block, rt, dead, gone, missed, topic>>

\* CREATE ... IF NOT EXISTS.
Create ==
  /\ script # <<>> /\ Head(script)[1] = "create"
  /\ objects' = objects \cup {Head(script)[2]}
  /\ script' = Tail(script)
  /\ UNCHANGED <<offset, block, rt, dead, gone, missed, topic, budget>>

\* DROP ... SYNC: a view, or the queue, waits for the block that runs through it.
Drop ==
  /\ script # <<>> /\ Head(script)[1] = "drop"
  /\ LET o == Head(script)[2]
     IN  /\ o \in Views \cup {"kafka"} => block = None
         /\ objects' = IF o = "database" THEN {} ELSE objects \ {o}
         /\ rt' = IF o = "rt" THEN <<>> ELSE rt
         /\ dead' = IF o = "dlq" THEN <<>> ELSE dead
         /\ gone' = gone \cup (IF o = "rt" THEN DOMAIN rt ELSE {}) \cup (IF o = "dlq" THEN DOMAIN dead ELSE {})
  /\ script' = Tail(script)
  /\ UNCHANGED <<offset, block, missed, topic, budget>>

\* A statement fails, or the script is killed: a later run starts over.
Killed ==
  /\ script # <<>> /\ script' = <<>>
  /\ UNCHANGED <<objects, offset, block, rt, dead, gone, missed, topic, budget>>

-----------------------------------------------------------------------------
\* The Kafka table consumes as long as a view is attached, through those that are.
Attached == IF "kafka" \in objects THEN objects \cap Views ELSE {}
Poll ==
  /\ block = None /\ Attached # {}
  /\ \E to \in offset + 1 .. offset + BlockSize :
       /\ to <= Len(topic)
       /\ block' = [to |-> to, views |-> Attached,
                    skipped |-> {o \in offset + 1 .. to : View(o) \notin Attached}]
  /\ UNCHANGED <<objects, script, offset, rt, dead, gone, missed, topic, budget>>

\* kafka_handle_error_mode: 'default' throws at a message it cannot parse.
MutantDefault == "default"
ErrorMode == "stream"
Selected(v) == {o \in offset + 1 .. block.to : View(o) = v}
Copies(table, o) == IF o \in DOMAIN table THEN table[o] ELSE 0
Copied(table, rows) ==
  [o \in DOMAIN table \cup rows |-> Copies(table, o) + (IF o \in rows THEN 1 ELSE 0)]
InsertInto(v) ==
  /\ v \in block.views
  /\ ErrorMode = "stream" \/ \A o \in offset + 1 .. block.to : topic[o] # 0
  /\ block' = [block EXCEPT !.views = @ \ {v}]
  /\ IF v = "mv" THEN rt' = Copied(rt, Selected(v)) /\ UNCHANGED dead
                 ELSE dead' = Copied(dead, Selected(v)) /\ UNCHANGED rt
  /\ UNCHANGED <<objects, script, offset, gone, missed, topic, budget>>

\* The offset is committed once every view has its rows.
MutantEarly == TRUE
Written == block.views = {}
Resumed == block.to  \* the next offset to read
Commit ==
  /\ block # None /\ Written
  /\ offset' = Resumed
  /\ missed' = missed \cup block.skipped
  /\ block' = None
  /\ UNCHANGED <<objects, script, rt, dead, gone, topic, budget>>

\* An insert fails, the server restarts or the group rebalances: the block comes again.
FailBlock ==
  /\ block # None /\ budget.failures < MaxFailures
  /\ budget' = [budget EXCEPT !.failures = @ + 1]
  /\ block' = None
  /\ UNCHANGED <<objects, script, offset, rt, dead, gone, missed, topic>>

\* ReplacingMergeTree ordered by a key that ends in span_id.
Merge ==
  /\ \E o \in DOMAIN rt : rt[o] > 1 /\ rt' = [rt EXCEPT ![o] = 1]
  /\ UNCHANGED <<objects, script, offset, block, dead, gone, missed, topic, budget>>

\* TTL with ttl_only_drop_parts: rows go part by part, a parent before its child or not.
Expire ==
  /\ budget.expired < MaxExpired
  /\ budget' = [budget EXCEPT !.expired = @ + 1]
  /\ \E o \in DOMAIN rt \cap 1 .. offset :
       rt' = Restrict(rt, DOMAIN rt \ {o}) /\ gone' = gone \cup {o}
  /\ UNCHANGED <<objects, script, offset, block, dead, missed, topic>>

-----------------------------------------------------------------------------
\* cmd_counts: uniqExact(span_id), against the broker's offsets a few statements later.
MutantCount == FoldFunction(+, 0, rt)
Distinct == Cardinality(DOMAIN rt)
Match(offsets) == Distinct = offsets

\* get_trace: LIMIT 1 BY span_id, then LIMIT _MAX_SPANS.
Spans == {topic[o] : o \in DOMAIN rt} \ {0}
Reads == {rows \in SUBSET Spans :
            Cardinality(rows) = IF Cardinality(Spans) > MaxSpans THEN MaxSpans ELSE Cardinality(Spans)}

\* _build_tree: a span whose parent was not read stays, as a root.
MutantNoOrphans(rows) == {e \in rows : Parent[e] = 0}
Roots(rows) == {e \in rows : Parent[e] \notin rows}
Under(rows) ==
  LET level[n \in Nat] == IF n = 0 THEN Roots(rows)
                          ELSE {e \in rows : Parent[e] \in level[n - 1]} \cup level[n - 1]
  IN  level[Cardinality(rows)]

-----------------------------------------------------------------------------
Init == EmitterInit /\ HotInit
Consume == Poll \/ (\E v \in Views : InsertInto(v)) \/ Commit
Next ==
  \/ EmitterNext /\ UNCHANGED hotVars
  \/ UNCHANGED emitterVars /\ (\/ Poison \/ Bootstrap \/ Create \/ Drop \/ Killed
                               \/ Consume \/ FailBlock \/ Merge \/ Expire)
Spec == Init /\ [][Next]_vars

\* The consumer keeps running: ClickHouse polls for as long as a view is attached.
FairSpec == Spec /\ WF_vars(UNCHANGED emitterVars /\ Consume)

-----------------------------------------------------------------------------
TypeOK ==
  /\ EmitterTypeOK
  /\ topic \in Seq(0 .. MaxEvents) /\ Len(topic) <= MaxEvents + MaxPoison
  /\ objects \subseteq {Order[i] : i \in 1 .. Len(Order)}
  /\ offset \in 0 .. Len(topic)
  /\ block.to \in 0 .. Len(topic) /\ block.views \subseteq Views
  /\ DOMAIN rt \subseteq Offsets /\ DOMAIN dead \subseteq Offsets
  /\ Range(rt) \cup Range(dead) \subseteq 1 .. MaxFailures + 1
  /\ gone \subseteq Offsets /\ missed \subseteq Offsets

\* "Every message lands in exactly one of the two tables", through retries and a
\* bootstrap at any point: what is committed is in the table of its kind and not in
\* the other, unless its rows were dropped or its view was not there.
NothingBetween ==
  \A o \in 1 .. offset :
    /\ o \notin DOMAIN rt \cap DOMAIN dead
    /\ o \in gone \cup missed \cup (IF topic[o] = 0 THEN DOMAIN dead ELSE DOMAIN rt)

\* The statements' order: while some are still to come only a message that cannot be
\* parsed can be consumed without its view; a span never is.
SpansKept == \A o \in missed : topic[o] = 0

\* hot_path_verify.py counts says MATCH only if every message of the topic is a span in
\* the table, however many more arrive before it reads the offsets: no duplicate stands
\* in for a lost message.
MatchMeansComplete ==
  \A offsets \in Len(topic) .. MaxEvents + MaxPoison : Match(offsets) => DOMAIN rt = 1 .. offsets

\* get_trace shows every span it read, whichever ancestors have not arrived yet, have
\* expired or were cut off by the limit.
TraceWhole == \A rows \in Reads : Under(rows) = rows

\* A message the reader cannot parse does not hold up the ones behind it: if the views
\* stay, the consumer reaches the end of the topic.
Drains == <>[](Attached = Views) => <>[](offset = Len(topic))
=============================================================================
