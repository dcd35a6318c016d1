----------------------------- MODULE KafkaEmitter -----------------------------
(***************************************************************************)
(* The Kafka emitter of services/sdk/telemetry.py in one process: a lazily *)
(* resolved configuration, a producer that the first thread to need it     *)
(* builds under a lock, a bounded queue, delivery in the background, and a *)
(* flush at exit that waits only so long.                                  *)
(*                                                                         *)
(* An event is its number.  Whatever goes wrong is logged and swallowed by *)
(* _emit_event, so a lost event is all that is left of a failure.  Threads *)
(* switch between any two statements that touch shared state; the three    *)
(* assignments of configure_kafka are one step, since a thread that runs   *)
(* between them meets the old producer or none, as before or after it.     *)
(* librdkafka is external: a producer nobody refers to is destroyed with   *)
(* whatever its queue still holds.                                         *)
(***************************************************************************)
EXTENDS Integers, Sequences, FiniteSets

CONSTANTS
  Threads,     \* threads of the process that close spans
  QueueSize,   \* queue.buffering.max.messages
  MaxEvents,   \* bound: events emitted
  MaxConfigs   \* bound: calls of configure_kafka

ASSUME EmitterAssumption == QueueSize \in Nat /\ MaxEvents \in Nat /\ MaxConfigs \in Nat

VARIABLES
  config,     \* _kafka_config: the number of the call that set it, 0 for None
  runtime,    \* _kafka_runtime: a producer, 0 for None
  producers,  \* every producer built: its configuration and its queue
  thread,     \* per thread: where it is in _emit_event
  emitted,    \* events emitted so far
  topic,      \* traces.events.v1
  logged,     \* events whose loss the SDK logged
  purged,     \* events that went down with a producer
  exited      \* the process has exited

emitterVars == <<config, runtime, producers, thread, emitted, logged, purged, exited>>

-----------------------------------------------------------------------------
\* Variants named Mutant... are faulty versions of the definition after them.
Events == 1 .. MaxEvents
Producers == 1 .. Len(producers)
Idle == [pc |-> "idle", event |-> 0, config |-> 0, producer |-> 0]

EmitterInit ==
  /\ config = 0 /\ runtime = 0 /\ producers = <<>>
  /\ thread = [t \in Threads |-> Idle]
  /\ emitted = 0 /\ topic = <<>> /\ logged = {} /\ purged = {} /\ exited = FALSE

\* _emit_event: nothing is installed yet, so configure first, or straight to the emitter.
BeginEmit(t) ==
  /\ ~exited /\ thread[t].pc = "idle" /\ emitted < MaxEvents
  /\ emitted' = emitted + 1
  /\ thread' = [thread EXCEPT ![t].event = emitted + 1,
                              ![t].pc = IF config = 0 THEN "configure" ELSE "get"]
  /\ UNCHANGED <<config, runtime, producers, topic, logged, purged, exited>>

\* configure_kafka: the next emit has to build again.
Configured == config' = config + 1 /\ runtime' = 0

\* The lazy default.  Another thread may have configured, and built, in between.
ConfigureLazily(t) ==
  /\ thread[t].pc = "configure"
  /\ Configured
  /\ thread' = [thread EXCEPT ![t].pc = "get"]
  /\ UNCHANGED <<producers, emitted, topic, logged, purged, exited>>

ConfigureAgain ==
  /\ ~exited /\ config < MaxConfigs
  /\ Configured
  /\ UNCHANGED <<producers, thread, emitted, topic, logged, purged, exited>>

\* _get_kafka, before the lock, and what it has seen of _kafka_runtime there.
ReadConfig(t) ==
  /\ thread[t].pc = "get"
  /\ thread' = [thread EXCEPT ![t].pc = "lock", ![t].config = config]
  /\ UNCHANGED <<config, runtime, producers, emitted, topic, logged, purged, exited>>

\* _get_kafka, under the lock: use what is there, or build it, which fails when the
\* registry or the schema file cannot be reached; then the event is lost.
MutantEachTime(t) == TRUE
MustBuild(t) == runtime = 0
GetKafka(t) ==
  /\ thread[t].pc = "lock"
  /\ \/ /\ ~MustBuild(t)
        /\ thread' = [thread EXCEPT ![t].pc = "produce", ![t].producer = runtime]
        /\ UNCHANGED <<runtime, producers, logged>>
     \/ /\ MustBuild(t)
        /\ producers' = Append(producers, [config |-> thread[t].config, queue |-> <<>>])
        /\ runtime' = Len(producers) + 1
        /\ thread' = [thread EXCEPT ![t].pc = "produce", ![t].producer = Len(producers) + 1]
        /\ UNCHANGED logged
     \/ /\ MustBuild(t)
        /\ logged' = logged \cup {thread[t].event}
        /\ thread' = [thread EXCEPT ![t] = Idle]
        /\ UNCHANGED <<runtime, producers>>
  /\ UNCHANGED <<config, emitted, topic, purged, exited>>

\* warmup, as the servers call it: in a startup hook, before any request.
Warmup ==
  /\ config = 0 /\ emitted = 0 /\ ~exited
  /\ config' = 1
  /\ \/ producers' = <<[config |-> 1, queue |-> <<>>]>> /\ runtime' = 1
     \/ UNCHANGED <<producers, runtime>>
  /\ UNCHANGED <<thread, emitted, topic, logged, purged, exited>>

\* _kafka_emit: produce() raises BufferError on a full queue.
Produce(t) ==
  LET p == thread[t].producer
  IN  /\ thread[t].pc = "produce"
      /\ IF Len(producers[p].queue) < QueueSize
         THEN producers' = [producers EXCEPT ![p].queue = Append(@, thread[t].event)] /\ UNCHANGED logged
         ELSE logged' = logged \cup {thread[t].event} /\ UNCHANGED producers
      /\ thread' = [thread EXCEPT ![t] = Idle]
      /\ UNCHANGED <<config, runtime, emitted, topic, purged, exited>>

\* The producer's own thread: the oldest event reaches the topic, or its delivery
\* fails and _on_delivery says so.
Deliver(p) ==
  /\ ~exited /\ producers[p].queue # <<>>
  /\ producers' = [producers EXCEPT ![p].queue = Tail(@)]
  /\ \/ topic' = Append(topic, Head(producers[p].queue)) /\ UNCHANGED logged
     \/ logged' = logged \cup {Head(producers[p].queue)} /\ UNCHANGED topic
  /\ UNCHANGED <<config, runtime, thread, emitted, purged, exited>>

Queued(p) == {producers[p].queue[i] : i \in 1 .. Len(producers[p].queue)}

\* The last reference to a replaced producer goes.
Destroy(p) ==
  /\ p # runtime /\ producers[p].queue # <<>>
  /\ \A t \in Threads : ~(thread[t].pc = "produce" /\ thread[t].producer = p)
  /\ producers' = [producers EXCEPT ![p].queue = <<>>]
  /\ purged' = purged \cup Queued(p)
  /\ UNCHANGED <<config, runtime, thread, emitted, topic, logged, exited>>

\* _flush_at_exit: what the producer has not delivered in time is counted and logged.
MutantNoFlush == {}
Pending == IF runtime = 0 THEN {} ELSE Queued(runtime)
Exit ==
  /\ ~exited /\ \A t \in Threads : thread[t] = Idle
  /\ exited' = TRUE
  /\ logged' = logged \cup Pending
  /\ purged' = purged \cup UNION {Queued(p) : p \in Producers \ {runtime}}
  /\ producers' = [p \in Producers |-> [producers[p] EXCEPT !.queue = <<>>]]
  /\ UNCHANGED <<config, runtime, thread, emitted, topic>>

EmitterNext ==
  \/ \E t \in Threads : BeginEmit(t) \/ ConfigureLazily(t) \/ ReadConfig(t) \/ GetKafka(t) \/ Produce(t)
  \/ Warmup
  \/ ConfigureAgain
  \/ \E p \in Producers : Deliver(p) \/ Destroy(p)
  \/ Exit

-----------------------------------------------------------------------------
EmitterTypeOK ==
  /\ config \in 0 .. MaxConfigs + Cardinality(Threads)
  /\ runtime \in 0 .. Len(producers)
  /\ producers \in Seq([config : Nat, queue : Seq(Events)])
  /\ thread \in [Threads -> [pc : {"idle", "configure", "get", "lock", "produce"},
                             event : 0 .. MaxEvents, config : Nat, producer : 0 .. Len(producers)]]
  /\ emitted \in 0 .. MaxEvents
  /\ logged \subseteq Events /\ purged \subseteq Events
  /\ exited \in BOOLEAN

\* "Locked so two gateway worker threads cannot each build a Producer": however many
\* threads meet at the first emit, no more producers are built than configurations
\* were set, failed builds included.
OneProducer == Len(producers) <= config

\* Every event ends in the topic or in the log; only a producer that configure_kafka
\* replaced takes events with it that nobody reports.
Landed == {topic[i] : i \in 1 .. Len(topic)}
InHand == {thread[t].event : t \in Threads} \cup UNION {Queued(p) : p \in Producers}
AccountedFor ==
  /\ 1 .. emitted \subseteq Landed \cup logged \cup purged \cup InHand
  /\ exited => InHand \subseteq {0}
  /\ purged # {} => config > 1
=============================================================================
